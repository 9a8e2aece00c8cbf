----------------------- MODULE KeycloakRoleSyncProofs -----------------------
(***************************************************************************)
(* Proofs about KeycloakRoleSync, for every set of memberships, editors    *)
(* and workers that meets its assumptions.                                 *)
(***************************************************************************)
EXTENDS KeycloakRoleSync, TLAPS

\* An open transaction has a draft and a time of its own; the job named by that
\* time does not exist before the commit.
StampInv ==
  /\ \A e \in Editors : stage[e] # "idle" =>
       /\ draft[e].member \in Members /\ draft[e].role \in Roles
       /\ stamp[e] \in Stamps /\ stamp[e] <= clock
       /\ jobs[stamp[e]].status = "none"
  /\ \A e, f \in Editors :
       stage[e] # "idle" /\ stage[f] # "idle" /\ stamp[e] = stamp[f] => e = f
  /\ \A n \in Stamps : n > clock => jobs[n].status = "none"

\* A transaction that has written its membership holds the row of the user.
OwnerInv ==
  \A e \in Editors :
    stage[e] \in {"changed", "queued"} => userOwner[UserOfDraft(e)] = e

\* The codes a user has now, and will have after a queued change, resolve.
RolesInv ==
  /\ \A u \in Users : Resolved(RoleCodes(u, active, role))
  /\ \A e \in Editors : stage[e] = "queued" => Resolved(CodesSeen(e))

\* A job somebody works on is not ready.
JobInv ==
  /\ \A n \in Stamps : jobs[n].status # "none" => jobs[n].member \in Members
  /\ \A w \in Workers :
       /\ pc[w] = "idle" <=> job[w] = None
       /\ job[w] # None => jobs[job[w]].status \in {"processing", "superseded"}

IInv ==
  /\ TypeOK
  /\ StampInv
  /\ OwnerInv
  /\ RolesInv
  /\ JobInv
  /\ JobHasOneWorker

\* A user's role codes resolve exactly if there is at most one of them.
LEMMA ResolvedFact ==
  ASSUME NEW codes \in SUBSET Roles
  PROVE  Resolved(codes) <=> \A r, q \in codes : r = q
<1>1. CASE codes = {}
  BY <1>1 DEF Resolved
<1>2. CASE codes # {}
  <2>1. PICK r \in codes : r \in Roles
    BY <1>2
  <2>2. Baseline[r] \in Baselines
    BY <2>1 DEF Baselines
  <2>3. (\A x, q \in codes : x = q) => {Baseline[q] : q \in codes} = {Baseline[r]}
    BY <2>1
  <2>. QED
    BY <2>1, <2>2, <2>3, <1>2 DEF Resolved
<1>. QED
  BY <1>1, <1>2

\* Initially.
LEMMA InitIInv == Init => IInv
<1>. SUFFICES ASSUME Init PROVE IInv
  OBVIOUS
<1>. USE MembersAssumption DEF Init
<1>1. TypeOK
  <2>1. mapped \in [Users -> SUBSET Baselines]
    <3>. DEFINE roles(u) == {Baseline[r] : r \in RoleCodes(u, active, role)}
    <3>1. ASSUME NEW u \in Users PROVE roles(u) \subseteq Baselines
      <4>1. RoleCodes(u, active, role) \subseteq Roles
        BY DEF RoleCodes
      <4>. QED
        BY <4>1 DEF Baselines
    <3>2. mapped = [u \in Users |-> roles(u)]
      OBVIOUS
    <3>. HIDE DEF roles
    <3>. QED
      BY ONLY <3>1, <3>2
  <2>2. jobs \in [Stamps -> [status : Open \cup {"none", "succeeded", "superseded"},
                             member : Members \cup {None},
                             desired : Baselines \cup {None}]]
    BY DEF NoJob
  <2>3. draft \in [Editors -> [member : Members \cup {None}, role : Roles \cup {None},
                               active : BOOLEAN, new : BOOLEAN]]
    BY DEF NoDraft
  <2>4. clock \in 0 .. MaxChanges
    <3>1. clock = 0 /\ MaxChanges \in Nat
      OBVIOUS
    <3>. QED
      BY ONLY <3>1
  <2>5. /\ role \in [Members -> Roles \cup {None}]
        /\ active \subseteq {m \in Members : role[m] # None}
        /\ userOwner \in [Users -> Editors \cup {None}]
        /\ stage \in [Editors -> {"idle", "begun", "changed", "queued"}]
        /\ stamp \in [Editors -> Stamps \cup {0}]
        /\ target \in [Editors -> Baselines \cup {None}]
        /\ due \subseteq Stamps
    OBVIOUS
  <2>6. /\ pc \in [Workers -> {"idle", "lookup", "post", "delete", "done", "failed"}]
        /\ job \in [Workers -> Stamps \cup {None}]
        /\ current \in [Workers -> SUBSET Baselines]
    OBVIOUS
  <2>. QED
    BY ONLY <2>1, <2>2, <2>3, <2>4, <2>5, <2>6 DEF TypeOK
<1>2. StampInv /\ OwnerInv
  BY DEF StampInv, OwnerInv, NoJob
<1>3. RolesInv
  <2>1. ASSUME NEW u \in Users PROVE Resolved(RoleCodes(u, active, role))
    <3>1. \A r, q \in RoleCodes(u, active, role) : r = q
      BY DEF RoleCodes
    <3>2. RoleCodes(u, active, role) \subseteq Roles
      BY DEF RoleCodes
    <3>. QED
      BY <3>1, <3>2, ResolvedFact
  <2>. QED
    BY <2>1 DEF RolesInv
<1>4. JobInv /\ JobHasOneWorker
  BY DEF JobInv, JobHasOneWorker, NoJob
<1>. QED
  BY <1>1, <1>2, <1>3, <1>4 DEF IInv

-----------------------------------------------------------------------------
(* Changes of memberships. *)

\* A transaction begins.
LEMMA BeginIInv ==
  ASSUME IInv, NEW e \in Editors, NEW m \in Members, NEW r \in Roles,
         NEW on \in BOOLEAN, Begin(e, m, r, on)
  PROVE  IInv'
<1>. USE MembersAssumption DEF IInv, Begin, memberships, outbox, work
<1>1. clock + 1 \in Stamps /\ clock \in Int
  BY DEF TypeOK, Stamps
<1>2. TypeOK'
  BY <1>1 DEF TypeOK, Stamps
<1>3. StampInv'
  <2>1. jobs[clock + 1].status = "none"
    BY <1>1 DEF StampInv
  <2>2. ASSUME NEW f \in Editors, stage'[f] # "idle"
        PROVE  /\ draft'[f].member \in Members /\ draft'[f].role \in Roles
               /\ stamp'[f] \in Stamps /\ stamp'[f] <= clock'
               /\ jobs'[stamp'[f]].status = "none"
               /\ f # e => stamp'[f] <= clock
    BY <1>1, <2>1, <2>2 DEF TypeOK, StampInv, Stamps
  <2>3. ASSUME NEW f \in Editors, NEW g \in Editors, stage'[f] # "idle",
               stage'[g] # "idle", stamp'[f] = stamp'[g]
        PROVE  f = g
    <3>1. stamp'[e] = clock + 1
      BY DEF TypeOK
    <3>2. CASE f = e \/ g = e
      BY <1>1, <2>2, <2>3, <3>1, <3>2
    <3>3. CASE f # e /\ g # e
      BY <2>3, <3>3 DEF TypeOK, StampInv
    <3>. QED
      BY <3>2, <3>3
  <2>4. \A n \in Stamps : n > clock' => jobs'[n].status = "none"
    BY <1>1 DEF StampInv, Stamps
  <2>. QED
    BY <2>2, <2>3, <2>4 DEF StampInv
<1>4. OwnerInv' /\ RolesInv'
  BY DEF TypeOK, OwnerInv, RolesInv, UserOfDraft, CodesSeen
<1>5. JobInv' /\ JobHasOneWorker'
  BY DEF JobInv, JobHasOneWorker
<1>. QED
  BY <1>2, <1>3, <1>4, <1>5

\* A transaction takes the users row: no other transaction of this user has it.
LEMMA ChangeIInv ==
  ASSUME IInv, NEW e \in Editors, Change(e)
  PROVE  IInv'
<1>. USE MembersAssumption DEF IInv, Change, outbox, work
<1>1. TypeOK'
  BY DEF TypeOK
<1>2. StampInv'
  BY DEF TypeOK, StampInv
<1>3. OwnerInv'
  BY DEF TypeOK, OwnerInv, UserOfDraft, StampInv, Users
<1>4. RolesInv'
  BY DEF TypeOK, RolesInv, CodesSeen, UserOfDraft
<1>5. JobInv' /\ JobHasOneWorker'
  BY DEF JobInv, JobHasOneWorker
<1>. QED
  BY <1>1, <1>2, <1>3, <1>4, <1>5

\* A transaction has found out the role; its codes resolve.
LEMMA QueueIInv ==
  ASSUME IInv, NEW e \in Editors, Queue(e)
  PROVE  IInv'
<1>. USE MembersAssumption DEF IInv, Queue, memberships, outbox, work
<1>1. target' \in [Editors -> Baselines \cup {None}]
  <2>1. CodesSeen(e) = {} \/ \E b \in Baselines : \E r \in CodesSeen(e) : b = Baseline[r]
    <3>1. CASE CodesSeen(e) # {}
      <4>1. PICK b \in Baselines : {Baseline[r] : r \in CodesSeen(e)} = {b}
        BY <3>1 DEF Resolved
      <4>2. PICK r \in CodesSeen(e) : TRUE
        BY <3>1
      <4>. QED
        BY <4>1, <4>2
    <3>. QED
      BY <3>1
  <2>2. target'[e] \in Baselines \cup {None}
    BY <2>1 DEF TypeOK
  <2>. QED
    BY <2>2 DEF TypeOK
<1>2. TypeOK'
  BY <1>1 DEF TypeOK
<1>3. StampInv'
  BY DEF TypeOK, StampInv
<1>4. OwnerInv'
  BY DEF TypeOK, OwnerInv, UserOfDraft
<1>5. RolesInv'
  BY DEF TypeOK, RolesInv, CodesSeen, UserOfDraft
<1>6. JobInv' /\ JobHasOneWorker'
  BY DEF JobInv, JobHasOneWorker
<1>. QED
  BY <1>2, <1>3, <1>4, <1>5, <1>6

\* A transaction that rolls back.
LEMMA RollbackIInv ==
  ASSUME IInv, NEW e \in Editors, Rollback(e), stage[e] # "idle",
         UNCHANGED <<role, active, clock, outbox, work, mapped>>
  PROVE  IInv'
<1>. USE MembersAssumption DEF IInv, Rollback, outbox, work
<1>1. TypeOK'
  BY DEF TypeOK, NoDraft
<1>2. StampInv'
  BY DEF TypeOK, StampInv
<1>3. OwnerInv'
  <2>1. ASSUME NEW f \in Editors, stage'[f] \in {"changed", "queued"}
        PROVE  userOwner'[UserOfDraft(f)'] = f
    <3>1. f # e /\ stage[f] = stage'[f] /\ draft'[f] = draft[f]
      BY <2>1 DEF TypeOK
    <3>2. UserOf[draft[f].member] \in Users
      BY <2>1, <3>1 DEF StampInv, Users
    <3>. QED
      BY <2>1, <3>1, <3>2 DEF OwnerInv, UserOfDraft
  <2>. QED
    BY <2>1 DEF OwnerInv
<1>4. RolesInv'
  BY DEF TypeOK, RolesInv, CodesSeen, UserOfDraft
<1>5. JobInv' /\ JobHasOneWorker'
  BY DEF JobInv, JobHasOneWorker
<1>. QED
  BY <1>1, <1>2, <1>3, <1>4, <1>5

\* What a commit does to the codes of the users, and to what others will read.
LEMMA CommitCodes ==
  ASSUME IInv, NEW e \in Editors, Commit(e)
  PROVE  /\ \A u \in Users : RoleCodes(u, active', role') =
               IF u = UserOfDraft(e) THEN CodesSeen(e) ELSE RoleCodes(u, active, role)
         /\ \A f \in Editors : f # e /\ stage[f] \in {"changed", "queued"} =>
              /\ draft'[f] = draft[f]
              /\ UserOfDraft(f) # UserOfDraft(e)
              /\ CodesSeen(f)' = CodesSeen(f)
<1>. DEFINE m == draft[e].member
<1>1. m \in Members /\ userOwner[UserOfDraft(e)] = e
  BY DEF IInv, StampInv, OwnerInv, Commit
<1>2. /\ role' = [role EXCEPT ![m] = draft[e].role]
      /\ active' = IF draft[e].active THEN active \cup {m} ELSE active \ {m}
      /\ draft' = [draft EXCEPT ![e] = NoDraft]
  BY DEF Commit, Rollback
<1>3. role \in [Members -> Roles \cup {None}] /\ active \subseteq Members
  BY DEF IInv, TypeOK
<1>4. \A f \in Editors : f # e => draft'[f] = draft[f]
  BY <1>2 DEF IInv, TypeOK
<1>5. ASSUME NEW u \in Users
      PROVE  RoleCodes(u, active', role') =
               IF u = UserOfDraft(e) THEN CodesSeen(e) ELSE RoleCodes(u, active, role)
  <2>1. CASE u = UserOfDraft(e)
    BY <1>2, <2>1 DEF CodesSeen, RoleCodes
  <2>2. CASE u # UserOfDraft(e)
    <3>1. \A x \in Members : UserOf[x] = u => x # m
      BY <2>2 DEF UserOfDraft
    <3>2. {x \in active' : UserOf[x] = u} = {x \in active : UserOf[x] = u}
      BY <1>2, <1>3, <1>1, <3>1
    <3>3. \A x \in active : UserOf[x] = u => role'[x] = role[x]
      BY <1>2, <1>3, <3>1
    <3>. QED
      BY <2>2, <3>2, <3>3 DEF RoleCodes
  <2>. QED
    BY <2>1, <2>2
<1>6. ASSUME NEW f \in Editors, f # e, stage[f] \in {"changed", "queued"}
      PROVE  UserOfDraft(f) # UserOfDraft(e) /\ CodesSeen(f)' = CodesSeen(f)
  <2>. DEFINE k == draft[f].member
  <2>1. k \in Members /\ userOwner[UserOfDraft(f)] = f
    BY <1>6 DEF IInv, StampInv, OwnerInv
  <2>2. UserOfDraft(f) # UserOfDraft(e)
    BY <1>1, <1>6, <2>1
  <2>3. \A x \in Members : UserOf[x] = UserOf[k] => x # m
    BY <2>2 DEF UserOfDraft
  <2>. DEFINE in(a) == IF draft[f].active THEN a \cup {k} ELSE a \ {k}
              of(o) == [o EXCEPT ![k] = draft[f].role]
  <2>4. {x \in in(active') : UserOf[x] = UserOf[k]} = {x \in in(active) : UserOf[x] = UserOf[k]}
    BY <1>1, <1>2, <1>3, <2>1, <2>3
  <2>5. \A x \in in(active) : UserOf[x] = UserOf[k] => of(role')[x] = of(role)[x]
    BY <1>1, <1>2, <1>3, <2>1, <2>3
  <2>6. RoleCodes(UserOf[k], in(active'), of(role')) = RoleCodes(UserOf[k], in(active), of(role))
    BY <2>4, <2>5 DEF RoleCodes
  <2>7. CodesSeen(f) = RoleCodes(UserOf[k], in(active), of(role))
    BY DEF CodesSeen, UserOfDraft
  <2>8. CodesSeen(f)' = RoleCodes(UserOf[k], in(active'), of(role'))
    BY <1>4, <1>6 DEF CodesSeen, UserOfDraft
  <2>. QED
    BY <2>2, <2>6, <2>7, <2>8
<1>. QED
  BY <1>4, <1>5, <1>6

\* The commit of a change.
LEMMA CommitIInv ==
  ASSUME IInv, NEW e \in Editors, Commit(e)
  PROVE  IInv'
<1>. USE MembersAssumption
<1>. DEFINE m == draft[e].member
<1>1. /\ m \in Members /\ draft[e].role \in Roles
      /\ stamp[e] \in Stamps /\ stamp[e] <= clock /\ jobs[stamp[e]].status = "none"
  BY DEF IInv, StampInv, Commit
<1>2. TypeOK'
  <2>1. role' \in [Members -> Roles \cup {None}] /\ active' \subseteq {x \in Members : role'[x] # None}
    BY <1>1 DEF IInv, TypeOK, Commit
  <2>2. jobs' \in [Stamps -> [status : Open \cup {"none", "succeeded", "superseded"},
                              member : Members \cup {None},
                              desired : Baselines \cup {None}]]
    <3>1. Supersede(m) \in [Stamps -> [status : Open \cup {"none", "succeeded", "superseded"},
                                       member : Members \cup {None},
                                       desired : Baselines \cup {None}]]
      <4>. DEFINE Job == [status : Open \cup {"none", "succeeded", "superseded"},
                          member : Members \cup {None}, desired : Baselines \cup {None}]
      <4>1. ASSUME NEW n \in Stamps
            PROVE  jobs[n] \in Job /\ [jobs[n] EXCEPT !.status = "superseded"] \in Job
        <5>1. jobs[n] \in Job
          BY DEF IInv, TypeOK
        <5>. QED
          BY <5>1
      <4>. HIDE DEF Job
      <4>2. Supersede(m) \in [Stamps -> Job]
        BY <4>1 DEF Supersede
      <4>. QED
        BY <4>2 DEF Job
    <3>2. target[e] \in Baselines \cup {None}
      BY DEF IInv, TypeOK
    <3>3. [status |-> "pending", member |-> m, desired |-> target[e]] \in
            [status : Open \cup {"none", "succeeded", "superseded"},
             member : Members \cup {None}, desired : Baselines \cup {None}]
      BY <1>1, <3>2 DEF Open
    <3>. QED
      BY <3>1, <3>3 DEF Commit
  <2>3. /\ userOwner' \in [Users -> Editors \cup {None}]
        /\ stage' \in [Editors -> {"idle", "begun", "changed", "queued"}]
        /\ draft' \in [Editors -> [member : Members \cup {None}, role : Roles \cup {None},
                                    active : BOOLEAN, new : BOOLEAN]]
        /\ stamp' \in [Editors -> Stamps \cup {0}]
        /\ target' \in [Editors -> Baselines \cup {None}]
    BY DEF IInv, TypeOK, Commit, Rollback, NoDraft
  <2>4. /\ clock' \in 0 .. MaxChanges
        /\ due' \subseteq Stamps
        /\ pc' \in [Workers -> {"idle", "lookup", "post", "delete", "done", "failed"}]
        /\ job' \in [Workers -> Stamps \cup {None}]
        /\ current' \in [Workers -> SUBSET Baselines]
        /\ mapped' \in [Users -> SUBSET Baselines]
    BY DEF IInv, TypeOK, Commit, work
  <2>. QED
    BY ONLY <2>1, <2>2, <2>3, <2>4 DEF TypeOK
<1>3. \A f \in Editors : f # e =>
        stage'[f] = stage[f] /\ draft'[f] = draft[f] /\ stamp'[f] = stamp[f]
  BY DEF IInv, TypeOK, Commit, Rollback
<1>4. stage'[e] = "idle"
  BY DEF IInv, TypeOK, Commit, Rollback
<1>5. \A n \in Stamps : n # stamp[e] =>
        /\ jobs'[n].member = jobs[n].member
        /\ \/ jobs'[n].status = jobs[n].status
           \/ jobs[n].status \in Open /\ jobs'[n].status = "superseded"
  <2>1. jobs \in [Stamps -> [status : Open \cup {"none", "succeeded", "superseded"},
                             member : Members \cup {None},
                             desired : Baselines \cup {None}]]
    BY DEF IInv, TypeOK
  <2>2. ASSUME NEW n \in Stamps, n # stamp[e]
        PROVE  jobs'[n] = IF jobs[n].member = m /\ jobs[n].status \in Open
                            THEN [jobs[n] EXCEPT !.status = "superseded"] ELSE jobs[n]
    BY <2>2 DEF Commit, Supersede
  <2>3. ASSUME NEW n \in Stamps
        PROVE  /\ [jobs[n] EXCEPT !.status = "superseded"].member = jobs[n].member
               /\ [jobs[n] EXCEPT !.status = "superseded"].status = "superseded"
    BY <2>1
  <2>. QED
    BY <2>2, <2>3
<1>6. jobs'[stamp[e]].status = "pending" /\ jobs'[stamp[e]].member = m
  <2>1. jobs'[stamp[e]] = [status |-> "pending", member |-> m, desired |-> target[e]]
    BY <1>1 DEF Commit, Supersede
  <2>. QED
    BY <2>1
<1>7. StampInv'
  <2>1. \A n \in Stamps : n # stamp[e] /\ jobs[n].status = "none" => jobs'[n].status = "none"
    BY <1>5 DEF Open
  <2>2. ASSUME NEW f \in Editors, stage'[f] # "idle"
        PROVE  /\ f # e /\ stage[f] # "idle"
               /\ draft'[f].member \in Members /\ draft'[f].role \in Roles
               /\ stamp'[f] = stamp[f] /\ stamp[f] \in Stamps /\ stamp[f] <= clock
               /\ jobs'[stamp[f]].status = "none"
    <3>1. f # e /\ stage[f] # "idle" /\ stamp'[f] = stamp[f] /\ draft'[f] = draft[f]
      BY <1>3, <1>4, <2>2
    <3>2. stage[e] # "idle"
      BY DEF Commit
    <3>3. stamp[f] # stamp[e]
      BY <3>1, <3>2 DEF IInv, StampInv
    <3>4. /\ draft[f].member \in Members /\ draft[f].role \in Roles
          /\ stamp[f] \in Stamps /\ stamp[f] <= clock
          /\ jobs[stamp[f]].status = "none"
      BY <3>1 DEF IInv, StampInv
    <3>. QED
      BY <2>1, <3>1, <3>3, <3>4
  <2>3. \A f, g \in Editors :
          stage'[f] # "idle" /\ stage'[g] # "idle" /\ stamp'[f] = stamp'[g] => f = g
    BY <2>2 DEF IInv, StampInv
  <2>4. \A n \in Stamps : n > clock => jobs'[n].status = "none"
    <3>1. stamp[e] \in Int /\ clock \in Int
      BY <1>1 DEF Stamps, IInv, TypeOK
    <3>. QED
      BY <1>1, <2>1, <3>1 DEF IInv, StampInv, Stamps
  <2>5. clock' = clock
    BY DEF Commit
  <2>. QED
    BY <2>2, <2>3, <2>4, <2>5 DEF StampInv
<1>8. OwnerInv'
  <2>1. ASSUME NEW f \in Editors, stage'[f] \in {"changed", "queued"}
        PROVE  userOwner'[UserOfDraft(f)'] = f
    <3>1. f # e /\ stage[f] = stage'[f] /\ draft'[f] = draft[f]
      BY <1>3, <1>4, <2>1
    <3>2. UserOf[draft[f].member] \in Users
      BY <2>1, <3>1 DEF IInv, StampInv, Users
    <3>. QED
      BY <2>1, <3>1, <3>2 DEF IInv, OwnerInv, UserOfDraft, Commit, Rollback
  <2>. QED
    BY <2>1 DEF OwnerInv
<1>9. RolesInv'
  <2>1. Resolved(CodesSeen(e))
    BY DEF IInv, RolesInv, Commit
  <2>2. \A u \in Users : Resolved(RoleCodes(u, active', role'))
    BY <2>1, CommitCodes DEF IInv, RolesInv
  <2>3. ASSUME NEW f \in Editors, stage'[f] = "queued"
        PROVE  Resolved(CodesSeen(f)')
    <3>1. f # e /\ stage[f] = "queued"
      BY <1>3, <1>4, <2>3
    <3>. QED
      BY <3>1, CommitCodes DEF IInv, RolesInv
  <2>. QED
    BY <2>2, <2>3 DEF RolesInv, Resolved
<1>10. JobInv'
  <2>1. \A n \in Stamps : jobs'[n].status # "none" => jobs'[n].member \in Members
    BY <1>1, <1>5, <1>6 DEF IInv, JobInv, Open
  <2>2. ASSUME NEW w \in Workers, job[w] # None
        PROVE  jobs'[job[w]].status \in {"processing", "superseded"}
    <3>1. job[w] \in Stamps /\ jobs[job[w]].status \in {"processing", "superseded"}
      BY <2>2 DEF IInv, TypeOK, JobInv
    <3>. QED
      BY <1>1, <1>5, <3>1
  <2>3. pc' = pc /\ job' = job
    BY DEF Commit, work
  <2>. QED
    BY <2>1, <2>2, <2>3 DEF IInv, JobInv
<1>11. JobHasOneWorker'
  BY DEF IInv, JobHasOneWorker, Commit, work
<1>. QED
  BY <1>2, <1>7, <1>8, <1>9, <1>10, <1>11 DEF IInv

-----------------------------------------------------------------------------
(* The worker. *)

\* A step that makes no job, forgets none and gives none to another membership.
KeepsJobs ==
  \A n \in Stamps : /\ jobs'[n].status = "none" <=> jobs[n].status = "none"
                    /\ jobs'[n].member = jobs[n].member

\* A step that leaves the memberships and their transactions alone keeps what is
\* said of them, if it keeps the jobs.
LEMMA WorkerKeeps ==
  ASSUME IInv, UNCHANGED <<memberships, edits>>, KeepsJobs
  PROVE  /\ StampInv' /\ OwnerInv' /\ RolesInv'
         /\ \A n \in Stamps : jobs'[n].status # "none" => jobs'[n].member \in Members
<1>1. StampInv'
  BY DEF IInv, StampInv, edits, KeepsJobs
<1>2. OwnerInv'
  BY DEF IInv, OwnerInv, UserOfDraft, memberships, edits
<1>3. RolesInv'
  BY DEF IInv, RolesInv, CodesSeen, UserOfDraft, memberships, edits
<1>. QED
  BY <1>1, <1>2, <1>3 DEF IInv, JobInv, KeepsJobs

\* Such a step keeps the types if it keeps those of what it does change.
LEMMA WorkerTypes ==
  ASSUME IInv, UNCHANGED <<memberships, edits>>,
         jobs' \in [Stamps -> [status : Open \cup {"none", "succeeded", "superseded"},
                              member : Members \cup {None},
                              desired : Baselines \cup {None}]],
         due' \subseteq Stamps,
         pc' \in [Workers -> {"idle", "lookup", "post", "delete", "done", "failed"}],
         job' \in [Workers -> Stamps \cup {None}],
         current' \in [Workers -> SUBSET Baselines],
         mapped' \in [Users -> SUBSET Baselines]
  PROVE  TypeOK'
<1>1. /\ role \in [Members -> Roles \cup {None}]
      /\ active \subseteq {m \in Members : role[m] # None}
      /\ userOwner \in [Users -> Editors \cup {None}]
      /\ stage \in [Editors -> {"idle", "begun", "changed", "queued"}]
      /\ draft \in [Editors -> [member : Members \cup {None}, role : Roles \cup {None},
                                active : BOOLEAN, new : BOOLEAN]]
      /\ stamp \in [Editors -> Stamps \cup {0}]
      /\ target \in [Editors -> Baselines \cup {None}]
      /\ clock \in 0 .. MaxChanges
  BY DEF IInv, TypeOK
<1>2. /\ role' = role /\ active' = active /\ userOwner' = userOwner /\ stage' = stage
      /\ draft' = draft /\ stamp' = stamp /\ target' = target /\ clock' = clock
  BY DEF memberships, edits
<1>. HIDE DEF Open
<1>. QED
  BY <1>1, <1>2 DEF TypeOK

\* What a change of a job's status does.
LEMMA SetStatusFacts ==
  ASSUME IInv, NEW n \in Stamps, jobs[n].status # "none",
         NEW s \in {"processing", "succeeded", "failed"}, SetStatus(n, s)
  PROVE  /\ jobs' \in [Stamps -> [status : Open \cup {"none", "succeeded", "superseded"},
                                  member : Members \cup {None},
                                  desired : Baselines \cup {None}]]
         /\ jobs'[n].status = s
         /\ \A k \in Stamps : k # n => jobs'[k] = jobs[k]
         /\ KeepsJobs
<1>. DEFINE Job == [status : Open \cup {"none", "succeeded", "superseded"},
                    member : Members \cup {None}, desired : Baselines \cup {None}]
<1>1. jobs \in [Stamps -> Job]
  BY DEF IInv, TypeOK
<1>2. jobs' = [jobs EXCEPT ![n] = [jobs[n] EXCEPT !.status = s]]
  BY <1>1 DEF SetStatus
<1>3. jobs[n] \in Job
  BY <1>1
<1>4. /\ [jobs[n] EXCEPT !.status = s] \in Job
      /\ [jobs[n] EXCEPT !.status = s].status = s
      /\ [jobs[n] EXCEPT !.status = s].member = jobs[n].member
  BY <1>3 DEF Open
<1>. HIDE DEF Job
<1>5. /\ jobs' \in [Stamps -> Job]
      /\ jobs'[n] = [jobs[n] EXCEPT !.status = s]
      /\ \A k \in Stamps : k # n => jobs'[k] = jobs[k]
  BY ONLY <1>1, <1>2, <1>4
<1>. QED
  BY <1>4, <1>5 DEF Job, KeepsJobs

\* A worker takes a job.
LEMMA ClaimIInv ==
  ASSUME IInv, NEW w \in Workers, Claim(w)
  PROVE  IInv'
<1>. USE MembersAssumption
<1>1. PICK n \in Stamps :
        /\ pc[w] = "idle" /\ Ready(n)
        /\ SetStatus(n, "processing")
        /\ due' = due \ {n}
        /\ pc' = [pc EXCEPT ![w] = "lookup"]
        /\ job' = [job EXCEPT ![w] = n]
        /\ UNCHANGED <<memberships, edits, current, mapped>>
  BY DEF Claim
<1>2. jobs[n].status \in {"pending", "failed"}
  BY <1>1 DEF Ready
<1>3. /\ jobs' \in [Stamps -> [status : Open \cup {"none", "succeeded", "superseded"},
                               member : Members \cup {None},
                               desired : Baselines \cup {None}]]
      /\ jobs'[n].status = "processing"
      /\ \A k \in Stamps : k # n => jobs'[k] = jobs[k]
      /\ KeepsJobs
  BY <1>1, <1>2, SetStatusFacts
<1>4. TypeOK'
  <2>1. /\ due' \subseteq Stamps
        /\ pc' \in [Workers -> {"idle", "lookup", "post", "delete", "done", "failed"}]
        /\ job' \in [Workers -> Stamps \cup {None}]
        /\ current' \in [Workers -> SUBSET Baselines]
        /\ mapped' \in [Users -> SUBSET Baselines]
    BY <1>1 DEF IInv, TypeOK
  <2>. QED
    BY <1>1, <1>3, <2>1, WorkerTypes
<1>5. /\ StampInv' /\ OwnerInv' /\ RolesInv'
      /\ \A k \in Stamps : jobs'[k].status # "none" => jobs'[k].member \in Members
  <2>1. UNCHANGED <<memberships, edits>>
    BY <1>1
  <2>. QED
    BY <1>3, <2>1, WorkerKeeps
<1>6. job \in [Workers -> Stamps \cup {None}] /\ pc \in [Workers -> {"idle", "lookup", "post", "delete", "done", "failed"}]
  BY DEF IInv, TypeOK
<1>7. \A v \in Workers : job[v] # n
  BY <1>2, <1>6 DEF IInv, JobInv
<1>8. ASSUME NEW v \in Workers
      PROVE  /\ pc'[v] = "idle" <=> job'[v] = None
             /\ job'[v] # None => jobs'[job'[v]].status \in {"processing", "superseded"}
  <2>1. CASE v = w
    BY <1>1, <1>3, <1>6, <2>1
  <2>2. CASE v # w
    <3>1. pc'[v] = pc[v] /\ job'[v] = job[v]
      BY <1>1, <1>6, <2>2
    <3>. QED
      BY <1>3, <1>6, <1>7, <3>1 DEF IInv, JobInv
  <2>. QED
    BY <2>1, <2>2
<1>9. JobHasOneWorker'
  BY <1>1, <1>6, <1>7 DEF IInv, JobHasOneWorker
<1>. QED
  BY <1>4, <1>5, <1>8, <1>9 DEF IInv, JobInv

\* A worker's requests to Keycloak touch neither the memberships nor the jobs.
LEMMA RequestIInv ==
  ASSUME IInv, NEW w \in Workers, Lookup(w) \/ Post(w) \/ Delete(w) \/ RequestFails(w)
  PROVE  IInv'
<1>. USE MembersAssumption
<1>1. /\ UNCHANGED <<memberships, edits, outbox, job>>
      /\ pc[w] # "idle"
      /\ \E where \in {"post", "delete", "done", "failed"} : pc' = [pc EXCEPT ![w] = where]
  BY DEF Lookup, Post, Delete, RequestFails, Continue
<1>2. mapped' \in [Users -> SUBSET Baselines] /\ current' \in [Workers -> SUBSET Baselines]
  <2>1. job[w] \in Stamps /\ jobs[job[w]].status # "none"
    BY <1>1 DEF IInv, TypeOK, JobInv
  <2>2. User(w) \in Users /\ Desired(w) \in Baselines \cup {None}
    BY <2>1 DEF IInv, TypeOK, JobInv, User, Users, Desired
  <2>3. mapped \in [Users -> SUBSET Baselines] /\ current \in [Workers -> SUBSET Baselines]
    BY DEF IInv, TypeOK
  <2>4. Missing(w, current[w]) \subseteq Baselines
    BY <2>2 DEF Missing
  <2>5. current' \in [Workers -> SUBSET Baselines]
    BY <2>2, <2>3 DEF Lookup, Post, Delete, RequestFails
  <2>6. \/ mapped' = mapped
        \/ mapped' = [mapped EXCEPT ![User(w)] = @ \cup Missing(w, current[w])]
        \/ mapped' = [mapped EXCEPT ![User(w)] = @ \ Obsolete(w, current[w])]
    BY DEF Lookup, Post, Delete, RequestFails
  <2>. QED
    BY <2>2, <2>3, <2>4, <2>5, <2>6
<1>3. TypeOK'
  <2>1. /\ jobs' = jobs /\ due' = due /\ job' = job
        /\ pc' \in [Workers -> {"idle", "lookup", "post", "delete", "done", "failed"}]
    BY <1>1 DEF IInv, TypeOK, outbox
  <2>2. /\ due \subseteq Stamps /\ job \in [Workers -> Stamps \cup {None}]
        /\ jobs \in [Stamps -> [status : Open \cup {"none", "succeeded", "superseded"},
                                member : Members \cup {None},
                                desired : Baselines \cup {None}]]
    BY DEF IInv, TypeOK
  <2>. QED
    BY <1>1, <1>2, <2>1, <2>2, WorkerTypes
<1>4. StampInv' /\ OwnerInv' /\ RolesInv'
  <2>1. UNCHANGED <<memberships, edits>> /\ KeepsJobs
    BY <1>1 DEF outbox, KeepsJobs
  <2>. QED
    BY <2>1, WorkerKeeps
<1>5. JobInv'
  BY <1>1 DEF IInv, TypeOK, JobInv, outbox
<1>6. JobHasOneWorker'
  BY <1>1 DEF IInv, JobHasOneWorker
<1>. QED
  BY <1>3, <1>4, <1>5, <1>6 DEF IInv

\* A worker puts its job down, with or without a final status.
LEMMA RestIInv ==
  ASSUME IInv, NEW w \in Workers, pc[w] # "idle", Rest(w), due' \subseteq due,
         \/ UNCHANGED jobs
         \/ SetStatus(job[w], "succeeded")
         \/ SetStatus(job[w], "failed")
  PROVE  IInv'
<1>. USE MembersAssumption
<1>1. /\ pc' = [pc EXCEPT ![w] = "idle"] /\ job' = [job EXCEPT ![w] = None]
      /\ current' = [current EXCEPT ![w] = {}]
      /\ UNCHANGED <<memberships, edits, mapped>>
  BY DEF Rest
<1>2. /\ job \in [Workers -> Stamps \cup {None}]
      /\ pc \in [Workers -> {"idle", "lookup", "post", "delete", "done", "failed"}]
      /\ jobs \in [Stamps -> [status : Open \cup {"none", "succeeded", "superseded"},
                              member : Members \cup {None},
                              desired : Baselines \cup {None}]]
  BY DEF IInv, TypeOK
<1>3. job[w] \in Stamps /\ jobs[job[w]].status # "none"
  <2>1. JobInv
    BY DEF IInv
  <2>2. job[w] # None /\ jobs[job[w]].status \in {"processing", "superseded"}
    BY <2>1 DEF JobInv
  <2>. QED
    BY <1>2, <2>2
<1>4. /\ jobs' \in [Stamps -> [status : Open \cup {"none", "succeeded", "superseded"},
                               member : Members \cup {None},
                               desired : Baselines \cup {None}]]
      /\ \A k \in Stamps : k # job[w] => jobs'[k] = jobs[k]
      /\ KeepsJobs
  <2>1. CASE UNCHANGED jobs
    BY <1>2, <2>1 DEF KeepsJobs
  <2>2. CASE SetStatus(job[w], "succeeded")
    BY <1>3, <2>2, SetStatusFacts
  <2>3. CASE SetStatus(job[w], "failed")
    BY <1>3, <2>3, SetStatusFacts
  <2>. QED
    BY <2>1, <2>2, <2>3
<1>5. TypeOK'
  <2>1. /\ due' \subseteq Stamps
        /\ pc' \in [Workers -> {"idle", "lookup", "post", "delete", "done", "failed"}]
        /\ job' \in [Workers -> Stamps \cup {None}]
        /\ current' \in [Workers -> SUBSET Baselines]
        /\ mapped' \in [Users -> SUBSET Baselines]
    BY <1>1 DEF IInv, TypeOK
  <2>. QED
    BY <1>1, <1>4, <2>1, WorkerTypes
<1>6. /\ StampInv' /\ OwnerInv' /\ RolesInv'
      /\ \A k \in Stamps : jobs'[k].status # "none" => jobs'[k].member \in Members
  <2>1. UNCHANGED <<memberships, edits>>
    BY <1>1
  <2>. QED
    BY <1>4, <2>1, WorkerKeeps
<1>7. ASSUME NEW v \in Workers
      PROVE  /\ pc'[v] = "idle" <=> job'[v] = None
             /\ job'[v] # None => jobs'[job'[v]].status \in {"processing", "superseded"}
  <2>1. CASE v = w
    BY <1>1, <1>2, <2>1
  <2>2. CASE v # w
    <3>1. pc'[v] = pc[v] /\ job'[v] = job[v]
      BY <1>1, <1>2, <2>2
    <3>2. job[v] # job[w]
      BY <1>3, <2>2 DEF IInv, JobHasOneWorker
    <3>. QED
      BY <1>2, <1>4, <3>1, <3>2 DEF IInv, JobInv
  <2>. QED
    BY <2>1, <2>2
<1>8. JobHasOneWorker'
  BY <1>1, <1>2 DEF IInv, JobHasOneWorker
<1>. QED
  BY <1>5, <1>6, <1>7, <1>8 DEF IInv, JobInv

\* A failed job becomes ready.
LEMMA DueIInv ==
  ASSUME IInv, NEW n \in Stamps, Due(n)
  PROVE  IInv'
<1>. USE MembersAssumption
<1>1. UNCHANGED <<memberships, edits, jobs, work, mapped>> /\ due' \subseteq Stamps
  BY DEF Due, IInv, TypeOK
<1>2. TypeOK'
  <2>1. /\ jobs' = jobs /\ pc' = pc /\ job' = job /\ current' = current /\ mapped' = mapped
        /\ UNCHANGED <<memberships, edits>>
    BY <1>1 DEF work
  <2>2. /\ jobs \in [Stamps -> [status : Open \cup {"none", "succeeded", "superseded"},
                                member : Members \cup {None},
                                desired : Baselines \cup {None}]]
        /\ pc \in [Workers -> {"idle", "lookup", "post", "delete", "done", "failed"}]
        /\ job \in [Workers -> Stamps \cup {None}]
        /\ current \in [Workers -> SUBSET Baselines]
        /\ mapped \in [Users -> SUBSET Baselines]
    BY DEF IInv, TypeOK
  <2>. QED
    BY <1>1, <2>1, <2>2, WorkerTypes
<1>3. StampInv' /\ OwnerInv' /\ RolesInv'
  <2>1. UNCHANGED <<memberships, edits>> /\ KeepsJobs
    BY <1>1 DEF KeepsJobs
  <2>. QED
    BY <2>1, WorkerKeeps
<1>4. JobInv' /\ JobHasOneWorker'
  BY <1>1 DEF IInv, JobInv, JobHasOneWorker, work
<1>. QED
  BY <1>2, <1>3, <1>4 DEF IInv

\* No action of the system breaks the invariant.
LEMMA NextIInv == IInv /\ [Next]_vars => IInv'
<1>. SUFFICES ASSUME IInv, [Next]_vars PROVE IInv'
  OBVIOUS
<1>1. CASE \E e \in Editors, m \in Members, r \in Roles, on \in BOOLEAN : Begin(e, m, r, on)
  BY <1>1, BeginIInv
<1>2. ASSUME NEW e \in Editors, Edit(e) \/ Abort(e) PROVE IInv'
  <2>1. CASE Change(e)
    BY <2>1, ChangeIInv
  <2>2. CASE Queue(e)
    BY <2>2, QueueIInv
  <2>3. CASE Commit(e)
    BY <2>3, CommitIInv
  <2>4. CASE Reject(e) \/ Abort(e)
    <3>1. stage[e] # "idle" /\ Rollback(e) /\ UNCHANGED <<role, active, clock, outbox, work, mapped>>
      BY <2>4 DEF Reject, Abort
    <3>. QED
      BY <3>1, RollbackIInv
  <2>. QED
    BY <1>2, <2>1, <2>2, <2>3, <2>4 DEF Edit
<1>3. CASE \E w \in Workers : Claim(w)
  BY <1>3, ClaimIInv
<1>4. CASE \E w \in Workers : Lookup(w) \/ Post(w) \/ Delete(w) \/ RequestFails(w)
  BY <1>4, RequestIInv
<1>5. ASSUME NEW w \in Workers, Succeed(w) \/ Fail(w) \/ Crash(w) PROVE IInv'
  <2>1. /\ pc[w] # "idle" /\ Rest(w) /\ due' \subseteq due
        /\ \/ UNCHANGED jobs
           \/ SetStatus(job[w], "succeeded")
           \/ SetStatus(job[w], "failed")
    BY <1>5 DEF Succeed, Fail, Crash, outbox
  <2>. QED
    BY <2>1, RestIInv
<1>6. CASE \E n \in Stamps : Due(n)
  BY <1>6, DueIInv
<1>7. CASE UNCHANGED vars
  BY <1>7 DEF vars, memberships, edits, outbox, work, IInv, TypeOK, StampInv, OwnerInv,
    RolesInv, JobInv, JobHasOneWorker, UserOfDraft, CodesSeen
<1>. QED
  BY <1>1, <1>2, <1>3, <1>4, <1>5, <1>6, <1>7 DEF Next

\* The inductive invariant holds in every state of every behaviour.
THEOREM RoleSyncInvariant == Spec => []IInv
<1>. QED
  BY InitIInv, NextIInv, PTL DEF Spec

\* TypeOK: every variable of the memberships, the outbox and the worker keeps its
\* type.
THEOREM RoleSyncTypes == Spec => []TypeOK
<1>1. IInv => TypeOK
  BY DEF IInv
<1>. QED
  BY <1>1, RoleSyncInvariant, PTL

\* JobHasOneWorker: however many workers run, and however often a job is put back
\* while it is worked on, `for update skip locked` and the status give it to one
\* worker at a time.
THEOREM JobsAreNotShared == Spec => []JobHasOneWorker
<1>1. IInv => JobHasOneWorker
  BY DEF IInv
<1>. QED
  BY <1>1, RoleSyncInvariant, PTL

\* OneBaselinePerUser: changes of several memberships of one user, made at the
\* same time by any number of requests, never leave the user with active
\* memberships of two baseline roles, because the trigger on memberships makes
\* the transactions of one user wait for each other.
THEOREM ChangesResolve == Spec => []OneBaselinePerUser
<1>1. IInv => OneBaselinePerUser
  <2>. SUFFICES ASSUME IInv, NEW u \in Users PROVE \A b, c \in UserRoles(u) : b = c
    BY DEF OneBaselinePerUser
  <2>1. RoleCodes(u, active, role) \subseteq Roles
    BY MembersAssumption DEF IInv, TypeOK, RoleCodes
  <2>2. \A r, q \in RoleCodes(u, active, role) : r = q
    BY <2>1, ResolvedFact DEF IInv, RolesInv
  <2>. QED
    BY <2>2 DEF UserRoles
<1>. QED
  BY <1>1, RoleSyncInvariant, PTL

-----------------------------------------------------------------------------
(* One worker. *)

OneWorker == \A w, v \in Workers : w = v

Role(w) == {Desired(w)} \ {None}

\* Where the only worker is with its job, given what it read and what is mapped.
WorkInv ==
  \A w \in Workers :
    /\ pc[w] = "post" => mapped[User(w)] = current[w]
    /\ pc[w] = "delete" => mapped[User(w)] = current[w] \cup Role(w)
    /\ pc[w] = "done" => mapped[User(w)] = Role(w)

\* What a worker that has a job knows of it.
LEMMA WorkFacts ==
  ASSUME IInv, NEW w \in Workers, pc[w] # "idle"
  PROVE  /\ job[w] \in Stamps /\ jobs[job[w]].status # "none"
         /\ User(w) \in Users
         /\ mapped[User(w)] \subseteq Baselines /\ None \notin mapped[User(w)]
         /\ current[w] \subseteq Baselines /\ None \notin current[w]
<1>1. job[w] \in Stamps /\ jobs[job[w]].status # "none"
  BY DEF IInv, TypeOK, JobInv
<1>2. User(w) \in Users
  BY <1>1 DEF IInv, JobInv, User, Users
<1>. QED
  BY <1>1, <1>2, MembersAssumption DEF IInv, TypeOK

\* A step that neither works on a job nor touches Keycloak keeps WorkInv.
LEMMA IdleWorkInv ==
  ASSUME IInv, WorkInv, mapped' = mapped,
         \A n \in Stamps : jobs[n].status # "none" =>
           jobs'[n].member = jobs[n].member /\ jobs'[n].desired = jobs[n].desired,
         \A w \in Workers : pc'[w] \notin {"idle", "lookup", "failed"} =>
           pc'[w] = pc[w] /\ job'[w] = job[w] /\ current'[w] = current[w]
  PROVE  WorkInv'
<1>. SUFFICES ASSUME NEW w \in Workers, pc'[w] \in {"post", "delete", "done"}
              PROVE  /\ pc'[w] = "post" => mapped'[User(w)'] = current'[w]
                     /\ pc'[w] = "delete" => mapped'[User(w)'] = current'[w] \cup Role(w)'
                     /\ pc'[w] = "done" => mapped'[User(w)'] = Role(w)'
  BY DEF WorkInv
<1>1. /\ pc'[w] = pc[w] /\ job'[w] = job[w] /\ current'[w] = current[w]
      /\ pc[w] # "idle"
  OBVIOUS
<1>2. job[w] \in Stamps /\ jobs[job[w]].status # "none"
  BY <1>1, WorkFacts
<1>3. User(w)' = User(w) /\ Role(w)' = Role(w)
  BY <1>1, <1>2 DEF User, Role, Desired
<1>. QED
  BY <1>1, <1>3 DEF WorkInv

\* What a request does to the roles of the worker's user, and where it leads.
LEMMA RequestWorkInv ==
  ASSUME OneWorker, IInv, WorkInv, NEW w \in Workers,
         Lookup(w) \/ Post(w) \/ Delete(w) \/ RequestFails(w)
  PROVE  /\ WorkInv'
         /\ \/ mapped' = mapped
            \/ Desired(w) # None /\ mapped[User(w)] # {} => mapped'[User(w)] # {}
<1>1. /\ User(w)' = User(w) /\ Desired(w)' = Desired(w) /\ Role(w)' = Role(w)
      /\ pc[w] # "idle"
  BY DEF Lookup, Post, Delete, RequestFails, Continue, outbox, User, Desired, Role
<1>2. /\ User(w) \in Users
      /\ mapped[User(w)] \subseteq Baselines /\ None \notin mapped[User(w)]
      /\ current[w] \subseteq Baselines /\ None \notin current[w]
  BY <1>1, WorkFacts
<1>3. mapped \in [Users -> SUBSET Baselines] /\ current \in [Workers -> SUBSET Baselines]
      /\ pc \in [Workers -> {"idle", "lookup", "post", "delete", "done", "failed"}]
  BY DEF IInv, TypeOK
<1>4. /\ pc[w] = "post" => mapped[User(w)] = current[w]
      /\ pc[w] = "delete" => mapped[User(w)] = current[w] \cup Role(w)
  BY DEF WorkInv
<1>5. SUFFICES
        /\ pc'[w] = "post" => mapped'[User(w)] = current'[w]
        /\ pc'[w] = "delete" => mapped'[User(w)] = current'[w] \cup Role(w)
        /\ pc'[w] = "done" => mapped'[User(w)] = Role(w)
        /\ \/ mapped' = mapped
           \/ Desired(w) # None /\ mapped[User(w)] # {} => mapped'[User(w)] # {}
  <2>1. \A v \in Workers : v = w
    BY DEF OneWorker
  <2>. QED
    BY <1>1, <2>1 DEF WorkInv
<1>6. CASE Lookup(w)
  <2>1. /\ mapped' = mapped /\ current'[w] = mapped[User(w)]
        /\ pc'[w] = IF Missing(w, mapped[User(w)]) # {} THEN "post"
                    ELSE IF Obsolete(w, mapped[User(w)]) # {} THEN "delete" ELSE "done"
    BY <1>3, <1>6 DEF Lookup, Continue
  <2>2. CASE Missing(w, mapped[User(w)]) # {}
    BY <2>1, <2>2
  <2>3. CASE Missing(w, mapped[User(w)]) = {}
    <3>1. Role(w) \subseteq mapped[User(w)]
      BY <2>3 DEF Missing, Role
    <3>2. Obsolete(w, mapped[User(w)]) = {} => mapped[User(w)] = Role(w)
      BY <1>2, <3>1 DEF Obsolete, Role
    <3>. QED
      BY <2>1, <2>3, <3>1, <3>2
  <2>. QED
    BY <2>2, <2>3
<1>7. CASE Post(w)
  <2>1. /\ mapped'[User(w)] = mapped[User(w)] \cup Missing(w, current[w])
        /\ current' = current
        /\ pc'[w] = IF Obsolete(w, current[w]) # {} THEN "delete" ELSE "done"
    BY <1>2, <1>3, <1>7 DEF Post, Continue
  <2>2. mapped'[User(w)] = current[w] \cup Role(w)
    BY <1>4, <1>7, <2>1 DEF Post, Missing, Role
  <2>3. Obsolete(w, current[w]) = {} => mapped'[User(w)] = Role(w)
    BY <1>2, <2>2 DEF Obsolete, Role
  <2>. QED
    BY <2>1, <2>2, <2>3
<1>8. CASE Delete(w)
  <2>1. /\ mapped'[User(w)] = mapped[User(w)] \ Obsolete(w, current[w])
        /\ pc'[w] = "done"
    BY <1>2, <1>3, <1>8 DEF Delete, Continue
  <2>2. mapped'[User(w)] = Role(w)
    BY <1>2, <1>4, <1>8, <2>1 DEF Delete, Obsolete, Role
  <2>3. Desired(w) # None => mapped'[User(w)] # {}
    BY <2>2 DEF Role
  <2>. QED
    BY <2>1, <2>2, <2>3
<1>9. CASE RequestFails(w)
  <2>1. pc'[w] = "failed"
    BY <1>3, <1>9 DEF RequestFails, Continue
  <2>2. CASE UNCHANGED mapped
    BY <2>1, <2>2
  <2>3. CASE mapped' = [mapped EXCEPT ![User(w)] = @ \cup Missing(w, current[w])]
    BY <1>2, <1>3, <2>1, <2>3
  <2>4. CASE /\ pc[w] = "delete"
             /\ mapped' = [mapped EXCEPT ![User(w)] = @ \ Obsolete(w, current[w])]
    <3>1. mapped'[User(w)] = mapped[User(w)] \ Obsolete(w, current[w])
      BY <1>2, <1>3, <2>4
    <3>2. Desired(w) # None => Desired(w) \in mapped'[User(w)]
      BY <1>4, <2>4, <3>1 DEF Obsolete, Role
    <3>. QED
      BY <2>1, <3>2
  <2>. QED
    BY <1>9, <2>2, <2>3, <2>4 DEF RequestFails
<1>. QED
  BY <1>6, <1>7, <1>8, <1>9

\* A job keeps its membership and the role it asks for.
LEMMA JobsAreFixed ==
  ASSUME IInv, [Next]_vars, NEW n \in Stamps, jobs[n].status # "none"
  PROVE  jobs'[n].member = jobs[n].member /\ jobs'[n].desired = jobs[n].desired
<1>1. jobs \in [Stamps -> [status : Open \cup {"none", "succeeded", "superseded"},
                           member : Members \cup {None},
                           desired : Baselines \cup {None}]]
  BY DEF IInv, TypeOK
<1>2. ASSUME NEW k, NEW s, SetStatus(k, s)
      PROVE  jobs'[n].member = jobs[n].member /\ jobs'[n].desired = jobs[n].desired
  <2>1. jobs'[n] = IF k = n THEN [jobs[n] EXCEPT !.status = s] ELSE jobs[n]
    BY <1>1, <1>2 DEF SetStatus
  <2>2. jobs[n] \in [status : Open \cup {"none", "succeeded", "superseded"},
                     member : Members \cup {None}, desired : Baselines \cup {None}]
    BY <1>1
  <2>3. /\ [jobs[n] EXCEPT !.status = s].member = jobs[n].member
        /\ [jobs[n] EXCEPT !.status = s].desired = jobs[n].desired
    BY <2>2
  <2>. QED
    BY <2>1, <2>3
<1>3. CASE \E e \in Editors : Commit(e)
  <2>1. PICK e \in Editors : Commit(e)
    BY <1>3
  <2>2. n # stamp[e]
    BY <2>1 DEF IInv, StampInv, Commit
  <2>3. jobs'[n] = jobs[n] \/ jobs'[n] = [jobs[n] EXCEPT !.status = "superseded"]
    <3>1. jobs' = [Supersede(draft[e].member) EXCEPT ![stamp[e]] =
                     [status |-> "pending", member |-> draft[e].member, desired |-> target[e]]]
      BY <2>1 DEF Commit
    <3>2. jobs'[n] = Supersede(draft[e].member)[n]
      BY <2>2, <3>1 DEF Supersede
    <3>. QED
      BY <3>2 DEF Supersede
  <2>4. jobs[n] \in [status : Open \cup {"none", "succeeded", "superseded"},
                     member : Members \cup {None}, desired : Baselines \cup {None}]
    BY <1>1
  <2>5. /\ [jobs[n] EXCEPT !.status = "superseded"].member = jobs[n].member
        /\ [jobs[n] EXCEPT !.status = "superseded"].desired = jobs[n].desired
    BY <2>4
  <2>. QED
    BY <2>3, <2>5
<1>4. CASE \/ \E e \in Editors, m \in Members, r \in Roles, on \in BOOLEAN : Begin(e, m, r, on)
           \/ \E e \in Editors : Change(e) \/ Queue(e) \/ Reject(e) \/ Abort(e)
           \/ \E w \in Workers : Lookup(w) \/ Post(w) \/ Delete(w) \/ RequestFails(w)
           \/ \E w \in Workers : Crash(w)
           \/ \E k \in Stamps : Due(k)
           \/ UNCHANGED vars
  <2>1. jobs' = jobs
    BY <1>4 DEF Begin, Change, Queue, Reject, Abort, Lookup, Post, Delete, RequestFails,
      Continue, Crash, Due, vars, outbox
  <2>. QED
    BY <2>1
<1>5. CASE \E w \in Workers : Claim(w) \/ Succeed(w) \/ Fail(w)
  <2>1. \E k, s : SetStatus(k, s)
    BY <1>5 DEF Claim, Succeed, Fail
  <2>. QED
    BY <1>2, <2>1
<1>. QED
  BY <1>3, <1>4, <1>5 DEF Next, Edit

\* A step that is not one of the worker's requests leaves Keycloak alone and takes
\* no worker further with its job.
LEMMA OtherStepsIdle ==
  ASSUME IInv, [Next]_vars,
         ~ \E w \in Workers : Lookup(w) \/ Post(w) \/ Delete(w) \/ RequestFails(w)
  PROVE  /\ mapped' = mapped
         /\ \A w \in Workers : pc'[w] \notin {"idle", "lookup", "failed"} =>
              pc'[w] = pc[w] /\ job'[w] = job[w] /\ current'[w] = current[w]
<1>1. CASE UNCHANGED <<work, mapped>>
  BY <1>1 DEF work
<1>2. CASE \E w \in Workers : Claim(w)
  BY <1>2 DEF Claim, IInv, TypeOK
<1>3. CASE \E w \in Workers : Succeed(w) \/ Fail(w) \/ Crash(w)
  BY <1>3 DEF Succeed, Fail, Crash, Rest, IInv, TypeOK
<1>4. CASE \/ \E e \in Editors, m \in Members, r \in Roles, on \in BOOLEAN : Begin(e, m, r, on)
           \/ \E e \in Editors : Edit(e) \/ Abort(e)
           \/ \E n \in Stamps : Due(n)
           \/ UNCHANGED vars
  BY <1>1, <1>4 DEF Begin, Edit, Change, Queue, Reject, Commit, Abort, Due, vars
<1>. QED
  BY <1>2, <1>3, <1>4 DEF Next

\* Whatever the only worker has found out stays true until it puts its job down.
LEMMA NextWorkInv == OneWorker /\ IInv /\ WorkInv /\ [Next]_vars => WorkInv'
<1>. SUFFICES ASSUME OneWorker, IInv, WorkInv, [Next]_vars PROVE WorkInv'
  OBVIOUS
<1>1. CASE \E w \in Workers : Lookup(w) \/ Post(w) \/ Delete(w) \/ RequestFails(w)
  BY <1>1, RequestWorkInv
<1>2. CASE ~ \E w \in Workers : Lookup(w) \/ Post(w) \/ Delete(w) \/ RequestFails(w)
  <2>1. /\ mapped' = mapped
        /\ \A w \in Workers : pc'[w] \notin {"idle", "lookup", "failed"} =>
             pc'[w] = pc[w] /\ job'[w] = job[w] /\ current'[w] = current[w]
    BY <1>2, OtherStepsIdle
  <2>. QED
    BY <2>1, IdleWorkInv, JobsAreFixed
<1>. QED
  BY <1>1, <1>2

\* In a system with one worker, the worker's knowledge is always right.
THEOREM OneWorkerInvariant ==
  ASSUME OneWorker
  PROVE  Spec => []WorkInv
<1>1. Init => WorkInv
  BY DEF Init, WorkInv
<1>2. IInv /\ WorkInv /\ [Next]_vars => WorkInv'
  BY NextWorkInv
<1>. QED
  BY <1>1, <1>2, RoleSyncInvariant, PTL DEF Spec

\* SuccessMeansMapped: when the only worker marks a job as succeeded, the user has
\* the role the job asks for in Keycloak, and no other baseline role.
THEOREM SuccessIsInKeycloak ==
  ASSUME OneWorker
  PROVE  Spec => SuccessMeansMapped
<1>1. ASSUME IInv, WorkInv, [Next]_vars, NEW n \in Stamps,
             jobs[n].status # "succeeded", jobs'[n].status = "succeeded"
      PROVE  mapped[UserOf[jobs[n].member]] = {jobs[n].desired} \ {None}
  <2>1. PICK w \in Workers : Succeed(w)
    <3>1. CASE \E e \in Editors : Commit(e)
      <4>1. PICK e \in Editors : Commit(e)
        BY <3>1
      <4>2. stamp[e] \in Stamps
        BY <1>1, <4>1 DEF IInv, StampInv, Commit
      <4>. DEFINE new == [status |-> "pending", member |-> draft[e].member, desired |-> target[e]]
      <4>3. jobs'[n] = IF n = stamp[e] THEN new ELSE Supersede(draft[e].member)[n]
        <5>1. jobs' = [Supersede(draft[e].member) EXCEPT ![stamp[e]] = new]
          BY <4>1 DEF Commit
        <5>. HIDE DEF new
        <5>2. DOMAIN Supersede(draft[e].member) = Stamps
          BY DEF Supersede
        <5>. QED
          BY <5>1, <5>2
      <4>4. new.status = "pending"
        OBVIOUS
      <4>5. jobs[n] \in [status : Open \cup {"none", "succeeded", "superseded"},
                         member : Members \cup {None}, desired : Baselines \cup {None}]
        BY <1>1 DEF IInv, TypeOK
      <4>6. [jobs[n] EXCEPT !.status = "superseded"].status = "superseded"
        BY <4>5
      <4>7. Supersede(draft[e].member)[n].status # "succeeded"
        BY <1>1, <4>6 DEF Supersede
      <4>. HIDE DEF new
      <4>. QED
        BY <1>1, <4>3, <4>4, <4>7
    <3>2. CASE \/ \E e \in Editors, m \in Members, r \in Roles, on \in BOOLEAN :
                    Begin(e, m, r, on)
               \/ \E e \in Editors : Change(e) \/ Queue(e) \/ Reject(e) \/ Abort(e)
               \/ \E w \in Workers : Lookup(w) \/ Post(w) \/ Delete(w) \/ RequestFails(w)
               \/ \E w \in Workers : Crash(w)
               \/ \E k \in Stamps : Due(k)
               \/ UNCHANGED vars
      <4>1. jobs' = jobs
        BY <3>2 DEF Begin, Change, Queue, Reject, Abort, Lookup, Post, Delete, RequestFails,
          Continue, Crash, Due, vars, outbox
      <4>. QED
        BY <1>1, <4>1
    <3>3. ASSUME NEW k, NEW s \in {"processing", "failed"}, SetStatus(k, s)
          PROVE  FALSE
      <4>1. jobs[n] \in [status : Open \cup {"none", "succeeded", "superseded"},
                         member : Members \cup {None}, desired : Baselines \cup {None}]
        BY <1>1 DEF IInv, TypeOK
      <4>2. [jobs[n] EXCEPT !.status = s].status = s
        BY <4>1
      <4>3. jobs'[n] = IF k = n THEN [jobs[n] EXCEPT !.status = s] ELSE jobs[n]
        BY <1>1, <3>3 DEF SetStatus, IInv, TypeOK
      <4>. QED
        BY <1>1, <4>2, <4>3
    <3>4. CASE \E w \in Workers : Claim(w) \/ Fail(w)
      <4>1. \E k : \E s \in {"processing", "failed"} : SetStatus(k, s)
        BY <3>4 DEF Claim, Fail
      <4>. QED
        BY <3>3, <4>1
    <3>. QED
      BY <1>1, <3>1, <3>2, <3>4 DEF Next, Edit
  <2>2. job[w] = n
    BY <1>1, <2>1 DEF Succeed, SetStatus, IInv, TypeOK
  <2>. QED
    BY <1>1, <2>1, <2>2 DEF Succeed, WorkInv, User, Role, Desired
<1>2. IInv /\ WorkInv /\ [Next]_vars =>
        [\A n \in Stamps :
           /\ jobs[n].status # "succeeded"
           /\ jobs'[n].status = "succeeded"
           => mapped[UserOf[jobs[n].member]] = {jobs[n].desired} \ {None}]_jobs
  BY <1>1
<1>. QED
  BY <1>2, OneWorkerInvariant, RoleSyncInvariant, PTL DEF Spec, SuccessMeansMapped

\* NoGapInRoles: a job that asks for a role leaves the user with a baseline role at
\* every moment, because the only worker adds the role before it removes others.
THEOREM AlwaysSomeRole ==
  ASSUME OneWorker
  PROVE  Spec => NoGapInRoles
<1>1. ASSUME IInv, WorkInv, [Next]_vars, mapped' # mapped, NEW v \in Workers,
             job[v] # None, Desired(v) # None, mapped[User(v)] # {}
      PROVE  mapped'[User(v)] # {}
  <2>1. PICK w \in Workers : Lookup(w) \/ Post(w) \/ Delete(w) \/ RequestFails(w)
    BY <1>1, OtherStepsIdle
  <2>2. v = w
    BY DEF OneWorker
  <2>. QED
    BY <1>1, <2>1, <2>2, RequestWorkInv
<1>2. IInv /\ WorkInv /\ [Next]_vars =>
        [\A w \in Workers :
           /\ job[w] # None
           /\ Desired(w) # None
           /\ mapped[User(w)] # {}
           => mapped'[User(w)] # {}]_mapped
  BY <1>1
<1>. QED
  BY <1>2, OneWorkerInvariant, RoleSyncInvariant, PTL DEF Spec, NoGapInRoles

-----------------------------------------------------------------------------
(* One editor: the newest job. *)

\* A membership is changed by one request at a time.
OneEditor == \A e, f \in Editors : e = f

\* The only transaction is the newest, and the role it has found is the one its
\* change leaves the user with.
EditInv ==
  \A e \in Editors :
    /\ stage[e] # "idle" => stamp[e] = clock
    /\ stage[e] = "queued" =>
         {target[e]} \ {None} = {Baseline[r] : r \in CodesSeen(e)}

NewestInv == EditInv /\ NewestJobIsCurrent

\* Only a commit queues a job.
LEMMA OnlyCommitQueues ==
  ASSUME IInv, [Next]_vars, ~ \E e \in Editors : Commit(e)
  PROVE  KeepsJobs
<1>1. CASE \E w \in Workers : Claim(w)
  <2>1. PICK k \in Stamps : SetStatus(k, "processing") /\ Ready(k)
    BY <1>1 DEF Claim
  <2>. QED
    BY <2>1, SetStatusFacts DEF Ready
<1>2. CASE \E w \in Workers : Succeed(w) \/ Fail(w)
  <2>1. PICK w \in Workers : Succeed(w) \/ Fail(w)
    BY <1>2
  <2>2. job[w] \in Stamps /\ jobs[job[w]].status # "none"
    BY <2>1, WorkFacts DEF Succeed, Fail
  <2>3. PICK s \in {"processing", "succeeded", "failed"} : SetStatus(job[w], s)
    BY <2>1 DEF Succeed, Fail
  <2>. QED
    BY <2>2, <2>3, SetStatusFacts
<1>3. CASE jobs' = jobs
  BY <1>3 DEF KeepsJobs
<1>4. CASE \/ \E e \in Editors, m \in Members, r \in Roles, on \in BOOLEAN : Begin(e, m, r, on)
           \/ \E e \in Editors : Change(e) \/ Queue(e) \/ Reject(e) \/ Abort(e)
           \/ \E w \in Workers : Lookup(w) \/ Post(w) \/ Delete(w) \/ RequestFails(w)
           \/ \E w \in Workers : Crash(w)
           \/ \E k \in Stamps : Due(k)
           \/ UNCHANGED vars
  BY <1>3, <1>4 DEF Begin, Change, Queue, Reject, Abort, Lookup, Post, Delete, RequestFails,
    Continue, Crash, Due, vars, outbox
<1>. QED
  BY <1>1, <1>2, <1>4 DEF Next, Edit

\* What a user's newest job is depends on which jobs there are and whose they are.
LEMMA NewestJobSame ==
  ASSUME NEW u \in Users,
         \A n \in Stamps :
           (jobs'[n].status # "none" /\ UserOf[jobs'[n].member] = u) <=>
           (jobs[n].status # "none" /\ UserOf[jobs[n].member] = u)
  PROVE  NewestJob(u)' = NewestJob(u)
BY DEF NewestJob

\* The role that is found is that of the codes.
LEMMA FoundRole ==
  ASSUME NEW e \in Editors, Queue(e), IInv
  PROVE  {target'[e]} \ {None} = {Baseline[r] : r \in CodesSeen(e)}
<1>. DEFINE codes == CodesSeen(e)
<1>1. target'[e] = IF codes = {} THEN None
                   ELSE CHOOSE b \in Baselines : \E r \in codes : b = Baseline[r]
  BY DEF Queue, IInv, TypeOK
<1>2. Resolved(codes)
  BY DEF Queue
<1>. SUFFICES {target'[e]} \ {None} = {Baseline[r] : r \in codes}
  OBVIOUS
<1>. HIDE DEF codes
<1>3. CASE codes = {}
  <2>1. target'[e] = None
    BY <1>1, <1>3
  <2>2. {Baseline[r] : r \in codes} = {}
    BY <1>3
  <2>. QED
    BY <2>1, <2>2
<1>4. CASE codes # {}
  <2>1. PICK b \in Baselines : {Baseline[r] : r \in codes} = {b}
    BY <1>2, <1>4 DEF Resolved
  <2>2. \E r \in codes : b = Baseline[r]
    BY <1>4, <2>1
  <2>3. target'[e] \in Baselines /\ \E r \in codes : target'[e] = Baseline[r]
    BY <1>1, <1>4, <2>2
  <2>4. target'[e] = b
    BY <2>1, <2>3
  <2>5. b # None
    BY <2>3, <2>4, MembersAssumption
  <2>6. {b} \ {None} = {b}
    BY <2>5
  <2>. QED
    BY <2>1, <2>4, <2>6
<1>. QED
  BY <1>3, <1>4

\* The commit of the only transaction queues the newest job of the user, and it
\* asks for the role the user has from then on.
LEMMA CommitNewest ==
  ASSUME IInv, NewestInv, OneEditor, NEW e \in Editors, Commit(e)
  PROVE  NewestJobIsCurrent'
<1>. DEFINE m == draft[e].member
<1>1. /\ m \in Members /\ stamp[e] \in Stamps /\ stamp[e] = clock
      /\ jobs[stamp[e]].status = "none"
      /\ {target[e]} \ {None} = {Baseline[r] : r \in CodesSeen(e)}
  BY DEF IInv, StampInv, NewestInv, EditInv, Commit
<1>2. PICK last \in Stamps : last = clock /\ last = stamp[e]
  BY <1>1
<1>3. jobs'[last].status = "pending" /\ jobs'[last].member = m /\ jobs'[last].desired = target[e]
  <2>1. jobs'[stamp[e]] = [status |-> "pending", member |-> m, desired |-> target[e]]
    BY <1>1 DEF Commit, Supersede
  <2>. QED
    BY <1>2, <2>1
<1>4. ASSUME NEW n \in Stamps, n # last
      PROVE  (jobs'[n].status # "none" <=> jobs[n].status # "none")
             /\ jobs'[n].member = jobs[n].member
             /\ jobs'[n].desired = jobs[n].desired
  <2>1. jobs'[n] = Supersede(m)[n]
    BY <1>2, <1>4 DEF Commit, Supersede
  <2>2. jobs[n] \in [status : Open \cup {"none", "succeeded", "superseded"},
                     member : Members \cup {None}, desired : Baselines \cup {None}]
    BY DEF IInv, TypeOK
  <2>3. \/ jobs'[n] = jobs[n]
        \/ jobs[n].status \in Open /\ jobs'[n] = [jobs[n] EXCEPT !.status = "superseded"]
    <3>1. Supersede(m)[n] = IF jobs[n].member = m /\ jobs[n].status \in Open
                              THEN [jobs[n] EXCEPT !.status = "superseded"] ELSE jobs[n]
      BY DEF Supersede
    <3>. QED
      BY <2>1, <3>1
  <2>. QED
    BY <2>2, <2>3 DEF Open
<1>5. \A n \in Stamps : jobs[n].status # "none" => n < last
  BY <1>1, <1>2 DEF IInv, StampInv, Stamps
<1>. SUFFICES ASSUME NEW u \in Users, NEW n \in NewestJob(u)'
              PROVE  UserRoles(u)' = {jobs'[n].desired} \ {None}
  BY DEF NewestJobIsCurrent
<1>6. RoleCodes(u, active', role') =
        IF u = UserOfDraft(e) THEN CodesSeen(e) ELSE RoleCodes(u, active, role)
  BY CommitCodes
<1>7. n \in Stamps /\ jobs'[n].status # "none" /\ UserOf[jobs'[n].member] = u
      /\ \A k \in Stamps : jobs'[k].status # "none" /\ UserOf[jobs'[k].member] = u => k <= n
  BY DEF NewestJob
<1>8. CASE u = UserOfDraft(e)
  <2>1. last <= n
    BY <1>3, <1>7, <1>8 DEF UserOfDraft
  <2>2. n = last
    BY <1>4, <1>5, <1>7, <2>1 DEF Stamps
  <2>. QED
    BY <1>1, <1>3, <1>6, <1>8, <2>2 DEF UserRoles
<1>9. CASE u # UserOfDraft(e)
  <2>1. n # last
    BY <1>3, <1>7, <1>9 DEF UserOfDraft
  <2>2. n \in NewestJob(u)
    <3>1. NewestJob(u)' = NewestJob(u)
      <4>1. ASSUME NEW k \in Stamps
            PROVE (jobs'[k].status # "none" /\ UserOf[jobs'[k].member] = u) <=>
                  (jobs[k].status # "none" /\ UserOf[jobs[k].member] = u)
        <5>1. CASE k = last
          BY <1>1, <1>2, <1>3, <1>9, <5>1 DEF UserOfDraft
        <5>2. CASE k # last
          BY <1>4, <5>2
        <5>. QED
          BY <5>1, <5>2
      <4>. QED
        BY <4>1, NewestJobSame
    <3>. QED
      BY <3>1
  <2>3. UserRoles(u) = {jobs[n].desired} \ {None}
    BY <2>2 DEF NewestInv, NewestJobIsCurrent
  <2>. QED
    BY <1>4, <1>6, <1>7, <1>9, <2>1, <2>3 DEF UserRoles
<1>. QED
  BY <1>8, <1>9

LEMMA EditStep ==
  ASSUME IInv, EditInv, OneEditor, [Next]_vars
  PROVE  EditInv'
<1>. SUFFICES ASSUME NEW f \in Editors
              PROVE  /\ stage'[f] # "idle" => stamp'[f] = clock'
                     /\ stage'[f] = "queued" =>
                          {target'[f]} \ {None} = {Baseline[r] : r \in CodesSeen(f)'}
  BY DEF EditInv
<1>p. /\ stage \in [Editors -> {"idle", "begun", "changed", "queued"}]
      /\ stamp \in [Editors -> Stamps \cup {0}]
      /\ \A e \in Editors : e = f
  BY DEF IInv, TypeOK, OneEditor
<1>1. ASSUME NEW m \in Members, NEW r \in Roles, NEW on \in BOOLEAN, Begin(f, m, r, on)
      PROVE  stage'[f] = "begun" /\ stamp'[f] = clock'
  BY <1>p, <1>1 DEF Begin
<1>2. ASSUME Change(f) PROVE stage'[f] = "changed" /\ stamp'[f] = clock'
  BY <1>p, <1>2 DEF Change, EditInv
<1>3. ASSUME Reject(f) \/ Commit(f) \/ Abort(f) PROVE stage'[f] = "idle"
  BY <1>p, <1>3 DEF Reject, Commit, Abort, Rollback
<1>4. ASSUME Queue(f)
      PROVE  /\ stamp'[f] = clock'
             /\ {target'[f]} \ {None} = {Baseline[r] : r \in CodesSeen(f)'}
  <2>1. CodesSeen(f)' = CodesSeen(f)
    BY <1>4 DEF Queue, memberships, CodesSeen, UserOfDraft
  <2>2. stamp'[f] = clock'
    BY <1>4 DEF Queue, EditInv
  <2>. QED
    BY <1>4, <2>1, <2>2, FoundRole
<1>5. CASE UNCHANGED <<role, active, stage, draft, stamp, target, clock>>
  <2>1. CodesSeen(f)' = CodesSeen(f)
    BY <1>5 DEF CodesSeen, UserOfDraft
  <2>. QED
    BY <1>5, <2>1 DEF EditInv
<1>6. ASSUME \/ \E w \in Workers : Claim(w)
             \/ \E w \in Workers : Lookup(w) \/ Post(w) \/ Delete(w) \/ RequestFails(w)
             \/ \E w \in Workers : Succeed(w) \/ Fail(w) \/ Crash(w)
             \/ \E n \in Stamps : Due(n)
             \/ UNCHANGED vars
      PROVE  UNCHANGED <<role, active, stage, draft, stamp, target, clock>>
  BY <1>6 DEF Claim, Lookup, Post, Delete, RequestFails, Continue, Succeed, Fail, Crash, Rest,
              Due, vars, memberships, edits
<1>. QED
  BY <1>p, <1>1, <1>2, <1>3, <1>4, <1>5, <1>6 DEF Next, Edit

LEMMA NewestStep ==
  ASSUME IInv, NewestInv, OneEditor, [Next]_vars
  PROVE  NewestJobIsCurrent'
<1>1. CASE \E e \in Editors : Commit(e)
  BY <1>1, CommitNewest
<1>2. CASE ~ \E e \in Editors : Commit(e)
  <2>1. UNCHANGED <<role, active>>
    BY <1>2 DEF Next, Edit, Begin, Change, Queue, Reject, Abort, Claim, Lookup, Post, Delete,
                RequestFails, Continue, Succeed, Fail, Crash, Rest, Due, vars, memberships, edits
  <2>. SUFFICES ASSUME NEW u \in Users, NEW n \in NewestJob(u)'
                PROVE  UserRoles(u)' = {jobs'[n].desired} \ {None}
    BY DEF NewestJobIsCurrent
  <2>2. \A k \in Stamps :
          (jobs'[k].status # "none" /\ UserOf[jobs'[k].member] = u) <=>
          (jobs[k].status # "none" /\ UserOf[jobs[k].member] = u)
    BY <1>2, OnlyCommitQueues DEF KeepsJobs
  <2>3. n \in NewestJob(u)
    <3>1. NewestJob(u)' = NewestJob(u)
      BY <2>2, NewestJobSame
    <3>. QED
      BY <3>1
  <2>4. n \in Stamps /\ jobs[n].status # "none"
    BY <2>3 DEF NewestJob
  <2>5. jobs'[n].desired = jobs[n].desired
    BY <2>4, JobsAreFixed
  <2>. QED
    BY <2>1, <2>3, <2>5 DEF NewestInv, NewestJobIsCurrent, UserRoles
<1>. QED
  BY <1>1, <1>2

\* NewestJobIsCurrent: in a system with one editor, the newest job of a user asks
\* for the role the user's active memberships give.
THEOREM NewestJobAsksForTheRole ==
  ASSUME OneEditor
  PROVE  Spec => []NewestJobIsCurrent
<1>1. Init => NewestInv
  <2>. SUFFICES ASSUME Init PROVE NewestInv
    OBVIOUS
  <2>1. EditInv
    BY DEF Init, EditInv
  <2>2. \A n \in Stamps : jobs[n].status = "none"
    BY DEF Init, NoJob
  <2>3. \A u \in Users : NewestJob(u) = {}
    BY <2>2 DEF NewestJob
  <2>. QED
    BY <2>1, <2>3 DEF NewestInv, NewestJobIsCurrent
<1>2. IInv /\ NewestInv /\ [Next]_vars => NewestInv'
  BY EditStep, NewestStep DEF NewestInv
<1>3. NewestInv => NewestJobIsCurrent
  BY DEF NewestInv
<1>. QED
  BY <1>1, <1>2, <1>3, RoleSyncInvariant, PTL DEF Spec
=============================================================================
