-------------------------- MODULE KeycloakRoleSync --------------------------
(***************************************************************************)
(* The baseline role of a user, kept in two places: in the active          *)
(* memberships of mbam-api's database and as a realm role in Keycloak.     *)
(* Every transaction that changes a membership (modules/team) queues a job *)
(* with the role it leaves the user with; a background worker              *)
(* (modules/keycloak_sync) claims the jobs one by one and brings Keycloak  *)
(* in step by HTTP requests, each of which may fail before or after it has *)
(* taken effect.                                                           *)
(*                                                                         *)
(* A job is named by its created_at, which is the time its transaction     *)
(* began: the number of the transaction.                                   *)
(***************************************************************************)
EXTENDS Integers

CONSTANTS
  Members,        \* memberships
  UserOf,         \* UserOf[m]: the user of membership m
  Roles,          \* role codes
  Baseline,       \* Baseline[r]: the baseline role that role code r stands for
  InitialRole,    \* InitialRole[m]: its role at the start, or None: no such row yet
  Editors,        \* requests that change a membership
  Workers,        \* reconciliation workers, one per API process
  MaxChanges,     \* bound: how many changes are made
  WorkersCrash,   \* whether a worker may stop between two steps
  None            \* no membership, no role, no job

Users     == {UserOf[m] : m \in Members}
Baselines == {Baseline[r] : r \in Roles}
Stamps    == 1 .. MaxChanges

ASSUME MembersAssumption ==
  /\ Roles # {}
  /\ MaxChanges \in Nat
  /\ WorkersCrash \in BOOLEAN
  /\ None \notin Members \cup Roles \cup Baselines \cup Editors \cup Stamps
  /\ UserOf \in [Members -> {UserOf[m] : m \in Members}]
  /\ Baseline \in [Roles -> {Baseline[r] : r \in Roles}]
  /\ InitialRole \in [Members -> Roles \cup {None}]
  /\ \A m, k \in Members :
       UserOf[m] = UserOf[k] /\ InitialRole[m] # None /\ InitialRole[k] # None
         => InitialRole[m] = InitialRole[k]

VARIABLES
  role,       \* role[m]: the role code of membership m, None until it exists
  active,     \* the memberships with status 'active'
  userOwner,  \* the editor whose transaction holds the users row of u, or None
  stage,      \* how far an editor's transaction is
  draft,      \* the membership it changes, and to what
  stamp,      \* when it began
  target,     \* the baseline role it has found for the user
  clock,      \* the number of transactions begun
  jobs,       \* keycloak_role_outbox
  due,        \* the failed jobs whose available_at has come
  pc,         \* what a worker does next
  job,        \* the job it works on
  current,    \* the baseline roles it has read from Keycloak
  mapped      \* mapped[u]: the baseline roles of user u in Keycloak

memberships == <<role, active, userOwner>>
edits       == <<stage, draft, stamp, target, clock>>
outbox      == <<jobs, due>>
work        == <<pc, job, current>>
vars        == <<memberships, edits, outbox, work, mapped>>

NoDraft == [member |-> None, role |-> None, active |-> FALSE, new |-> FALSE]
NoJob   == [status |-> "none", member |-> None, desired |-> None]

Open == {"pending", "processing", "failed"}

\* The role codes of the active memberships of user u.
RoleCodes(u, in, of) == {of[m] : m \in {x \in in : UserOf[x] = u}}

Init ==
  /\ role = InitialRole
  /\ active = {m \in Members : InitialRole[m] # None}
  /\ userOwner = [u \in Users |-> None]
  /\ stage = [e \in Editors |-> "idle"]
  /\ draft = [e \in Editors |-> NoDraft]
  /\ stamp = [e \in Editors |-> 0]
  /\ target = [e \in Editors |-> None]
  /\ clock = 0
  /\ jobs = [n \in Stamps |-> NoJob]
  /\ due = {}
  /\ pc = [w \in Workers |-> "idle"]
  /\ job = [w \in Workers |-> None]
  /\ current = [w \in Workers |-> {}]
  /\ mapped = [u \in Users |-> {Baseline[r] : r \in RoleCodes(u, active, role)}]
-----------------------------------------------------------------------------
(* A change of a membership: one database transaction. *)

\* team::service::update_member reads the row, checks it and writes the role and
\* the status the request ends up with; accept_invitation makes a new, active row.
Begin(e, m, r, on) ==
  /\ stage[e] = "idle"
  /\ clock < MaxChanges
  /\ role[m] = None => on
  /\ stage' = [stage EXCEPT ![e] = "begun"]
  /\ draft' = [draft EXCEPT ![e] =
                 [member |-> m, role |-> r, active |-> on, new |-> role[m] = None]]
  /\ stamp' = [stamp EXCEPT ![e] = clock + 1]
  /\ clock' = clock + 1
  /\ UNCHANGED <<memberships, target, outbox, work, mapped>>

UserOfDraft(e) == UserOf[draft[e].member]

\* Another transaction has accepted the same invitation.
Taken(e) == draft[e].new /\ role[draft[e].member] # None

\* Mutant of Change: no trigger, so no row of the user is locked.
ChangeUnlocked(e) ==
  /\ stage[e] = "begun"
  /\ ~Taken(e)
  /\ userOwner' = [userOwner EXCEPT ![UserOfDraft(e)] = e]
  /\ stage' = [stage EXCEPT ![e] = "changed"]
  /\ UNCHANGED <<role, active, draft, stamp, target, clock, outbox, work, mapped>>

\* The row is written, and the trigger memberships_authorization_version updates
\* the row of its user: two changes for one user exclude each other.
Change(e) ==
  /\ stage[e] = "begun"
  /\ ~Taken(e)
  /\ userOwner[UserOfDraft(e)] = None
  /\ userOwner' = [userOwner EXCEPT ![UserOfDraft(e)] = e]
  /\ stage' = [stage EXCEPT ![e] = "changed"]
  /\ UNCHANGED <<role, active, draft, stamp, target, clock, outbox, work, mapped>>

\* Mutant of CodesSeen: the job is queued before the membership is written.
CodesBefore(e) == RoleCodes(UserOfDraft(e), active, role)

\* The role codes a transaction reads: its own change and what others committed.
CodesSeen(e) ==
  LET m == draft[e].member
  IN  RoleCodes(UserOfDraft(e),
                IF draft[e].active THEN active \cup {m} ELSE active \ {m},
                [role EXCEPT ![m] = draft[e].role])

\* One baseline role, and no two codes for it; or no active membership at all.
Resolved(codes) ==
  \/ codes = {}
  \/ \E b \in Baselines :
       /\ {Baseline[r] : r \in codes} = {b}
       /\ \A r, q \in codes : r = q

Rollback(e) ==
  /\ stage' = [stage EXCEPT ![e] = "idle"]
  /\ draft' = [draft EXCEPT ![e] = NoDraft]
  /\ stamp' = [stamp EXCEPT ![e] = 0]
  /\ target' = [target EXCEPT ![e] = None]
  /\ userOwner' = [u \in Users |-> IF userOwner[u] = e THEN None ELSE userOwner[u]]

\* enqueue_membership_reconciliation reads the roles, locks the open jobs of the
\* membership and prepares the new one.
Queue(e) ==
  /\ stage[e] = "changed"
  /\ Resolved(CodesSeen(e))
  /\ stage' = [stage EXCEPT ![e] = "queued"]
  /\ target' = [target EXCEPT ![e] =
                  IF CodesSeen(e) = {} THEN None
                  ELSE CHOOSE b \in Baselines : \E r \in CodesSeen(e) : b = Baseline[r]]
  /\ UNCHANGED <<memberships, draft, stamp, clock, outbox, work, mapped>>

\* The roles do not resolve, or the invitation is taken: the request is turned down.
Reject(e) ==
  /\ \/ stage[e] = "changed" /\ ~Resolved(CodesSeen(e))
     \/ stage[e] = "begun" /\ Taken(e)
  /\ Rollback(e)
  /\ UNCHANGED <<role, active, clock, outbox, work, mapped>>

\* The outbox with the open jobs of membership m superseded.
Supersede(m) ==
  [n \in Stamps |-> IF jobs[n].member = m /\ jobs[n].status \in Open
                      THEN [jobs[n] EXCEPT !.status = "superseded"] ELSE jobs[n]]

\* Mutant of Commit: the role is not written.
CommitStatusOnly(e) ==
  LET m == draft[e].member IN
  /\ stage[e] = "queued"
  /\ active' = IF draft[e].active THEN active \cup {m} ELSE active \ {m}
  /\ jobs' = [Supersede(m) EXCEPT ![stamp[e]] =
                [status |-> "pending", member |-> m, desired |-> target[e]]]
  /\ Rollback(e)
  /\ UNCHANGED <<role, clock, due, work, mapped>>

\* The membership and its job become visible together.
Commit(e) ==
  LET m == draft[e].member IN
  /\ stage[e] = "queued"
  /\ role' = [role EXCEPT ![m] = draft[e].role]
  /\ active' = IF draft[e].active THEN active \cup {m} ELSE active \ {m}
  /\ jobs' = [Supersede(m) EXCEPT ![stamp[e]] =
                [status |-> "pending", member |-> m, desired |-> target[e]]]
  /\ Rollback(e)
  /\ UNCHANGED <<clock, due, work, mapped>>

\* The request or the database goes away before the commit.
Abort(e) ==
  /\ stage[e] # "idle"
  /\ Rollback(e)
  /\ UNCHANGED <<role, active, clock, outbox, work, mapped>>

-----------------------------------------------------------------------------
(* The worker. *)

\* A transaction between `update keycloak_role_outbox` and its commit holds the
\* open jobs of its membership.
Locked(n) ==
  \E e \in Editors : stage[e] = "queued" /\ draft[e].member = jobs[n].member

\* Mutants of Ready: a failed job is never tried again; a job in progress is taken.
ReadyOnce(n) == jobs[n].status = "pending"

ReadyWhileProcessing(n) ==
  \/ jobs[n].status \in {"pending", "processing"}
  \/ jobs[n].status = "failed" /\ n \in due

Ready(n) ==
  \/ jobs[n].status = "pending"
  \/ jobs[n].status = "failed" /\ n \in due

SetStatus(n, status) == jobs' = [jobs EXCEPT ![n].status = status]

\* The oldest ready job that is not locked.
Claim(w) ==
  \E n \in Stamps :
    /\ pc[w] = "idle"
    /\ Ready(n) /\ ~Locked(n)
    /\ \A k \in Stamps : k < n => ~Ready(k) \/ Locked(k)
    /\ SetStatus(n, "processing")
    /\ due' = due \ {n}
    /\ pc' = [pc EXCEPT ![w] = "lookup"]
    /\ job' = [job EXCEPT ![w] = n]
    /\ UNCHANGED <<memberships, edits, current, mapped>>

Desired(w) == jobs[job[w]].desired
User(w)    == UserOf[jobs[job[w]].member]

\* Mutants of Obsolete: nothing is removed; the desired role is removed too.
NothingObsolete(w, read) == {}
AllObsolete(w, read)     == read

\* What the job has to add, and to take away, given the roles it has read.
Missing(w, read)  == {Desired(w)} \ (read \cup {None})
Obsolete(w, read) == read \ {Desired(w)}

Continue(w, where) ==
  /\ pc' = [pc EXCEPT ![w] = where]
  /\ UNCHANGED <<memberships, edits, outbox, job>>

\* The identity, a token, the role mappings and the desired role are fetched.
Lookup(w) ==
  LET read == mapped[User(w)] IN
  /\ pc[w] = "lookup"
  /\ current' = [current EXCEPT ![w] = read]
  /\ Continue(w, IF Missing(w, read) # {} THEN "post"
                 ELSE IF Obsolete(w, read) # {} THEN "delete" ELSE "done")
  /\ UNCHANGED mapped

\* POST role-mappings: the desired role, if the user does not have it.
Post(w) ==
  /\ pc[w] = "post"
  /\ mapped' = [mapped EXCEPT ![User(w)] = @ \cup Missing(w, current[w])]
  /\ Continue(w, IF Obsolete(w, current[w]) # {} THEN "delete" ELSE "done")
  /\ UNCHANGED current

\* DELETE role-mappings: every other baseline role that was read.
Delete(w) ==
  /\ pc[w] = "delete"
  /\ mapped' = [mapped EXCEPT ![User(w)] = @ \ Obsolete(w, current[w])]
  /\ Continue(w, "done")
  /\ UNCHANGED current

\* A request fails; a POST or a DELETE may have taken effect all the same.
RequestFails(w) ==
  /\ pc[w] \in {"lookup", "post", "delete"}
  /\ \/ UNCHANGED mapped
     \/ /\ pc[w] = "post"
        /\ mapped' = [mapped EXCEPT ![User(w)] = @ \cup Missing(w, current[w])]
     \/ /\ pc[w] = "delete"
        /\ mapped' = [mapped EXCEPT ![User(w)] = @ \ Obsolete(w, current[w])]
  /\ Continue(w, "failed")
  /\ UNCHANGED current

Rest(w) ==
  /\ pc' = [pc EXCEPT ![w] = "idle"]
  /\ job' = [job EXCEPT ![w] = None]
  /\ current' = [current EXCEPT ![w] = {}]
  /\ UNCHANGED <<memberships, edits, mapped>>

\* repository::succeed and repository::fail write the status whatever it is by
\* now; they wait for a transaction that supersedes the job.
Succeed(w) ==
  /\ pc[w] = "done"
  /\ ~Locked(job[w])
  /\ SetStatus(job[w], "succeeded")
  /\ Rest(w)
  /\ UNCHANGED due

Fail(w) ==
  /\ pc[w] = "failed"
  /\ ~Locked(job[w])
  /\ SetStatus(job[w], "failed")
  /\ Rest(w)
  /\ UNCHANGED due

\* The process stops, or the database refuses the final status.
Crash(w) ==
  /\ WorkersCrash
  /\ pc[w] # "idle"
  /\ Rest(w)
  /\ UNCHANGED outbox

\* The back-off delay of a failed job is over.
Due(n) ==
  /\ jobs[n].status = "failed"
  /\ n \notin due
  /\ due' = due \cup {n}
  /\ UNCHANGED <<memberships, edits, jobs, work, mapped>>

-----------------------------------------------------------------------------
Edit(e) == Change(e) \/ Queue(e) \/ Reject(e) \/ Commit(e)

Next ==
  \/ \E e \in Editors, m \in Members, r \in Roles, on \in BOOLEAN : Begin(e, m, r, on)
  \/ \E e \in Editors : Edit(e) \/ Abort(e)
  \/ \E w \in Workers : Claim(w)
  \/ \E w \in Workers : Lookup(w) \/ Post(w) \/ Delete(w) \/ RequestFails(w)
  \/ \E w \in Workers : Succeed(w) \/ Fail(w)
  \/ \E w \in Workers : Crash(w)
  \/ \E n \in Stamps : Due(n)

Spec == Init /\ [][Next]_vars

\* A transaction that has begun ends, the worker's loop keeps running, delays
\* end, and Keycloak answers each kind of request again and again.
FairSpec ==
  /\ Spec
  /\ \A e \in Editors : SF_vars(Edit(e))
  /\ \A w \in Workers :
       /\ SF_vars(Claim(w)) /\ SF_vars(Succeed(w)) /\ SF_vars(Fail(w))
       /\ SF_vars(Lookup(w)) /\ SF_vars(Post(w)) /\ SF_vars(Delete(w))
  /\ \A n \in Stamps : WF_vars(Due(n))

-----------------------------------------------------------------------------
(* Properties. *)

\* Every variable keeps its type.
TypeOK ==
  /\ role \in [Members -> Roles \cup {None}]
  /\ active \subseteq {m \in Members : role[m] # None}
  /\ userOwner \in [Users -> Editors \cup {None}]
  /\ stage \in [Editors -> {"idle", "begun", "changed", "queued"}]
  /\ draft \in [Editors -> [member : Members \cup {None}, role : Roles \cup {None},
                            active : BOOLEAN, new : BOOLEAN]]
  /\ stamp \in [Editors -> Stamps \cup {0}]
  /\ target \in [Editors -> Baselines \cup {None}]
  /\ clock \in 0 .. MaxChanges
  /\ jobs \in [Stamps -> [status : Open \cup {"none", "succeeded", "superseded"},
                          member : Members \cup {None},
                          desired : Baselines \cup {None}]]
  /\ due \subseteq Stamps
  /\ pc \in [Workers -> {"idle", "lookup", "post", "delete", "done", "failed"}]
  /\ job \in [Workers -> Stamps \cup {None}]
  /\ current \in [Workers -> SUBSET Baselines]
  /\ mapped \in [Users -> SUBSET Baselines]

\* Whoever works on a job is alone with it, although it may be superseded, put
\* back and claimed again meanwhile (`for update skip locked`).
JobHasOneWorker ==
  \A w, v \in Workers : job[w] # None /\ job[w] = job[v] => w = v

\* With one worker, a job marked succeeded has left the user in Keycloak with the
\* role it asks for and no other baseline role.
SuccessMeansMapped ==
  [][\A n \in Stamps :
       /\ jobs[n].status # "succeeded"
       /\ jobs'[n].status = "succeeded"
       => mapped[UserOf[jobs[n].member]] = {jobs[n].desired} \ {None}]_jobs

\* With one worker, a job that asks for a role never leaves the user without any,
\* not even when it fails half way: reconcile adds before it removes.
NoGapInRoles ==
  [][\A w \in Workers :
       /\ job[w] # None
       /\ Desired(w) # None
       /\ mapped[User(w)] # {}
       => mapped'[User(w)] # {}]_mapped

UserRoles(u) == {Baseline[r] : r \in RoleCodes(u, active, role)}

NewestJob(u) ==
  LET queued == {n \in Stamps : jobs[n].status # "none" /\ UserOf[jobs[n].member] = u}
  IN  {n \in queued : \A k \in queued : k <= n}

\* With one editor, the newest job of a user asks for the role the user's active
\* memberships give: a membership and its job are one transaction, and no
\* committed change is without its job.
NewestJobIsCurrent ==
  \A u \in Users : \A n \in NewestJob(u) : UserRoles(u) = {jobs[n].desired} \ {None}

\* A job some worker had claimed and did not finish.
Abandoned(n) ==
  jobs[n].status = "processing" /\ \A w \in Workers : job[w] # n

\* Every job is dealt with in the end, however often Keycloak fails, unless a
\* worker stops while it works on it.
EveryJobSettles ==
  \A n \in Stamps :
    jobs[n].status \in Open ~> jobs[n].status \notin Open \/ Abandoned(n)

\* "active memberships must resolve to one baseline role", also when several of a
\* user's memberships are changed at the same time: enqueue_membership_reconciliation
\* reads them while its transaction holds the users row.
OneBaselinePerUser ==
  \A u \in Users : \A b, c \in UserRoles(u) : b = c

\* keycloak_sync/repository.rs: "Queues the latest Keycloak baseline-role state".
\* When no job is open any more, Keycloak has the role the memberships give.
SettledIsInStep ==
  (\A n \in Stamps : jobs[n].status \notin Open) /\ (\A e \in Editors : stage[e] = "idle")
    => \A u \in Users : mapped[u] = UserRoles(u)
=============================================================================
