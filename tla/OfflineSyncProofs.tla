------------------------- MODULE OfflineSyncProofs -------------------------
(***************************************************************************)
(* Proofs about OfflineSync, for every set of operations, passes and       *)
(* pushes, and every retry limit.                                          *)
(***************************************************************************)
EXTENDS OfflineSync, TLAPS, WellFoundedInduction

\* What a pass keeps at each of its stages.
PassInv ==
  \A p \in Passes :
    /\ pc[p] = "read" => batch[p] = {}
    /\ pc[p] \in {"marking", "pushing"} => batch[p] # {} /\ todo[p] \subseteq batch[p]
    /\ pc[p] = "result" => todo[p] # {}

\* A push that is not answered yet has operations left.
RunInv == \A r \in Runs : run[r].state \in {"sent", "work"} => run[r].left # {}

\* An operation that was answered with "accepted" has taken effect.
EffectInv ==
  /\ \A p \in Passes, o \in Ops : answer[p][o] = "accepted" => o \in applied
  /\ \A r \in Runs, o \in Ops : run[r].result[o] = "accepted" => o \in applied

IInv ==
  /\ TypeOK
  /\ PassInv
  /\ RunInv
  /\ EffectInv
  /\ NothingLost
  /\ SyncingHasOwner

\* The next key is the least one.
LEMMA LeastOp ==
  ASSUME NEW S \in SUBSET Ops, S # {}
  PROVE  Least(S) \in S
<1>. USE OpsAssumption
<1>. DEFINE R == {ss \in Nat \X Nat : ss[1] < ss[2]}
<1>1. IsWellFoundedOn(R, Nat)
  BY NatLessThanWellFounded DEF OpToRel
<1>2. PICK o \in S : \A q \in S : ~(<<q, o>> \in R)
  <2>1. S \in SUBSET Nat
    OBVIOUS
  <2>. HIDE DEF R
  <2>. QED
    BY <1>1, <2>1, WFMin
<1>3. ASSUME NEW q \in S PROVE o <= q
  <2>1. q < o => <<q, o>> \in R
    OBVIOUS
  <2>. QED
    BY <2>1, <1>2
<1>. QED
  BY <1>3 DEF Least

\* The operation a pass comes to next belongs to what it has to do.
LEMMA NextOfPass ==
  ASSUME TypeOK, NEW p \in Passes, todo[p] # {}
  PROVE  Least(todo[p]) \in todo[p] /\ Least(todo[p]) \in Ops
<1>1. todo[p] \in SUBSET Ops
  BY DEF TypeOK
<1>. QED
  BY <1>1, LeastOp

\* The operation a push comes to next is one it has left.
LEMMA NextOfRun ==
  ASSUME TypeOK, RunInv, NEW r \in Runs, run[r].state = "work"
  PROVE  Least(run[r].left) \in run[r].left /\ Least(run[r].left) \in Ops
<1>1. run[r].left \in SUBSET Ops /\ run[r].left # {}
  BY DEF TypeOK, RunInv
<1>. QED
  BY <1>1, LeastOp

\* A count stays within the limit.
LEMMA BumpType ==
  ASSUME NEW n \in 0 .. RetryLimit
  PROVE  Bump(n) \in 0 .. RetryLimit
BY RetryLimitAssumption DEF Bump

Records == [status : Statuses, retries : 0 .. RetryLimit]

RunRecords ==
  [state : {"free", "sent", "work", "done"}, client : Passes \cup {None},
   left : SUBSET Ops, allowed : SUBSET Ops, result : [Ops -> Outcomes]]

PassType ==
  /\ pc \in [Passes -> {"idle", "pulled", "reconcile", "read", "marking", "pushing",
                        "failing", "results", "result"}]
  /\ seen \in [Passes -> SUBSET Ops]
  /\ denied \in [Passes -> SUBSET Ops]
  /\ batch \in [Passes -> SUBSET Ops]
  /\ copy \in [Passes -> [Ops -> 0 .. RetryLimit]]
  /\ todo \in [Passes -> SUBSET Ops]
  /\ answer \in [Passes -> [Ops -> Outcomes]]

ApiType == permitted \subseteq Ops /\ applied \subseteq Ops /\ run \in [Runs -> RunRecords]

StoreType == outbox \in [Ops -> Records] /\ queued \subseteq Ops /\ abandoned \subseteq Ops

\* The types of the three parts of the system.
LEMMA TypeParts == TypeOK <=> StoreType /\ PassType /\ ApiType
BY DEF TypeOK, StoreType, PassType, ApiType, Records, RunRecords

\* A record that is put has the type of a record.
LEMMA PutType ==
  ASSUME StoreType, NEW o \in Ops, NEW s \in Statuses, NEW n \in 0 .. RetryLimit,
         Put(o, s, n)
  PROVE  outbox' \in [Ops -> Records]
BY DEF StoreType, Put, Records

\* A pass that is over has the types of a pass.
LEMMA LeaveType ==
  ASSUME PassType, NEW p \in Passes, Leave(p)
  PROVE  PassType'
<1>1. NoCopy \in [Ops -> 0 .. RetryLimit]
  BY RetryLimitAssumption DEF NoCopy
<1>2. NoAnswer \in [Ops -> Outcomes]
  BY DEF NoAnswer, Outcomes
<1>. QED
  BY <1>1, <1>2 DEF PassType, Leave, Goto

\* Without its client a push is what it was.
LEMMA HangUpFacts ==
  ASSUME ApiType, NEW p \in Passes, HangUp(p)
  PROVE  /\ run' \in [Runs -> RunRecords]
         /\ \A r \in Runs : /\ run'[r].state = run[r].state
                            /\ run'[r].left = run[r].left
                            /\ run'[r].result = run[r].result
BY DEF ApiType, HangUp, RunRecords

\* The same, when the operation o has been answered.
LEMMA AnswerFacts ==
  ASSUME ApiType, NEW r \in Runs, NEW o \in Ops, NEW outcome \in Outcomes,
         Answer(r, o, outcome)
  PROVE  /\ run' \in [Runs -> RunRecords]
         /\ \A q \in Runs \ {r} : run'[q] = run[q]
         /\ run'[r].left = run[r].left \ {o}
         /\ run'[r].state = IF run[r].left = {o} THEN "done" ELSE "work"
         /\ run'[r].result = [run[r].result EXCEPT ![o] = outcome]
<1>. DEFINE new == [run[r] EXCEPT !.left = @ \ {o}, !.result[o] = outcome,
                                  !.state = IF run[r].left = {o} THEN "done" ELSE "work"]
<1>1. run[r] \in RunRecords
  BY DEF ApiType
<1>2. run' = [run EXCEPT ![r] = new]
  BY <1>1 DEF ApiType, Answer, RunRecords
<1>3. new \in RunRecords
  BY <1>1 DEF RunRecords
<1>4. /\ new.left = run[r].left \ {o}
      /\ new.state = IF run[r].left = {o} THEN "done" ELSE "work"
      /\ new.result = [run[r].result EXCEPT ![o] = outcome]
  BY <1>1 DEF RunRecords
<1>. HIDE DEF new
<1>. QED
  BY <1>2, <1>3, <1>4 DEF ApiType

\* An authenticated push has the same operations left and no other answers.
LEMMA ArriveFacts ==
  ASSUME ApiType, NEW r \in Runs, Arrive(r)
  PROVE  /\ run' \in [Runs -> RunRecords]
         /\ \A q \in Runs : /\ run'[q].left = run[q].left
                            /\ run'[q].result = run[q].result
         /\ \A q \in Runs \ {r} : run'[q].state = run[q].state
<1>. DEFINE new == [run[r] EXCEPT !.state = "work", !.allowed = permitted]
<1>1. run[r] \in RunRecords /\ permitted \subseteq Ops
  BY DEF ApiType
<1>2. run' = [run EXCEPT ![r] = new]
  BY <1>1 DEF ApiType, Arrive, RunRecords
<1>3. new \in RunRecords /\ new.left = run[r].left /\ new.result = run[r].result
  BY <1>1 DEF RunRecords
<1>. HIDE DEF new
<1>. QED
  BY <1>2, <1>3 DEF ApiType

\* A free slot.
LEMMA NoRunType == NoRun \in RunRecords
BY DEF NoRun, RunRecords, NoAnswer, Outcomes

\* Initially.
LEMMA InitIInv == Init => IInv
<1>. SUFFICES ASSUME Init PROVE IInv
  OBVIOUS
<1>. USE DEF Init
<1>1. StoreType
  BY RetryLimitAssumption DEF StoreType, Records, Absent, Statuses
<1>2. PassType
  BY RetryLimitAssumption DEF PassType, NoCopy, NoAnswer, Outcomes
<1>3. ApiType
  BY NoRunType DEF ApiType
<1>4. PassInv /\ RunInv /\ EffectInv
  BY DEF PassInv, RunInv, EffectInv, NoRun, NoAnswer
<1>5. NothingLost /\ SyncingHasOwner
  BY DEF NothingLost, SyncingHasOwner, Absent
<1>. QED
  BY <1>1, <1>2, <1>3, <1>4, <1>5, TypeParts DEF IInv

-----------------------------------------------------------------------------
(* Types. *)

\* Every step keeps the types.
LEMMA TypeStep == TypeOK /\ PassInv /\ RunInv /\ [Next]_vars => TypeOK'
<1>. SUFFICES ASSUME TypeOK, PassInv, RunInv, [Next]_vars PROVE TypeOK'
  OBVIOUS
<1>0. StoreType /\ PassType /\ ApiType
  BY TypeParts
<1>. SUFFICES (StoreType /\ PassType /\ ApiType)'
  BY TypeParts, PTL
<1>. USE <1>0
<1>1. ASSUME NEW o \in Ops, Queue(o) PROVE (StoreType /\ PassType /\ ApiType)'
  BY <1>1, RetryLimitAssumption
     DEF Queue, StoreType, PassType, ApiType, Records, Statuses, pass, api
<1>2. ASSUME NEW o \in Ops, ChangeScope(o) PROVE (StoreType /\ PassType /\ ApiType)'
  BY <1>2 DEF ChangeScope, StoreType, PassType, ApiType, store, pass
<1>3. ASSUME NEW p \in Passes, Pull(p) PROVE (StoreType /\ PassType /\ ApiType)'
  BY <1>3 DEF Pull, Goto, StoreType, PassType, ApiType, store, api
<1>4. ASSUME NEW p \in Passes, ReadRecords(p) PROVE (StoreType /\ PassType /\ ApiType)'
  BY <1>4 DEF ReadRecords, Goto, StoreType, PassType, ApiType, Records, store, api
<1>5. ASSUME NEW p \in Passes, Reconcile(p) \/ ReconcileLast(p)
      PROVE (StoreType /\ PassType /\ ApiType)'
  <2>1. Denials(p) \in [Ops -> Records]
    BY BumpType DEF Denials, StoreType, PassType, Records, Statuses
  <2>2. CASE Reconcile(p)
    BY <2>1, <2>2 DEF Reconcile, Goto, StoreType, PassType, ApiType, api
  <2>3. CASE ReconcileLast(p)
    BY <2>1, <2>3, LeaveType DEF ReconcileLast, StoreType, ApiType, api
  <2>. QED
    BY <1>5, <2>2, <2>3
<1>6. ASSUME NEW p \in Passes, ReadPending(p) PROVE (StoreType /\ PassType /\ ApiType)'
  BY <1>6 DEF ReadPending, Pending, Goto, StoreType, PassType, ApiType, Records, store, api
<1>7. ASSUME NEW p \in Passes, NothingPending(p) \/ Fail(p)
      PROVE (StoreType /\ PassType /\ ApiType)'
  BY <1>7, LeaveType DEF NothingPending, Fail, StoreType, ApiType, store, api
<1>8. ASSUME NEW p \in Passes, Mark(p) PROVE (StoreType /\ PassType /\ ApiType)'
  <2>1. Least(todo[p]) \in Ops
    BY <1>8, NextOfPass DEF Mark
  <2>2. outbox' \in [Ops -> Records]
    BY <1>8, <2>1, PutType DEF Mark, PassType, Statuses
  <2>. QED
    BY <1>8, <2>2 DEF Mark, StoreType, PassType, ApiType, api
<1>9. ASSUME NEW p \in Passes, Send(p) PROVE (StoreType /\ PassType /\ ApiType)'
  <2>1. run' \in [Runs -> RunRecords]
    <3>1. [NoRun EXCEPT !.state = "sent", !.client = p, !.left = batch[p]] \in RunRecords
      BY NoRunType DEF PassType, RunRecords
    <3>. QED
      BY <1>9, <3>1 DEF Send, ApiType
  <2>. QED
    BY <1>9, <2>1 DEF Send, Goto, StoreType, PassType, ApiType, store
<1>10. ASSUME NEW p \in Passes, GiveUp(p) PROVE (StoreType /\ PassType /\ ApiType)'
  BY <1>10, HangUpFacts DEF GiveUp, Goto, StoreType, PassType, ApiType, store
<1>11. ASSUME NEW p \in Passes, PutBack(p) PROVE (StoreType /\ PassType /\ ApiType)'
  <2>1. Least(todo[p]) \in Ops
    BY <1>11, NextOfPass DEF PutBack
  <2>2. Bump(copy[p][Least(todo[p])]) \in 0 .. RetryLimit
    BY <2>1, BumpType DEF PassType
  <2>3. outbox' \in [Ops -> Records]
    BY <1>11, <2>1, <2>2, PutType DEF PutBack, Statuses
  <2>. QED
    BY <1>11, <2>3 DEF PutBack, StoreType, PassType, ApiType, api
<1>12. ASSUME NEW p \in Passes, Receive(p) PROVE (StoreType /\ PassType /\ ApiType)'
  <2>1. PICK r \in Runs : /\ answer' = [answer EXCEPT ![p] = run[r].result]
                          /\ run' = [run EXCEPT ![r] = NoRun]
    BY <1>12 DEF Receive
  <2>2. run[r].result \in [Ops -> Outcomes]
    BY DEF ApiType, RunRecords
  <2>. QED
    BY <1>12, <2>1, <2>2, NoRunType DEF Receive, Goto, StoreType, PassType, ApiType, store
<1>13. ASSUME NEW p \in Passes, LookUp(p) \/ Skip(p)
       PROVE (StoreType /\ PassType /\ ApiType)'
  <2>1. Least(todo[p]) \in Ops
    BY <1>13, NextOfPass DEF LookUp, Skip
  <2>2. CASE LookUp(p)
    <3>1. outbox[Least(todo[p])].retries \in 0 .. RetryLimit
      BY <2>1 DEF StoreType, Records
    <3>. QED
      BY <2>1, <2>2, <3>1 DEF LookUp, Goto, StoreType, PassType, ApiType, store, api
  <2>3. CASE Skip(p)
    BY <2>1, <2>3 DEF Skip, StoreType, PassType, ApiType, store, api
  <2>. QED
    BY <1>13, <2>2, <2>3
<1>14. ASSUME NEW p \in Passes, Settle(p) PROVE (StoreType /\ PassType /\ ApiType)'
  <2>. DEFINE o == Least(todo[p])
  <2>1. o \in Ops
    BY <1>14, NextOfPass DEF Settle, PassInv
  <2>2. copy[p][o] \in 0 .. RetryLimit
    BY <2>1 DEF PassType
  <2>3. Filed(o, answer[p][o], copy[p][o]) \in Records
    BY <2>2, BumpType, RetryLimitAssumption DEF Filed, Records, Absent, Statuses
  <2>. QED
    BY <1>14, <2>1, <2>3 DEF Settle, Goto, StoreType, PassType, ApiType, api
<1>15. ASSUME NEW p \in Passes, Stop(p) PROVE (StoreType /\ PassType /\ ApiType)'
  <2>1. Unfiled(p) \subseteq Ops
    BY DEF Unfiled, PassType
  <2>2. PassType'
    BY <1>15, LeaveType DEF Stop
  <2>3. run' \in [Runs -> RunRecords]
    BY <1>15, HangUpFacts DEF Stop
  <2>. QED
    BY <1>15, <2>1, <2>2, <2>3 DEF Stop, StoreType, ApiType, store
<1>16. ASSUME NEW r \in Runs, Arrive(r) PROVE (StoreType /\ PassType /\ ApiType)'
  BY <1>16, ArriveFacts DEF Arrive, StoreType, PassType, ApiType, store, pass
<1>17. ASSUME NEW r \in Runs, Deny(r) \/ Apply(r) \/ Refuse(r)
       PROVE (StoreType /\ PassType /\ ApiType)'
  <2>1. Least(run[r].left) \in Ops
    BY <1>17, NextOfRun DEF Deny, Apply, Refuse
  <2>2. \E outcome \in Outcomes : Answer(r, Least(run[r].left), outcome)
    BY <1>17 DEF Deny, Apply, Refuse, Outcomes
  <2>3. run' \in [Runs -> RunRecords]
    BY <2>1, <2>2, AnswerFacts
  <2>. QED
    BY <1>17, <2>1, <2>3
       DEF Deny, Apply, Refuse, StoreType, PassType, ApiType, store, pass
<1>18. ASSUME NEW r \in Runs, Drop(r) PROVE (StoreType /\ PassType /\ ApiType)'
  BY <1>18, NoRunType DEF Drop, StoreType, PassType, ApiType, store, pass
<1>19. CASE UNCHANGED vars
  BY <1>19 DEF vars, store, pass, api, StoreType, PassType, ApiType
<1>. QED
  BY <1>1, <1>2, <1>3, <1>4, <1>5, <1>6, <1>7, <1>8, <1>9, <1>10, <1>11, <1>12, <1>13,
     <1>14, <1>15, <1>16, <1>17, <1>18, <1>19 DEF Next, Work, Proceed, Serve

-----------------------------------------------------------------------------
(* What a pass and a push have left to do. *)

\* Every step keeps PassInv.
LEMMA PassStep == TypeOK /\ PassInv /\ RunInv /\ [Next]_vars => PassInv'
<1>. SUFFICES ASSUME TypeOK, PassInv, RunInv, [Next]_vars, NEW q \in Passes
              PROVE  /\ (pc[q] = "read" => batch[q] = {})'
                     /\ (pc[q] \in {"marking", "pushing"} =>
                           batch[q] # {} /\ todo[q] \subseteq batch[q])'
                     /\ (pc[q] = "result" => todo[q] # {})'
  BY DEF PassInv
<1>0. PassType
  BY TypeParts
<1>. USE <1>0 DEF PassInv, PassType
<1>1. CASE UNCHANGED pass
  BY <1>1 DEF pass
<1>2. ASSUME NEW p \in Passes, Leave(p)
      PROVE  /\ (pc[q] = "read" => batch[q] = {})'
             /\ (pc[q] \in {"marking", "pushing"} =>
                   batch[q] # {} /\ todo[q] \subseteq batch[q])'
             /\ (pc[q] = "result" => todo[q] # {})'
  BY <1>2 DEF Leave, Goto
<1>3. ASSUME NEW p \in Passes, \/ Pull(p) \/ ReadRecords(p) \/ Reconcile(p) \/ ReadPending(p)
                               \/ Mark(p) \/ Send(p) \/ GiveUp(p) \/ PutBack(p)
                               \/ Receive(p) \/ LookUp(p) \/ Skip(p) \/ Settle(p)
      PROVE  /\ (pc[q] = "read" => batch[q] = {})'
             /\ (pc[q] \in {"marking", "pushing"} =>
                   batch[q] # {} /\ todo[q] \subseteq batch[q])'
             /\ (pc[q] = "result" => todo[q] # {})'
  <2>1. CASE Pull(p) \/ ReadRecords(p) \/ Reconcile(p)
    BY <2>1 DEF Pull, ReadRecords, Reconcile, Goto
  <2>2. CASE ReadPending(p)
    BY <2>2 DEF ReadPending, Goto
  <2>3. CASE Mark(p) \/ Send(p) \/ GiveUp(p)
    BY <2>3 DEF Mark, Send, GiveUp, Goto
  <2>4. CASE PutBack(p) \/ LookUp(p) \/ Skip(p) \/ Settle(p)
    BY <2>4 DEF PutBack, LookUp, Skip, Settle, Goto
  <2>5. CASE Receive(p)
    BY <2>5 DEF Receive, Goto
  <2>. QED
    BY <1>3, <2>1, <2>2, <2>3, <2>4, <2>5
<1>. QED
  BY <1>1, <1>2, <1>3
     DEF Next, Work, Proceed, Serve, vars, Queue, ChangeScope, ReconcileLast, NothingPending, Fail,
         Stop, Arrive, Deny, Apply, Refuse, Drop

\* Every step keeps RunInv.
LEMMA RunStep == TypeOK /\ PassInv /\ RunInv /\ [Next]_vars => RunInv'
<1>. SUFFICES ASSUME TypeOK, PassInv, RunInv, [Next]_vars, NEW q \in Runs
              PROVE  run'[q].state \in {"sent", "work"} => run'[q].left # {}
  BY DEF RunInv
<1>0. ApiType /\ PassType
  BY TypeParts
<1>. USE <1>0 DEF RunInv
<1>1. CASE UNCHANGED run
  BY <1>1
<1>2. ASSUME NEW p \in Passes, HangUp(p)
      PROVE  run'[q].state \in {"sent", "work"} => run'[q].left # {}
  BY <1>2, HangUpFacts
<1>3. ASSUME NEW p \in Passes, Send(p)
      PROVE  run'[q].state \in {"sent", "work"} => run'[q].left # {}
  <2>1. batch[p] # {}
    BY <1>3 DEF Send, PassInv
  <2>. QED
    BY <1>3, <2>1 DEF Send, ApiType, NoRun
<1>4. ASSUME NEW r \in Runs, run' = [run EXCEPT ![r] = NoRun]
      PROVE  run'[q].state \in {"sent", "work"} => run'[q].left # {}
  BY <1>4 DEF ApiType, NoRun
<1>5. ASSUME NEW r \in Runs, Arrive(r)
      PROVE  run'[q].state \in {"sent", "work"} => run'[q].left # {}
  BY <1>5, ArriveFacts DEF Arrive
<1>6. ASSUME NEW r \in Runs, Deny(r) \/ Apply(r) \/ Refuse(r)
      PROVE  run'[q].state \in {"sent", "work"} => run'[q].left # {}
  <2>1. Least(run[r].left) \in run[r].left /\ Least(run[r].left) \in Ops
    BY <1>6, NextOfRun DEF Deny, Apply, Refuse
  <2>2. \E outcome \in Outcomes : Answer(r, Least(run[r].left), outcome)
    BY <1>6 DEF Deny, Apply, Refuse, Outcomes
  <2>3. /\ q # r => run'[q] = run[q]
        /\ run'[r].left = run[r].left \ {Least(run[r].left)}
        /\ run'[r].state = IF run[r].left = {Least(run[r].left)} THEN "done" ELSE "work"
    BY <2>1, <2>2, AnswerFacts
  <2>. QED
    BY <2>1, <2>3
<1>. QED
  BY <1>1, <1>2, <1>3, <1>4, <1>5, <1>6
     DEF Next, Work, Proceed, Serve, vars, api, Queue, ChangeScope, Pull, ReadRecords, Reconcile,
         ReconcileLast, ReadPending, NothingPending, Mark, GiveUp, PutBack, Fail, Receive,
         LookUp, Skip, Settle, Stop, Drop

-----------------------------------------------------------------------------
(* Nothing is lost. *)

\* Every step keeps EffectInv: an effect is never undone.
LEMMA EffectStep == TypeOK /\ RunInv /\ EffectInv /\ [Next]_vars => EffectInv'
<1>. SUFFICES ASSUME TypeOK, RunInv, EffectInv, [Next]_vars PROVE EffectInv'
  OBVIOUS
<1>0. ApiType /\ PassType
  BY TypeParts
<1>. USE <1>0
<1>. DEFINE Answers == \A p \in Passes, o \in Ops : answer[p][o] = "accepted" => o \in applied
            Results == \A r \in Runs, o \in Ops : run[r].result[o] = "accepted" => o \in applied
<1>. SUFFICES (Answers /\ Results)'
  BY DEF EffectInv
<1>1. Answers /\ Results
  BY DEF EffectInv
<1>2. CASE UNCHANGED <<answer, applied, run>>
  BY <1>1, <1>2
<1>3. ASSUME NEW p \in Passes, Leave(p), UNCHANGED applied PROVE Answers'
  BY <1>1, <1>3 DEF Leave, PassType, NoAnswer
<1>4. ASSUME NEW p \in Passes, HangUp(p), UNCHANGED applied PROVE Results'
  BY <1>1, <1>4, HangUpFacts
<1>5. ASSUME NEW p \in Passes, Send(p) PROVE (Answers /\ Results)'
  <2>1. applied' = applied /\ answer' = answer
    BY <1>5 DEF Send
  <2>2. CASE UNCHANGED run
    BY <1>1, <2>1, <2>2
  <2>3. ASSUME NEW r \in Runs, NEW new, new.result = NoAnswer, run' = [run EXCEPT ![r] = new]
        PROVE  Results'
    <3>1. \A o \in Ops : new.result[o] # "accepted"
      BY <2>3 DEF NoAnswer
    <3>2. \A q \in Runs : run'[q] = run[q] \/ run'[q] = new
      BY <2>3 DEF ApiType
    <3>. QED
      BY <1>1, <2>1, <3>1, <3>2
  <2>4. [NoRun EXCEPT !.state = "sent", !.client = p, !.left = batch[p]].result = NoAnswer
    BY DEF NoRun
  <2>. QED
    BY <1>1, <1>5, <2>1, <2>2, <2>3, <2>4 DEF Send
<1>6. ASSUME NEW p \in Passes, Receive(p) PROVE (Answers /\ Results)'
  <2>1. PICK r \in Runs : /\ answer' = [answer EXCEPT ![p] = run[r].result]
                          /\ run' = [run EXCEPT ![r] = NoRun]
                          /\ applied' = applied
    BY <1>6 DEF Receive
  <2>. QED
    BY <1>1, <2>1 DEF PassType, ApiType, NoRun, NoAnswer
<1>7. ASSUME NEW r \in Runs, Drop(r) PROVE (Answers /\ Results)'
  BY <1>1, <1>7 DEF Drop, pass, ApiType, NoRun, NoAnswer
<1>8. ASSUME NEW r \in Runs, Arrive(r) PROVE (Answers /\ Results)'
  BY <1>1, <1>8, ArriveFacts DEF Arrive, pass
<1>9. ASSUME NEW r \in Runs, Deny(r) \/ Apply(r) \/ Refuse(r)
      PROVE  (Answers /\ Results)'
  <2>. DEFINE o == Least(run[r].left)
  <2>1. o \in Ops
    BY <1>9, NextOfRun DEF Deny, Apply, Refuse
  <2>2. PICK outcome \in Outcomes : /\ Answer(r, o, outcome)
                                    /\ outcome = "accepted" => o \in applied'
    BY <1>9 DEF Deny, Apply, Refuse, Outcomes
  <2>3. /\ \A q \in Runs \ {r} : run'[q] = run[q]
        /\ run'[r].result = [run[r].result EXCEPT ![o] = outcome]
        /\ run[r].result \in [Ops -> Outcomes]
    BY <2>1, <2>2, AnswerFacts DEF ApiType, RunRecords
  <2>4. applied \subseteq applied' /\ answer' = answer
    BY <1>9 DEF Deny, Apply, Refuse, pass
  <2>5. ASSUME NEW n \in Ops, run'[r].result[n] = "accepted" PROVE n \in applied'
    BY <1>1, <2>2, <2>3, <2>4, <2>5
  <2>. QED
    BY <1>1, <2>3, <2>4, <2>5
<1>10. CASE \E p \in Passes : GiveUp(p)
  BY <1>1, <1>4, <1>10 DEF GiveUp
<1>11. CASE \E p \in Passes : Stop(p)
  BY <1>1, <1>3, <1>4, <1>11 DEF Stop
<1>12. CASE \E p \in Passes : ReconcileLast(p) \/ NothingPending(p) \/ Fail(p)
  BY <1>1, <1>3, <1>12 DEF ReconcileLast, NothingPending, Fail, api
<1>. QED
  BY <1>2, <1>5, <1>6, <1>7, <1>8, <1>9, <1>10, <1>11, <1>12
     DEF Next, Work, Proceed, Serve, vars, pass, api, Queue, ChangeScope, Pull, ReadRecords,
         Reconcile, ReadPending, Mark, PutBack, LookUp, Skip, Settle

\* Every step keeps NothingLost: only an accepted operation is deleted.
LEMMA NothingLostStep ==
  IInv /\ [Next]_vars => NothingLost'
<1>. SUFFICES ASSUME IInv, [Next]_vars, NEW o \in queued', outbox'[o].status = "absent"
              PROVE  o \in applied'
  BY DEF NothingLost
<1>0. StoreType /\ PassType /\ applied \subseteq applied'
  <2>1. StoreType /\ PassType
    BY TypeParts DEF IInv
  <2>2. applied \subseteq applied'
    BY DEF Next, Work, Proceed, Serve, vars, api, Queue, ChangeScope, Pull, ReadRecords, Reconcile,
           ReconcileLast, ReadPending, NothingPending, Mark, Send, GiveUp, PutBack, Fail,
           Receive, LookUp, Skip, Settle, Stop, Arrive, Deny, Apply, Refuse, Drop
  <2>. QED
    BY <2>1, <2>2
<1>. USE <1>0 DEF IInv, NothingLost, StoreType
<1>1. CASE UNCHANGED store
  BY <1>1 DEF store
<1>2. ASSUME NEW p \in Ops, Queue(p) PROVE o \in applied'
  BY <1>2 DEF Queue
<1>3. ASSUME NEW p \in Passes, outbox' = Denials(p), UNCHANGED queued PROVE o \in applied'
  BY <1>3 DEF Denials
<1>4. ASSUME NEW p \in Passes, Mark(p) \/ PutBack(p) PROVE o \in applied'
  BY <1>4 DEF Mark, PutBack, Put
<1>5. ASSUME NEW p \in Passes, Settle(p) PROVE o \in applied'
  <2>1. CASE o # Least(todo[p])
    BY <1>5, <2>1 DEF Settle
  <2>2. CASE o = Least(todo[p])
    <3>1. Filed(o, answer[p][o], copy[p][o]).status = "absent"
      BY <1>5, <2>2 DEF Settle
    <3>2. answer[p][o] = "accepted"
      BY <3>1 DEF Filed
    <3>. QED
      BY <1>5, <3>2 DEF EffectInv, Settle
  <2>. QED
    BY <2>1, <2>2
<1>. QED
  BY <1>1, <1>2, <1>3, <1>4, <1>5
     DEF Next, Work, Proceed, Serve, vars, store, ChangeScope, Pull, ReadRecords, Reconcile,
         ReconcileLast, ReadPending, NothingPending, Send, GiveUp, Fail,
         Receive, LookUp, Skip, Stop, Arrive, Deny, Apply, Refuse, Drop

-----------------------------------------------------------------------------
(* A record marked 'syncing' is being worked on. *)

\* A step that leaves the stage, the batch and the list of a pass alone leaves alone
\* what it has to file.
LEMMA UnfiledSame ==
  ASSUME NEW p \in Passes, pc'[p] = pc[p], batch'[p] = batch[p], todo'[p] = todo[p]
  PROVE  Unfiled(p)' = Unfiled(p)
BY DEF Unfiled

\* Every step keeps SyncingHasOwner.
LEMMA SyncingStep == IInv /\ [Next]_vars => SyncingHasOwner'
<1>. SUFFICES ASSUME IInv, [Next]_vars, NEW o \in Ops, outbox'[o].status = "syncing"
              PROVE  o \in abandoned' \/ \E q \in Passes : o \in Unfiled(q)'
  BY DEF SyncingHasOwner
<1>. DEFINE Goal == o \in abandoned' \/ \E q \in Passes : o \in Unfiled(q)'
<1>0. StoreType /\ PassType /\ PassInv
  BY TypeParts DEF IInv
<1>. USE <1>0
<1>1. outbox[o].status = "syncing" => o \in abandoned \/ \E q \in Passes : o \in Unfiled(q)
  BY DEF IInv, SyncingHasOwner
<1>2. CASE UNCHANGED <<store, pass, abandoned>>
  BY <1>1, <1>2 DEF store, pass, Unfiled
<1>3. ASSUME NEW p \in Passes,
             \A q \in Passes \ {p} : pc'[q] = pc[q] /\ batch'[q] = batch[q] /\ todo'[q] = todo[q],
             abandoned \subseteq abandoned',
             o \in Unfiled(p) => o \in Unfiled(p)' \cup abandoned',
             outbox'[o].status = outbox[o].status
      PROVE  Goal
  BY <1>1, <1>3, UnfiledSame
<1>4. ASSUME NEW n \in Ops, Queue(n) PROVE Goal
  <2>1. outbox'[o].status = outbox[o].status
    BY <1>4 DEF Queue, StoreType
  <2>. QED
    BY <1>1, <1>4, <2>1 DEF Queue, pass, Unfiled
<1>5. ASSUME NEW p \in Passes, Pull(p) PROVE Goal
  <2>1. Unfiled(p) = {}
    BY <1>5 DEF Pull, Unfiled
  <2>. QED
    BY <1>3, <1>5, <2>1 DEF Pull, Goto, PassType, store
<1>6. ASSUME NEW p \in Passes, ReadRecords(p) PROVE Goal
  <2>1. Unfiled(p) = {}
    BY <1>6 DEF ReadRecords, Unfiled
  <2>. QED
    BY <1>3, <1>6, <2>1 DEF ReadRecords, Goto, PassType, store
<1>7. ASSUME NEW p \in Passes, Reconcile(p) PROVE Goal
  <2>1. Unfiled(p) = {}
    BY <1>7 DEF Reconcile, Unfiled
  <2>2. outbox'[o].status = outbox[o].status
    BY <1>7 DEF Reconcile, Denials
  <2>. QED
    BY <1>3, <1>7, <2>1, <2>2 DEF Reconcile, Goto, PassType
<1>8. ASSUME NEW p \in Passes, ReconcileLast(p) PROVE Goal
  <2>1. Unfiled(p) = {}
    BY <1>8 DEF ReconcileLast, Unfiled
  <2>2. outbox'[o].status = outbox[o].status
    BY <1>8 DEF ReconcileLast, Denials
  <2>. QED
    BY <1>3, <1>8, <2>1, <2>2 DEF ReconcileLast, Leave, Goto, PassType
<1>9. ASSUME NEW p \in Passes, ReadPending(p) PROVE Goal
  <2>1. Unfiled(p) = {}
    BY <1>9 DEF ReadPending, Unfiled
  <2>. QED
    BY <1>3, <1>9, <2>1 DEF ReadPending, Goto, PassType, store
<1>10. ASSUME NEW p \in Passes, NothingPending(p) \/ Fail(p) PROVE Goal
  <2>1. Unfiled(p) = {}
    BY <1>10 DEF NothingPending, Fail, Unfiled
  <2>. QED
    BY <1>3, <1>10, <2>1 DEF NothingPending, Fail, Leave, Goto, PassType, store
<1>11. ASSUME NEW p \in Passes, Mark(p) PROVE Goal
  <2>1. Unfiled(p) = batch[p] /\ Unfiled(p)' = batch[p]
    BY <1>11 DEF Mark, Unfiled
  <2>2. CASE o = Least(todo[p])
    <3>1. o \in batch[p]
      BY <1>11, <2>2, NextOfPass DEF Mark, PassInv, IInv
    <3>. QED
      BY <2>1, <3>1
  <2>3. CASE o # Least(todo[p])
    <3>1. outbox'[o].status = outbox[o].status
      BY <1>11, <2>3 DEF Mark, Put, StoreType
    <3>. QED
      BY <1>3, <1>11, <2>1, <3>1 DEF Mark, PassType
  <2>. QED
    BY <2>2, <2>3
<1>12. ASSUME NEW p \in Passes, Send(p) \/ GiveUp(p) PROVE Goal
  <2>1. Unfiled(p) = batch[p] /\ Unfiled(p)' = batch[p]
    BY <1>12 DEF Send, GiveUp, Goto, Unfiled, PassType
  <2>. QED
    BY <1>3, <1>12, <2>1 DEF Send, GiveUp, Goto, PassType, store
<1>13. ASSUME NEW p \in Passes, Receive(p) PROVE Goal
  <2>1. Unfiled(p) = batch[p] /\ Unfiled(p)' = batch[p]
    BY <1>13 DEF Receive, Goto, Unfiled, PassType
  <2>. QED
    BY <1>3, <1>13, <2>1 DEF Receive, Goto, PassType, store
<1>14. ASSUME NEW p \in Passes, PutBack(p) \/ Settle(p) PROVE Goal
  <2>1. Unfiled(p) = todo[p] /\ Unfiled(p)' = todo[p] \ {Least(todo[p])}
    BY <1>14 DEF PutBack, Settle, Goto, Unfiled, PassType
  <2>2. o # Least(todo[p])
    <3>1. CASE PutBack(p)
      BY <3>1 DEF PutBack, Put, StoreType
    <3>2. CASE Settle(p)
      BY <3>2 DEF Settle, Filed, Absent, StoreType
    <3>. QED
      BY <1>14, <3>1, <3>2
  <2>3. outbox'[o].status = outbox[o].status
    BY <1>14, <2>2 DEF PutBack, Settle, Put, StoreType
  <2>. QED
    BY <1>3, <1>14, <2>1, <2>2, <2>3 DEF PutBack, Settle, Goto, PassType
<1>15. ASSUME NEW p \in Passes, LookUp(p) PROVE Goal
  <2>1. Unfiled(p) = todo[p] /\ Unfiled(p)' = todo[p]
    BY <1>15 DEF LookUp, Goto, Unfiled, PassType
  <2>. QED
    BY <1>3, <1>15, <2>1 DEF LookUp, Goto, PassType, store
<1>16. ASSUME NEW p \in Passes, Skip(p) PROVE Goal
  <2>1. Unfiled(p) = todo[p] /\ Unfiled(p)' = todo[p] \ {Least(todo[p])}
    BY <1>16 DEF Skip, Unfiled, PassType
  <2>2. o # Least(todo[p]) /\ outbox'[o].status = outbox[o].status
    BY <1>16 DEF Skip, Present, store
  <2>. QED
    BY <1>3, <1>16, <2>1, <2>2 DEF Skip, PassType
<1>17. ASSUME NEW p \in Passes, Stop(p) PROVE Goal
  BY <1>3, <1>17 DEF Stop, Leave, Goto, PassType, store
<1>. QED
  BY <1>2, <1>4, <1>5, <1>6, <1>7, <1>8, <1>9, <1>10, <1>11, <1>12, <1>13, <1>14, <1>15,
     <1>16, <1>17
     DEF Next, Work, Proceed, Serve, vars, ChangeScope, Arrive, Deny, Apply, Refuse, Drop, api

-----------------------------------------------------------------------------
\* The inductive invariant.
THEOREM OfflineSyncInvariant == Spec => []IInv
<1>1. IInv /\ [Next]_vars => IInv'
  BY TypeStep, PassStep, RunStep, EffectStep, NothingLostStep, SyncingStep DEF IInv
<1>. QED
  BY InitIInv, <1>1, PTL DEF Spec

\* Every variable keeps its type.
THEOREM OfflineSyncTypes == Spec => []TypeOK
BY OfflineSyncInvariant, PTL DEF IInv

\* A record leaves the outbox only when its operation has taken effect.
THEOREM OfflineWritesAreKept == Spec => []NothingLost
BY OfflineSyncInvariant, PTL DEF IInv

\* Only a pass that stopped leaves a record marked 'syncing' behind.
THEOREM SyncingIsTemporary == Spec => []SyncingHasOwner
BY OfflineSyncInvariant, PTL DEF IInv
-----------------------------------------------------------------------------
(* A pass that is alone. *)

OnePass == \A p, q \in Passes : p = q

\* Only queued operations have records, and passes know of no others.
KnownInv ==
  /\ \A o \in Ops : Present(o) => o \in queued
  /\ \A p \in Passes : denied[p] \subseteq queued /\ batch[p] \subseteq queued
                       /\ todo[p] \subseteq queued

\* What a pass that is alone has read is still so when it writes.
AloneInv ==
  \A p \in Passes :
    /\ pc[p] = "read" => \A o \in denied[p] : outbox[o].status = "failed"
    /\ pc[p] = "marking" =>
         /\ \A o \in todo[p] : outbox[o].status = "pending"
         /\ \A o \in batch[p] \ todo[p] : outbox[o].status = "syncing"
    /\ pc[p] = "pushing" => \A o \in batch[p] : outbox[o].status = "syncing"
    /\ pc[p] = "failing" => \A o \in todo[p] : outbox[o].status = "syncing"

\* Every step keeps KnownInv.
LEMMA KnownStep == IInv /\ KnownInv /\ [Next]_vars => KnownInv'
<1>. SUFFICES ASSUME IInv, KnownInv, [Next]_vars PROVE KnownInv'
  OBVIOUS
<1>0. StoreType /\ PassType /\ PassInv
  BY TypeParts DEF IInv
<1>. USE <1>0
<1>. DEFINE Lists == \A p \in Passes : denied[p] \subseteq queued /\ batch[p] \subseteq queued
                                       /\ todo[p] \subseteq queued
            Have == \A o \in Ops : Present(o) => o \in queued
<1>1. Lists /\ Have
  BY DEF KnownInv
<1>. SUFFICES Lists' /\ Have'
  BY DEF KnownInv
<1>2. CASE UNCHANGED <<store, pass>>
  BY <1>1, <1>2 DEF store, pass, Present
<1>3. ASSUME NEW o \in Ops, Queue(o) PROVE Lists' /\ Have'
  BY <1>1, <1>3 DEF Queue, Present, StoreType, pass
<1>4. ASSUME NEW p \in Passes, Leave(p), UNCHANGED queued PROVE Lists'
  BY <1>1, <1>4 DEF Leave, PassType
<1>5. ASSUME UNCHANGED store PROVE Have'
  BY <1>1, <1>5 DEF store, Present
<1>6. ASSUME NEW p \in Passes, Pull(p) \/ Send(p) \/ GiveUp(p) \/ Receive(p) \/ LookUp(p) \/ Skip(p)
      PROVE Lists' /\ Have'
  <2>1. UNCHANGED store
    BY <1>6 DEF Pull, Send, GiveUp, Receive, LookUp, Skip
  <2>2. Lists'
    BY <1>1, <1>6 DEF Pull, Send, GiveUp, Receive, LookUp, Skip, store, PassType
  <2>. QED
    BY <1>5, <2>1, <2>2
<1>7. ASSUME NEW p \in Passes, ReadRecords(p) PROVE Lists' /\ Have'
  <2>1. {o \in Ops : Present(o)} \subseteq queued
    BY <1>1
  <2>. QED
    BY <1>1, <1>5, <1>7, <2>1 DEF ReadRecords, store, PassType
<1>8. ASSUME NEW p \in Passes, ReadPending(p) PROVE Lists' /\ Have'
  <2>1. Pending \subseteq queued
    BY <1>1 DEF Pending, Present
  <2>. QED
    BY <1>1, <1>5, <1>8, <2>1 DEF ReadPending, store, PassType
<1>9. ASSUME NEW p \in Passes, outbox' = Denials(p), UNCHANGED queued PROVE Have'
  BY <1>1, <1>9 DEF Denials, Present
<1>10. ASSUME NEW p \in Passes, Reconcile(p) PROVE Lists' /\ Have'
  BY <1>1, <1>9, <1>10 DEF Reconcile
<1>11. ASSUME NEW p \in Passes, ReconcileLast(p) PROVE Lists' /\ Have'
  BY <1>4, <1>9, <1>11 DEF ReconcileLast
<1>12. ASSUME NEW p \in Passes, Mark(p) \/ PutBack(p) \/ Settle(p) PROVE Lists' /\ Have'
  <2>1. Least(todo[p]) \in queued
    <3>1. todo[p] # {}
      BY <1>12 DEF Mark, PutBack, Settle, PassInv
    <3>. QED
      BY <1>1, <3>1, NextOfPass DEF IInv
  <2>2. Lists'
    BY <1>1, <1>12 DEF Mark, PutBack, Settle, PassType
  <2>3. \A o \in Ops : o # Least(todo[p]) => outbox'[o] = outbox[o]
    BY <1>12 DEF Mark, PutBack, Settle, Put, StoreType
  <2>4. queued' = queued
    BY <1>12 DEF Mark, PutBack, Settle
  <2>. QED
    BY <1>1, <2>1, <2>2, <2>3, <2>4 DEF Present
<1>13. ASSUME NEW p \in Passes, NothingPending(p) \/ Fail(p) \/ Stop(p) PROVE Lists' /\ Have'
  <2>1. UNCHANGED store /\ Leave(p)
    BY <1>13 DEF NothingPending, Fail, Stop
  <2>. QED
    BY <1>4, <1>5, <2>1 DEF store
<1>. QED
  BY <1>2, <1>3, <1>6, <1>7, <1>8, <1>10, <1>11, <1>12, <1>13
     DEF Next, Work, Proceed, Serve, vars, ChangeScope, Arrive, Deny, Apply, Refuse, Drop

\* Every step keeps AloneInv.
LEMMA AloneStep ==
  OnePass /\ IInv /\ KnownInv /\ AloneInv /\ [Next]_vars => AloneInv'
<1>. SUFFICES ASSUME OnePass, IInv, KnownInv, AloneInv, [Next]_vars, NEW q \in Passes
              PROVE  /\ pc'[q] = "read" => \A o \in denied'[q] : outbox'[o].status = "failed"
                     /\ pc'[q] = "marking" =>
                          /\ \A o \in todo'[q] : outbox'[o].status = "pending"
                          /\ \A o \in batch'[q] \ todo'[q] : outbox'[o].status = "syncing"
                     /\ pc'[q] = "pushing" => \A o \in batch'[q] : outbox'[o].status = "syncing"
                     /\ pc'[q] = "failing" => \A o \in todo'[q] : outbox'[o].status = "syncing"
  BY DEF AloneInv
<1>. DEFINE
       Goal == /\ pc'[q] = "read" => \A o \in denied'[q] : outbox'[o].status = "failed"
               /\ pc'[q] = "marking" =>
                    /\ \A o \in todo'[q] : outbox'[o].status = "pending"
                    /\ \A o \in batch'[q] \ todo'[q] : outbox'[o].status = "syncing"
               /\ pc'[q] = "pushing" => \A o \in batch'[q] : outbox'[o].status = "syncing"
               /\ pc'[q] = "failing" => \A o \in todo'[q] : outbox'[o].status = "syncing"
<1>0. StoreType /\ PassType
  BY TypeParts DEF IInv
<1>. USE <1>0
<1>1. /\ pc[q] = "read" => \A o \in denied[q] : outbox[o].status = "failed"
      /\ pc[q] = "marking" =>
           /\ \A o \in todo[q] : outbox[o].status = "pending"
           /\ \A o \in batch[q] \ todo[q] : outbox[o].status = "syncing"
      /\ pc[q] = "pushing" => \A o \in batch[q] : outbox[o].status = "syncing"
      /\ pc[q] = "failing" => \A o \in todo[q] : outbox[o].status = "syncing"
  BY DEF AloneInv
<1>2. CASE UNCHANGED <<store, pass>>
  BY <1>1, <1>2 DEF store, pass
<1>3. ASSUME NEW n \in Ops, Queue(n) PROVE Goal
  <2>1. n \notin denied[q] \cup batch[q] \cup todo[q]
    BY <1>3 DEF Queue, KnownInv
  <2>2. \A o \in Ops : o # n => outbox'[o] = outbox[o]
    BY <1>3 DEF Queue, StoreType
  <2>. QED
    BY <1>1, <1>3, <2>1, <2>2 DEF Queue, pass, PassType
<1>4. ASSUME pc'[q] \notin {"read", "marking", "pushing", "failing"} PROVE Goal
  BY <1>4
<1>5. CASE \/ Pull(q) \/ ReadRecords(q) \/ ReconcileLast(q) \/ NothingPending(q) \/ Fail(q)
           \/ Receive(q) \/ LookUp(q) \/ Settle(q) \/ Stop(q)
  BY <1>4, <1>5 DEF Pull, ReadRecords, ReconcileLast, NothingPending, Fail, Receive, LookUp,
                    Settle, Stop, Leave, Goto, PassType
<1>6. CASE Skip(q)
  BY <1>4, <1>6 DEF Skip
<1>7. CASE Reconcile(q)
  BY <1>7 DEF Reconcile, Denials, Goto, PassType
<1>8. CASE ReadPending(q)
  BY <1>8 DEF ReadPending, Pending, Goto, PassType, store
<1>9. CASE Mark(q)
  <2>1. outbox'[Least(todo[q])].status = "syncing"
    BY <1>9, NextOfPass DEF Mark, Put, StoreType, IInv
  <2>2. \A o \in Ops : o # Least(todo[q]) => outbox'[o] = outbox[o]
    BY <1>9 DEF Mark, Put, StoreType
  <2>3. pc' = pc /\ batch' = batch /\ todo'[q] = todo[q] \ {Least(todo[q])}
    BY <1>9 DEF Mark, PassType
  <2>4. batch[q] \subseteq Ops /\ todo[q] \subseteq Ops /\ pc[q] = "marking"
    BY <1>9 DEF Mark, PassType
  <2>. QED
    BY <1>1, <2>1, <2>2, <2>3, <2>4
<1>10. CASE Send(q)
  BY <1>1, <1>10 DEF Send, Goto, PassType, store
<1>11. CASE GiveUp(q)
  BY <1>1, <1>11 DEF GiveUp, Goto, PassType, store
<1>12. CASE PutBack(q)
  <2>1. \A o \in Ops : o # Least(todo[q]) => outbox'[o] = outbox[o]
    BY <1>12 DEF PutBack, Put, StoreType
  <2>2. pc' = pc /\ todo'[q] = todo[q] \ {Least(todo[q])}
    BY <1>12 DEF PutBack, PassType
  <2>3. todo[q] \subseteq Ops /\ pc[q] = "failing"
    BY <1>12 DEF PutBack, PassType
  <2>. QED
    BY <1>1, <2>1, <2>2, <2>3
<1>13. \A p \in Passes : p = q
  BY DEF OnePass
<1>. QED
  BY <1>2, <1>3, <1>5, <1>6, <1>7, <1>8, <1>9, <1>10, <1>11, <1>12, <1>13
     DEF Next, Work, Proceed, Serve, vars, ChangeScope, Arrive, Deny, Apply, Refuse, Drop

\* Every step keeps DeniedIsNotPushed.
LEMMA DeniedStep ==
  IInv /\ AloneInv /\ DeniedIsNotPushed /\ [Next]_vars => DeniedIsNotPushed'
<1>. SUFFICES ASSUME IInv, AloneInv, DeniedIsNotPushed, [Next]_vars, NEW q \in Passes,
                     pc'[q] # "reconcile"
              PROVE  batch'[q] \cap denied'[q] = {}
  BY DEF DeniedIsNotPushed
<1>0. PassType
  BY TypeParts DEF IInv
<1>. USE <1>0 DEF DeniedIsNotPushed, PassType
<1>1. CASE UNCHANGED <<pc, batch, denied>>
  BY <1>1
<1>2. ASSUME NEW p \in Passes, Leave(p) PROVE batch'[q] \cap denied'[q] = {}
  BY <1>2 DEF Leave, Goto
<1>3. ASSUME NEW p \in Passes, Pull(p) \/ Send(p) \/ GiveUp(p) \/ Receive(p) \/ LookUp(p) \/ Settle(p)
      PROVE  batch'[q] \cap denied'[q] = {}
  BY <1>3 DEF Pull, Send, GiveUp, Receive, LookUp, Settle, Goto
<1>4. ASSUME NEW p \in Passes, ReadRecords(p) \/ Reconcile(p)
      PROVE  batch'[q] \cap denied'[q] = {}
  BY <1>4 DEF ReadRecords, Reconcile, Goto
<1>5. ASSUME NEW p \in Passes, ReadPending(p) PROVE batch'[q] \cap denied'[q] = {}
  <2>1. Pending \cap denied[p] = {}
    BY <1>5 DEF ReadPending, AloneInv, Pending
  <2>. QED
    BY <1>5, <2>1 DEF ReadPending, Goto
<1>. QED
  BY <1>1, <1>2, <1>3, <1>4, <1>5
     DEF Next, Work, Proceed, Serve, vars, pass, Queue, ChangeScope, ReconcileLast, NothingPending,
         Mark, PutBack, Skip, Fail, Stop, Arrive, Deny, Apply, Refuse, Drop

\* A step of a pass that is alone leaves settled operations settled.
LEMMA SettledStep ==
  IInv /\ KnownInv /\ AloneInv /\ [Next]_vars =>
    \A o \in queued : Settled(o) => Settled(o)'
<1>. SUFFICES ASSUME IInv, KnownInv, AloneInv, [Next]_vars, NEW o \in queued, Settled(o)
              PROVE  Settled(o)'
  OBVIOUS
<1>0. StoreType /\ PassType /\ o \in Ops
  BY TypeParts DEF IInv, StoreType
<1>. USE <1>0 DEF Settled
<1>1. CASE UNCHANGED store
  BY <1>1 DEF store
<1>2. ASSUME NEW n \in Ops, Queue(n) PROVE Settled(o)'
  BY <1>2 DEF Queue, StoreType
<1>3. ASSUME NEW p \in Passes, outbox' = Denials(p) PROVE Settled(o)'
  BY <1>3 DEF Denials
<1>4. ASSUME NEW p \in Passes, Mark(p) \/ PutBack(p) PROVE Settled(o)'
  <2>1. Least(todo[p]) \in todo[p]
    BY <1>4, NextOfPass DEF Mark, PutBack, IInv
  <2>2. o # Least(todo[p])
    BY <1>4, <2>1 DEF Mark, PutBack, AloneInv
  <2>. QED
    BY <1>4, <2>2 DEF Mark, PutBack, Put, StoreType
<1>5. ASSUME NEW p \in Passes, Settle(p) PROVE Settled(o)'
  BY <1>5 DEF Settle, Filed, Absent, StoreType
<1>. QED
  BY <1>1, <1>2, <1>3, <1>4, <1>5
     DEF Next, Work, Proceed, Serve, vars, store, ChangeScope, Pull, ReadRecords, Reconcile,
         ReconcileLast, ReadPending, NothingPending, Send, GiveUp, Fail,
         Receive, LookUp, Skip, Stop, Arrive, Deny, Apply, Refuse, Drop

\* The invariants of a pass that is alone.
LEMMA AloneInvariant ==
  ASSUME OnePass
  PROVE  Spec => [](IInv /\ KnownInv /\ AloneInv /\ DeniedIsNotPushed)
<1>1. Init => KnownInv /\ AloneInv /\ DeniedIsNotPushed
  BY DEF Init, KnownInv, AloneInv, DeniedIsNotPushed, Present, Absent
<1>2. IInv /\ [Next]_vars => IInv'
  BY TypeStep, PassStep, RunStep, EffectStep, NothingLostStep, SyncingStep DEF IInv
<1>3. IInv /\ KnownInv /\ AloneInv /\ DeniedIsNotPushed /\ [Next]_vars
        => (KnownInv /\ AloneInv /\ DeniedIsNotPushed)'
  BY KnownStep, AloneStep, DeniedStep
<1>. QED
  BY InitIInv, <1>1, <1>2, <1>3, PTL DEF Spec

\* With one pass at a time, what is found outside of the user's scopes is not pushed.
THEOREM DeniedStaysHere ==
  ASSUME OnePass
  PROVE  Spec => []DeniedIsNotPushed
BY AloneInvariant, PTL

\* With one pass at a time, a settled operation stays settled.
THEOREM SettledStaysSettled ==
  ASSUME OnePass
  PROVE  Spec => SettledIsFinal
<1>1. IInv /\ KnownInv /\ AloneInv /\ [Next]_vars =>
        [\A o \in queued : Settled(o) => Settled(o)']_outbox
  BY SettledStep
<1>. QED
  BY AloneInvariant, <1>1, PTL DEF Spec, SettledIsFinal
=============================================================================
