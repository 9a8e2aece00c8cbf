---------------------------- MODULE OfflineSync ----------------------------
(***************************************************************************)
(* The offline outbox of mbam-web and the push it is emptied by.  Writes   *)
(* made offline are records of an IndexedDB store; a pass of               *)
(* synchronizeOfflineChanges pulls, reconciles the records with the        *)
(* current authorization, pushes the pending ones to the API and files     *)
(* the answers.                                                            *)
(*                                                                         *)
(* Every access to the store is an IndexedDB transaction of its own and so *)
(* a step of its own: a pass works on copies of records that may have      *)
(* changed since.  Nothing keeps passes apart: each open tab starts one,   *)
(* and so does every "online" event.  A pass stops anywhere when its tab   *)
(* is closed or an await throws.  A push may be lost, answered too late,   *)
(* or go on at the server after the client has given up waiting for it.    *)
(***************************************************************************)
EXTENDS Integers

CONSTANTS
  Ops,          \* operation ids; the order of Nat stands for the key order
  Passes,       \* passes of synchronizeOfflineChanges that may overlap
  Revocable,    \* operations whose scope the user may lose and get again
  Runs,         \* pushes the API works on at the same time
  RetryLimit,   \* the failed pushes after which a record is given up (5)
  None          \* no pass

ASSUME OpsAssumption == Ops \subseteq Nat

ASSUME RetryLimitAssumption == RetryLimit \in Nat \ {0}

ASSUME NoneAssumption == None \notin Passes

VARIABLES
  outbox,     \* the record of each operation: status and retryCount
  queued,     \* the operations queued so far
  pc,         \* what a pass does next
  seen,       \* the operations inside the scopes its last pull returned
  denied,     \* the records its last reconciliation found outside of them
  batch,      \* the operations it pushes
  copy,       \* retryCount of the records it has read
  todo,       \* the operations of its batch it has not come to yet
  answer,     \* the outcomes its push was answered with
  abandoned,  \* operations that were marked when the pass with them stopped
  permitted,  \* the operations inside the user's scopes, at the API
  applied,    \* the operations that have taken effect in the database
  run         \* the pushes at the API

store == <<outbox, queued>>
pass  == <<pc, seen, denied, batch, copy, todo, answer>>
api   == <<permitted, applied, run>>
vars  == <<store, pass, abandoned, api>>

Least(S) == CHOOSE o \in S : \A q \in S : o <= q

Absent == [status |-> "absent", retries |-> 0]

Present(o) == outbox[o].status # "absent"

Pending == {o \in Ops : outbox[o].status = "pending"}

\* `retryCount + 1`; from the limit on, the code does not tell counts apart.
Bump(n) == IF n < RetryLimit THEN n + 1 ELSE RetryLimit

NoAnswer == [o \in Ops |-> "none"]

NoCopy == [o \in Ops |-> 0]

NoRun == [state |-> "free", client |-> None, left |-> {}, allowed |-> {},
          result |-> NoAnswer]

-----------------------------------------------------------------------------
Init ==
  /\ outbox = [o \in Ops |-> Absent]
  /\ queued = {}
  /\ pc = [p \in Passes |-> "idle"]
  /\ seen = [p \in Passes |-> {}]
  /\ denied = [p \in Passes |-> {}]
  /\ batch = [p \in Passes |-> {}]
  /\ copy = [p \in Passes |-> NoCopy]
  /\ todo = [p \in Passes |-> {}]
  /\ answer = [p \in Passes |-> NoAnswer]
  /\ abandoned = {}
  /\ permitted = Ops
  /\ applied = {}
  /\ run = [r \in Runs |-> NoRun]

-----------------------------------------------------------------------------
(* The writers of the outbox, and the administrator. *)

\* queueOfflineOperation: an operation has a fresh id.  Its scope was checked
\* against the offline grant, which may be out of date.
Queue(o) ==
  /\ o \notin queued
  /\ queued' = queued \cup {o}
  /\ outbox' = [outbox EXCEPT ![o] = [status |-> "pending", retries |-> 0]]
  /\ UNCHANGED <<pass, abandoned, api>>

\* A change of the user's roles or scopes.
ChangeScope(o) ==
  /\ o \in Revocable
  /\ \/ permitted' = permitted \cup {o}
     \/ permitted' = permitted \ {o}
  /\ UNCHANGED <<store, pass, abandoned, applied, run>>

-----------------------------------------------------------------------------
(* A pass of synchronizeOfflineChanges. *)

Goto(p, where) == pc' = [pc EXCEPT ![p] = where]

Put(o, status, retries) ==
  outbox' = [outbox EXCEPT ![o] = [status |-> status, retries |-> retries]]

\* The pass is over and its variables are gone.
Leave(p) ==
  /\ Goto(p, "idle")
  /\ seen' = [seen EXCEPT ![p] = {}]
  /\ denied' = [denied EXCEPT ![p] = {}]
  /\ batch' = [batch EXCEPT ![p] = {}]
  /\ copy' = [copy EXCEPT ![p] = NoCopy]
  /\ todo' = [todo EXCEPT ![p] = {}]
  /\ answer' = [answer EXCEPT ![p] = NoAnswer]

\* The push of p has no client any more that waits for the answer.
HangUp(p) ==
  run' = [r \in Runs |->
            IF run[r].client = p THEN [run[r] EXCEPT !.client = None] ELSE run[r]]

\* A pass starts with a pull, and ends with one if it has pushed anything.  A first
\* pull that fails ends the pass before it has read a record: nothing changes, no
\* attempt is counted.
Pull(p) ==
  /\ \/ pc[p] = "idle"
     \/ pc[p] = "results" /\ todo[p] = {}
  /\ Goto(p, "pulled")
  /\ seen' = [seen EXCEPT ![p] = permitted]
  /\ UNCHANGED <<store, denied, batch, copy, todo, answer, abandoned, api>>

\* reconcileOfflineOutbox reads all records before its transaction begins.
ReadRecords(p) ==
  /\ pc[p] = "pulled"
  /\ denied' = [denied EXCEPT ![p] = {o \in Ops : Present(o)} \ seen[p]]
  /\ copy' = [copy EXCEPT ![p] = [o \in Ops |-> outbox[o].retries]]
  /\ Goto(p, "reconcile")
  /\ UNCHANGED <<store, seen, batch, todo, answer, abandoned, api>>

\* Mutant of Denials: the records are counted and keep their status.
DenialsCounted(p) ==
  [o \in Ops |-> IF o \in denied[p] THEN [outbox[o] EXCEPT !.retries = Bump(copy[p][o])]
                                    ELSE outbox[o]]

\* The transaction of reconcileOfflineOutbox puts back what was read.
Denials(p) ==
  [o \in Ops |-> IF o \in denied[p] THEN [status |-> "failed", retries |-> Bump(copy[p][o])]
                                    ELSE outbox[o]]

Reconcile(p) ==
  /\ pc[p] = "reconcile"
  /\ batch[p] = {}
  /\ outbox' = Denials(p)
  /\ Goto(p, "read")
  /\ UNCHANGED <<queued, seen, denied, batch, copy, todo, answer, abandoned, api>>

ReconcileLast(p) ==
  /\ pc[p] = "reconcile"
  /\ batch[p] # {}
  /\ outbox' = Denials(p)
  /\ Leave(p)
  /\ UNCHANGED <<queued, abandoned, api>>

\* Mutant of ReadPending: the records are not selected by status.
ReadUnsettled(p) ==
  /\ pc[p] = "read"
  /\ \E o \in Ops : Present(o)
  /\ batch' = [batch EXCEPT ![p] = {o \in Ops : Present(o)}]
  /\ todo' = [todo EXCEPT ![p] = {o \in Ops : Present(o)}]
  /\ copy' = [copy EXCEPT ![p] = [o \in Ops |-> outbox[o].retries]]
  /\ Goto(p, "marking")
  /\ UNCHANGED <<store, seen, denied, answer, abandoned, api>>

\* getOutboxRecordsByStatus("pending"); the payloads are then decrypted.
ReadPending(p) ==
  /\ pc[p] = "read"
  /\ Pending # {}
  /\ batch' = [batch EXCEPT ![p] = Pending]
  /\ todo' = [todo EXCEPT ![p] = Pending]
  /\ copy' = [copy EXCEPT ![p] = [o \in Ops |-> outbox[o].retries]]
  /\ Goto(p, "marking")
  /\ UNCHANGED <<store, seen, denied, answer, abandoned, api>>

NothingPending(p) ==
  /\ pc[p] = "read"
  /\ Pending = {}
  /\ Leave(p)
  /\ UNCHANGED <<store, abandoned, api>>

Mark(p) ==
  LET o == Least(todo[p]) IN
  /\ pc[p] = "marking"
  /\ todo[p] # {}
  /\ Put(o, "syncing", copy[p][o])
  /\ todo' = [todo EXCEPT ![p] = @ \ {o}]
  /\ UNCHANGED <<queued, pc, seen, denied, batch, copy, answer, abandoned, api>>

\* The push is on its way, or lost on it.
Send(p) ==
  /\ pc[p] = "marking"
  /\ todo[p] = {}
  /\ Goto(p, "pushing")
  /\ \/ UNCHANGED run
     \/ \E r \in Runs :
          /\ run[r] = NoRun
          /\ run' = [run EXCEPT ![r] = [NoRun EXCEPT !.state = "sent",
                                                     !.client = p,
                                                     !.left = batch[p]]]
  /\ UNCHANGED <<store, seen, denied, batch, copy, todo, answer, abandoned,
                 permitted, applied>>

\* Mutant of GiveUp: the error is thrown on without the records being put back.
GiveUpAtOnce(p) ==
  /\ pc[p] = "pushing"
  /\ Leave(p)
  /\ HangUp(p)
  /\ UNCHANGED <<store, abandoned, permitted, applied>>

\* transport.push throws: no connection, no answer in time, or an error status.
GiveUp(p) ==
  /\ pc[p] = "pushing"
  /\ Goto(p, "failing")
  /\ todo' = [todo EXCEPT ![p] = batch[p]]
  /\ HangUp(p)
  /\ UNCHANGED <<store, seen, denied, batch, copy, answer, abandoned, permitted, applied>>

\* Mutants of PutBack: the attempt is not counted; there is no limit.
PutBackUncounted(p) ==
  LET o == Least(todo[p]) IN
  /\ pc[p] = "failing"
  /\ todo[p] # {}
  /\ Put(o, IF Bump(copy[p][o]) >= RetryLimit THEN "failed" ELSE "pending", copy[p][o])
  /\ todo' = [todo EXCEPT ![p] = @ \ {o}]
  /\ UNCHANGED <<queued, pc, seen, denied, batch, copy, answer, abandoned, api>>

PutBackForEver(p) ==
  LET o == Least(todo[p]) IN
  /\ pc[p] = "failing"
  /\ todo[p] # {}
  /\ Put(o, "pending", copy[p][o] + 1)
  /\ todo' = [todo EXCEPT ![p] = @ \ {o}]
  /\ UNCHANGED <<queued, pc, seen, denied, batch, copy, answer, abandoned, api>>

PutBack(p) ==
  LET o == Least(todo[p])
      n == Bump(copy[p][o])
  IN
  /\ pc[p] = "failing"
  /\ todo[p] # {}
  /\ Put(o, IF n >= RetryLimit THEN "failed" ELSE "pending", n)
  /\ todo' = [todo EXCEPT ![p] = @ \ {o}]
  /\ UNCHANGED <<queued, pc, seen, denied, batch, copy, answer, abandoned, api>>

\* The error of the push, or of the final pull, ends the pass.
Fail(p) ==
  /\ pc[p] \in {"failing", "results"}
  /\ todo[p] = {}
  /\ Leave(p)
  /\ UNCHANGED <<store, abandoned, api>>

Receive(p) ==
  \E r \in Runs :
    /\ pc[p] = "pushing"
    /\ run[r].client = p
    /\ run[r].state = "done"
    /\ answer' = [answer EXCEPT ![p] = run[r].result]
    /\ todo' = [todo EXCEPT ![p] = batch[p]]
    /\ Goto(p, "results")
    /\ run' = [run EXCEPT ![r] = NoRun]
    /\ UNCHANGED <<store, seen, denied, batch, copy, abandoned, permitted, applied>>

\* getOutboxRecord: the record of a result is read again; none, and it is skipped.
LookUp(p) ==
  LET o == Least(todo[p]) IN
  /\ pc[p] = "results"
  /\ todo[p] # {}
  /\ Present(o)
  /\ copy' = [copy EXCEPT ![p][o] = outbox[o].retries]
  /\ Goto(p, "result")
  /\ UNCHANGED <<store, seen, denied, batch, todo, answer, abandoned, api>>

Skip(p) ==
  LET o == Least(todo[p]) IN
  /\ pc[p] = "results"
  /\ todo[p] # {}
  /\ ~Present(o)
  /\ todo' = [todo EXCEPT ![p] = @ \ {o}]
  /\ UNCHANGED <<store, pc, seen, denied, batch, copy, answer, abandoned, api>>

\* Mutant of Filed: a rejected operation is deleted like an accepted one.
FiledIfConflict(o, outcome, retries) ==
  IF outcome = "conflict" THEN [status |-> "conflict", retries |-> retries] ELSE Absent

\* What becomes of the record an outcome is for.
Filed(o, outcome, retries) ==
  CASE outcome = "accepted" -> Absent
    [] outcome = "conflict" -> [status |-> "conflict", retries |-> retries]
    [] OTHER                -> [status |-> "failed", retries |-> Bump(retries)]

Settle(p) ==
  LET o == Least(todo[p]) IN
  /\ pc[p] = "result"
  /\ outbox' = [outbox EXCEPT ![o] = Filed(o, answer[p][o], copy[p][o])]
  /\ todo' = [todo EXCEPT ![p] = @ \ {o}]
  /\ Goto(p, "results")
  /\ UNCHANGED <<queued, seen, denied, batch, copy, answer, abandoned, api>>

\* The operations of the batch a pass has still to file or put back.
Unfiled(p) ==
  CASE pc[p] \in {"marking", "pushing"}           -> batch[p]
    [] pc[p] \in {"failing", "results", "result"} -> todo[p]
    [] OTHER                                      -> {}

\* The tab is closed, the vault is locked, or the database throws.  What is marked
\* 'syncing' then is not read again: only pending records are.
Stop(p) ==
  /\ pc[p] # "idle"
  /\ abandoned' = abandoned \cup {o \in Unfiled(p) : outbox[o].status = "syncing"}
  /\ Leave(p)
  /\ HangUp(p)
  /\ UNCHANGED <<store, permitted, applied>>

-----------------------------------------------------------------------------
(* A push at the API. *)

\* The request is authenticated: its scopes are those of this moment.
Arrive(r) ==
  /\ run[r].state = "sent"
  /\ run' = [run EXCEPT ![r].state = "work", ![r].allowed = permitted]
  /\ UNCHANGED <<store, pass, abandoned, permitted, applied>>

Answer(r, o, outcome) ==
  run' = [run EXCEPT ![r].left = @ \ {o}, ![r].result[o] = outcome,
                     ![r].state = IF run[r].left = {o} THEN "done" ELSE "work"]

\* authorize_operation turns the next operation down.
Deny(r) ==
  LET o == Least(run[r].left) IN
  /\ run[r].state = "work"
  /\ o \notin run[r].allowed
  /\ Answer(r, o, "rejected")
  /\ UNCHANGED <<store, pass, abandoned, permitted, applied>>

\* apply_operation, or apply_transaction_operation or apply_stock_movement_operation:
\* the operation has taken effect, now or on an earlier push.  The reading back after
\* the commit may still fail.
Apply(r) ==
  LET o == Least(run[r].left) IN
  /\ run[r].state = "work"
  /\ o \in run[r].allowed
  /\ \E outcome \in {"accepted", "rejected"} : Answer(r, o, outcome)
  /\ applied' = applied \cup {o}
  /\ UNCHANGED <<store, pass, abandoned, permitted>>

\* Validation, a missing product, stock or a newer version turns the operation down.
Refuse(r) ==
  LET o == Least(run[r].left) IN
  /\ run[r].state = "work"
  /\ o \in run[r].allowed
  /\ \E outcome \in {"conflict", "rejected"} : Answer(r, o, outcome)
  /\ UNCHANGED <<store, pass, abandoned, permitted, applied>>

\* The request is turned down as a whole, the server stops, or the answer is lost.
Drop(r) ==
  /\ run[r].state # "free"
  /\ run' = [run EXCEPT ![r] = NoRun]
  /\ UNCHANGED <<store, pass, abandoned, permitted, applied>>

-----------------------------------------------------------------------------
\* What a pass does once its first pull is answered.
Proceed(p) ==
  \/ ReadRecords(p)
  \/ Reconcile(p)
  \/ ReconcileLast(p)
  \/ ReadPending(p)
  \/ NothingPending(p)
  \/ Mark(p)
  \/ Send(p)
  \/ GiveUp(p)
  \/ PutBack(p)
  \/ Fail(p)
  \/ Receive(p)
  \/ LookUp(p)
  \/ Skip(p)
  \/ Settle(p)

Work(p) == Pull(p) \/ Proceed(p)

Serve(r) ==
  \/ Arrive(r)
  \/ Deny(r)
  \/ Apply(r)
  \/ Refuse(r)
  \/ Drop(r)

Next ==
  \/ \E o \in Ops : Queue(o) \/ ChangeScope(o)
  \/ \E p \in Passes : Work(p)
  \/ \E p \in Passes : Stop(p)
  \/ \E r \in Runs : Serve(r)

Spec == Init /\ [][Next]_vars

\* A pass whose first pull was answered goes on until it ends or is stopped: its
\* steps are the browser's own, but for the push and the last pull, which apiFetch
\* ends after its time-out.  That a pull is ever answered is nobody's promise.
FairSpec == Spec /\ \A p \in Passes : WF_vars(Proceed(p))

-----------------------------------------------------------------------------
(* Properties. *)

Statuses == {"absent", "pending", "syncing", "failed", "conflict"}

Outcomes == {"none", "accepted", "rejected", "conflict"}

\* Every variable keeps its type.
TypeOK ==
  /\ outbox \in [Ops -> [status : Statuses, retries : 0 .. RetryLimit]]
  /\ queued \subseteq Ops
  /\ pc \in [Passes -> {"idle", "pulled", "reconcile", "read", "marking", "pushing",
                        "failing", "results", "result"}]
  /\ seen \in [Passes -> SUBSET Ops]
  /\ denied \in [Passes -> SUBSET Ops]
  /\ batch \in [Passes -> SUBSET Ops]
  /\ copy \in [Passes -> [Ops -> 0 .. RetryLimit]]
  /\ todo \in [Passes -> SUBSET Ops]
  /\ answer \in [Passes -> [Ops -> Outcomes]]
  /\ abandoned \subseteq Ops
  /\ permitted \subseteq Ops
  /\ applied \subseteq Ops
  /\ run \in [Runs -> [state : {"free", "sent", "work", "done"},
                       client : Passes \cup {None},
                       left : SUBSET Ops,
                       allowed : SUBSET Ops,
                       result : [Ops -> Outcomes]]]

\* No offline write is lost: a record leaves the outbox only when its operation has
\* taken effect, whichever passes overlap, stop, or get an answer late.
NothingLost ==
  \A o \in queued : outbox[o].status = "absent" => o \in applied

\* A record is marked 'syncing' only while a pass has still to file it or put it
\* back, however passes overwrite each other's marks; what a stopped pass leaves
\* marked is the one exception.
SyncingHasOwner ==
  \A o \in Ops : outbox[o].status = "syncing" =>
    o \in abandoned \/ \E p \in Passes : o \in Unfiled(p)

\* What a pass has found outside of the user's scopes it does not push: the pull and
\* the reconciliation come before the pending records are read.
DeniedIsNotPushed ==
  \A p \in Passes : pc[p] # "reconcile" => batch[p] \cap denied[p] = {}

Settled(o) == outbox[o].status \in {"absent", "failed", "conflict"}

\* A settled operation stays settled: an accepted one does not come back, and one
\* that failed is not tried again.
SettledIsFinal ==
  [][\A o \in queued : Settled(o) => Settled(o)']_outbox

\* The user keeps coming online: again and again a pass comes to its end.  That takes
\* an answer to its first pull and a tab that stays open; every push may be lost.
KeepsSyncing == \A p \in Passes : []<><<ReconcileLast(p) \/ NothingPending(p) \/ Fail(p)>>_vars

\* While the user keeps coming online, every queued operation is settled in the end,
\* if only because its retries are used up, unless a pass was stopped while the
\* record was marked 'syncing'.  Without an answer to a first pull it stays pending.
EveryOperationSettles ==
  KeepsSyncing =>
    \A o \in Ops :
      outbox[o].status = "pending" ~> (Settled(o) \/ o \in abandoned)

\* modules/sync/README.md: the frontend will "push them to the API when internet
\* access returns".  A user who keeps coming online has no operation left unsettled.
EveryChangeIsPushed ==
  KeepsSyncing => \A o \in Ops : outbox[o].status = "pending" ~> Settled(o)
=============================================================================
