------------------------------- MODULE StockForm -------------------------------
(***************************************************************************)
(* The stock ledger as a member sees it (pages/stock/StockPage): the lists  *)
(* of the movements and of the batches that expire, each loaded again when  *)
(* a filter is chosen, and the form that records a movement and puts it on  *)
(* top of the lists without loading them.                                  *)
(*                                                                         *)
(* A movement is its product and whether this form has recorded it: what   *)
(* the server does with it is the subject of StockLedger.  An answer holds  *)
(* any movements of others that match the filter it was asked with.        *)
(***************************************************************************)
EXTENDS Integers

CONSTANTS Products   \* the products in the options, scopedProductOptions

VARIABLES
  caps,      \* "ledger" and "movement": canViewLedger and canCreateMovement
  page,      \* "closed" or "open"
  filter,    \* filterProductId, All for every product
  lists,     \* the movements and the expiring batches, with their state
  older,     \* lists of which a request for another filter is still under way
  sending    \* <<m>> while the movement m is sent

vars == <<caps, page, filter, lists, older, sending>>

All == "all"
NaN == -99
Names == {"movements", "expiring"}
Movements == [product : Products, own : BOOLEAN]
Lists == [shown : SUBSET Movements, state : {"loading", "ready", "failed"}]

\* The inputs of the form, as they are submitted.  The type is one of
\* MANUAL_STOCK_MOVEMENT_TYPES by the control it is chosen with.
Inputs == [product : Products \cup {""}, quantity : {NaN, -1, 0, 1},
           unitCost : {"none", "bad", "good"}, expiry : BOOLEAN]

\* validateForm
Valid(in) ==
  /\ in.product # "" /\ in.quantity \notin {NaN, 0} /\ in.unitCost # "bad"
  /\ in.expiry => in.quantity > 0

Matching(f) == {m \in Movements : ~m.own /\ f \in {All, m.product}}

-----------------------------------------------------------------------------

\* Both effects run on mount, unless the ledger cannot be seen.
Load(l) == [shown |-> lists[l].shown, state |-> "loading"]

\* The page is opened by a member who may see one of its sections.
Open(c) ==
  /\ page = "closed" /\ page' = "open" /\ caps' = c /\ filter' = All
  /\ lists' = [l \in Names |-> [shown |-> {}, state |-> IF "ledger" \in c THEN "loading" ELSE "ready"]]
  /\ older' = {} /\ sending' = <<>>

\* A filter is chosen: requests that are under way are given up, their answers
\* are ignored (active = false), and the lists are loaded again.
ChooseFilter(f) ==
  /\ page = "open" /\ "ledger" \in caps /\ f # filter
  /\ filter' = f
  /\ older' = older \cup {l \in Names : lists[l].state = "loading"}
  /\ lists' = [l \in Names |-> Load(l)]
  /\ UNCHANGED <<caps, page, sending>>

\* listStockMovements or listExpiringStockBatches answers.
MovementsArrive(l, ms) ==
  /\ page = "open" /\ lists[l].state = "loading" /\ ms \subseteq Matching(filter)
  /\ lists' = [lists EXCEPT ![l] = [shown |-> ms, state |-> "ready"]]
  /\ UNCHANGED <<caps, page, filter, older, sending>>

\* The rows that were shown stay, under the error.
LoadFails(l) ==
  /\ page = "open" /\ lists[l].state = "loading"
  /\ lists' = [lists EXCEPT ![l].state = "failed"]
  /\ UNCHANGED <<caps, page, filter, older, sending>>

\* Mutant: the answer of a request that was given up is shown.
OlderShown(l) ==
  /\ page = "open" /\ l \in older /\ older' = older \ {l}
  /\ \E f \in Products \cup {All} :
       lists' = [lists EXCEPT ![l].shown = Matching(f)]
  /\ UNCHANGED <<caps, page, filter, sending>>

\* The answer of a request that was given up changes nothing.
OlderArrives(l) ==
  /\ page = "open" /\ l \in older /\ older' = older \ {l}
  /\ UNCHANGED <<caps, page, filter, lists, sending>>

\* handleSubmit; invalid inputs only show their errors.
Submit(in) ==
  /\ page = "open" /\ "movement" \in caps /\ sending = <<>> /\ Valid(in)
  /\ sending' = <<[product |-> in.product, expiry |-> in.expiry]>>
  /\ UNCHANGED <<caps, page, filter, lists, older>>

\* The answer is put on top of the movements, and of the batches when it has an
\* expiry date, whatever the filter and also while they are loading.
Recorded ==
  /\ page = "open" /\ sending # <<>> /\ sending' = <<>>
  /\ LET m == [product |-> sending[1].product, own |-> TRUE]
         to == IF sending[1].expiry THEN Names ELSE {"movements"}
     IN lists' = [l \in Names |-> IF l \in to THEN [lists[l] EXCEPT !.shown = @ \cup {m}] ELSE lists[l]]
  /\ UNCHANGED <<caps, page, filter, older>>

RecordFails ==
  /\ page = "open" /\ sending # <<>> /\ sending' = <<>>
  /\ UNCHANGED <<caps, page, filter, lists, older>>

NoLists == [l \in Names |-> [shown |-> {}, state |-> "ready"]]

Init ==
  /\ page = "closed" /\ caps = {} /\ filter = All /\ lists = NoLists
  /\ older = {} /\ sending = <<>>

Leave ==
  /\ page = "open" /\ page' = "closed" /\ caps' = {} /\ filter' = All
  /\ lists' = NoLists /\ older' = {} /\ sending' = <<>>

Shut == page = "closed"

OpenAny == \E c \in SUBSET {"ledger", "movement"} : c # {} /\ Open(c)

Step ==
  \/ \E f \in Products \cup {All} : ChooseFilter(f)
  \/ \E l \in Names : \/ \E ms \in SUBSET Matching(filter) : MovementsArrive(l, ms)
                      \/ LoadFails(l) \/ OlderArrives(l)
  \/ \E in \in Inputs : Submit(in)
  \/ Recorded \/ RecordFails \/ Leave

Next == OpenAny \/ Step

Spec == Init /\ [][Next]_vars

-----------------------------------------------------------------------------

TypeOK ==
  /\ caps \subseteq {"ledger", "movement"} /\ page \in {"closed", "open"}
  /\ filter \in Products \cup {All} /\ lists \in [Names -> Lists] /\ older \subseteq Names
  /\ sending = <<>> \/ sending[1] \in [product : Products, expiry : BOOLEAN]

\* Once a list has loaded it shows only movements of the chosen product, besides
\* the ones this form has just recorded: the answer to an earlier filter, however
\* late, never replaces the one to the filter that is shown.
LedgerFollowsFilter ==
  \A l \in Names : lists[l].state = "ready" =>
    \A m \in lists[l].shown : m.own \/ filter \in {All, m.product}
=============================================================================
