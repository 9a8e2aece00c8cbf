-------------------------- MODULE AtomicInventory --------------------------
(***************************************************************************)
(* What the stock ledger of mbam-api promises: a request to change stock   *)
(* (a recorded sale, or a manual stock movement) takes effect in one       *)
(* indivisible step, for all of its products together, at most once,       *)
(* however often it is submitted, and never takes a quantity below zero.   *)
(* The one other way a quantity changes is a product save, which replaces  *)
(* it and is accounted for in `saved`.  StockLedger, the model of the      *)
(* code, implements this specification.                                    *)
(***************************************************************************)
EXTENDS Integers

CONSTANTS
  Products,   \* product ids
  Tracked,    \* the products whose quantity is tracked
  Requests,   \* sales and movements, by idempotency key or movement id
  Delta,      \* Delta[r][p]: what request r adds to the quantity of p
  Opening     \* the quantities before any request

VARIABLES
  stock,      \* the quantity of each product
  done,       \* the requests that have taken effect
  saved       \* what product saves added to the quantity of each product

Init ==
  /\ stock = Opening
  /\ done = {}
  /\ saved = [p \in Products |-> 0]

\* A request takes effect on every tracked product it names, once.
Apply(r) ==
  /\ r \notin done
  /\ \A p \in Tracked : stock[p] + Delta[r][p] >= 0
  /\ stock' = [p \in Products |->
                 IF p \in Tracked THEN stock[p] + Delta[r][p] ELSE stock[p]]
  /\ done' = done \cup {r}
  /\ UNCHANGED saved

\* A product save replaces the quantity of one tracked product.
Replace(p) ==
  /\ stock'[p] \in Nat
  /\ stock' = [stock EXCEPT ![p] = stock'[p]]
  /\ saved' = [saved EXCEPT ![p] = @ + stock'[p] - stock[p]]
  /\ UNCHANGED done

Next ==
  \/ \E r \in Requests : Apply(r)
  \/ \E p \in Tracked : Replace(p)

Spec == Init /\ [][Next]_<<stock, done, saved>>
=============================================================================
