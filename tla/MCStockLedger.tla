--------------------------- MODULE MCStockLedger ---------------------------
(***************************************************************************)
(* Small instances of StockLedger.  Products 1 and 2 are tracked, 3 is not.*)
(* The opening stock is one unit of each: two sales of one unit compete    *)
(* for it.                                                                 *)
(***************************************************************************)
EXTENDS StockLedger

CONSTANTS sale1, sale2, damaged2, purchase3

MCOpening == [p \in Products |-> IF p \in Tracked THEN 1 ELSE 0]

\* Both sales take a unit of every product.  One movement writes off a unit of
\* product 2, one is for the untracked product.
MCDelta ==
  [r \in Sales \cup Movements |->
     [p \in Products |->
        CASE r \in Sales                  -> -1
          [] r = damaged2  /\ p = 2       -> -1
          [] r = purchase3 /\ p = 3       -> 1
          [] OTHER                        -> 0]]

MixedPolicy ==
  [p \in Products |-> IF p = 1 THEN "block_when_empty" ELSE "warn_when_low"]

\* Every product may go below zero.
NegativePolicy == [p \in Products |-> "allow_negative"]
=============================================================================
