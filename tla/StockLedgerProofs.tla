------------------------- MODULE StockLedgerProofs -------------------------
(***************************************************************************)
(* Proofs about StockLedger, for every set of products, requests, handlers *)
(* and editors that meets its assumptions.                                 *)
(*                                                                         *)
(* The invariant is TypeOK together with six statements about the open     *)
(* transactions.  The one all others rest on is RowsInv: a quantity an     *)
(* open transaction has staged was computed from the quantity the row      *)
(* still has, because the transaction holds the row's lock.                *)
(*                                                                         *)
(* That the transactions never all wait for one another needs in addition  *)
(* that who holds a key is at its rows and that the locked rows have a     *)
(* greatest one (WaitInv): the transaction with the greatest lock waits    *)
(* for nobody, since rows are locked in ascending order.                   *)
(***************************************************************************)
EXTENDS StockLedger, WellFoundedInduction, TLAPS

\* Where an attempt is fixes which of its variables are in use.
AttemptInv ==
  \A h \in Handlers :
    /\ pc[h] = "idle" <=> req[h] = None
    /\ pc[h] = "insert" => req[h] \in Sales
    /\ pc[h] # "rows" => todo[h] = {}
    /\ \A p \in todo[h] : Delta[req[h]][p] # 0
    /\ outcome[h] # "none" => pc[h] = "replied"

\* What an open transaction has staged, and on what grounds.
RowsInv ==
  \A h \in Handlers : \A p \in staged[h] :
    /\ rowOwner[p] = h
    /\ p \in Tracked
    /\ Delta[req[h]][p] # 0
    /\ value[h][p] = qty[p] + Delta[req[h]][p]
    /\ req[h] \in Movements => p \in active /\ rows[req[h]][p] = 0

\* An open sale owns its idempotency key.
KeyInv ==
  \A h \in Handlers :
    pc[h] = "rows" /\ req[h] \in Sales => keyOwner[req[h]] = h

\* The ledger rows of a sale, and how far an open sale has come.
SaleInv ==
  /\ \A s \in Sales, p \in Products :
       rows[s][p] = IF s \in recorded /\ Delta[s][p] # 0 /\ p \in Tracked
                    THEN 1 ELSE 0
  /\ \A h \in Handlers :
       pc[h] = "rows" /\ req[h] \in Sales =>
         /\ req[h] \in recorded => todo[h] = {} /\ staged[h] = {}
         /\ req[h] \notin recorded =>
              Touched(req[h]) \cap Tracked \subseteq todo[h] \cup staged[h]

\* The ledger rows of a movement, and how far an open movement has come.
MoveInv ==
  /\ \A m \in Movements, p \in Products :
       rows[m][p] \in {0, 1} /\ (rows[m][p] = 1 => Delta[m][p] # 0)
  /\ \A h \in Handlers :
       pc[h] = "rows" /\ req[h] \in Movements /\ todo[h] = {} =>
         staged[h] # {} \/ Applied(req[h])

\* A committed attempt has had its effect.
EffectInv ==
  \A h \in Handlers :
    pc[h] = "fetch" \/ outcome[h] = "ok" => HasEffect(req[h])

IInv ==
  /\ TypeOK
  /\ AttemptInv
  /\ LocksInOrder
  /\ RowsInv
  /\ KeyInv
  /\ SaleInv
  /\ MoveInv
  /\ EffectInv
  /\ LedgerAccountsForStock

-----------------------------------------------------------------------------
\* A set of product ids has a least one.
LEMMA LeastMember ==
  ASSUME NEW S \in SUBSET Nat, S # {}
  PROVE  Least(S) \in S /\ \A q \in S : Least(S) <= q
<1>. DEFINE R == {ss \in Nat \X Nat : ss[1] < ss[2]}
<1>1. IsWellFoundedOn(R, Nat)
  BY NatLessThanWellFounded DEF OpToRel
<1>2. PICK p \in S : \A q \in S : ~(<<q, p>> \in R)
  <2>. HIDE DEF R
  <2>. QED
    BY <1>1, WFMin
<1>3. ASSUME NEW q \in S PROVE p <= q
  <2>1. q < p => <<q, p>> \in R
    OBVIOUS
  <2>. QED
    BY <2>1, <1>2
<1>. QED
  BY <1>3 DEF Least

\* The row a sale or a movement comes to next is on its list and before the rest.
LEMMA AtRowFacts ==
  ASSUME TypeOK, NEW h \in Handlers, NEW p \in Products, AtRow(h, p)
  PROVE  /\ pc[h] = "rows"
         /\ p \in todo[h]
         /\ \A q \in todo[h] \ {p} : p < q
<1>1. todo[h] \in SUBSET Nat /\ todo[h] # {}
  BY ProductsAssumption DEF TypeOK, AtRow
<1>2. p \in todo[h] /\ \A q \in todo[h] : p <= q
  BY <1>1, LeastMember DEF AtRow
<1>. QED
  BY <1>1, <1>2 DEF AtRow

\* Initially.
LEMMA InitIInv == Init => IInv
<1>. SUFFICES ASSUME Init PROVE IInv
  OBVIOUS
<1>. USE ProductsAssumption, RequestsAssumption, NoneAssumption DEF Init
<1>1. TypeOK
  BY DEF TypeOK, NoForm
<1>2. AttemptInv
  BY DEF AttemptInv
<1>3. LocksInOrder /\ RowsInv /\ KeyInv /\ EffectInv
  BY DEF LocksInOrder, RowsInv, KeyInv, EffectInv
<1>4. SaleInv
  BY DEF SaleInv, Requests
<1>5. MoveInv
  BY DEF MoveInv, Requests
<1>6. ASSUME NEW p \in Products
      PROVE  qty[p] = Opening[p] + ledger[p] + drift[p]
  <2>1. qty[p] = Opening[p] /\ Opening[p] \in Nat
    OBVIOUS
  <2>2. ledger[p] = 0 /\ drift[p] = 0
    OBVIOUS
  <2>. QED
    BY <2>1, <2>2
<1>. QED
  BY <1>1, <1>2, <1>3, <1>4, <1>5, <1>6 DEF IInv, LedgerAccountsForStock

-----------------------------------------------------------------------------
(* Steps that change no table. *)

\* A handler takes up a request.
LEMMA BeginIInv ==
  ASSUME IInv, NEW h \in Handlers, NEW r \in Requests,
         NEW where \in {"insert", "rows", "replied"}, NEW products \in SUBSET Touched(r),
         Begin(h, r, where, products),
         where = "insert" => r \in Sales,
         where = "rows" => r \in Movements /\ products # {},
         where # "rows" => products = {},
         outcome' = outcome
           \/ (where = "replied" /\ \E o \in {"not_found", "forbidden"} :
                                       outcome' = [outcome EXCEPT ![h] = o])
  PROVE  IInv'
<1>. USE ProductsAssumption, RequestsAssumption, NoneAssumption
     DEF IInv, Begin, tables, locks
<1>1. TypeOK'
  BY DEF TypeOK, Touched
<1>2. AttemptInv'
  BY DEF TypeOK, AttemptInv, Touched
<1>3. LocksInOrder'
  BY DEF TypeOK, AttemptInv, LocksInOrder
<1>4. RowsInv'
  BY DEF TypeOK, AttemptInv, RowsInv, LocksInOrder
<1>5. KeyInv'
  BY DEF TypeOK, KeyInv
<1>6. SaleInv'
  BY DEF TypeOK, SaleInv
<1>7. MoveInv'
  BY DEF TypeOK, MoveInv, Applied
<1>8. EffectInv'
  <2>1. ASSUME NEW g \in Handlers, pc'[g] = "fetch" \/ outcome'[g] = "ok"
        PROVE  HasEffect(req'[g])
    <3>1. g # h /\ pc'[g] = pc[g] /\ outcome'[g] = outcome[g] /\ req'[g] = req[g]
      BY <2>1 DEF TypeOK, AttemptInv
    <3>. QED
      BY <2>1, <3>1 DEF EffectInv
  <2>. QED
    BY <2>1 DEF EffectInv, HasEffect, Applied
<1>9. LedgerAccountsForStock'
  BY DEF LedgerAccountsForStock
<1>. QED
  BY <1>1, <1>2, <1>3, <1>4, <1>5, <1>6, <1>7, <1>8, <1>9

\* The transaction's first statement: the sale's key is taken.
LEMMA InsertSaleIInv ==
  ASSUME IInv, NEW h \in Handlers, InsertSale(h)
  PROVE  IInv'
<1>. USE ProductsAssumption, RequestsAssumption, NoneAssumption
     DEF IInv, InsertSale, tables
<1>1. req[h] \in Sales
  BY DEF AttemptInv
<1>2. staged[h] = {} /\ \A p \in Products : rowOwner[p] # h
  <2>1. ASSUME NEW p \in Products PROVE rowOwner[p] # h
    BY DEF LocksInOrder
  <2>2. ASSUME NEW p \in staged[h] PROVE p \in Products /\ rowOwner[p] = h
    BY DEF TypeOK, RowsInv
  <2>. QED
    BY <2>1, <2>2
<1>3. TypeOK'
  BY <1>1 DEF TypeOK, Touched
<1>4. AttemptInv'
  BY <1>1 DEF TypeOK, AttemptInv, Touched, Requests
<1>5. LocksInOrder'
  BY <1>2 DEF TypeOK, LocksInOrder
<1>6. RowsInv'
  BY DEF TypeOK, RowsInv
<1>7. KeyInv'
  BY <1>1 DEF TypeOK, KeyInv
<1>8. SaleInv'
  <2>1. ASSUME NEW g \in Handlers, pc'[g] = "rows", req'[g] \in Sales
        PROVE  /\ req'[g] \in recorded' => todo'[g] = {} /\ staged'[g] = {}
               /\ req'[g] \notin recorded' =>
                    Touched(req'[g]) \cap Tracked \subseteq todo'[g] \cup staged'[g]
    <3>1. CASE g = h
      BY <1>1, <1>2, <2>1, <3>1 DEF TypeOK, Touched
    <3>2. CASE g # h
      BY <2>1, <3>2 DEF TypeOK, SaleInv
    <3>. QED
      BY <3>1, <3>2
  <2>. QED
    BY <2>1 DEF SaleInv, TypeOK
<1>9. MoveInv'
  BY <1>1 DEF TypeOK, MoveInv, Applied
<1>10. EffectInv' /\ LedgerAccountsForStock'
  BY DEF TypeOK, EffectInv, HasEffect, Applied, LedgerAccountsForStock
<1>. QED
  BY <1>3, <1>4, <1>5, <1>6, <1>7, <1>8, <1>9, <1>10

\* An attempt that gives up its locks and what it has staged.
LEMMA EndIInv ==
  ASSUME IInv, NEW h \in Handlers, UNCHANGED <<tables, form>>,
         NEW where \in {"idle", "replied"}, NEW r \in Requests \cup {None},
         where = "idle" <=> r = None,
         NEW o \in {"none", "bad_request", "check_violation", "not_found"},
         o # "none" => where = "replied",
         rowOwner' \in [Products -> Handlers \cup {None}],
         keyOwner' \in [Sales -> Handlers \cup {None}],
         \A p \in Products :
           rowOwner'[p] = IF rowOwner[p] = h THEN None ELSE rowOwner[p],
         \A s \in Sales : keyOwner[s] # h => keyOwner'[s] = keyOwner[s],
         pc' = [pc EXCEPT ![h] = where],
         req' = [req EXCEPT ![h] = r],
         todo' = [todo EXCEPT ![h] = {}],
         staged' = [staged EXCEPT ![h] = {}],
         value' = [value EXCEPT ![h] = [p \in Products |-> 0]],
         outcome' = [outcome EXCEPT ![h] = o]
  PROVE  IInv'
<1>. USE ProductsAssumption, RequestsAssumption, NoneAssumption DEF IInv, tables
<1>1. TypeOK'
  BY DEF TypeOK
<1>2. AttemptInv'
  BY DEF TypeOK, AttemptInv
<1>3. LocksInOrder'
  <2>1. ASSUME NEW g \in Handlers, NEW p \in Products, rowOwner'[p] = g
        PROVE  g # h /\ rowOwner[p] = g /\ pc'[g] = pc[g] /\ todo'[g] = todo[g]
    BY <2>1 DEF TypeOK
  <2>. QED
    BY <2>1 DEF LocksInOrder
<1>4. RowsInv'
  BY DEF TypeOK, RowsInv
<1>5. KeyInv'
  BY DEF TypeOK, KeyInv
<1>6. SaleInv'
  BY DEF TypeOK, SaleInv
<1>7. MoveInv'
  <2>1. ASSUME NEW g \in Handlers, pc'[g] = "rows"
        PROVE  /\ pc[g] = "rows" /\ req'[g] = req[g]
               /\ todo'[g] = todo[g] /\ staged'[g] = staged[g]
    BY <2>1 DEF TypeOK
  <2>. QED
    BY <2>1 DEF MoveInv, Applied
<1>8. EffectInv' /\ LedgerAccountsForStock'
  BY DEF TypeOK, EffectInv, HasEffect, Applied, LedgerAccountsForStock
<1>. QED
  BY <1>1, <1>2, <1>3, <1>4, <1>5, <1>6, <1>7, <1>8

\* After the end of a transaction its handler holds nothing, and nobody else has lost anything.
LEMMA ReleaseFacts ==
  ASSUME TypeOK, NEW h \in Handlers, ReleaseLocks(h)
  PROVE  /\ rowOwner' \in [Products -> Handlers \cup {None}]
         /\ keyOwner' \in [Sales -> Handlers \cup {None}]
         /\ \A p \in Products :
              rowOwner'[p] = IF rowOwner[p] = h THEN None ELSE rowOwner[p]
         /\ \A s \in Sales : keyOwner[s] # h => keyOwner'[s] = keyOwner[s]
BY NoneAssumption DEF TypeOK, ReleaseLocks

\* A transaction rolls back.
LEMMA AbortIInv ==
  ASSUME IInv, NEW h \in Handlers, pc[h] # "idle",
         NEW result \in {"bad_request", "check_violation", "not_found"},
         Abort(h, result)
  PROVE  IInv'
<1>1. TypeOK /\ req[h] \in Requests
  BY DEF IInv, TypeOK, AttemptInv
<1>2. req' = [req EXCEPT ![h] = req[h]]
  BY <1>1 DEF TypeOK, Abort
<1>3. /\ rowOwner' \in [Products -> Handlers \cup {None}]
      /\ keyOwner' \in [Sales -> Handlers \cup {None}]
      /\ \A p \in Products :
           rowOwner'[p] = IF rowOwner[p] = h THEN None ELSE rowOwner[p]
      /\ \A s \in Sales : keyOwner[s] # h => keyOwner'[s] = keyOwner[s]
  BY <1>1, ReleaseFacts DEF Abort
<1>4. req[h] # None
  BY <1>1, NoneAssumption
<1>. QED
  BY <1>1, <1>2, <1>3, <1>4, EndIInv DEF Abort

\* A handler goes away.
LEMMA CrashIInv ==
  ASSUME IInv, NEW h \in Handlers, Crash(h)
  PROVE  IInv'
<1>1. TypeOK /\ ReleaseLocks(h)
  BY DEF IInv, Crash
<1>. QED
  BY <1>1, ReleaseFacts, EndIInv DEF Crash, Forget

\* The client has its reply.
LEMMA ReplyIInv ==
  ASSUME IInv, NEW h \in Handlers, Reply(h)
  PROVE  IInv'
<1>1. UNCHANGED <<rowOwner, keyOwner>>
  BY DEF Reply, locks
<1>2. \A p \in Products : rowOwner[p] # h
  BY DEF IInv, LocksInOrder, Reply
<1>3. /\ rowOwner \in [Products -> Handlers \cup {None}]
      /\ keyOwner \in [Sales -> Handlers \cup {None}]
  BY DEF IInv, TypeOK
<1>. QED
  BY <1>1, <1>2, <1>3, EndIInv DEF Reply, Forget

\* The reply is prepared after the commit.
LEMMA FetchIInv ==
  ASSUME IInv, NEW h \in Handlers, Fetch(h)
  PROVE  IInv'
<1>. USE ProductsAssumption, RequestsAssumption, NoneAssumption
     DEF IInv, Fetch, tables, locks
<1>1. TypeOK'
  BY DEF TypeOK
<1>2. AttemptInv'
  BY DEF TypeOK, AttemptInv
<1>3. LocksInOrder'
  BY DEF TypeOK, LocksInOrder
<1>4. RowsInv'
  BY DEF TypeOK, RowsInv
<1>5. KeyInv'
  BY DEF TypeOK, KeyInv
<1>6. SaleInv'
  BY DEF TypeOK, SaleInv
<1>7. MoveInv'
  BY DEF TypeOK, MoveInv, Applied
<1>8. EffectInv'
  BY DEF TypeOK, EffectInv, HasEffect, Applied
<1>9. LedgerAccountsForStock'
  BY DEF LedgerAccountsForStock
<1>. QED
  BY <1>1, <1>2, <1>3, <1>4, <1>5, <1>6, <1>7, <1>8, <1>9

-----------------------------------------------------------------------------
(* Steps that take the lock of a row. *)

\* The row is locked and left as it is: an untracked product of a sale, or a
\* movement that has been applied before.
LEMMA PassIInv ==
  ASSUME IInv, NEW h \in Handlers, NEW p \in Products,
         AtRow(h, p), LockRow(h, p), UNCHANGED <<staged, value>>,
         \/ req[h] \in Sales /\ p \notin Tracked
         \/ req[h] \in Movements /\ Applied(req[h])
  PROVE  IInv'
<1>. USE ProductsAssumption, RequestsAssumption, NoneAssumption
     DEF IInv, LockRow, tables
<1>1. /\ pc[h] = "rows"
      /\ p \in todo[h]
      /\ \A q \in todo[h] \ {p} : p < q
  BY AtRowFacts
<1>2. TypeOK'
  BY DEF TypeOK
<1>3. AttemptInv'
  BY <1>1 DEF TypeOK, AttemptInv
<1>4. LocksInOrder'
  BY <1>1 DEF TypeOK, LocksInOrder
<1>5. RowsInv'
  BY DEF TypeOK, RowsInv
<1>6. KeyInv'
  BY DEF TypeOK, KeyInv
<1>7. SaleInv'
  BY <1>1 DEF TypeOK, SaleInv
<1>8. MoveInv'
  BY <1>1 DEF TypeOK, MoveInv, Applied
<1>9. EffectInv' /\ LedgerAccountsForStock'
  BY DEF TypeOK, EffectInv, HasEffect, Applied, LedgerAccountsForStock
<1>. QED
  BY <1>2, <1>3, <1>4, <1>5, <1>6, <1>7, <1>8, <1>9

\* The row is locked and its new quantity written.
LEMMA StageIInv ==
  ASSUME IInv, NEW h \in Handlers, NEW p \in Products,
         AtRow(h, p), Stage(h, p), p \in Tracked, InStock(h, p),
         req[h] \in Movements => p \in active /\ ~Applied(req[h])
  PROVE  IInv'
<1>. USE ProductsAssumption, RequestsAssumption, NoneAssumption
     DEF IInv, Stage, LockRow, tables
<1>1. /\ pc[h] = "rows"
      /\ p \in todo[h]
      /\ \A q \in todo[h] \ {p} : p < q
  BY AtRowFacts
<1>2. req[h] \in Requests /\ Delta[req[h]][p] # 0
  BY <1>1 DEF TypeOK, AttemptInv
<1>3. qty[p] + Delta[req[h]][p] \in Nat
  BY <1>2 DEF TypeOK, InStock
<1>4. TypeOK'
  BY <1>3 DEF TypeOK
<1>5. AttemptInv'
  BY <1>1 DEF TypeOK, AttemptInv
<1>6. LocksInOrder'
  BY <1>1 DEF TypeOK, LocksInOrder
<1>7. RowsInv'
  <2>1. ASSUME NEW g \in Handlers, NEW q \in staged'[g]
        PROVE  /\ rowOwner'[q] = g
               /\ q \in Tracked
               /\ Delta[req'[g]][q] # 0
               /\ value'[g][q] = qty'[q] + Delta[req'[g]][q]
               /\ req'[g] \in Movements => q \in active' /\ rows'[req'[g]][q] = 0
    <3>1. CASE g = h /\ q = p
      <4>1. req[h] \in Movements => rows[req[h]][p] = 0
        BY <1>2 DEF TypeOK, Applied
      <4>. QED
        BY <1>2, <3>1, <4>1 DEF TypeOK
    <3>2. CASE ~(g = h /\ q = p)
      <4>1. q \in staged[g] /\ q \in Products
        BY <2>1, <3>2 DEF TypeOK
      <4>2. rowOwner[q] = g /\ q # p
        BY <4>1 DEF RowsInv
      <4>. QED
        BY <4>1, <4>2 DEF TypeOK, RowsInv
    <3>. QED
      BY <3>1, <3>2
  <2>. QED
    BY <2>1 DEF RowsInv
<1>8. KeyInv'
  BY DEF TypeOK, KeyInv
<1>9. SaleInv'
  BY <1>1 DEF TypeOK, SaleInv
<1>10. MoveInv'
  BY <1>1 DEF TypeOK, MoveInv, Applied
<1>11. EffectInv' /\ LedgerAccountsForStock'
  BY DEF TypeOK, EffectInv, HasEffect, Applied, LedgerAccountsForStock
<1>. QED
  BY <1>4, <1>5, <1>6, <1>7, <1>8, <1>9, <1>10, <1>11

-----------------------------------------------------------------------------
(* Steps that change the tables. *)

\* What a commit of h does to one product and one request.
LEMMA CommitFacts ==
  ASSUME IInv, NEW h \in Handlers, Commit(h)
  PROVE  /\ req[h] \in Requests
         /\ \A p \in staged[h] :
              /\ p \in Tracked /\ p \in Products
              /\ Delta[req[h]][p] # 0
              /\ rows[req[h]][p] = 0
         /\ \A p \in Products :
              qty'[p] = IF p \in staged[h] THEN qty[p] + Delta[req[h]][p] ELSE qty[p]
         /\ \A p \in Products :
              ledger'[p] = IF p \in staged[h] THEN ledger[p] + Delta[req[h]][p]
                                              ELSE ledger[p]
         /\ \A r \in Requests, p \in Products :
              rows'[r][p] = IF r = req[h] /\ p \in staged[h] THEN 1 ELSE rows[r][p]
         /\ recorded' = recorded \cup ({req[h]} \cap Sales)
<1>. USE ProductsAssumption, RequestsAssumption, NoneAssumption DEF IInv, Commit
<1>1. req[h] \in Requests /\ pc[h] = "rows"
  BY DEF TypeOK, AttemptInv
<1>2. ASSUME NEW p \in staged[h]
      PROVE  /\ p \in Tracked /\ p \in Products
             /\ Delta[req[h]][p] # 0
             /\ value[h][p] = qty[p] + Delta[req[h]][p]
             /\ rows[req[h]][p] = 0
  <2>1. /\ p \in Tracked /\ p \in Products
        /\ Delta[req[h]][p] # 0
        /\ value[h][p] = qty[p] + Delta[req[h]][p]
        /\ req[h] \in Movements => rows[req[h]][p] = 0
    BY DEF TypeOK, RowsInv
  <2>2. req[h] \in Sales => req[h] \notin recorded
    BY <1>1 DEF SaleInv
  <2>3. req[h] \in Sales => rows[req[h]][p] = 0
    BY <2>1, <2>2 DEF SaleInv
  <2>. QED
    BY <1>1, <2>1, <2>3 DEF Requests
<1>3. ASSUME NEW r \in Requests, NEW p \in Products
      PROVE  rows'[r][p] = IF r = req[h] /\ p \in staged[h] THEN 1 ELSE rows[r][p]
  <2>1. rows'[r][p] = IF r = req[h] /\ p \in staged[h] THEN rows[r][p] + 1
                                                      ELSE rows[r][p]
    BY <1>1 DEF TypeOK
  <2>. QED
    BY <1>2, <2>1
<1>4. ASSUME NEW p \in Products
      PROVE  qty'[p] = IF p \in staged[h] THEN qty[p] + Delta[req[h]][p] ELSE qty[p]
  BY <1>2
<1>5. ASSUME NEW p \in Products
      PROVE  ledger'[p] = IF p \in staged[h] THEN ledger[p] + Delta[req[h]][p]
                                            ELSE ledger[p]
  OBVIOUS
<1>6. recorded' = recorded \cup ({req[h]} \cap Sales)
  OBVIOUS
<1>. QED
  BY <1>1, <1>2, <1>3, <1>4, <1>5, <1>6

\* The rows of the ledger only ever grow in number.
LEMMA CommitKeepsEffect ==
  ASSUME IInv, NEW h \in Handlers, Commit(h),
         NEW r \in Requests, HasEffect(r)
  PROVE  HasEffect(r)'
<1>1. ASSUME NEW p \in Products, rows[r][p] > 0
      PROVE  rows'[r][p] > 0
  BY <1>1, CommitFacts
<1>. QED
  BY <1>1, CommitFacts DEF HasEffect, Applied

\* A transaction commits.
LEMMA CommitIInv ==
  ASSUME IInv, NEW h \in Handlers, Commit(h)
  PROVE  IInv'
<1>. USE ProductsAssumption, RequestsAssumption, NoneAssumption DEF IInv
<1>1. /\ pc[h] = "rows" /\ todo[h] = {}
      /\ pc' = [pc EXCEPT ![h] = "fetch"]
      /\ staged' = [staged EXCEPT ![h] = {}]
      /\ value' = [value EXCEPT ![h] = [p \in Products |-> 0]]
      /\ UNCHANGED <<policy, active, drift, req, todo, outcome, form>>
  BY DEF Commit
<1>2. /\ rowOwner' \in [Products -> Handlers \cup {None}]
      /\ keyOwner' \in [Sales -> Handlers \cup {None}]
      /\ \A p \in Products :
           rowOwner'[p] = IF rowOwner[p] = h THEN None ELSE rowOwner[p]
      /\ \A s \in Sales : keyOwner[s] # h => keyOwner'[s] = keyOwner[s]
  BY ReleaseFacts DEF Commit
<1>3. req[h] \in Requests /\ recorded' = recorded \cup ({req[h]} \cap Sales)
  BY CommitFacts
<1>4. \A p \in staged[h] : /\ p \in Tracked /\ p \in Products
                          /\ Delta[req[h]][p] # 0
                          /\ rows[req[h]][p] = 0
  BY CommitFacts
<1>5. \A r \in Requests, p \in Products :
        rows'[r][p] = IF r = req[h] /\ p \in staged[h] THEN 1 ELSE rows[r][p]
  BY CommitFacts
<1>6. \A p \in Products :
        /\ qty'[p] = IF p \in staged[h] THEN qty[p] + Delta[req[h]][p] ELSE qty[p]
        /\ ledger'[p] = IF p \in staged[h] THEN ledger[p] + Delta[req[h]][p]
                                           ELSE ledger[p]
  BY CommitFacts
<1>7. TypeOK'
  <2>1. qty' \in [Products -> Nat]
    BY DEF TypeOK, Commit
  <2>2. rows' \in [Requests -> [Products -> Nat]]
    <3>1. /\ req[h] \in Requests /\ rows \in [Requests -> [Products -> Nat]]
          /\ rows' = [rows EXCEPT ![req[h]] =
                        [p \in Products |-> IF p \in staged[h] THEN @[p] + 1 ELSE @[p]]]
      BY <1>3, <1>5 DEF TypeOK, Commit
    <3>. QED
      BY <3>1
  <2>3. ledger' \in [Products -> Int]
    <3>1. ASSUME NEW p \in Products
          PROVE  ledger[p] \in Int /\ ledger[p] + Delta[req[h]][p] \in Int
      BY <1>3, <1>6 DEF TypeOK
    <3>. QED
      BY <3>1 DEF Commit
  <2>4. recorded' \subseteq Sales
    BY DEF TypeOK, Commit
  <2>. QED
    BY <1>1, <1>2, <2>1, <2>2, <2>3, <2>4 DEF TypeOK
<1>8. AttemptInv'
  BY <1>1 DEF TypeOK, AttemptInv
<1>9. LocksInOrder'
  <2>1. ASSUME NEW g \in Handlers, NEW p \in Products, rowOwner'[p] = g
        PROVE  g # h /\ rowOwner[p] = g /\ pc'[g] = pc[g] /\ todo'[g] = todo[g]
    BY <1>1, <1>2, <2>1 DEF TypeOK
  <2>. QED
    BY <2>1 DEF LocksInOrder
<1>10. RowsInv'
  <2>1. ASSUME NEW g \in Handlers, NEW p \in staged'[g]
        PROVE  /\ rowOwner'[p] = g
               /\ p \in Tracked
               /\ Delta[req'[g]][p] # 0
               /\ value'[g][p] = qty'[p] + Delta[req'[g]][p]
               /\ req'[g] \in Movements => p \in active' /\ rows'[req'[g]][p] = 0
    <3>1. g # h /\ p \in staged[g] /\ p \in Products
      BY <1>1, <2>1 DEF TypeOK
    <3>2. rowOwner[p] = g /\ p \notin staged[h]
      BY <3>1 DEF RowsInv
    <3>3. qty'[p] = qty[p] /\ \A r \in Requests : rows'[r][p] = rows[r][p]
      <4>1. qty'[p] = qty[p]
        BY <3>1, <3>2, <1>6
      <4>2. \A r \in Requests : rows'[r][p] = rows[r][p]
        BY <3>1, <3>2, <1>5
      <4>. QED
        BY <4>1, <4>2
    <3>. QED
      BY <1>1, <1>2, <3>1, <3>2, <3>3 DEF TypeOK, RowsInv, Requests
  <2>. QED
    BY <2>1 DEF RowsInv
<1>11. KeyInv'
  BY <1>1, <1>2 DEF TypeOK, KeyInv
<1>12. SaleInv'
  <2>1. ASSUME NEW s \in Sales, NEW p \in Products
        PROVE  rows'[s][p] = IF s \in recorded' /\ Delta[s][p] # 0 /\ p \in Tracked
                             THEN 1 ELSE 0
    <3>1. rows[s][p] = IF s \in recorded /\ Delta[s][p] # 0 /\ p \in Tracked
                       THEN 1 ELSE 0
      BY DEF SaleInv
    <3>2. CASE s # req[h]
      <4>1. rows'[s][p] = rows[s][p] /\ (s \in recorded' <=> s \in recorded)
        BY <3>2, <1>3, <1>5 DEF Requests
      <4>. QED
        BY <3>1, <4>1
    <3>3. CASE s = req[h] /\ s \in recorded
      <4>1. staged[h] = {}
        BY <1>1, <3>3 DEF SaleInv
      <4>2. rows'[s][p] = rows[s][p] /\ s \in recorded'
        BY <3>3, <4>1, <1>3, <1>5
      <4>. QED
        BY <3>1, <3>3, <4>2
    <3>4. CASE s = req[h] /\ s \notin recorded
      <4>1. Touched(s) \cap Tracked \subseteq staged[h] /\ s \in recorded'
        BY <1>1, <3>4, <1>3 DEF SaleInv
      <4>2. CASE p \in staged[h]
        BY <3>4, <4>1, <4>2, <1>3, <1>4, <1>5
      <4>3. CASE p \notin staged[h]
        BY <3>1, <3>4, <4>1, <4>3, <1>3, <1>5 DEF Touched
      <4>. QED
        BY <4>2, <4>3
    <3>. QED
      BY <3>2, <3>3, <3>4
  <2>2. ASSUME NEW g \in Handlers, pc'[g] = "rows", req'[g] \in Sales
        PROVE  /\ pc[g] = "rows" /\ req'[g] = req[g]
               /\ todo'[g] = todo[g] /\ staged'[g] = staged[g]
               /\ req[g] \in recorded' <=> req[g] \in recorded
    <3>1. /\ pc[g] = "rows" /\ req'[g] = req[g] /\ g # h
          /\ todo'[g] = todo[g] /\ staged'[g] = staged[g]
      BY <1>1, <2>2 DEF TypeOK
    <3>2. req[g] # req[h]
      BY <1>1, <2>2, <3>1 DEF KeyInv
    <3>. QED
      BY <3>1, <3>2, <1>3
  <2>. QED
    BY <2>1, <2>2 DEF SaleInv, Touched
<1>13. MoveInv'
  <2>1. ASSUME NEW m \in Movements, NEW p \in Products
        PROVE  rows'[m][p] \in {0, 1} /\ (rows'[m][p] = 1 => Delta[m][p] # 0)
    <3>1. /\ rows[m][p] \in {0, 1} /\ (rows[m][p] = 1 => Delta[m][p] # 0)
          /\ m \in Requests
      BY DEF MoveInv, Requests
    <3>. QED
      BY <3>1, <1>4, <1>5
  <2>2. ASSUME NEW g \in Handlers, pc'[g] = "rows", req'[g] \in Movements, todo'[g] = {}
        PROVE  staged'[g] # {} \/ Applied(req[g])'
    <3>1. /\ g # h /\ pc[g] = "rows" /\ req'[g] = req[g]
          /\ todo[g] = {} /\ staged'[g] = staged[g]
      BY <1>1, <2>2 DEF TypeOK
    <3>2. staged[g] # {} \/ Applied(req[g])
      BY <2>2, <3>1 DEF MoveInv
    <3>3. ASSUME Applied(req[g])
          PROVE  \E p \in Products : rows'[req[g]][p] > 0
      <4>1. PICK p \in Products : rows[req[g]][p] > 0
        BY <3>3 DEF Applied
      <4>2. req[g] \in Requests
        BY <2>2, <3>1 DEF Requests
      <4>3. PICK r \in Requests : r = req[g]
        BY <4>2
      <4>4. rows'[r][p] = 1 \/ rows'[r][p] = rows[r][p]
        BY <1>5
      <4>5. rows'[req[g]][p] > 0
        BY ONLY <4>1, <4>3, <4>4
      <4>. QED
        BY <4>5
    <3>. QED
      BY <3>1, <3>2, <3>3 DEF Applied
  <2>. QED
    BY <2>1, <2>2 DEF MoveInv
<1>14. EffectInv'
  <2>1. ASSUME NEW g \in Handlers, g # h, pc'[g] = "fetch" \/ outcome'[g] = "ok"
        PROVE  HasEffect(req[g])'
    <3>1. HasEffect(req[g]) /\ req'[g] = req[g]
      BY <1>1, <2>1 DEF TypeOK, EffectInv
    <3>2. req[g] \in Requests
      BY <1>1, <2>1 DEF TypeOK, AttemptInv
    <3>3. HasEffect(req[g])'
      BY <3>1, <3>2, CommitKeepsEffect DEF IInv
    <3>. QED
      BY <3>1, <3>3
  <2>2. HasEffect(req[h])'
    <3>1. CASE req[h] \in Sales
      BY <1>1, <3>1, <1>3 DEF HasEffect
    <3>2. CASE req[h] \in Movements
      <4>1. staged[h] # {} \/ Applied(req[h])
        BY <1>1, <3>2 DEF MoveInv
      <4>2. \E p \in Products : rows'[req[h]][p] > 0
        <5>1. CASE staged[h] # {}
          <6>1. PICK p \in staged[h] : p \in Products
            BY <5>1, <1>4
          <6>2. rows'[req[h]][p] = 1
            BY <6>1, <1>3, <1>5
          <6>. QED
            BY <6>1, <6>2
        <5>2. CASE Applied(req[h])
          BY <5>2, <1>3, <1>5 DEF Applied
        <5>. QED
          BY <4>1, <5>1, <5>2
      <4>. QED
        BY <1>1, <3>2, <4>2 DEF HasEffect, Applied
    <3>. QED
      BY <3>1, <3>2, <1>3 DEF Requests
  <2>. QED
    BY <2>1, <2>2 DEF EffectInv
<1>15. LedgerAccountsForStock'
  <2>1. ASSUME NEW p \in Products
        PROVE  qty'[p] = Opening[p] + ledger'[p] + drift'[p]
    <3>1. /\ qty[p] = Opening[p] + ledger[p] + drift[p]
          /\ qty[p] \in Nat /\ ledger[p] \in Int /\ drift[p] \in Int
          /\ Opening[p] \in Nat /\ drift'[p] = drift[p]
      BY <1>1 DEF LedgerAccountsForStock, TypeOK
    <3>2. CASE p \in staged[h]
      <4>1. Delta[req[h]][p] \in Int
        <5>1. req[h] \in Requests
          BY <1>3
        <5>. QED
          BY <5>1
      <4>2. /\ qty'[p] = qty[p] + Delta[req[h]][p]
            /\ ledger'[p] = ledger[p] + Delta[req[h]][p]
        BY <3>2, <1>6
      <4>. QED
        BY <3>1, <4>1, <4>2
    <3>3. CASE p \notin staged[h]
      BY <3>1, <3>3, <1>6
    <3>. QED
      BY <3>2, <3>3
  <2>. QED
    BY <2>1 DEF LedgerAccountsForStock
<1>. QED
  BY <1>7, <1>8, <1>9, <1>10, <1>11, <1>12, <1>13, <1>14, <1>15

\* A product form is opened.
LEMMA OpenFormIInv ==
  ASSUME IInv, NEW e \in Editors, NEW p \in Products, OpenForm(e, p)
  PROVE  IInv'
<1>. USE DEF IInv, OpenForm, tables, locks, attempt
<1>1. TypeOK'
  BY DEF TypeOK
<1>2. AttemptInv' /\ LocksInOrder' /\ RowsInv' /\ KeyInv'
  BY DEF AttemptInv, LocksInOrder, RowsInv, KeyInv
<1>3. SaleInv' /\ MoveInv' /\ EffectInv' /\ LedgerAccountsForStock'
  BY DEF SaleInv, MoveInv, EffectInv, HasEffect, Applied, LedgerAccountsForStock
<1>. QED
  BY <1>1, <1>2, <1>3

\* A product save waits for the row, so no open transaction has staged it.
LEMMA SaveFormIInv ==
  ASSUME IInv, NEW e \in Editors, NEW p \in Products, SaveForm(e, p)
  PROVE  IInv'
<1>. USE ProductsAssumption, NoneAssumption DEF IInv, SaveForm, locks, attempt
<1>. DEFINE q == IF p \in Tracked THEN form[e].quantity ELSE qty[p]
<1>1. q \in Nat /\ qty' = [qty EXCEPT ![p] = q] /\ drift' = [drift EXCEPT ![p] = @ + q - qty[p]]
  BY DEF TypeOK
<1>. HIDE DEF q
<1>2. TypeOK'
  <2>1. drift' \in [Products -> Int]
    BY <1>1 DEF TypeOK
  <2>. QED
    BY <1>1, <2>1 DEF TypeOK, NoForm
<1>3. AttemptInv' /\ LocksInOrder' /\ KeyInv'
  BY DEF AttemptInv, LocksInOrder, KeyInv
<1>4. RowsInv'
  <2>1. ASSUME NEW h \in Handlers, NEW r \in staged[h] PROVE qty'[r] = qty[r]
    BY <1>1 DEF TypeOK, RowsInv
  <2>. QED
    BY <2>1 DEF RowsInv
<1>5. SaleInv' /\ MoveInv' /\ EffectInv'
  BY DEF SaleInv, MoveInv, EffectInv, HasEffect, Applied
<1>6. LedgerAccountsForStock'
  <2>1. ASSUME NEW r \in Products PROVE qty'[r] = Opening[r] + ledger[r] + drift'[r]
    <3>1. /\ qty[r] = Opening[r] + ledger[r] + drift[r]
          /\ qty[r] \in Nat /\ ledger[r] \in Int /\ drift[r] \in Int /\ Opening[r] \in Nat
      BY DEF LedgerAccountsForStock, TypeOK
    <3>2. CASE r = p
      <4>1. qty'[r] = q /\ drift'[r] = drift[r] + q - qty[r]
        BY <1>1, <3>2 DEF TypeOK
      <4>. QED
        BY <1>1, <3>1, <4>1
    <3>3. CASE r # p
      BY <1>1, <3>1, <3>3 DEF TypeOK
    <3>. QED
      BY <3>2, <3>3
  <2>. QED
    BY <2>1 DEF LedgerAccountsForStock
<1>. QED
  BY <1>2, <1>3, <1>4, <1>5, <1>6

\* Disabling waits for the row, so no open movement has staged it.
LEMMA DisableIInv ==
  ASSUME IInv, NEW p \in Products, Disable(p)
  PROVE  IInv'
<1>. USE NoneAssumption DEF IInv, Disable, locks, attempt
<1>1. TypeOK' /\ AttemptInv' /\ LocksInOrder' /\ KeyInv'
  BY DEF TypeOK, AttemptInv, LocksInOrder, KeyInv
<1>2. RowsInv'
  BY DEF TypeOK, RowsInv
<1>3. SaleInv' /\ MoveInv' /\ EffectInv' /\ LedgerAccountsForStock'
  BY DEF SaleInv, MoveInv, EffectInv, HasEffect, Applied, LedgerAccountsForStock
<1>. QED
  BY <1>1, <1>2, <1>3

\* Nothing happens.
LEMMA StutterIInv ==
  ASSUME IInv, UNCHANGED vars
  PROVE  IInv'
<1>. USE DEF IInv, vars, tables, locks, attempt
<1>1. TypeOK' /\ AttemptInv' /\ LocksInOrder' /\ RowsInv' /\ KeyInv'
  BY DEF TypeOK, AttemptInv, LocksInOrder, RowsInv, KeyInv
<1>2. SaleInv' /\ MoveInv' /\ EffectInv' /\ LedgerAccountsForStock'
  BY DEF SaleInv, MoveInv, EffectInv, HasEffect, Applied, LedgerAccountsForStock
<1>. QED
  BY <1>1, <1>2

-----------------------------------------------------------------------------
(* The invariant. *)

\* A handler goes on with its request.
LEMMA WorkIInv ==
  ASSUME IInv, NEW h \in Handlers, Work(h)
  PROVE  IInv'
<1>1. CASE InsertSale(h)
  BY <1>1, InsertSaleIInv
<1>2. CASE DeductRow(h)
  <2>1. req[h] \notin Movements
    BY <1>2, RequestsAssumption DEF DeductRow
  <2>. QED
    BY <1>2, <2>1, StageIInv DEF DeductRow
<1>3. CASE SkipRow(h)
  BY <1>3, PassIInv DEF SkipRow
<1>4. CASE RefuseRow(h)
  BY <1>4, AbortIInv DEF RefuseRow, AtRow, ShortOf
<1>5. CASE MoveRow(h)
  BY <1>5, StageIInv DEF MoveRow
<1>6. CASE ReplayMove(h)
  BY <1>6, PassIInv DEF ReplayMove
<1>7. CASE RefuseMove(h)
  BY <1>7, AbortIInv DEF RefuseMove, AtRow, ShortOf
<1>8. CASE Commit(h)
  BY <1>8, CommitIInv
<1>9. CASE Fetch(h)
  BY <1>9, FetchIInv
<1>10. CASE Reply(h)
  BY <1>10, ReplyIInv
<1>. QED
  BY <1>1, <1>2, <1>3, <1>4, <1>5, <1>6, <1>7, <1>8, <1>9, <1>10 DEF Work

\* No action of the system breaks the invariant.
LEMMA NextIInv == IInv /\ [Next]_vars => IInv'
<1>. SUFFICES ASSUME IInv, [Next]_vars PROVE IInv'
  OBVIOUS
<1>1. ASSUME NEW h \in Handlers, NEW s \in Sales, SubmitSale(h, s) PROVE IInv'
  BY <1>1, BeginIInv DEF SubmitSale, Requests
<1>2. ASSUME NEW h \in Handlers, NEW m \in Movements, SubmitMovement(h, m) PROVE IInv'
  <2>1. Touched(m) # {}
    BY RequestsAssumption DEF Touched
  <2>. QED
    BY <1>2, <2>1, BeginIInv DEF SubmitMovement, Requests
<1>3. ASSUME NEW h \in Handlers, NEW r \in Requests, Refuse(h, r) PROVE IInv'
  <2>1. Begin(h, r, "replied", {}) /\ {} \in SUBSET Touched(r)
    BY <1>3 DEF Refuse
  <2>2. \E o \in {"not_found", "forbidden"} : outcome' = [outcome EXCEPT ![h] = o]
    BY <1>3 DEF Refuse
  <2>. QED
    BY <2>1, <2>2, BeginIInv
<1>4. ASSUME NEW h \in Handlers, Work(h) PROVE IInv'
  BY <1>4, WorkIInv
<1>5. ASSUME NEW h \in Handlers, Crash(h) PROVE IInv'
  BY <1>5, CrashIInv
<1>6. ASSUME NEW e \in Editors, NEW p \in Products, OpenForm(e, p) PROVE IInv'
  BY <1>6, OpenFormIInv
<1>7. ASSUME NEW e \in Editors, NEW p \in Products, SaveForm(e, p) PROVE IInv'
  BY <1>7, SaveFormIInv
<1>8. ASSUME NEW p \in Products, Disable(p) PROVE IInv'
  BY <1>8, DisableIInv
<1>9. CASE UNCHANGED vars
  BY <1>9, StutterIInv
<1>. QED
  BY <1>1, <1>2, <1>3, <1>4, <1>5, <1>6, <1>7, <1>8, <1>9, ProductsAssumption DEF Next

\* The inductive invariant of every execution of the stock ledger: what each open
\* transaction has staged, which keys and rows it holds, and what the committed
\* tables say of it.
THEOREM LedgerInvariant == Spec => []IInv
<1>. QED
  BY InitIInv, NextIInv, PTL DEF Spec

\* Every variable keeps its type; in particular the CHECK constraint leaves no
\* quantity negative, whatever the stock policy says.
THEOREM TypeCorrect == Spec => []TypeOK
<1>1. IInv => TypeOK
  BY DEF IInv
<1>. QED
  BY <1>1, LedgerInvariant, PTL

\* No update of a quantity is ever lost, for any number of concurrent requests.
THEOREM NoUpdateIsLost == Spec => []LedgerAccountsForStock
<1>1. IInv => LedgerAccountsForStock
  BY DEF IInv
<1>. QED
  BY <1>1, LedgerInvariant, PTL

\* A request that is retried, also concurrently, is applied to a product once.
THEOREM RetriesApplyOnce == Spec => []AppliedOnce
<1>1. IInv => AppliedOnce
  <2>1. ASSUME IInv, NEW r \in Requests, NEW p \in Products PROVE rows[r][p] \in {0, 1}
    BY <2>1 DEF IInv, SaleInv, MoveInv, Requests
  <2>. QED
    BY <2>1 DEF AppliedOnce
<1>. QED
  BY <1>1, LedgerInvariant, PTL

\* A sale is recorded together with all of its deductions, or not at all.
THEOREM SalesAreAtomic == Spec => []SaleIsAllOrNothing
<1>1. IInv => SaleIsAllOrNothing
  BY DEF IInv, SaleInv, SaleIsAllOrNothing, Touched
<1>. QED
  BY <1>1, LedgerInvariant, PTL

\* Product rows are locked in the order of their ids.
THEOREM RowsAreLockedInOrder == Spec => []LocksInOrder
<1>1. IInv => LocksInOrder
  BY DEF IInv
<1>. QED
  BY <1>1, LedgerInvariant, PTL

\* What a client is told of a success is true.
THEOREM SuccessIsTrue == Spec => []AcceptedHasEffect
<1>1. IInv => AcceptedHasEffect
  BY DEF IInv, EffectInv, AcceptedHasEffect
<1>. QED
  BY <1>1, LedgerInvariant, PTL

-----------------------------------------------------------------------------
(* Action properties. *)

\* Only a commit adds ledger rows; the others leave them as they are.
LEMMA OnlyCommitWritesRows ==
  ASSUME Next, rows' # rows
  PROVE  \E h \in Handlers : Commit(h)
BY DEF Next, Work, SubmitSale, SubmitMovement, Refuse, Begin, InsertSale, DeductRow,
  SkipRow, RefuseRow, MoveRow, ReplayMove, RefuseMove, Fetch, Reply, Crash, Forget,
  Abort, Stage, LockRow, OpenForm, SaveForm, Disable, tables

\* A product disabled between the lookup and the lock gets no movement.
THEOREM DisabledGetsNoMovement == Spec => NoMovementOnDisabled
<1>. DEFINE Quiet == \A m \in Movements, p \in Products :
                       rows'[m][p] > rows[m][p] => p \in active
<1>1. ASSUME IInv, Next, NEW m \in Movements, NEW p \in Products,
             rows'[m][p] > rows[m][p]
      PROVE  p \in active
  <2>1. PICK h \in Handlers : Commit(h)
    <3>1. rows' # rows
      <4>1. rows[m][p] \in Nat
        BY <1>1 DEF IInv, TypeOK, Requests
      <4>. QED
        BY <1>1, <4>1
    <3>. QED
      BY <1>1, <3>1, OnlyCommitWritesRows
  <2>2. m = req[h] /\ p \in staged[h]
    <3>1. rows[m][p] \in Nat /\ m \in Requests
      BY <1>1 DEF IInv, TypeOK, Requests
    <3>2. rows'[m][p] = IF m = req[h] /\ p \in staged[h] THEN 1 ELSE rows[m][p]
      BY <1>1, <2>1, <3>1, CommitFacts
    <3>. QED
      BY <1>1, <3>1, <3>2
  <2>. QED
    BY <1>1, <2>2 DEF IInv, RowsInv
<1>2. IInv /\ [Next]_vars => [Quiet]_rows
  <2>1. UNCHANGED vars => rows' = rows
    BY DEF vars, tables
  <2>. QED
    BY <1>1, <2>1
<1>. HIDE DEF Quiet
<1>3. Spec => [][Quiet]_rows
  BY <1>2, LedgerInvariant, PTL DEF Spec
<1>. QED
  BY <1>3 DEF Quiet, NoMovementOnDisabled

\* Only a row the request comes to can turn it down for want of stock.
LEMMA OnlyRowsRefuse ==
  ASSUME IInv, Next, NEW h \in Handlers, outcome[h] = "none",
         outcome'[h] \in {"bad_request", "check_violation"}
  PROVE  RefuseRow(h) \/ RefuseMove(h)
<1>1. outcome \in [Handlers -> {"none", "ok", "internal", "bad_request",
                               "check_violation", "not_found", "forbidden"}]
  BY DEF IInv, TypeOK
<1>2. ASSUME NEW g \in Handlers, RefuseRow(g) \/ RefuseMove(g)
      PROVE  g = h
  BY <1>1, <1>2 DEF RefuseRow, RefuseMove, Abort
<1>3. ASSUME NEW g \in Handlers, NEW r \in Requests, Refuse(g, r) PROVE FALSE
  BY <1>1, <1>3 DEF Refuse
<1>4. ASSUME NEW g \in Handlers, Fetch(g) PROVE FALSE
  BY <1>1, <1>4 DEF Fetch
<1>5. ASSUME NEW g \in Handlers, Reply(g) \/ Crash(g) PROVE FALSE
  BY <1>1, <1>5 DEF Reply, Crash, Forget
<1>6. outcome' # outcome
  OBVIOUS
<1>. QED
  BY <1>2, <1>3, <1>4, <1>5, <1>6
     DEF Next, Work, SubmitSale, SubmitMovement, InsertSale, DeductRow, SkipRow, MoveRow,
         ReplayMove, Commit, Stage, LockRow, OpenForm, SaveForm, Disable, attempt

\* A retry of what has taken effect is never turned down for want of stock.
THEOREM RetryIsAccepted == Spec => ReplayIsNotRefused
<1>. DEFINE Fair == \A h \in Handlers :
                      /\ outcome[h] = "none"
                      /\ outcome'[h] \in {"bad_request", "check_violation"}
                      => ~HasEffect(req[h])
<1>1. ASSUME IInv, Next, NEW h \in Handlers, outcome[h] = "none",
             outcome'[h] \in {"bad_request", "check_violation"}
      PROVE  ~HasEffect(req[h])
  <2>1. recorded \subseteq Sales
    BY <1>1 DEF IInv, TypeOK
  <2>2. CASE RefuseRow(h)
    <3>1. req[h] \in Sales /\ pc[h] = "rows" /\ todo[h] # {}
      BY <2>2 DEF RefuseRow, AtRow
    <3>2. req[h] \notin recorded /\ req[h] \notin Movements
      BY <1>1, <3>1, RequestsAssumption DEF IInv, SaleInv
    <3>. QED
      BY <3>2 DEF HasEffect
  <2>3. CASE RefuseMove(h)
    <3>1. req[h] \in Movements /\ (~Applied(req[h]) \/ outcome'[h] = "not_found")
      BY <1>1, <2>3 DEF RefuseMove, Abort, IInv, TypeOK
    <3>. QED
      BY <1>1, <2>1, <3>1, RequestsAssumption DEF HasEffect
  <2>. QED
    BY <1>1, <2>2, <2>3, OnlyRowsRefuse
<1>2. IInv /\ [Next]_vars => [Fair]_outcome
  <2>1. UNCHANGED vars => outcome' = outcome
    BY DEF vars, attempt
  <2>. QED
    BY <1>1, <2>1
<1>. HIDE DEF Fair
<1>3. Spec => [][Fair]_outcome
  BY <1>2, LedgerInvariant, PTL DEF Spec
<1>. QED
  BY <1>3 DEF Fair, ReplayIsNotRefused

-----------------------------------------------------------------------------
(* Refinement: every step is a step of AtomicInventory or leaves its variables *)
(* as they are.                                                                *)

done == recorded \cup {m \in Movements : Applied(m)}

\* A commit either applies its request, which had no effect before, or finds that
\* an earlier attempt has done so and changes nothing.
LEMMA CommitApplies ==
  ASSUME IInv, NEW h \in Handlers, Commit(h)
  PROVE  \/ UNCHANGED <<qty, done>>
         \/ /\ req[h] \in Requests
            /\ req[h] \notin done
            /\ \A p \in Tracked : qty[p] + Delta[req[h]][p] >= 0
            /\ qty' = [p \in Products |->
                         IF p \in Tracked THEN qty[p] + Delta[req[h]][p] ELSE qty[p]]
            /\ done' = done \cup {req[h]}
<1>. USE ProductsAssumption, RequestsAssumption
<1>0. PICK r \in Requests : r = req[h]
  BY CommitFacts
<1>1. /\ r \in Requests /\ pc[h] = "rows" /\ todo[h] = {}
      /\ recorded \subseteq Sales /\ staged[h] \subseteq Products
      /\ qty \in [Products -> Nat] /\ qty' \in [Products -> Nat]
  <2>1. TypeOK /\ TypeOK'
    BY CommitIInv DEF IInv
  <2>. QED
    BY <2>1 DEF Commit, TypeOK
<1>2. \A p \in Products :
        qty'[p] = IF p \in staged[h] THEN qty[p] + Delta[r][p] ELSE qty[p]
  BY <1>0, CommitFacts
<1>3. recorded' = recorded \cup ({r} \cap Sales)
  BY <1>0, CommitFacts
<1>4. \A m \in Movements \ {r} : Applied(m)' <=> Applied(m)
  <2>1. ASSUME NEW m \in Movements \ {r}, NEW p \in Products
        PROVE  rows'[m][p] = rows[m][p]
    BY <1>0, CommitFacts DEF Requests
  <2>. QED
    BY <2>1 DEF Applied
<1>5. CASE HasEffect(r)
  <2>1. staged[h] = {}
    <3>1. CASE r \in Sales
      BY <1>0, <1>1, <1>5, <3>1, RequestsAssumption DEF IInv, SaleInv, HasEffect
    <3>2. ASSUME r \in Movements, NEW p \in staged[h] PROVE FALSE
      <4>1. PICK q \in Products : rows[r][q] > 0
        BY <1>1, <1>5, <3>2 DEF HasEffect, Applied
      <4>2. rows[r][q] = 1 /\ Delta[r][q] # 0
        BY <3>2, <4>1 DEF IInv, MoveInv
      <4>3. rows[r][p] = 0 /\ Delta[r][p] # 0 /\ p \in Products
        BY <1>0, CommitFacts, <3>2
      <4>4. p = q
        BY <3>2, <4>1, <4>2, <4>3
      <4>. QED
        BY <4>2, <4>3, <4>4
    <3>. QED
      BY <1>1, <3>1, <3>2 DEF Requests
  <2>2. qty' = qty
    <3>1. \A p \in Products : qty'[p] = qty[p]
      BY <1>2, <2>1
    <3>2. /\ qty = [p \in Products |-> qty[p]]
          /\ qty' = [p \in Products |-> qty'[p]]
      BY <1>1
    <3>. QED
      BY <3>1, <3>2, Zenon
  <2>3. \A p \in Products : rows'[r][p] = rows[r][p]
    BY <1>0, <2>1, CommitFacts
  <2>4. recorded' = recorded
    BY <1>5, <1>3 DEF HasEffect
  <2>5. \A m \in Movements : Applied(m)' <=> Applied(m)
    BY <1>4, <2>3 DEF Applied
  <2>. QED
    BY <2>2, <2>4, <2>5 DEF done
<1>6. CASE ~HasEffect(r)
  <2>1. ASSUME NEW p \in Tracked, p \notin staged[h] PROVE Delta[r][p] = 0
    <3>1. CASE r \in Sales
      <4>1. r \notin recorded
        BY <1>6 DEF HasEffect
      <4>. QED
        BY <1>0, <1>1, <2>1, <3>1, <4>1 DEF IInv, SaleInv, Touched
    <3>2. CASE r \in Movements
      <4>1. PICK q \in staged[h] : q \in Products /\ Delta[r][q] # 0
        <5>1. staged[h] # {}
          BY <1>0, <1>1, <1>6, <3>2 DEF IInv, MoveInv, HasEffect
        <5>. QED
          BY <1>0, <5>1, CommitFacts
      <4>. QED
        BY <2>1, <3>2, <4>1
    <3>. QED
      BY <1>1, <3>1, <3>2 DEF Requests
  <2>2. staged[h] \subseteq Tracked
    BY CommitFacts
  <2>3. ASSUME NEW p \in Products
        PROVE  qty'[p] = IF p \in Tracked THEN qty[p] + Delta[r][p] ELSE qty[p]
    <3>1. CASE p \in staged[h]
      BY <1>2, <2>2, <3>1
    <3>2. CASE p \in Tracked /\ p \notin staged[h]
      BY <1>1, <1>2, <2>1, <3>2
    <3>3. CASE p \notin Tracked
      BY <1>2, <2>2, <3>3
    <3>. QED
      BY <3>1, <3>2, <3>3
  <2>4. qty' = [p \in Products |->
                 IF p \in Tracked THEN qty[p] + Delta[r][p] ELSE qty[p]]
    BY <1>1, <2>3
  <2>5. \A p \in Tracked : qty[p] + Delta[r][p] >= 0
    <3>1. ASSUME NEW p \in Tracked PROVE qty'[p] \in Nat /\ qty'[p] = qty[p] + Delta[r][p]
      BY <1>1, <2>3
    <3>. QED
      BY <3>1
  <2>6. r \notin done
    BY <1>1, <1>6 DEF done, HasEffect
  <2>7. done' = done \cup {r}
    <3>1. CASE r \in Sales
      <4>1. recorded' = recorded \cup {r} /\ r \notin Movements
        BY <1>3, <3>1
      <4>. QED
        BY <1>4, <4>1 DEF done
    <3>2. CASE r \in Movements
      <4>1. recorded' = recorded
        BY <1>3, <3>2
      <4>2. PICK p \in staged[h] : p \in Products
        <5>1. staged[h] # {}
          BY <1>0, <1>1, <1>6, <3>2 DEF IInv, MoveInv, HasEffect
        <5>. QED
          BY <1>1, <5>1
      <4>3. Applied(r)'
        <5>1. rows'[r][p] = 1
          BY <1>0, <4>2, CommitFacts
        <5>. QED
          BY <4>2, <5>1 DEF Applied
      <4>. QED
        BY <1>4, <3>2, <4>1, <4>3 DEF done
    <3>. QED
      BY <1>1, <3>1, <3>2 DEF Requests
  <2>. QED
    BY <1>0, <1>1, <2>4, <2>5, <2>6, <2>7
<1>. QED
  BY <1>5, <1>6

\* The concurrent transactions implement one indivisible step per request.
THEOREM LedgerRefinesInventory == Spec => ImplementsInventory
<1>1. Init => Inventory!Init
  BY DEF Init, Inventory!Init, Applied, Requests
<1>2. IInv /\ [Next]_vars => [Inventory!Next]_<<qty, done, drift>>
  <2>. SUFFICES ASSUME IInv, [Next]_vars, ~UNCHANGED <<qty, done, drift>>
       PROVE  Inventory!Next
    OBVIOUS
  <2>1. ASSUME NEW h \in Handlers, Commit(h) PROVE Inventory!Next
    <3>1. drift' = drift
      BY <2>1 DEF Commit
    <3>. QED
      BY <2>1, <3>1, CommitApplies DEF Inventory!Next, Inventory!Apply, done, Requests
  <2>2. ASSUME NEW e \in Editors, NEW p \in Products, SaveForm(e, p) PROVE Inventory!Next
    <3>1. /\ qty \in [Products -> Nat] /\ qty' \in [Products -> Nat]
          /\ drift \in [Products -> Int]
      <4>1. TypeOK /\ TypeOK'
        BY <2>2, SaveFormIInv DEF IInv
      <4>. QED
        BY <4>1 DEF TypeOK
    <3>2. /\ qty' = [qty EXCEPT ![p] = qty'[p]]
          /\ drift' = [drift EXCEPT ![p] = @ + qty'[p] - qty[p]]
      BY <2>2, <3>1 DEF SaveForm
    <3>3. done' = done
      BY <2>2 DEF SaveForm, done, Applied
    <3>4. p \in Tracked
      <4>1. SUFFICES ASSUME p \notin Tracked PROVE qty' = qty /\ drift' = drift
        BY <3>3
      <4>2. qty'[p] = qty[p]
        BY <2>2, <3>1, <4>1 DEF SaveForm
      <4>. QED
        BY <3>1, <3>2, <4>2
    <3>. QED
      BY <3>2, <3>3, <3>4, <3>1 DEF Inventory!Next, Inventory!Replace, done
  <2>3. CASE UNCHANGED <<qty, recorded, rows, drift>>
    BY <2>3 DEF done, Applied
  <2>. QED
    BY <2>1, <2>2, <2>3
       DEF Next, Work, SubmitSale, SubmitMovement, Refuse, Begin, InsertSale, DeductRow,
           SkipRow, RefuseRow, MoveRow, ReplayMove, RefuseMove, Fetch, Reply, Crash,
           Forget, Abort, Stage, LockRow, OpenForm, Disable, tables, vars
<1>3. Spec => [][Inventory!Next]_<<qty, done, drift>>
  BY <1>2, LedgerInvariant, PTL DEF Spec
<1>. QED
  BY <1>1, <1>3, PTL DEF Spec, ImplementsInventory, Inventory!Spec, done

-----------------------------------------------------------------------------
(* Nobody waits in a circle. *)

\* Only a transaction that has come to its rows holds a key, and at any time
\* there is a last product row that is locked.
WaitInv ==
  /\ \A h \in Handlers, s \in Sales : keyOwner[s] = h => pc[h] = "rows"
  /\ \E n \in Nat : \A p \in Products : rowOwner[p] # None => p <= n

\* A step without a lock of its own: whoever holds a key stays at its rows.
LEMMA SameLocksWait ==
  ASSUME WaitInv, UNCHANGED locks,
         \A g \in Handlers : pc[g] = "rows" => pc'[g] = "rows"
  PROVE  WaitInv'
BY DEF WaitInv, locks

\* The lock of one more row.
LEMMA LockWait ==
  ASSUME IInv, WaitInv, NEW h \in Handlers, NEW p \in Products, LockRow(h, p)
  PROVE  WaitInv'
<1>1. \A g \in Handlers, s \in Sales : keyOwner'[s] = g => pc'[g] = "rows"
  BY DEF WaitInv, LockRow
<1>2. PICK n \in Nat : \A q \in Products : rowOwner[q] # None => q <= n
  BY DEF WaitInv
<1>3. PICK k \in Nat : n <= k /\ p <= k
  <2>1. p \in Nat
    BY ProductsAssumption
  <2>2. CASE p <= n
    BY <2>1, <2>2
  <2>3. CASE n <= p
    BY <2>1, <2>3
  <2>. QED
    BY <2>1, <2>2, <2>3
<1>4. \A q \in Products : rowOwner'[q] # None => q <= k
  <2>1. ASSUME NEW q \in Products, rowOwner'[q] # None PROVE q <= k
    <3>1. q \in Nat
      BY ProductsAssumption
    <3>2. q = p \/ rowOwner[q] # None
      BY <2>1 DEF LockRow, IInv, TypeOK
    <3>. QED
      BY <1>2, <1>3, <3>1, <3>2
  <2>. QED
    BY <2>1
<1>. QED
  BY <1>1, <1>4 DEF WaitInv

\* The end of a transaction.
LEMMA ReleaseWait ==
  ASSUME IInv, WaitInv, NEW h \in Handlers, ReleaseLocks(h),
         \A g \in Handlers : g # h => pc'[g] = pc[g]
  PROVE  WaitInv'
<1>1. ASSUME NEW g \in Handlers, NEW s \in Sales, keyOwner'[s] = g
      PROVE  pc'[g] = "rows"
  <2>1. keyOwner[s] = g /\ g # h
    BY <1>1, NoneAssumption DEF ReleaseLocks
  <2>. QED
    BY <2>1 DEF WaitInv
<1>2. \A p \in Products : rowOwner'[p] # None => rowOwner[p] # None
  BY DEF ReleaseLocks
<1>. QED
  BY <1>1, <1>2 DEF WaitInv

\* A handler goes on with its request.
LEMMA WorkWait ==
  ASSUME IInv, WaitInv, NEW h \in Handlers, Work(h)
  PROVE  WaitInv'
<1>t. pc \in [Handlers -> {"idle", "insert", "rows", "fetch", "replied"}]
  BY DEF IInv, TypeOK
<1>1. CASE InsertSale(h)
  <2>1. /\ keyOwner' = [keyOwner EXCEPT ![req[h]] = h]
        /\ pc' = [pc EXCEPT ![h] = "rows"]
        /\ rowOwner' = rowOwner
    BY <1>1 DEF InsertSale
  <2>2. keyOwner \in [Sales -> Handlers \cup {None}]
    BY DEF IInv, TypeOK
  <2>. QED
    BY <1>t, <2>1, <2>2 DEF WaitInv
<1>2. CASE DeductRow(h) \/ SkipRow(h) \/ MoveRow(h) \/ ReplayMove(h)
  <2>1. \E p \in Products : LockRow(h, p)
    BY <1>2 DEF DeductRow, SkipRow, MoveRow, ReplayMove, Stage
  <2>. QED
    BY <2>1, LockWait
<1>3. CASE RefuseRow(h) \/ RefuseMove(h) \/ Commit(h)
  <2>1. ReleaseLocks(h) /\ \E where \in {"replied", "fetch"} : pc' = [pc EXCEPT ![h] = where]
    BY <1>3 DEF RefuseRow, RefuseMove, Abort, Commit
  <2>. QED
    BY <1>t, <2>1, ReleaseWait
<1>4. CASE Fetch(h) \/ Reply(h)
  <2>1. UNCHANGED locks /\ pc[h] # "rows" /\ \E where : pc' = [pc EXCEPT ![h] = where]
    BY <1>4 DEF Fetch, Reply, Forget
  <2>. QED
    BY <1>t, <2>1, SameLocksWait
<1>. QED
  BY <1>1, <1>2, <1>3, <1>4 DEF Work

\* No action of the system breaks it.
LEMMA NextWait == IInv /\ WaitInv /\ [Next]_vars => WaitInv'
<1>. SUFFICES ASSUME IInv, WaitInv, [Next]_vars PROVE WaitInv'
  OBVIOUS
<1>t. pc \in [Handlers -> {"idle", "insert", "rows", "fetch", "replied"}]
  BY DEF IInv, TypeOK
<1>1. CASE \/ \E h \in Handlers, s \in Sales : SubmitSale(h, s)
           \/ \E h \in Handlers, m \in Movements : SubmitMovement(h, m)
           \/ \E h \in Handlers, r \in Requests : Refuse(h, r)
  <2>1. PICK h \in Handlers : UNCHANGED locks /\ pc[h] = "idle"
                              /\ \E where : pc' = [pc EXCEPT ![h] = where]
    BY <1>1 DEF SubmitSale, SubmitMovement, Refuse, Begin
  <2>. QED
    BY <1>t, <2>1, SameLocksWait
<1>2. ASSUME NEW h \in Handlers, Work(h) PROVE WaitInv'
  BY <1>2, WorkWait
<1>3. ASSUME NEW h \in Handlers, Crash(h) PROVE WaitInv'
  <2>1. ReleaseLocks(h) /\ pc' = [pc EXCEPT ![h] = "idle"]
    BY <1>3 DEF Crash, Forget
  <2>. QED
    BY <1>t, <2>1, ReleaseWait
<1>4. CASE \/ \E e \in Editors, p \in Edited : OpenForm(e, p)
           \/ \E e \in Editors, p \in Products : SaveForm(e, p)
           \/ \E p \in Products : Disable(p)
           \/ UNCHANGED vars
  <2>1. UNCHANGED <<locks, pc>>
    BY <1>4 DEF OpenForm, SaveForm, Disable, vars, attempt
  <2>. QED
    BY <2>1, SameLocksWait
<1>. QED
  BY <1>1, <1>2, <1>3, <1>4 DEF Next

\* Of the rows some handler waits for there is a last one.
LEMMA LastRow ==
  ASSUME NEW S \in SUBSET Nat, S # {}, NEW n \in Nat, \A p \in S : p <= n
  PROVE  \E p \in S : \A q \in S : q <= p
<1>. DEFINE above == {k \in Nat : \E p \in S : k = n - p}
<1>1. above \in SUBSET Nat /\ above # {}
  <2>1. PICK p \in S : p \in Nat /\ p <= n
    OBVIOUS
  <2>2. n - p \in Nat
    BY <2>1
  <2>. QED
    BY <2>1, <2>2
<1>2. PICK k \in above : \A j \in above : k <= j
  <2>. HIDE DEF above
  <2>. QED
    BY <1>1, LeastMember
<1>3. PICK p \in S : k = n - p
  OBVIOUS
<1>4. ASSUME NEW q \in S PROVE q <= p
  <2>1. n - q \in above
    OBVIOUS
  <2>2. k <= n - q
    BY <1>2, <2>1
  <2>. QED
    BY <1>3, <2>2
<1>. QED
  BY <1>4

\* While transactions are at their rows, one of them does not wait: the one that
\* holds the last row others wait for can only wait for a later one.
LEMMA OneGoesOn ==
  ASSUME IInv, WaitInv, NEW h \in Handlers, pc[h] = "rows"
  PROVE  \E g \in Handlers : pc[g] = "rows" /\ ~Waiting(g)
<1>. SUFFICES ASSUME \A g \in Handlers : pc[g] = "rows" => Waiting(g) PROVE FALSE
  OBVIOUS
<1>. DEFINE next(g) == Least(todo[g])
            wanted == {p \in Products : \E g \in Handlers : pc[g] = "rows" /\ p = next(g)
                                           /\ todo[g] # {} /\ rowOwner[p] # None}
<1>1. ASSUME NEW g \in Handlers, pc[g] = "rows"
      PROVE  next(g) \in wanted /\ next(g) \in todo[g]
  <2>1. todo[g] # {} /\ rowOwner[next(g)] # None
    BY <1>1 DEF Waiting
  <2>2. todo[g] \subseteq Products
    BY DEF IInv, TypeOK
  <2>3. next(g) \in todo[g]
    BY <2>1, <2>2, LeastMember, ProductsAssumption
  <2>. QED
    BY <1>1, <2>1, <2>2, <2>3
<1>2. wanted \in SUBSET Nat /\ wanted # {}
  BY <1>1, ProductsAssumption
<1>3. PICK p \in wanted : \A q \in wanted : q <= p
  <2>1. PICK n \in Nat : \A q \in Products : rowOwner[q] # None => q <= n
    BY DEF WaitInv
  <2>2. \A q \in wanted : q <= n
    BY <2>1
  <2>. HIDE DEF wanted
  <2>. QED
    BY <1>2, <2>2, LastRow
<1>4. PICK g \in Handlers : rowOwner[p] = g
  BY DEF IInv, TypeOK
<1>5. pc[g] = "rows" /\ \A q \in todo[g] : p < q
  BY <1>4 DEF IInv, LocksInOrder
<1>6. next(g) \in wanted /\ next(g) \in todo[g]
  BY <1>1, <1>5
<1>7. p < next(g) /\ next(g) <= p
  BY <1>3, <1>5, <1>6
<1>8. p \in Nat /\ next(g) \in Nat
  BY <1>2, <1>6
<1>. QED
  BY <1>7, <1>8

\* NoDeadlock: transactions never all wait for one another, however many there
\* are and whatever rows they lock.
THEOREM SomebodyGoesOn == Spec => []NoDeadlock
<1>1. Init => WaitInv
  <2>. SUFFICES ASSUME Init PROVE WaitInv
    OBVIOUS
  <2>1. \A h \in Handlers, s \in Sales : keyOwner[s] # h
    BY NoneAssumption DEF Init
  <2>2. \A p \in Products : rowOwner[p] # None => p <= 0
    BY DEF Init
  <2>. QED
    BY <2>1, <2>2 DEF WaitInv
<1>2. IInv /\ WaitInv => NoDeadlock
  <2>. SUFFICES ASSUME IInv, WaitInv, NEW h \in Handlers, pc[h] \in {"insert", "rows"},
                       \A g \in Handlers : pc[g] \in {"insert", "rows"} => Waiting(g)
                PROVE  FALSE
    BY DEF NoDeadlock
  <2>1. \A g \in Handlers : pc[g] # "rows"
    BY OneGoesOn
  <2>2. pc[h] = "insert" /\ keyOwner[req[h]] # None
    BY <2>1 DEF Waiting
  <2>3. req[h] \in Sales
    BY <2>2 DEF IInv, AttemptInv
  <2>4. PICK g \in Handlers : keyOwner[req[h]] = g
    BY <2>2, <2>3 DEF IInv, TypeOK
  <2>. QED
    BY <2>1, <2>3, <2>4 DEF WaitInv
<1>. QED
  BY <1>1, <1>2, NextWait, LedgerInvariant, PTL DEF Spec
=============================================================================
