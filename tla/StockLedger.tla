---------------------------- MODULE StockLedger ----------------------------
(***************************************************************************)
(* The stock ledger of mbam-api: sales (modules/transactions), manual      *)
(* stock movements (modules/stock) and product saves (modules/products) as *)
(* concurrent Postgres transactions over the rows of `products`,           *)
(* `transactions` and `stock_movements`.                                   *)
(*                                                                         *)
(* Each handler is one HTTP request (or one operation of a sync push) in   *)
(* flight.  Every statement is a step of its own wherever another          *)
(* transaction can come in between, transactions run at READ COMMITTED,    *)
(* and what an open transaction has written is held in `staged`/`value`    *)
(* until it commits.  A client may submit the same request again at any    *)
(* time, also while an earlier attempt is still running.                   *)
(***************************************************************************)
EXTENDS Integers

CONSTANTS
  Products,      \* product ids; the order of Nat stands for the order of Uuid
  Tracked,       \* the products whose available_quantity is not null
  Sales,         \* sales, by idempotency key
  Movements,     \* manual movements, by movement id
  Delta,         \* Delta[r][p]: the quantity_delta of request r for product p
  Opening,       \* available_quantity of each product at the start
  InitialPolicy, \* stock_policy of each product at the start
  Handlers,      \* requests the API works on at the same time
  Editors,       \* browser tabs with a product form
  Edited,        \* bound: the products whose form is opened
  None           \* no handler, no product

Requests == Sales \cup Movements

Policies == {"allow_negative", "warn_when_low", "block_when_empty"}

ASSUME ProductsAssumption ==
  /\ Products \subseteq Nat
  /\ Tracked \subseteq Products
  /\ Edited \subseteq Products
  /\ Opening \in [Products -> Nat]
  /\ InitialPolicy \in [Products -> Policies]

\* A sale takes stock out; a movement names one product and is not zero.
ASSUME RequestsAssumption ==
  /\ Sales \cap Movements = {}
  /\ Delta \in [Requests -> [Products -> Int]]
  /\ \A s \in Sales : \A p \in Products : Delta[s][p] <= 0
  /\ \A m \in Movements : \E p \in Products :
       \A q \in Products : Delta[m][q] # 0 <=> q = p

ASSUME NoneAssumption == None \notin Handlers \cup Products \cup Requests

VARIABLES
  qty,        \* available_quantity, as committed
  policy,     \* stock_policy, as committed
  active,     \* the products with status 'active'
  recorded,   \* the sales with a committed transactions row and its lines
  rows,       \* rows[r][p]: committed stock_movements rows of r for p
  ledger,     \* ledger[p]: the sum of quantity_delta over those rows of p
  drift,      \* drift[p]: what product saves added to the quantity of p
  rowOwner,   \* the handler that holds the lock of a products row, or None
  keyOwner,   \* the handler that holds the transactions row of a key, or None
  pc,         \* what a handler does next
  req,        \* the request it works on
  todo,       \* the products its sale has not come to yet
  staged,     \* the products its open transaction has updated
  value,      \* the quantities it has written to them
  outcome,    \* how the attempt ended, until the client has the reply
  form        \* a tab's product form: product, quantity when it was opened

locks   == <<rowOwner, keyOwner>>
tables  == <<qty, policy, active, recorded, rows, ledger, drift>>
attempt == <<pc, req, todo, staged, value, outcome>>
vars    == <<tables, locks, attempt, form>>

Least(S) == CHOOSE p \in S : \A q \in S : p <= q

\* The products a request has a quantity for; a sale's lines for one product are
\* summed first.
Touched(r) == {p \in Products : Delta[r][p] # 0}

-----------------------------------------------------------------------------
NoForm == [product |-> None, quantity |-> 0]

Init ==
  /\ qty = Opening
  /\ policy = InitialPolicy
  /\ active = Products
  /\ recorded = {}
  /\ rows = [r \in Requests |-> [p \in Products |-> 0]]
  /\ ledger = [p \in Products |-> 0]
  /\ drift = [p \in Products |-> 0]
  /\ rowOwner = [p \in Products |-> None]
  /\ keyOwner = [s \in Sales |-> None]
  /\ pc = [h \in Handlers |-> "idle"]
  /\ req = [h \in Handlers |-> None]
  /\ todo = [h \in Handlers |-> {}]
  /\ staged = [h \in Handlers |-> {}]
  /\ value = [h \in Handlers |-> [p \in Products |-> 0]]
  /\ outcome = [h \in Handlers |-> "none"]
  /\ form = [e \in Editors |-> NoForm]
-----------------------------------------------------------------------------
(* The start of an attempt. *)

Begin(h, r, where, products) ==
  /\ pc[h] = "idle"
  /\ pc' = [pc EXCEPT ![h] = where]
  /\ req' = [req EXCEPT ![h] = r]
  /\ todo' = [todo EXCEPT ![h] = products]
  /\ UNCHANGED <<tables, locks, staged, value, form>>

\* transactions::service::create accepts the payload and finds the account.
SubmitSale(h, s) ==
  /\ Begin(h, s, "insert", {})
  /\ UNCHANGED outcome

\* stock::service::create_movement_with_id: the product's scope is read before
\* the transaction opens and before its row is locked.
SubmitMovement(h, m) ==
  /\ Touched(m) \subseteq active
  /\ Begin(h, m, "rows", Touched(m))
  /\ UNCHANGED outcome

\* Validation or the permission check ends the attempt, or no product with this
\* id is active.
Refuse(h, r) ==
  /\ Begin(h, r, "replied", {})
  /\ outcome' = [outcome EXCEPT ![h] =
                   IF r \in Movements /\ ~(Touched(r) \subseteq active)
                   THEN "not_found" ELSE "forbidden"]

-----------------------------------------------------------------------------
(* The database transaction of an attempt. *)

\* Mutant of ReleaseLocks: the end of a transaction forgets its key.
ReleaseRows(h) ==
  /\ rowOwner' = [p \in Products |-> IF rowOwner[p] = h THEN None ELSE rowOwner[p]]
  /\ UNCHANGED keyOwner

ReleaseLocks(h) ==
  /\ rowOwner' = [p \in Products |-> IF rowOwner[p] = h THEN None ELSE rowOwner[p]]
  /\ keyOwner' = [s \in Sales |-> IF keyOwner[s] = h THEN None ELSE keyOwner[s]]

\* Mutant of LockRow: the row is read without `for update`.
LockRowUnlocked(h, p) ==
  /\ rowOwner' = [rowOwner EXCEPT ![p] = h]
  /\ todo' = [todo EXCEPT ![h] = @ \ {p}]
  /\ UNCHANGED <<tables, keyOwner, pc, req, outcome, form>>

LockRow(h, p) ==
  /\ rowOwner[p] = None
  /\ rowOwner' = [rowOwner EXCEPT ![p] = h]
  /\ todo' = [todo EXCEPT ![h] = @ \ {p}]
  /\ UNCHANGED <<tables, keyOwner, pc, req, outcome, form>>

\* The new quantity is computed from the row just locked, and written to it.
Stage(h, p) ==
  /\ LockRow(h, p)
  /\ staged' = [staged EXCEPT ![h] = @ \cup {p}]
  /\ value' = [value EXCEPT ![h][p] = qty[p] + Delta[req[h]][p]]

\* Mutants of Abort: the error is swallowed; the updates so far stay.
AbortSilently(h, result) ==
  /\ ReleaseLocks(h)
  /\ pc' = [pc EXCEPT ![h] = "replied"]
  /\ outcome' = [outcome EXCEPT ![h] = "ok"]
  /\ todo' = [todo EXCEPT ![h] = {}]
  /\ staged' = [staged EXCEPT ![h] = {}]
  /\ value' = [value EXCEPT ![h] = [p \in Products |-> 0]]
  /\ UNCHANGED <<tables, req, form>>

AbortKeepsUpdates(h, result) ==
  /\ ReleaseLocks(h)
  /\ pc' = [pc EXCEPT ![h] = "replied"]
  /\ outcome' = [outcome EXCEPT ![h] = result]
  /\ todo' = [todo EXCEPT ![h] = {}]
  /\ staged' = [staged EXCEPT ![h] = {}]
  /\ value' = [value EXCEPT ![h] = [p \in Products |-> 0]]
  /\ qty' = [p \in Products |-> IF p \in staged[h] THEN value[h][p] ELSE qty[p]]
  /\ UNCHANGED <<policy, active, recorded, rows, ledger, drift, req, form>>

\* The transaction rolls back: no row keeps anything of it.
Abort(h, result) ==
  /\ ReleaseLocks(h)
  /\ pc' = [pc EXCEPT ![h] = "replied"]
  /\ outcome' = [outcome EXCEPT ![h] = result]
  /\ todo' = [todo EXCEPT ![h] = {}]
  /\ staged' = [staged EXCEPT ![h] = {}]
  /\ value' = [value EXCEPT ![h] = [p \in Products |-> 0]]
  /\ UNCHANGED <<tables, req, form>>

\* Mutants of InsertSale: the sale is committed on its own; `existing_lines` is
\* not looked at.
InsertSaleAlone(h) ==
  LET s == req[h] IN
  /\ pc[h] = "insert"
  /\ keyOwner[s] = None
  /\ keyOwner' = [keyOwner EXCEPT ![s] = h]
  /\ pc' = [pc EXCEPT ![h] = "rows"]
  /\ todo' = [todo EXCEPT ![h] = IF s \in recorded THEN {} ELSE Touched(s)]
  /\ recorded' = recorded \cup {s}
  /\ UNCHANGED <<qty, policy, active, rows, ledger, drift, rowOwner, req, staged,
                 value, outcome, form>>

InsertSaleAgain(h) ==
  LET s == req[h] IN
  /\ pc[h] = "insert"
  /\ keyOwner[s] = None
  /\ keyOwner' = [keyOwner EXCEPT ![s] = h]
  /\ pc' = [pc EXCEPT ![h] = "rows"]
  /\ todo' = [todo EXCEPT ![h] = Touched(s)]
  /\ UNCHANGED <<tables, rowOwner, req, staged, value, outcome, form>>

\* `insert into transactions ... on conflict (idempotency_key) do update` waits
\* for an open transaction on the same key; then `existing_lines` is read.
InsertSale(h) ==
  LET s == req[h] IN
  /\ pc[h] = "insert"
  /\ keyOwner[s] = None
  /\ keyOwner' = [keyOwner EXCEPT ![s] = h]
  /\ pc' = [pc EXCEPT ![h] = "rows"]
  /\ todo' = [todo EXCEPT ![h] = IF s \in recorded THEN {} ELSE Touched(s)]
  /\ UNCHANGED <<tables, rowOwner, req, staged, value, outcome, form>>

\* Mutant of AtRow: a map without an order.
AtAnyRow(h, p) ==
  /\ pc[h] = "rows"
  /\ p \in todo[h]

\* The row a sale comes to next: its product ids are visited in order.
AtRow(h, p) ==
  /\ pc[h] = "rows"
  /\ todo[h] # {}
  /\ p = Least(todo[h])

\* Mutant of InStock: only the stock policy is looked at, no CHECK constraint.
InStockByPolicy(h, p) ==
  qty[p] + Delta[req[h]][p] >= 0 \/ policy[p] # "block_when_empty"

InStock(h, p) == qty[p] + Delta[req[h]][p] >= 0

\* Why a quantity below zero ends the attempt: the stock policy, or else
\* products_quantity_check, the CHECK constraint of migration 0005.
ShortOf(p) ==
  IF policy[p] = "block_when_empty" THEN "bad_request" ELSE "check_violation"

\* One round of apply_sale_stock_deductions.
DeductRow(h) ==
  \E p \in Products :
    /\ req[h] \in Sales
    /\ AtRow(h, p)
    /\ p \in Tracked
    /\ InStock(h, p)
    /\ Stage(h, p)

SkipRow(h) ==
  \E p \in Products :
    /\ req[h] \in Sales
    /\ AtRow(h, p)
    /\ p \notin Tracked
    /\ LockRow(h, p)
    /\ UNCHANGED <<staged, value>>

RefuseRow(h) ==
  \E p \in Products :
    /\ req[h] \in Sales
    /\ AtRow(h, p)
    /\ rowOwner[p] = None
    /\ p \in Tracked
    /\ ~InStock(h, p)
    /\ Abort(h, ShortOf(p))

\* Mutant of Applied: no look for the movement's row.
NeverApplied(m) == FALSE

Applied(m) == \E p \in Products : rows[m][p] > 0

\* Mutant of MoveRow: the locked read does not test the status.
MoveAnyRow(h) ==
  \E p \in Products :
    /\ req[h] \in Movements
    /\ AtRow(h, p)
    /\ ~Applied(req[h])
    /\ p \in Tracked
    /\ InStock(h, p)
    /\ Stage(h, p)

\* stock::repository::create: lock the active product, look for the movement's
\* row, then check tracking and quantity.
MoveRow(h) ==
  \E p \in Products :
    /\ req[h] \in Movements
    /\ AtRow(h, p)
    /\ p \in active
    /\ ~Applied(req[h])
    /\ p \in Tracked
    /\ InStock(h, p)
    /\ Stage(h, p)

ReplayMove(h) ==
  \E p \in Products :
    /\ req[h] \in Movements
    /\ AtRow(h, p)
    /\ p \in active
    /\ Applied(req[h])
    /\ LockRow(h, p)
    /\ UNCHANGED <<staged, value>>

RefuseMove(h) ==
  \E p \in Products :
    /\ req[h] \in Movements
    /\ AtRow(h, p)
    /\ rowOwner[p] = None
    /\ \/ p \notin active /\ Abort(h, "not_found")
       \/ /\ p \in active
          /\ ~Applied(req[h])
          /\ p \notin Tracked
          /\ Abort(h, "bad_request")
       \/ /\ p \in active
          /\ ~Applied(req[h])
          /\ p \in Tracked
          /\ ~InStock(h, p)
          /\ Abort(h, ShortOf(p))

\* The commit publishes the quantities together with their ledger rows and, for
\* a sale, its transactions row and lines.
Commit(h) ==
  LET r == req[h] IN
  /\ pc[h] = "rows"
  /\ todo[h] = {}
  /\ qty' = [p \in Products |-> IF p \in staged[h] THEN value[h][p] ELSE qty[p]]
  /\ rows' = [rows EXCEPT ![r] =
                [p \in Products |-> IF p \in staged[h] THEN @[p] + 1 ELSE @[p]]]
  /\ ledger' = [p \in Products |->
                  IF p \in staged[h] THEN ledger[p] + Delta[r][p] ELSE ledger[p]]
  /\ recorded' = recorded \cup ({r} \cap Sales)
  /\ ReleaseLocks(h)
  /\ pc' = [pc EXCEPT ![h] = "fetch"]
  /\ staged' = [staged EXCEPT ![h] = {}]
  /\ value' = [value EXCEPT ![h] = [p \in Products |-> 0]]
  /\ UNCHANGED <<policy, active, drift, req, todo, outcome, form>>

-----------------------------------------------------------------------------
(* The end of an attempt. *)

\* find_by_id after the commit.  A sale the caller may no longer see is an
\* Internal error; a movement is found by its id alone.
Fetch(h) ==
  /\ pc[h] = "fetch"
  /\ \E result \in IF req[h] \in Sales THEN {"ok", "internal"} ELSE {"ok"} :
       outcome' = [outcome EXCEPT ![h] = result]
  /\ pc' = [pc EXCEPT ![h] = "replied"]
  /\ UNCHANGED <<tables, locks, req, todo, staged, value, form>>

Forget(h) ==
  /\ pc' = [pc EXCEPT ![h] = "idle"]
  /\ req' = [req EXCEPT ![h] = None]
  /\ todo' = [todo EXCEPT ![h] = {}]
  /\ staged' = [staged EXCEPT ![h] = {}]
  /\ value' = [value EXCEPT ![h] = [p \in Products |-> 0]]
  /\ outcome' = [outcome EXCEPT ![h] = "none"]
  /\ UNCHANGED <<tables, form>>

Reply(h) ==
  /\ pc[h] = "replied"
  /\ Forget(h)
  /\ UNCHANGED locks

\* The process or its connection goes away: an open transaction rolls back, and
\* of a committed one the reply is lost.
Crash(h) ==
  /\ pc[h] # "idle"
  /\ Forget(h)
  /\ ReleaseLocks(h)

-----------------------------------------------------------------------------
(* Product saves. *)

\* StockPage: the form copies the quantity it shows and sends it back.
OpenForm(e, p) ==
  /\ form[e] = NoForm
  /\ form' = [form EXCEPT ![e] = [product |-> p, quantity |-> qty[p]]]
  /\ UNCHANGED <<tables, locks, attempt>>

\* products::repository::update waits for the row and overwrites its columns.
SaveForm(e, p) ==
  LET q == IF p \in Tracked THEN form[e].quantity ELSE qty[p] IN
  /\ form[e].product = p
  /\ rowOwner[p] = None
  /\ qty' = [qty EXCEPT ![p] = q]
  /\ drift' = [drift EXCEPT ![p] = @ + q - qty[p]]
  /\ \E chosen \in Policies : policy' = [policy EXCEPT ![p] = chosen]
  /\ form' = [form EXCEPT ![e] = NoForm]
  /\ UNCHANGED <<active, recorded, rows, ledger, locks, attempt>>

\* products::repository::disable.
Disable(p) ==
  /\ p \in active
  /\ rowOwner[p] = None
  /\ active' = active \ {p}
  /\ UNCHANGED <<qty, policy, recorded, rows, ledger, drift, locks, attempt, form>>

-----------------------------------------------------------------------------
Work(h) ==
  \/ InsertSale(h)
  \/ DeductRow(h)
  \/ SkipRow(h)
  \/ RefuseRow(h)
  \/ MoveRow(h)
  \/ ReplayMove(h)
  \/ RefuseMove(h)
  \/ Commit(h)
  \/ Fetch(h)
  \/ Reply(h)

Next ==
  \/ \E h \in Handlers, s \in Sales : SubmitSale(h, s)
  \/ \E h \in Handlers, m \in Movements : SubmitMovement(h, m)
  \/ \E h \in Handlers, r \in Requests : Refuse(h, r)
  \/ \E h \in Handlers : Work(h)
  \/ \E h \in Handlers : Crash(h)
  \/ \E e \in Editors, p \in Edited : OpenForm(e, p)
  \/ \E e \in Editors, p \in Products : SaveForm(e, p)
  \/ \E p \in Products : Disable(p)

Spec == Init /\ [][Next]_vars

\* Handlers keep running, and Postgres grants a lock in the order of arrival.
FairSpec == Spec /\ \A h \in Handlers : SF_vars(Work(h))

-----------------------------------------------------------------------------
(* Properties. *)

\* Every variable keeps its type.  A quantity is a natural number, whatever the
\* stock policy: products_quantity_check has no exception for any, so the database
\* refuses what the documentation allows (AllowNegativePermits).
TypeOK ==
  /\ qty \in [Products -> Nat]
  /\ policy \in [Products -> Policies]
  /\ active \subseteq Products
  /\ recorded \subseteq Sales
  /\ rows \in [Requests -> [Products -> Nat]]
  /\ ledger \in [Products -> Int]
  /\ drift \in [Products -> Int]
  /\ rowOwner \in [Products -> Handlers \cup {None}]
  /\ keyOwner \in [Sales -> Handlers \cup {None}]
  /\ pc \in [Handlers -> {"idle", "insert", "rows", "fetch", "replied"}]
  /\ req \in [Handlers -> Requests \cup {None}]
  /\ todo \in [Handlers -> SUBSET Products]
  /\ staged \in [Handlers -> SUBSET Products]
  /\ value \in [Handlers -> [Products -> Nat]]
  /\ outcome \in [Handlers -> {"none", "ok", "internal", "bad_request",
                               "check_violation", "not_found", "forbidden"}]
  /\ form \in [Editors -> [product : Products \cup {None}, quantity : Nat]]

\* No update is lost: the quantity of a product is what it was at the start plus
\* the ledger rows and the product saves since, whatever ran side by side.  It is
\* what `for update` in both repositories is for.
LedgerAccountsForStock ==
  \A p \in Products : qty[p] = Opening[p] + ledger[p] + drift[p]

\* A request leaves at most one ledger row per product, however often and however
\* concurrently it is retried (the `existing_lines` and `already_applied` checks).
AppliedOnce ==
  \A r \in Requests, p \in Products : rows[r][p] <= 1

\* A sale and its stock deductions are committed together: a recorded sale has
\* deducted every tracked product it sells, an unrecorded one has deducted none.
SaleIsAllOrNothing ==
  \A s \in Sales : \A p \in Touched(s) \cap Tracked :
    rows[s][p] > 0 <=> s \in recorded

\* A handler that waits for a product row holds only rows before it, and one that
\* waits for an idempotency key holds no row: the order of the BTreeMap in
\* apply_sale_stock_deductions.
LocksInOrder ==
  \A h \in Handlers, p \in Products :
    rowOwner[p] = h => /\ pc[h] = "rows"
                       /\ \A q \in todo[h] : p < q

Waiting(h) ==
  \/ pc[h] = "insert" /\ keyOwner[req[h]] # None
  \/ pc[h] = "rows" /\ todo[h] # {} /\ rowOwner[Least(todo[h])] # None

\* Transactions never all wait for one another: while one is open, one can go on.
NoDeadlock ==
  LET open == {h \in Handlers : pc[h] \in {"insert", "rows"}}
  IN  open # {} => \E h \in open : ~Waiting(h)

\* A product disabled after stock::service looked it up gets no movement: the
\* locked read tests its status again.
NoMovementOnDisabled ==
  [][\A m \in Movements, p \in Products :
       rows'[m][p] > rows[m][p] => p \in active]_rows

\* docs/future-stock-management.md: "`allow_negative`: permit stock to go below
\* zero".  A request for tracked products is not turned down for want of stock when
\* that is the policy of all of them.
AllowNegativePermits ==
  [][\A h \in Handlers :
       /\ outcome[h] = "none"
       /\ outcome'[h] \in {"bad_request", "check_violation"}
       => \E p \in Touched(req[h]) : p \notin Tracked \/ policy[p] # "allow_negative"]_outcome

HasEffect(r) == r \in recorded \/ (r \in Movements /\ Applied(r))

\* A client told that its request succeeded finds it in the database.
AcceptedHasEffect ==
  \A h \in Handlers : outcome[h] = "ok" => HasEffect(req[h])

\* A retry of a request that took effect is never turned down for want of stock,
\* although the stock may be gone by then.
ReplayIsNotRefused ==
  [][\A h \in Handlers :
       /\ outcome[h] = "none"
       /\ outcome'[h] \in {"bad_request", "check_violation"}
       => ~HasEffect(req[h])]_outcome

\* Requests take effect one at a time and all at once: the tables are those of
\* AtomicInventory.
Inventory ==
  INSTANCE AtomicInventory WITH
    stock <- qty,
    done  <- recorded \cup {m \in Movements : Applied(m)},
    saved <- drift

ImplementsInventory == Inventory!Spec

\* Every attempt ends: nobody waits for a lock for ever.
EveryAttemptEnds ==
  \A h \in Handlers : (pc[h] # "idle") ~> (pc[h] = "idle")
=============================================================================
