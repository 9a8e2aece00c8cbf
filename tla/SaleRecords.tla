----------------------------- MODULE SaleRecords -----------------------------
(***************************************************************************)
(* The sales and customers of one device: what happens to a sale from the  *)
(* moment its form is submitted (pages/transactions/TransactionRecordPage)  *)
(* until it is shown (TransactionsPage, TransactionInvoicePage).            *)
(*                                                                         *)
(* A sale is first sent to the cloud; when the cloud is out of reach it is  *)
(* kept in the encrypted "entities" store of the device and an operation is *)
(* put into the outbox.  The synchronisation pushes the outbox and copies   *)
(* the sales the user may see into the same store.  The list of sales joins *)
(* the answer of the cloud with the store.  Customers exist on the device   *)
(* only; the form refreshes them from the stored sales.                     *)
(*                                                                         *)
(* Every sale has the same customer name, the case in which records are     *)
(* found and merged.  The wire protocol of a pass is in OfflineSync and the *)
(* vault in DeviceAccess; here a push or a pull is a few steps.             *)
(***************************************************************************)
EXTENDS Naturals, FiniteSets, FiniteSetsExt

CONSTANTS MaxSales,       \* bound: sales submitted on this device
          MaxCustomers,   \* bound: customer records of the device
          MaxLoads        \* bound: reloads of the page

ASSUME SaleAssumption == {MaxSales, MaxCustomers, MaxLoads} \subseteq Nat

VARIABLES
  role,       \* the user's role now, as the server knows it
  known,      \* the role this page was authorized for (workspace.teamMembers)
  unlocked,   \* isOfflineVaultUnlocked
  cloud,      \* rows of the server's transactions table
  sales,      \* "transaction" records of the entities store
  customers,  \* "customer" records of the entities store
  outbox,     \* sales with an operation in the outbox that can be pushed
  refused,    \* sales whose operation was rejected
  workspace,  \* workspace.transactions, loaded with the page
  form,       \* handleSubmit of the sale form
  pull,       \* a pull that is being applied
  refresh,    \* listBrowserDbCustomers of the sale form
  page,       \* the list of sales or an invoice
  loads,      \* number of reloads
  told        \* history: sales of which the user was told they are recorded

vars == <<role, known, unlocked, cloud, sales, customers, outbox, refused,
          workspace, form, pull, refresh, page, loads, told>>

device == <<sales, customers, outbox>>

Roles == {"manager", "cashier"}

\* Sale 0 was recorded by a colleague of the same unit on another device.
SaleNos == 0 .. MaxSales
RecordedBy(no) == IF no = 0 THEN "colleague" ELSE "me"
People == {"me", "colleague"}

\* A row of the cloud.  The form and the outbox send the same sale under
\* different idempotency keys, so they make different rows.
Rows == [no : SaleNos, from : {"form", "device"}]

\* A stored sale; "device" for one that was recorded here, which has the local
\* id and no server id, "cloud" for the copy of a row, which names no customer
\* record.
CustomerIds == 1 .. MaxCustomers
Stored == [no : SaleNos, from : {"form", "device"}, owner : {"device", "cloud"},
           customer : CustomerIds \cup {0}]

Customers == [by : SUBSET People, queued : BOOLEAN]
NoCustomer == [by |-> {}, queued |-> FALSE]

\* A row of the list.
Listed == [no : SaleNos, from : {"form", "device"}, source : {"local", "cloud", "workspace"}]

NoForm == [pc |-> "open", no |-> 0, found |-> 0, was |-> NoCustomer, id |-> 0]
NoPull == [pc |-> "idle", rows |-> {}]
NoRefresh == [pc |-> "idle", todo |-> {}, now |-> {}, read |-> {}, found |-> 0, was |-> NoCustomer,
              drop |-> {}, ids |-> {}]
NoPage == [at |-> "other", pc |-> "idle", answer |-> {}, rows |-> {}, expected |-> {}]

TypeOK ==
  /\ role \in Roles /\ known \in Roles /\ unlocked \in BOOLEAN
  /\ cloud \subseteq Rows /\ workspace \subseteq Rows
  /\ sales \subseteq Stored
  /\ \A s \in sales : s.owner = "device" => s.from = "device" /\ s.no # 0
  /\ \E ids \in SUBSET CustomerIds : customers \in [ids -> Customers]
  /\ outbox \subseteq SaleNos \ {0} /\ refused \subseteq SaleNos \ {0}
  /\ form.pc \in {"open", "cloud", "find", "customer", "scope", "sale", "queue", "error"}
  /\ form.no \in SaleNos /\ form.found \in CustomerIds \cup {0} /\ form.id \in CustomerIds \cup {0}
  /\ pull.pc \in {"idle", "reconcile", "apply"} /\ pull.rows \subseteq Rows
  /\ refresh.pc \in {"idle", "find", "put", "sweep", "delete", "list", "done"}
  /\ refresh.todo \subseteq Stored /\ refresh.now \subseteq Stored /\ refresh.read \subseteq Stored
  /\ refresh.found \in CustomerIds \cup {0}
  /\ form.was \in Customers /\ refresh.was \in Customers
  /\ refresh.drop \subseteq CustomerIds /\ refresh.ids \subseteq CustomerIds
  /\ page.at \in {"other", "list", "invoice"}
  /\ page.pc \in {"idle", "cloud", "local", "fallback", "shown", "unavailable", "loading"}
  /\ page.rows \subseteq Listed /\ page.answer \subseteq Rows
  /\ page.expected \subseteq Stored
  /\ told \subseteq [no : SaleNos, from : {"form", "device"}]
  /\ loads \in 0 .. MaxLoads

Init ==
  /\ role \in Roles /\ known = role /\ unlocked \in BOOLEAN
  /\ cloud = {[no |-> 0, from |-> "form"]}
  /\ sales = {} /\ customers = <<>> /\ outbox = {} /\ refused = {}
  /\ workspace = {}
  /\ form = NoForm /\ pull = NoPull /\ refresh = NoRefresh /\ page = NoPage
  /\ loads = 0 /\ told = {}

-----------------------------------------------------------------------------
(* What a role may see.                                                    *)

\* The server's filter of transactions: a cashier's are the own ones.
Visible(r) == {c \in cloud : r = "cashier" => RecordedBy(c.no) = "me"}

\* getScopedLocalFilters: the unit and, for a cashier, the recorder.
InScope(s, r) == r = "cashier" => RecordedBy(s.no) = "me"

\* customerAllowedForMember: a cashier's customers are those they attended, a
\* manager's those of the unit.
CustomerAllowed(c, r) == r = "cashier" => "me" \in c.by

-----------------------------------------------------------------------------
(* Customer records.                                                       *)

\* findExistingCustomerForUpsert: by id, or else by name and business.  0 stands
\* for undefined: a new record gets the id asked for or a fresh one.
Found(id) ==
  IF id # 0 THEN id ELSE IF DOMAIN customers = {} THEN 0 ELSE Min(DOMAIN customers)

\* Mutant: no id is made.
FreshCustomerNone == 0

FreshCustomer == CHOOSE i \in CustomerIds : i \notin DOMAIN customers

\* The record that was read, if there was one.
Read(id) == IF id \in DOMAIN customers THEN customers[id] ELSE NoCustomer

\* Mutant: a merge keeps who attended the customer before.
UpsertedKeeps(id, was, input) ==
  [i \in DOMAIN customers \cup {id} |->
     IF i # id THEN customers[i]
     ELSE [by |-> IF was.by = {} THEN input.by ELSE was.by,
           queued |-> was.queued \/ input.queued]]

\* upsertLocalCustomer's second half: the record that was read is merged with
\* the input and written over whatever is stored under that id by now.
Upserted(id, was, input) ==
  [i \in DOMAIN customers \cup {id} |->
     IF i # id THEN customers[i]
     ELSE [by |-> was.by \cup input.by, queued |-> was.queued \/ input.queued]]

-----------------------------------------------------------------------------
(* handleSubmit of the sale form.                                          *)

\* A valid form is submitted; every attempt has an idempotency key of its own.
Submit ==
  /\ form.pc \in {"open", "error"} /\ form.no < MaxSales
  /\ form' = [NoForm EXCEPT !.pc = "cloud", !.no = form.no + 1]
  /\ UNCHANGED <<role, known, unlocked, cloud, sales, customers, outbox, refused,
                 workspace, pull, refresh, page, loads, told>>

Row(no, from) == [no |-> no, from |-> from]

\* The server records the sale and the answer arrives: the invoice is opened.
CloudAccepts ==
  /\ form.pc = "cloud"
  /\ cloud' = cloud \cup {Row(form.no, "form")}
  /\ told' = told \cup {Row(form.no, "form")}
  /\ form' = [form EXCEPT !.pc = "open"]
  /\ UNCHANGED <<role, known, unlocked, sales, customers, outbox, refused,
                 workspace, pull, refresh, page, loads>>

\* The request is refused, or apiFetch gives up after its timeout, which is a
\* status of 408 whatever the server did: the error is shown.
CloudRefuses ==
  /\ form.pc = "cloud"
  /\ cloud' \in {cloud, cloud \cup {Row(form.no, "form")}}
  /\ form' = [form EXCEPT !.pc = "error"]
  /\ UNCHANGED <<role, known, unlocked, sales, customers, outbox, refused,
                 workspace, pull, refresh, page, loads, told>>

\* The connection fails before or after the server recorded the sale, or the
\* server fails: with an open vault the sale is recorded here.
CloudFails ==
  /\ form.pc = "cloud"
  /\ cloud' \in {cloud, cloud \cup {Row(form.no, "form")}}
  /\ form' = [form EXCEPT !.pc = IF unlocked THEN "find" ELSE "error"]
  /\ UNCHANGED <<role, known, unlocked, sales, customers, outbox, refused,
                 workspace, pull, refresh, page, loads, told>>

\* upsertBrowserDbCustomerFromTransaction, in two accesses to the store, for a
\* name that was typed or a customer selected from those of the last refresh.
FormFindsCustomer ==
  /\ form.pc = "find"
  /\ \E id \in {Found(0)} \cup refresh.ids :
       form' = [form EXCEPT !.pc = "customer", !.found = id, !.was = Read(id)]
  /\ UNCHANGED <<role, known, unlocked, cloud, device, refused,
                 workspace, pull, refresh, page, loads, told>>

FormPutsCustomer ==
  /\ form.pc = "customer"
  /\ form.found # 0 \/ DOMAIN customers # CustomerIds
  /\ LET id == IF form.found # 0 THEN form.found ELSE FreshCustomer
     IN /\ customers' = Upserted(id, form.was, [by |-> {"me"}, queued |-> TRUE])
        /\ form' = [form EXCEPT !.pc = "scope", !.id = id]
  /\ UNCHANGED <<role, known, unlocked, cloud, sales, outbox, refused,
                 workspace, pull, refresh, page, loads, told>>

\* createLocalTransaction: without a valid grant for the user and business the
\* sale is not recorded, although the customer already is.
CheckScope ==
  /\ form.pc = "scope"
  /\ \E granted \in BOOLEAN : form' = [form EXCEPT !.pc = IF granted THEN "sale" ELSE "error"]
  /\ UNCHANGED <<role, known, unlocked, cloud, device, refused,
                 workspace, pull, refresh, page, loads, told>>

\* Mutant: the invoice is opened without waiting for queueOfflineOperation.
SaveSaleAndTell ==
  /\ form.pc = "sale"
  /\ sales' = sales \cup {[no |-> form.no, from |-> "device", owner |-> "device",
                          customer |-> form.id]}
  /\ form' = [form EXCEPT !.pc = "queue"]
  /\ told' = told \cup {Row(form.no, "device")}
  /\ UNCHANGED <<role, known, unlocked, cloud, customers, outbox, refused,
                 workspace, pull, refresh, page, loads>>

\* saveTransaction, under the local id.
SaveSale ==
  /\ form.pc = "sale"
  /\ sales' = sales \cup {[no |-> form.no, from |-> "device", owner |-> "device",
                          customer |-> form.id]}
  /\ form' = [form EXCEPT !.pc = "queue"]
  /\ UNCHANGED <<role, known, unlocked, cloud, customers, outbox, refused,
                 workspace, pull, refresh, page, loads, told>>

\* queueOfflineOperation; the invoice of the local sale is opened.
QueueSale ==
  /\ form.pc = "queue"
  /\ outbox' = outbox \cup {form.no}
  /\ told' = told \cup {Row(form.no, "device")}
  /\ form' = [form EXCEPT !.pc = "open"]
  /\ UNCHANGED <<role, known, unlocked, cloud, sales, customers, refused,
                 workspace, pull, refresh, page, loads>>

-----------------------------------------------------------------------------
(* The synchronisation.                                                    *)

\* A record is pushed.  Its local id is no UUID, so the server gives the sale
\* an id of its own; the idempotency key keeps a second push from making a
\* second row.  When the reply is lost the record stays.
Push(no) ==
  /\ unlocked /\ no \in outbox
  /\ cloud' = cloud \cup {Row(no, "device")}
  /\ outbox' \in {outbox, outbox \ {no}}
  /\ UNCHANGED <<role, known, unlocked, sales, customers, refused,
                 workspace, form, pull, refresh, page, loads, told>>

\* The operation is rejected; the record is kept as failed.
PushRefused(no) ==
  /\ unlocked /\ no \in outbox
  /\ outbox' = outbox \ {no} /\ refused' = refused \cup {no}
  /\ UNCHANGED <<role, known, unlocked, cloud, sales, customers,
                 workspace, form, pull, refresh, page, loads, told>>

\* The server answers a pull with the rows the user may see.
PullAnswered ==
  /\ unlocked /\ pull.pc = "idle"
  /\ pull' = [pc |-> "reconcile", rows |-> Visible(role)]
  /\ UNCHANGED <<role, known, unlocked, cloud, device, refused,
                 workspace, form, refresh, page, loads, told>>

\* reconcileCloudEntities: copies of other rows go, what was recorded here stays.
Reconciled(rows) ==
  {s \in sales : s.owner = "cloud" => Row(s.no, s.from) \in rows}

Reconcile ==
  /\ pull.pc = "reconcile"
  /\ sales' = Reconciled(pull.rows)
  /\ pull' = [pull EXCEPT !.pc = "apply"]
  /\ UNCHANGED <<role, known, unlocked, cloud, customers, outbox, refused,
                 workspace, form, refresh, page, loads, told>>

\* applyCloudChange, a row at a time, under the id of the row.
ApplyChange ==
  /\ pull.pc = "apply"
  /\ \/ /\ pull.rows = {} /\ pull' = NoPull /\ UNCHANGED sales
     \/ \E c \in pull.rows :
          /\ sales' = sales \cup {[no |-> c.no, from |-> c.from, owner |-> "cloud",
                                   customer |-> 0]}
          /\ pull' = [pull EXCEPT !.rows = @ \ {c}]
  /\ UNCHANGED <<role, known, unlocked, cloud, customers, outbox, refused,
                 workspace, form, refresh, page, loads, told>>

-----------------------------------------------------------------------------
(* refreshScopedLocalCustomerCache, when the sale form is opened.  The      *)
(* workspace has no customers of its own: hydrateCloudWorkspace empties it. *)

StartRefresh ==
  /\ unlocked /\ refresh.pc \in {"idle", "done"}
  /\ LET read == {s \in sales : InScope(s, known)}
     IN refresh' = [NoRefresh EXCEPT !.pc = IF read = {} THEN "sweep" ELSE "find",
                                     !.todo = read, !.read = read]
  /\ page' = NoPage
  /\ UNCHANGED <<role, known, unlocked, cloud, device, refused,
                 workspace, form, pull, loads, told>>

\* One upsert after another.
RefreshFinds ==
  /\ refresh.pc = "find"
  /\ \E s \in refresh.todo :
       refresh' = [refresh EXCEPT !.pc = "put", !.todo = @ \ {s}, !.now = {s},
                                  !.found = Found(s.customer), !.was = Read(Found(s.customer))]
  /\ UNCHANGED <<role, known, unlocked, cloud, device, refused,
                 workspace, form, pull, page, loads, told>>

RefreshPuts ==
  /\ refresh.pc = "put"
  /\ refresh.found # 0 \/ DOMAIN customers # CustomerIds
  /\ \E s \in refresh.now :
       customers' = Upserted(IF refresh.found # 0 THEN refresh.found ELSE FreshCustomer,
                             refresh.was,
                             [by |-> {RecordedBy(s.no)}, queued |-> s.owner = "device"])
  /\ refresh' = [refresh EXCEPT !.pc = IF refresh.todo = {} THEN "sweep" ELSE "find",
                                !.now = {}, !.found = 0, !.was = NoCustomer]
  /\ UNCHANGED <<role, known, unlocked, cloud, sales, outbox, refused,
                 workspace, form, pull, page, loads, told>>

\* The records the user may not have are looked up, then deleted.
Sweep ==
  /\ refresh.pc = "sweep"
  /\ refresh' = [refresh EXCEPT !.pc = "delete",
                   !.drop = {i \in DOMAIN customers : ~CustomerAllowed(customers[i], known)}]
  /\ UNCHANGED <<role, known, unlocked, cloud, device, refused,
                 workspace, form, pull, page, loads, told>>

DeleteCustomers ==
  /\ refresh.pc = "delete"
  /\ customers' = [i \in DOMAIN customers \ refresh.drop |-> customers[i]]
  /\ refresh' = [refresh EXCEPT !.pc = "list", !.drop = {}]
  /\ UNCHANGED <<role, known, unlocked, cloud, sales, outbox, refused,
                 workspace, form, pull, page, loads, told>>

ListCustomers ==
  /\ refresh.pc = "list"
  /\ refresh' = [refresh EXCEPT !.pc = "done",
                   !.ids = {i \in DOMAIN customers : CustomerAllowed(customers[i], known)}]
  /\ UNCHANGED <<role, known, unlocked, cloud, device, refused,
                 workspace, form, pull, page, loads, told>>

-----------------------------------------------------------------------------
(* The list of sales and the invoice.                                      *)

\* Opening a page leaves the sale form.  A refresh of the customers is let to
\* end before (a bound: it touches none of what these pages read).
LeaveForm ==
  /\ refresh.pc \in {"idle", "done"}
  /\ refresh' = NoRefresh

\* What the list ought to show: what was recorded here before it was opened.
OpenList ==
  /\ LeaveForm
  /\ page' = [NoPage EXCEPT !.at = "list", !.pc = "cloud",
                !.expected = {s \in sales : unlocked /\ s.owner = "device"}]
  /\ UNCHANGED <<role, known, unlocked, cloud, device, refused,
                 workspace, form, pull, loads, told>>

ListRow(r, source) == [no |-> r.no, from |-> r.from, source |-> source]

\* The cloud answers; with a locked vault its rows are the list.
ListCloud ==
  /\ page.at = "list" /\ page.pc = "cloud"
  /\ page' = IF unlocked
             THEN [page EXCEPT !.pc = "local", !.answer = Visible(role)]
             ELSE [page EXCEPT !.pc = "shown",
                               !.rows = {ListRow(c, "cloud") : c \in Visible(role)}]
  /\ UNCHANGED <<role, known, unlocked, cloud, device, refused,
                 workspace, form, pull, refresh, loads, told>>

\* The cloud does not answer: the list falls back.
ListCloudFails ==
  /\ page.at = "list" /\ page.pc = "cloud"
  /\ page' = IF unlocked
             THEN [page EXCEPT !.pc = "fallback"]
             ELSE [page EXCEPT !.pc = "shown",
                               !.rows = {ListRow(c, "workspace") : c \in workspace}]
  /\ UNCHANGED <<role, known, unlocked, cloud, device, refused,
                 workspace, form, pull, refresh, loads, told>>

\* Mutant: only records with a server id are kept.
LocalRowsSynced(others) ==
  {ListRow(s, "local") :
     s \in {x \in sales : InScope(x, known) /\ x.owner = "cloud" /\ Row(x.no, x.from) \notin others}}

\* The stored sales in scope, without those whose server id is in others: only
\* copies of rows have one.
LocalRows(others) ==
  {ListRow(s, "local") :
     s \in {x \in sales : InScope(x, known) /\ (x.owner = "cloud" => Row(x.no, x.from) \notin others)}}

\* The store is read after the cloud has answered, and joined with the answer.
ListLocal ==
  /\ page.at = "list" /\ page.pc = "local"
  /\ page' = [page EXCEPT !.pc = "shown", !.answer = {},
                !.rows = LocalRows(page.answer) \cup {ListRow(c, "cloud") : c \in page.answer}]
  /\ UNCHANGED <<role, known, unlocked, cloud, device, refused,
                 workspace, form, pull, refresh, loads, told>>

ListFallback ==
  /\ page.at = "list" /\ page.pc = "fallback"
  /\ page' = [page EXCEPT !.pc = "shown",
                !.rows = LocalRows(workspace) \cup {ListRow(c, "workspace") : c \in workspace}]
  /\ UNCHANGED <<role, known, unlocked, cloud, device, refused,
                 workspace, form, pull, refresh, loads, told>>

\* A row of the list is opened, or the sale that was just recorded.
OpenInvoice(r) ==
  /\ LeaveForm
  /\ r \in told \/ \E l \in page.rows : l.no = r.no /\ l.from = r.from
  /\ page' = [NoPage EXCEPT !.at = "invoice", !.pc = "loading", !.answer = {r}]
  /\ UNCHANGED <<role, known, unlocked, cloud, device, refused,
                 workspace, form, pull, loads, told>>

StoredAs(r) == {s \in sales : s.no = r.no /\ s.from = r.from}

\* loadInvoice: a stored sale is decrypted, which fails for ever while the vault
\* is locked (nothing catches it); what is not stored is asked of the cloud.
LoadInvoice ==
  /\ page.at = "invoice" /\ page.pc = "loading"
  /\ \E r \in page.answer :
       \/ /\ StoredAs(r) # {} /\ unlocked
          /\ page' = [page EXCEPT !.pc = "shown", !.answer = {}]
       \/ /\ StoredAs(r) = {} /\ r \in Visible(role)
          /\ page' = [page EXCEPT !.pc = "shown", !.answer = {}]
       \/ /\ StoredAs(r) = {}
          /\ page' = [page EXCEPT !.pc = "unavailable", !.answer = {}]
  /\ UNCHANGED <<role, known, unlocked, cloud, device, refused,
                 workspace, form, pull, refresh, loads, told>>

-----------------------------------------------------------------------------
(* The surroundings.                                                       *)

\* An administrator changes the user's role.
ChangeRole ==
  /\ role' \in Roles \ {role} /\ loads < MaxLoads
  /\ UNCHANGED <<known, unlocked, cloud, device, refused,
                 workspace, form, pull, refresh, page, loads, told>>

\* The page is reloaded in the middle of whatever it does: the data key is gone,
\* the role is asked for again or, offline, taken from the snapshot.  The
\* workspace has the sales of the cloud once they are loaded.
Reload ==
  /\ loads < MaxLoads /\ loads' = loads + 1
  /\ unlocked' = FALSE
  /\ known' \in {known, role}
  /\ workspace' \in {{}, Visible(role)}
  /\ form' = [NoForm EXCEPT !.no = form.no]
  /\ pull' = NoPull /\ refresh' = NoRefresh /\ page' = NoPage
  /\ UNCHANGED <<role, cloud, device, refused, told>>

\* The vault is unlocked, on the sign-in page.
Unlock ==
  /\ ~unlocked /\ unlocked' = TRUE
  /\ page' = NoPage
  /\ UNCHANGED <<role, known, cloud, device, refused,
                 workspace, form, pull, refresh, loads, told>>

Next ==
  \/ Submit \/ CloudAccepts \/ CloudRefuses \/ CloudFails
  \/ FormFindsCustomer \/ FormPutsCustomer \/ CheckScope \/ SaveSale \/ QueueSale
  \/ \E no \in SaleNos : Push(no) \/ PushRefused(no)
  \/ PullAnswered \/ Reconcile \/ ApplyChange
  \/ StartRefresh \/ RefreshFinds \/ RefreshPuts \/ Sweep \/ DeleteCustomers \/ ListCustomers
  \/ OpenList \/ ListCloud \/ ListCloudFails \/ ListLocal \/ ListFallback
  \/ \E r \in Rows : OpenInvoice(r)
  \/ LoadInvoice
  \/ ChangeRole \/ Reload \/ Unlock

Spec == Init /\ [][Next]_vars

-----------------------------------------------------------------------------
(* Properties.                                                             *)

\* A sale the user was told is recorded is in the cloud, or it is stored on
\* this device and its operation is waiting or was rejected: whatever fails,
\* reloads or is reconciled between the steps of recording it.
RecordedSaleIsKept ==
  \A t \in told :
    \/ t \in cloud
    \/ /\ t.from = "device"
       /\ t.no \in outbox \cup refused
       /\ \E s \in sales : s.no = t.no /\ s.owner = "device"

\* With an open vault the list of sales has every sale that was recorded here
\* before it was opened, whether or not the cloud answers and whatever is
\* pushed or pulled meanwhile.
OfflineSaleIsListed ==
  page.at = "list" /\ page.pc = "shown" =>
    \A s \in page.expected : \E l \in page.rows : l.no = s.no /\ l.from = "device"

\* When the customers have been refreshed, the list has one for every stored
\* sale the refresh has read, although the records of others are deleted and
\* the form saves a customer at the same time.
OwnCustomersAreListed ==
  refresh.pc = "done" =>
    \A s \in refresh.read :
      IF s.customer # 0 THEN s.customer \in refresh.ids ELSE refresh.ids # {}

\* The list shows no sale twice.
ShownOnce ==
  \A l, k \in page.rows : l.no = k.no /\ l.from = k.from => l = k
=============================================================================
