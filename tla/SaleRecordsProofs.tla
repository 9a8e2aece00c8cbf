-------------------------- MODULE SaleRecordsProofs --------------------------
(***************************************************************************)
(* That a sale the user was told of is kept, that the list shows the sales  *)
(* recorded on the device, and that a refresh of the customers leaves every *)
(* sale it has read its customer: for any number of sales, customers and    *)
(* reloads.                                                                *)
(*                                                                         *)
(* No property is inductive.  The first needs that a form which is to queue *)
(* its sale has stored it; the second that what the list is expected to     *)
(* show stays in the store until the store is read, and that nothing is     *)
(* expected while the vault is locked; the third that what the refresh has  *)
(* put is the user's, is found again under the id the sale names, and is    *)
(* not among the records it is going to delete.                             *)
(***************************************************************************)
EXTENDS SaleRecords, TLAPS, NaturalsInduction, WellFoundedInduction

\* The records have the fields the actions change.
Shapes ==
  /\ form = [f \in {"pc", "no", "found", "was", "id"} |-> form[f]]
  /\ page = [f \in {"at", "pc", "answer", "rows", "expected"} |-> page[f]]
  /\ \A t \in told : t = Row(t.no, t.from)

\* What is recorded on the device is a sale of this user under its local id.
OwnRecords ==
  \A s \in sales : s.owner = "device" => s.from = "device" /\ s.no # 0

\* The number of a form is that of the sale it has submitted, if any.
FormNumber == form.no \in Nat /\ (form.pc \notin {"open", "error"} => form.no # 0)

\* A form queues a sale it has stored.
QueuedIsStored ==
  form.pc = "queue" => \E s \in sales : s.no = form.no /\ s.owner = "device"

\* What the list is expected to show is in the store while it loads.
ExpectedIsStored ==
  page.at = "list" =>
    /\ page.expected # {} => unlocked
    /\ page.pc # "shown" => \A s \in page.expected : s \in sales /\ s.owner = "device"
    /\ page.pc \in {"local", "fallback"} => unlocked

Kept == Shapes /\ OwnRecords /\ FormNumber /\ QueuedIsStored /\ RecordedSaleIsKept

IInv == Kept /\ ExpectedIsStored /\ OfflineSaleIsListed

LEMMA InitKept == Init => IInv
BY DEF Init, IInv, Kept, Shapes, OwnRecords, FormNumber, QueuedIsStored, RecordedSaleIsKept,
       ExpectedIsStored, OfflineSaleIsListed, NoForm, NoPage

-----------------------------------------------------------------------------
(* The store: what was recorded here is never taken from it. *)

\* The only steps that touch the store add to it or drop copies of rows.
LEMMA StoreStep ==
  ASSUME Next
  PROVE  \A s \in sales : s.owner = "device" => s \in sales'
<1>1. ASSUME Reconcile PROVE \A s \in sales : s.owner = "device" => s \in sales'
  BY <1>1 DEF Reconcile, Reconciled
<1>2. ASSUME SaveSale \/ ApplyChange
      PROVE  \A s \in sales : s.owner = "device" => s \in sales'
  BY <1>2 DEF SaveSale, ApplyChange
<1>. QED
  BY <1>1, <1>2
     DEF Next, device, Submit, CloudAccepts, CloudRefuses, CloudFails, FormFindsCustomer,
         FormPutsCustomer, CheckScope, QueueSale, Push, PushRefused, PullAnswered,
         StartRefresh, RefreshFinds, RefreshPuts, Sweep, DeleteCustomers, ListCustomers,
         OpenList, ListCloud, ListCloudFails, ListLocal, ListFallback, OpenInvoice,
         LoadInvoice, ChangeRole, Reload, Unlock

\* Every step but those of the form, of the pages and a reload leaves both alone.
Elsewhere ==
  \/ \E no \in SaleNos : Push(no) \/ PushRefused(no)
  \/ PullAnswered \/ Reconcile \/ ApplyChange
  \/ RefreshFinds \/ RefreshPuts \/ Sweep \/ DeleteCustomers \/ ListCustomers \/ ChangeRole

FormStep ==
  \/ Submit \/ CloudAccepts \/ CloudRefuses \/ CloudFails
  \/ FormFindsCustomer \/ FormPutsCustomer \/ CheckScope \/ SaveSale \/ QueueSale

PageStep ==
  \/ StartRefresh \/ OpenList \/ ListCloud \/ ListCloudFails \/ ListLocal \/ ListFallback
  \/ (\E r \in Rows : OpenInvoice(r)) \/ LoadInvoice \/ Unlock

LEMMA Steps == Next => Elsewhere \/ FormStep \/ PageStep \/ Reload
BY DEF Next, Elsewhere, FormStep, PageStep

LEMMA ElsewhereKeeps ==
  ASSUME Elsewhere
  PROVE  UNCHANGED <<form, page, unlocked, told>>
BY DEF Elsewhere, Push, PushRefused, PullAnswered, Reconcile, ApplyChange, RefreshFinds,
       RefreshPuts, Sweep, DeleteCustomers, ListCustomers, ChangeRole

LEMMA PageKeeps ==
  ASSUME PageStep
  PROVE  UNCHANGED <<form, sales, cloud, outbox, refused, told>>
BY DEF PageStep, StartRefresh, OpenList, ListCloud, ListCloudFails, ListLocal, ListFallback,
       OpenInvoice, LoadInvoice, Unlock, device

LEMMA FormKeeps ==
  ASSUME FormStep
  PROVE  UNCHANGED <<page, unlocked, refused>>
BY DEF FormStep, Submit, CloudAccepts, CloudRefuses, CloudFails, FormFindsCustomer,
       FormPutsCustomer, CheckScope, SaveSale, QueueSale, device

-----------------------------------------------------------------------------
(* Kept *)

LEMMA ShapesStep == Shapes /\ Next => Shapes'
<1>. SUFFICES ASSUME Shapes, Next PROVE Shapes'
  OBVIOUS
<1>1. ASSUME FormStep PROVE Shapes'
  <2>1. form' = [f \in {"pc", "no", "found", "was", "id"} |-> form'[f]]
    BY <1>1
       DEF Shapes, FormStep, Submit, CloudAccepts, CloudRefuses, CloudFails, FormFindsCustomer,
           FormPutsCustomer, CheckScope, SaveSale, QueueSale, NoForm
  <2>2. \E from \in {"form", "device"} : told' \subseteq told \cup {Row(form.no, from)}
    BY <1>1
       DEF FormStep, Submit, CloudAccepts, CloudRefuses, CloudFails, FormFindsCustomer,
           FormPutsCustomer, CheckScope, SaveSale, QueueSale
  <2>3. \A t \in told' : t = Row(t.no, t.from)
    BY <2>2 DEF Shapes, Row
  <2>. QED
    BY <1>1, <2>1, <2>3, FormKeeps DEF Shapes
<1>2. ASSUME PageStep PROVE Shapes'
  BY <1>2, PageKeeps
     DEF Shapes, PageStep, StartRefresh, OpenList, ListCloud, ListCloudFails, ListLocal,
         ListFallback, OpenInvoice, LoadInvoice, Unlock, NoPage
<1>3. ASSUME Reload PROVE Shapes'
  BY <1>3 DEF Reload, Shapes, NoForm, NoPage
<1>4. ASSUME Elsewhere PROVE Shapes'
  BY <1>4, ElsewhereKeeps DEF Shapes
<1>. QED
  BY <1>1, <1>2, <1>3, <1>4, Steps

LEMMA FormNumberStep == Shapes /\ FormNumber /\ Next => FormNumber'
<1>. SUFFICES ASSUME Shapes, FormNumber, Next PROVE FormNumber'
  OBVIOUS
<1>1. ASSUME FormStep PROVE FormNumber'
  <2>1. ASSUME Submit PROVE FormNumber'
    <3>1. form'.no = form.no + 1
      BY <1>1, <2>1 DEF Submit, NoForm
    <3>. QED
      BY <3>1 DEF FormNumber
  <2>2. ASSUME ~Submit PROVE form'.no = form.no /\ form.pc \notin {"open", "error"}
    BY <1>1, <2>2
       DEF Shapes, FormStep, CloudAccepts, CloudRefuses, CloudFails, FormFindsCustomer,
           FormPutsCustomer, CheckScope, SaveSale, QueueSale
  <2>. QED
    BY <2>1, <2>2 DEF FormNumber
<1>2. ASSUME Reload PROVE FormNumber'
  BY <1>2 DEF Reload, FormNumber, NoForm
<1>. QED
  BY <1>1, <1>2, Steps, ElsewhereKeeps, PageKeeps DEF FormNumber

LEMMA OwnRecordsStep == OwnRecords /\ FormNumber /\ Next => OwnRecords'
<1>. SUFFICES ASSUME OwnRecords, FormNumber, Next PROVE OwnRecords'
  OBVIOUS
<1>1. ASSUME SaveSale PROVE OwnRecords'
  BY <1>1 DEF SaveSale, OwnRecords, FormNumber
<1>2. ASSUME ApplyChange \/ Reconcile PROVE OwnRecords'
  BY <1>2 DEF ApplyChange, Reconcile, Reconciled, OwnRecords
<1>3. CASE UNCHANGED sales
  BY <1>3 DEF OwnRecords
<1>. QED
  BY <1>1, <1>2, <1>3
     DEF Next, device, Submit, CloudAccepts, CloudRefuses, CloudFails, FormFindsCustomer,
         FormPutsCustomer, CheckScope, QueueSale, Push, PushRefused, PullAnswered,
         StartRefresh, RefreshFinds, RefreshPuts, Sweep, DeleteCustomers, ListCustomers,
         OpenList, ListCloud, ListCloudFails, ListLocal, ListFallback, OpenInvoice,
         LoadInvoice, ChangeRole, Reload, Unlock

LEMMA QueuedIsStoredStep == Shapes /\ QueuedIsStored /\ Next => QueuedIsStored'
<1>. SUFFICES ASSUME Shapes, QueuedIsStored, Next PROVE QueuedIsStored'
  OBVIOUS
<1>1. ASSUME FormStep, ~SaveSale PROVE QueuedIsStored'
  <2>1. ASSUME Submit \/ CloudAccepts \/ CloudRefuses \/ CloudFails PROVE form'.pc # "queue"
    BY <2>1 DEF Shapes, Submit, CloudAccepts, CloudRefuses, CloudFails, NoForm
  <2>2. ASSUME FormFindsCustomer \/ QueueSale PROVE form'.pc # "queue"
    BY <2>2 DEF Shapes, FormFindsCustomer, QueueSale
  <2>3. ASSUME FormPutsCustomer PROVE form'.pc # "queue"
    BY <2>3 DEF Shapes, FormPutsCustomer
  <2>4. ASSUME CheckScope PROVE form'.pc # "queue"
    BY <2>4 DEF Shapes, CheckScope
  <2>. QED
    BY <1>1, <2>1, <2>2, <2>3, <2>4 DEF FormStep, QueuedIsStored
<1>2. ASSUME SaveSale PROVE QueuedIsStored'
  <2>. DEFINE sale == [no |-> form.no, from |-> "device", owner |-> "device",
                       customer |-> form.id]
  <2>1. sale \in sales' /\ sale.no = form.no /\ sale.owner = "device"
    BY <1>2 DEF SaveSale
  <2>2. form'.no = form.no
    BY <1>2 DEF Shapes, SaveSale
  <2>. HIDE DEF sale
  <2>. QED
    BY <2>1, <2>2 DEF QueuedIsStored
<1>3. ASSUME Reload PROVE QueuedIsStored'
  BY <1>3 DEF Reload, QueuedIsStored, NoForm
<1>4. CASE UNCHANGED form
  BY <1>4, StoreStep DEF QueuedIsStored
<1>. QED
  BY <1>1, <1>2, <1>3, <1>4, Steps, ElsewhereKeeps, PageKeeps

LEMMA KeptStep == Shapes /\ QueuedIsStored /\ RecordedSaleIsKept /\ Next => RecordedSaleIsKept'
<1>. SUFFICES ASSUME Shapes, QueuedIsStored, RecordedSaleIsKept, Next PROVE RecordedSaleIsKept'
  OBVIOUS
<1>1. ASSUME CloudAccepts PROVE RecordedSaleIsKept'
  BY <1>1 DEF CloudAccepts, RecordedSaleIsKept
<1>2. ASSUME QueueSale PROVE RecordedSaleIsKept'
  BY <1>2 DEF QueueSale, RecordedSaleIsKept, QueuedIsStored, Row
<1>3. ASSUME NEW no \in SaleNos, Push(no) PROVE RecordedSaleIsKept'
  <2>. SUFFICES ASSUME NEW t \in told
                PROVE  \/ t \in cloud'
                       \/ /\ t.from = "device" /\ t.no \in outbox' \cup refused'
                          /\ \E s \in sales' : s.no = t.no /\ s.owner = "device"
    BY <1>3 DEF Push, RecordedSaleIsKept
  <2>1. CASE t.no = no /\ t.from = "device"
    <3>1. t = Row(no, "device")
      BY <2>1 DEF Shapes
    <3>. QED
      BY <1>3, <3>1 DEF Push
  <2>2. CASE ~(t.no = no /\ t.from = "device")
    BY <1>3, <2>2 DEF Push, RecordedSaleIsKept
  <2>. QED
    BY <2>1, <2>2
<1>4. ASSUME NEW no \in SaleNos, PushRefused(no) PROVE RecordedSaleIsKept'
  BY <1>4 DEF PushRefused, RecordedSaleIsKept
<1>5. CASE UNCHANGED <<told, outbox, refused>> /\ cloud \subseteq cloud'
  BY <1>5, StoreStep DEF RecordedSaleIsKept
<1>. QED
  BY <1>1, <1>2, <1>3, <1>4, <1>5
     DEF Next, device, Submit, CloudRefuses, CloudFails, FormFindsCustomer, FormPutsCustomer,
         CheckScope, SaveSale, PullAnswered, Reconcile, ApplyChange, StartRefresh,
         RefreshFinds, RefreshPuts, Sweep, DeleteCustomers, ListCustomers, OpenList,
         ListCloud, ListCloudFails, ListLocal, ListFallback, OpenInvoice, LoadInvoice,
         ChangeRole, Reload, Unlock

-----------------------------------------------------------------------------
(* The list of sales *)

\* The store is read with the vault open or not at all: the expected sales that
\* are in the store become rows.
LEMMA RowsOfStore ==
  ASSUME NEW others, NEW s \in sales, s.owner = "device", OwnRecords
  PROVE  \E l \in LocalRows(others) : l.no = s.no /\ l.from = "device"
<1>1. s.from = "device" /\ s.no # 0
  BY DEF OwnRecords
<1>2. InScope(s, known)
  BY <1>1 DEF InScope, RecordedBy
<1>3. ListRow(s, "local") \in LocalRows(others)
  BY <1>2 DEF LocalRows
<1>. QED
  BY <1>1, <1>3 DEF ListRow

LEMMA ExpectedIsStoredStep ==
  Shapes /\ ExpectedIsStored /\ Next => ExpectedIsStored'
<1>. SUFFICES ASSUME Shapes, ExpectedIsStored, Next PROVE ExpectedIsStored'
  OBVIOUS
<1>1. CASE UNCHANGED <<page, unlocked>>
  BY <1>1, StoreStep DEF ExpectedIsStored
<1>2. ASSUME StartRefresh \/ Reload \/ Unlock PROVE ExpectedIsStored'
  BY <1>2 DEF StartRefresh, Reload, Unlock, NoPage, ExpectedIsStored
<1>3. ASSUME OpenList PROVE ExpectedIsStored'
  BY <1>3 DEF OpenList, NoPage, ExpectedIsStored, device
<1>4. ASSUME NEW r \in Rows, OpenInvoice(r) PROVE ExpectedIsStored'
  BY <1>4 DEF OpenInvoice, NoPage, ExpectedIsStored
<1>5. ASSUME ListCloud \/ ListCloudFails PROVE ExpectedIsStored'
  BY <1>5 DEF Shapes, ListCloud, ListCloudFails, ExpectedIsStored, device
<1>6. ASSUME ListLocal \/ ListFallback PROVE ExpectedIsStored'
  BY <1>6 DEF Shapes, ListLocal, ListFallback, ExpectedIsStored, device
<1>7. ASSUME LoadInvoice PROVE ExpectedIsStored'
  BY <1>7 DEF Shapes, LoadInvoice, ExpectedIsStored
<1>. QED
  BY <1>1, <1>2, <1>3, <1>4, <1>5, <1>6, <1>7, Steps, ElsewhereKeeps, FormKeeps DEF PageStep

LEMMA ListedStep ==
  Shapes /\ OwnRecords /\ ExpectedIsStored /\ OfflineSaleIsListed /\ Next => OfflineSaleIsListed'
<1>. SUFFICES ASSUME Shapes, OwnRecords, ExpectedIsStored, OfflineSaleIsListed, Next
              PROVE  OfflineSaleIsListed'
  OBVIOUS
<1>1. CASE UNCHANGED page
  BY <1>1 DEF OfflineSaleIsListed
<1>2. ASSUME StartRefresh \/ Reload \/ Unlock PROVE OfflineSaleIsListed'
  BY <1>2 DEF StartRefresh, Reload, Unlock, NoPage, OfflineSaleIsListed
<1>3. ASSUME OpenList PROVE OfflineSaleIsListed'
  BY <1>3 DEF OpenList, NoPage, OfflineSaleIsListed
<1>4. ASSUME NEW r \in Rows, OpenInvoice(r) PROVE OfflineSaleIsListed'
  BY <1>4 DEF OpenInvoice, NoPage, OfflineSaleIsListed
<1>5. ASSUME ListCloud \/ ListCloudFails PROVE OfflineSaleIsListed'
  <2>1. unlocked => page'.pc # "shown"
    BY <1>5 DEF Shapes, ListCloud, ListCloudFails
  <2>2. ~unlocked => page'.expected = {}
    BY <1>5 DEF Shapes, ListCloud, ListCloudFails, ExpectedIsStored
  <2>. QED
    BY <2>1, <2>2 DEF OfflineSaleIsListed
<1>6. ASSUME ListLocal \/ ListFallback PROVE OfflineSaleIsListed'
  <2>1. page'.expected = page.expected
    BY <1>6 DEF Shapes, ListLocal, ListFallback
  <2>2. \A s \in page.expected : s \in sales /\ s.owner = "device"
    BY <1>6 DEF ListLocal, ListFallback, ExpectedIsStored
  <2>3. \E others : LocalRows(others) \subseteq page'.rows
    BY <1>6 DEF Shapes, ListLocal, ListFallback
  <2>. QED
    BY <2>1, <2>2, <2>3, RowsOfStore DEF OfflineSaleIsListed
<1>7. ASSUME LoadInvoice PROVE OfflineSaleIsListed'
  BY <1>7 DEF Shapes, LoadInvoice, OfflineSaleIsListed
<1>. QED
  BY <1>1, <1>2, <1>3, <1>4, <1>5, <1>6, <1>7, Steps, ElsewhereKeeps, FormKeeps DEF PageStep

-----------------------------------------------------------------------------

LEMMA StutterKeeps == IInv /\ UNCHANGED vars => IInv'
BY DEF IInv, Kept, Shapes, OwnRecords, FormNumber, QueuedIsStored, RecordedSaleIsKept,
       ExpectedIsStored, OfflineSaleIsListed, vars

\* The inductive invariant of the sales of a device.
THEOREM SaleInvariant == Spec => []IInv
<1>1. IInv /\ [Next]_vars => IInv'
  BY ShapesStep, FormNumberStep, OwnRecordsStep, QueuedIsStoredStep, KeptStep,
     ExpectedIsStoredStep, ListedStep, StutterKeeps DEF IInv, Kept
<1>. QED
  BY InitKept, <1>1, PTL DEF Spec

\* A sale the user was told is recorded is in the cloud, or it is stored on the
\* device and its operation is waiting or was rejected (createLocalTransaction,
\* reconcileCloudEntities, and the pass that pushes the outbox).
THEOREM RecordedSalesAreKept == Spec => []RecordedSaleIsKept
BY SaleInvariant, PTL DEF IInv, Kept

\* With an open vault the list of sales has every sale recorded on the device
\* before it was opened (listBrowserDbTransactions).
THEOREM OfflineSalesAreListed == Spec => []OfflineSaleIsListed
BY SaleInvariant, PTL DEF IInv

-----------------------------------------------------------------------------
(* The types *)

OptId == CustomerIds \cup {0}
FormPlaces == {"open", "cloud", "find", "customer", "scope", "sale", "queue", "error"}
RefreshPlaces == {"idle", "find", "put", "sweep", "delete", "list", "done"}
PagePlaces == {"idle", "cloud", "local", "fallback", "shown", "unavailable", "loading"}

Forms == [pc : FormPlaces, no : SaleNos, found : OptId, was : Customers, id : OptId]
Pulls == [pc : {"idle", "reconcile", "apply"}, rows : SUBSET Rows]
Refreshes ==
  [pc : RefreshPlaces, todo : SUBSET Stored, now : SUBSET Stored, read : SUBSET Stored,
   found : OptId, was : Customers, drop : SUBSET CustomerIds, ids : SUBSET CustomerIds]
Pages ==
  [at : {"other", "list", "invoice"}, pc : PagePlaces, answer : SUBSET Rows,
   rows : SUBSET Listed, expected : SUBSET Stored]

\* Customer records are kept under ids.
Book == DOMAIN customers \subseteq CustomerIds /\ customers \in [DOMAIN customers -> Customers]

TypeInv ==
  /\ role \in Roles /\ known \in Roles /\ unlocked \in BOOLEAN /\ loads \in 0 .. MaxLoads
  /\ cloud \subseteq Rows /\ workspace \subseteq Rows /\ told \subseteq Rows
  /\ sales \subseteq Stored
  /\ outbox \subseteq SaleNos \ {0} /\ refused \subseteq SaleNos \ {0}
  /\ Book
  /\ form \in Forms /\ pull \in Pulls /\ refresh \in Refreshes /\ page \in Pages

LEMMA TypesTyped == TypeInv /\ OwnRecords => TypeOK
<1>. SUFFICES ASSUME TypeInv, OwnRecords PROVE TypeOK
  OBVIOUS
<1>1. form.pc \in FormPlaces /\ form.no \in SaleNos /\ form.found \in OptId /\ form.id \in OptId
      /\ form.was \in Customers
  BY DEF TypeInv, Forms
<1>2. pull.pc \in {"idle", "reconcile", "apply"} /\ pull.rows \subseteq Rows
  BY DEF TypeInv, Pulls
<1>3. refresh.pc \in RefreshPlaces /\ refresh.todo \subseteq Stored /\ refresh.now \subseteq Stored
      /\ refresh.read \subseteq Stored /\ refresh.found \in OptId /\ refresh.was \in Customers
      /\ refresh.drop \subseteq CustomerIds /\ refresh.ids \subseteq CustomerIds
  BY DEF TypeInv, Refreshes
<1>4. page.at \in {"other", "list", "invoice"} /\ page.pc \in PagePlaces
      /\ page.rows \subseteq Listed /\ page.answer \subseteq Rows /\ page.expected \subseteq Stored
  BY DEF TypeInv, Pages
<1>5. \E ids \in SUBSET CustomerIds : customers \in [ids -> Customers]
  BY DEF TypeInv, Book
<1>6. told \subseteq [no : SaleNos, from : {"form", "device"}]
  BY DEF TypeInv, Rows
<1>. QED
  BY <1>1, <1>2, <1>3, <1>4, <1>5, <1>6
     DEF TypeInv, TypeOK, OwnRecords, FormPlaces, RefreshPlaces, PagePlaces, OptId

\* A new record has an id of its own.
LEMMA FreshIsAnId ==
  ASSUME Book, DOMAIN customers # CustomerIds
  PROVE  FreshCustomer \in CustomerIds /\ FreshCustomer \notin DOMAIN customers
BY DEF Book, FreshCustomer

\* The record that is found is one of the customers'.
LEMMA FoundIsAnId ==
  ASSUME Book, NEW id \in OptId
  PROVE  Found(id) \in OptId
<1>1. CASE id # 0 \/ DOMAIN customers = {}
  BY <1>1 DEF Found, OptId
<1>2. CASE id = 0 /\ DOMAIN customers # {}
  <2>. DEFINE R == {ss \in Nat \X Nat : ss[1] < ss[2]}
  <2>1. IsWellFoundedOn(R, Nat)
    BY NatLessThanWellFounded DEF OpToRel
  <2>2. DOMAIN customers \subseteq Nat
    BY SaleAssumption DEF Book, CustomerIds
  <2>3. PICK m \in DOMAIN customers : \A n \in DOMAIN customers : ~(<<n, m>> \in R)
    BY <1>2, <2>1, <2>2, WFMin
  <2>4. \A n \in DOMAIN customers : m <= n
    <3>1. ASSUME NEW n \in DOMAIN customers, n < m PROVE <<n, m>> \in R
      BY <2>2, <3>1
    <3>. HIDE DEF R
    <3>. SUFFICES ASSUME NEW n \in DOMAIN customers PROVE m <= n
      OBVIOUS
    <3>2. ~(n < m)
      BY <2>3, <3>1
    <3>3. n \in Nat /\ m \in Nat
      BY <2>2
    <3>. QED
      BY <3>2, <3>3
  <2>5. Min(DOMAIN customers) \in DOMAIN customers
    BY <2>4 DEF Min
  <2>. QED
    BY <1>2, <2>5 DEF Found, Book, OptId
<1>. QED
  BY <1>1, <1>2

LEMMA ReadIsARecord ==
  ASSUME Book, NEW id
  PROVE  Read(id) \in Customers
BY DEF Book, Read, NoCustomer, Customers

LEMMA UpsertedTyped ==
  ASSUME Book, NEW id \in CustomerIds, NEW was \in Customers, NEW input \in Customers,
         customers' = Upserted(id, was, input)
  PROVE  Book'
<1>. DEFINE merged == [by |-> was.by \cup input.by, queued |-> was.queued \/ input.queued]
<1>1. merged \in Customers
  BY DEF Customers
<1>. HIDE DEF merged
<1>2. customers' = [i \in DOMAIN customers \cup {id} |-> IF i # id THEN customers[i] ELSE merged]
  BY DEF Upserted, merged
<1>. QED
  BY <1>1, <1>2 DEF Book

-----------------------------------------------------------------------------
LEMMA InitTypes == Init => TypeInv
<1>. SUFFICES ASSUME Init PROVE TypeInv
  OBVIOUS
<1>1. 0 \in SaleNos /\ 0 \in 0 .. MaxLoads /\ 0 \in OptId
  BY SaleAssumption DEF SaleNos, OptId
<1>2. NoCustomer \in Customers
  BY DEF NoCustomer, Customers
<1>3. form \in Forms
  BY <1>1, <1>2 DEF Init, NoForm, Forms, FormPlaces
<1>4. pull \in Pulls /\ page \in Pages
  BY DEF Init, NoPull, Pulls, NoPage, Pages, PagePlaces
<1>5. refresh \in Refreshes
  BY <1>1, <1>2 DEF Init, NoRefresh, Refreshes, RefreshPlaces
<1>6. Book
  BY DEF Init, Book
<1>. QED
  BY <1>1, <1>3, <1>4, <1>5, <1>6 DEF Init, TypeInv, Rows

LEMMA FormTyped == TypeInv /\ Next => form' \in Forms
<1>. SUFFICES ASSUME TypeInv, Next PROVE form' \in Forms
  OBVIOUS
<1>1. Book /\ form \in Forms /\ form.no \in SaleNos /\ refresh.ids \subseteq OptId /\ refresh \in Refreshes
  BY DEF TypeInv, Forms, Refreshes, OptId
<1>2. 0 \in OptId /\ 0 \in SaleNos /\ NoCustomer \in Customers
  BY SaleAssumption DEF OptId, SaleNos, NoCustomer, Customers
<1>3. ASSUME Submit PROVE form' \in Forms
  <2>1. form.no + 1 \in SaleNos
    BY <1>1, <1>3, SaleAssumption DEF Submit, SaleNos
  <2>. QED
    BY <1>2, <1>3, <2>1 DEF Submit, NoForm, Forms, FormPlaces
<1>4. ASSUME CloudAccepts \/ CloudRefuses \/ CloudFails \/ CheckScope \/ SaveSale \/ QueueSale
      PROVE  form' \in Forms
  BY <1>1, <1>4
     DEF CloudAccepts, CloudRefuses, CloudFails, CheckScope, SaveSale, QueueSale, Forms, FormPlaces
<1>5. ASSUME FormFindsCustomer PROVE form' \in Forms
  <2>1. PICK id \in {Found(0)} \cup refresh.ids :
          form' = [form EXCEPT !.pc = "customer", !.found = id, !.was = Read(id)]
    BY <1>5 DEF FormFindsCustomer
  <2>2. id \in OptId /\ Read(id) \in Customers
    BY <1>1, <1>2, <2>1, FoundIsAnId, ReadIsARecord
  <2>. QED
    BY <1>1, <2>1, <2>2 DEF Forms, FormPlaces
<1>6. ASSUME FormPutsCustomer PROVE form' \in Forms
  <2>. DEFINE id == IF form.found # 0 THEN form.found ELSE FreshCustomer
  <2>1. id \in OptId
    BY <1>1, <1>6, FreshIsAnId DEF FormPutsCustomer, Forms, OptId
  <2>2. form' = [form EXCEPT !.pc = "scope", !.id = id]
    BY <1>6 DEF FormPutsCustomer
  <2>. HIDE DEF id
  <2>. QED
    BY <1>1, <2>1, <2>2 DEF Forms, FormPlaces
<1>7. ASSUME Reload PROVE form' \in Forms
  BY <1>1, <1>2, <1>7 DEF Reload, NoForm, Forms, FormPlaces
<1>. QED
  BY <1>1, <1>3, <1>4, <1>5, <1>6, <1>7, Steps, ElsewhereKeeps, PageKeeps DEF FormStep

\* A row that is listed is of a sale.
LEMMA ListRowTyped ==
  ASSUME NEW r, r.no \in SaleNos, r.from \in {"form", "device"},
         NEW source \in {"local", "cloud", "workspace"}
  PROVE  ListRow(r, source) \in Listed
BY DEF ListRow, Listed

LEMMA RowsListed ==
  ASSUME NEW S \in SUBSET Rows, NEW source \in {"local", "cloud", "workspace"}
  PROVE  {ListRow(c, source) : c \in S} \subseteq Listed
BY ListRowTyped DEF Rows

LEMMA LocalRowsListed ==
  ASSUME sales \subseteq Stored, NEW others
  PROVE  LocalRows(others) \subseteq Listed
BY ListRowTyped DEF LocalRows, Stored

LEMMA VisibleRows ==
  ASSUME cloud \subseteq Rows, NEW r
  PROVE  Visible(r) \subseteq Rows
BY DEF Visible

LEMMA PageTyped == TypeInv /\ Next => page' \in Pages
<1>. SUFFICES ASSUME TypeInv, Next PROVE page' \in Pages
  OBVIOUS
<1>1. page \in Pages /\ page.answer \subseteq Rows /\ sales \subseteq Stored /\ workspace \subseteq Rows
      /\ Visible(role) \subseteq Rows
  BY VisibleRows DEF TypeInv, Pages
<1>2. NoPage \in Pages
  BY DEF NoPage, Pages, PagePlaces
<1>3. ASSUME StartRefresh \/ Reload \/ Unlock PROVE page' \in Pages
  BY <1>2, <1>3 DEF StartRefresh, Reload, Unlock
<1>4. ASSUME OpenList PROVE page' \in Pages
  BY <1>1, <1>2, <1>4 DEF OpenList, Pages, PagePlaces
<1>5. ASSUME ListCloud PROVE page' \in Pages
  BY <1>1, <1>5, RowsListed DEF ListCloud, Pages, PagePlaces
<1>6. ASSUME ListCloudFails PROVE page' \in Pages
  BY <1>1, <1>6, RowsListed DEF ListCloudFails, Pages, PagePlaces
<1>7. ASSUME ListLocal PROVE page' \in Pages
  BY <1>1, <1>7, RowsListed, LocalRowsListed DEF ListLocal, Pages, PagePlaces
<1>8. ASSUME ListFallback PROVE page' \in Pages
  BY <1>1, <1>8, RowsListed, LocalRowsListed DEF ListFallback, Pages, PagePlaces
<1>9. ASSUME NEW r \in Rows, OpenInvoice(r) PROVE page' \in Pages
  BY <1>2, <1>9 DEF OpenInvoice, Pages, PagePlaces
<1>10. ASSUME LoadInvoice PROVE page' \in Pages
  BY <1>1, <1>10 DEF LoadInvoice, Pages, PagePlaces
<1>. QED
  BY <1>1, <1>3, <1>4, <1>5, <1>6, <1>7, <1>8, <1>9, <1>10, Steps, ElsewhereKeeps, FormKeeps
     DEF PageStep

LEMMA PullTyped == TypeInv /\ Next => pull' \in Pulls
<1>. SUFFICES ASSUME TypeInv, Next PROVE pull' \in Pulls
  OBVIOUS
<1>1. pull \in Pulls /\ Visible(role) \subseteq Rows
  BY VisibleRows DEF TypeInv
<1>2. NoPull \in Pulls
  BY DEF NoPull, Pulls
<1>3. ASSUME PullAnswered \/ Reconcile \/ ApplyChange \/ Reload PROVE pull' \in Pulls
  BY <1>1, <1>2, <1>3 DEF PullAnswered, Reconcile, ApplyChange, Reload, Pulls
<1>. QED
  BY <1>1, <1>3
     DEF Next, Submit, CloudAccepts, CloudRefuses, CloudFails, FormFindsCustomer,
         FormPutsCustomer, CheckScope, SaveSale, QueueSale, Push, PushRefused, StartRefresh,
         RefreshFinds, RefreshPuts, Sweep, DeleteCustomers, ListCustomers, OpenList,
         ListCloud, ListCloudFails, ListLocal, ListFallback, OpenInvoice, LoadInvoice,
         ChangeRole, Unlock

LEMMA RefreshTyped == TypeInv /\ Next => refresh' \in Refreshes
<1>. SUFFICES ASSUME TypeInv, Next PROVE refresh' \in Refreshes
  OBVIOUS
<1>1. Book /\ refresh \in Refreshes /\ refresh.todo \subseteq Stored /\ sales \subseteq Stored
  BY DEF TypeInv, Refreshes
<1>2. 0 \in OptId /\ NoCustomer \in Customers
  BY DEF OptId, NoCustomer, Customers
<1>3. NoRefresh \in Refreshes
  BY <1>2 DEF NoRefresh, Refreshes, RefreshPlaces
<1>4. ASSUME StartRefresh PROVE refresh' \in Refreshes
  <2>. DEFINE read == {s \in sales : InScope(s, known)}
  <2>1. read \subseteq Stored
    BY <1>1
  <2>2. refresh' = [NoRefresh EXCEPT !.pc = IF read = {} THEN "sweep" ELSE "find",
                                     !.todo = read, !.read = read]
    BY <1>4 DEF StartRefresh
  <2>. HIDE DEF read
  <2>. QED
    BY <1>3, <2>1, <2>2 DEF Refreshes, RefreshPlaces
<1>5. ASSUME RefreshFinds PROVE refresh' \in Refreshes
  <2>1. PICK s \in refresh.todo :
          refresh' = [refresh EXCEPT !.pc = "put", !.todo = @ \ {s}, !.now = {s},
                                     !.found = Found(s.customer), !.was = Read(Found(s.customer))]
    BY <1>5 DEF RefreshFinds
  <2>2. s \in Stored /\ s.customer \in OptId
    BY <1>1, <2>1 DEF Stored, OptId
  <2>3. Found(s.customer) \in OptId /\ Read(Found(s.customer)) \in Customers
    BY <1>1, <2>2, FoundIsAnId, ReadIsARecord
  <2>. QED
    BY <1>1, <2>1, <2>2, <2>3 DEF Refreshes, RefreshPlaces
<1>6. ASSUME RefreshPuts PROVE refresh' \in Refreshes
  BY <1>1, <1>2, <1>6 DEF RefreshPuts, Refreshes, RefreshPlaces
<1>7. ASSUME Sweep PROVE refresh' \in Refreshes
  BY <1>1, <1>7 DEF Sweep, Refreshes, RefreshPlaces, Book
<1>8. ASSUME DeleteCustomers PROVE refresh' \in Refreshes
  BY <1>1, <1>8 DEF DeleteCustomers, Refreshes, RefreshPlaces
<1>9. ASSUME ListCustomers PROVE refresh' \in Refreshes
  BY <1>1, <1>9 DEF ListCustomers, Refreshes, RefreshPlaces, Book
<1>10. ASSUME OpenList \/ (\E r \in Rows : OpenInvoice(r)) \/ Reload PROVE refresh' \in Refreshes
  BY <1>3, <1>10 DEF OpenList, OpenInvoice, LeaveForm, Reload
<1>. QED
  BY <1>1, <1>4, <1>5, <1>6, <1>7, <1>8, <1>9, <1>10
     DEF Next, Submit, CloudAccepts, CloudRefuses, CloudFails, FormFindsCustomer,
         FormPutsCustomer, CheckScope, SaveSale, QueueSale, Push, PushRefused, PullAnswered,
         Reconcile, ApplyChange, ListCloud, ListCloudFails, ListLocal, ListFallback, LoadInvoice,
         ChangeRole, Unlock

LEMMA BookTyped == TypeInv /\ Next => Book'
<1>. SUFFICES ASSUME TypeInv, Next PROVE Book'
  OBVIOUS
<1>1. Book /\ form \in Forms /\ refresh \in Refreshes
  BY DEF TypeInv
<1>2. ASSUME FormPutsCustomer PROVE Book'
  <2>. DEFINE id == IF form.found # 0 THEN form.found ELSE FreshCustomer
  <2>1. id \in CustomerIds /\ form.was \in Customers
    BY <1>1, <1>2, FreshIsAnId DEF FormPutsCustomer, Forms, OptId
  <2>2. [by |-> {"me"}, queued |-> TRUE] \in Customers
    BY DEF Customers, People
  <2>3. customers' = Upserted(id, form.was, [by |-> {"me"}, queued |-> TRUE])
    BY <1>2 DEF FormPutsCustomer
  <2>. HIDE DEF id
  <2>. QED
    BY <1>1, <2>1, <2>2, <2>3, UpsertedTyped
<1>3. ASSUME RefreshPuts PROVE Book'
  <2>. DEFINE id == IF refresh.found # 0 THEN refresh.found ELSE FreshCustomer
  <2>1. id \in CustomerIds /\ refresh.was \in Customers
    BY <1>1, <1>3, FreshIsAnId DEF RefreshPuts, Refreshes, OptId
  <2>2. PICK s \in refresh.now :
          customers' = Upserted(id, refresh.was,
                                [by |-> {RecordedBy(s.no)}, queued |-> s.owner = "device"])
    BY <1>3 DEF RefreshPuts
  <2>3. [by |-> {RecordedBy(s.no)}, queued |-> s.owner = "device"] \in Customers
    BY DEF Customers, People, RecordedBy
  <2>. HIDE DEF id
  <2>. QED
    BY <1>1, <2>1, <2>2, <2>3, UpsertedTyped
<1>4. ASSUME DeleteCustomers PROVE Book'
  BY <1>1, <1>4 DEF DeleteCustomers, Book
<1>5. CASE UNCHANGED customers
  BY <1>1, <1>5 DEF Book
<1>. QED
  BY <1>2, <1>3, <1>4, <1>5
     DEF Next, device, Submit, CloudAccepts, CloudRefuses, CloudFails, FormFindsCustomer,
         CheckScope, SaveSale, QueueSale, Push, PushRefused, PullAnswered, Reconcile,
         ApplyChange, StartRefresh, RefreshFinds, Sweep, ListCustomers, OpenList,
         ListCloud, ListCloudFails, ListLocal, ListFallback, OpenInvoice, LoadInvoice,
         ChangeRole, Reload, Unlock

LEMMA StoreTyped == TypeInv /\ Next => sales' \subseteq Stored
<1>. SUFFICES ASSUME TypeInv, Next PROVE sales' \subseteq Stored
  OBVIOUS
<1>1. sales \subseteq Stored /\ form.no \in SaleNos /\ form.id \in CustomerIds \cup {0}
      /\ pull.rows \subseteq Rows
  BY DEF TypeInv, Forms, OptId, Pulls
<1>2. ASSUME SaveSale PROVE sales' \subseteq Stored
  BY <1>1, <1>2 DEF SaveSale, Stored
<1>3. ASSUME Reconcile PROVE sales' \subseteq Stored
  BY <1>1, <1>3 DEF Reconcile, Reconciled
<1>4. ASSUME ApplyChange PROVE sales' \subseteq Stored
  BY <1>1, <1>4 DEF ApplyChange, Rows, Stored
<1>. QED
  BY <1>1, <1>2, <1>3, <1>4
     DEF Next, device, Submit, CloudAccepts, CloudRefuses, CloudFails, FormFindsCustomer,
         FormPutsCustomer, CheckScope, QueueSale, Push, PushRefused, PullAnswered,
         StartRefresh, RefreshFinds, RefreshPuts, Sweep, DeleteCustomers, ListCustomers,
         OpenList, ListCloud, ListCloudFails, ListLocal, ListFallback, OpenInvoice,
         LoadInvoice, ChangeRole, Reload, Unlock

\* What the other components of the state hold.
Rest ==
  /\ role \in Roles /\ known \in Roles /\ unlocked \in BOOLEAN /\ loads \in 0 .. MaxLoads
  /\ cloud \subseteq Rows /\ workspace \subseteq Rows /\ told \subseteq Rows
  /\ outbox \subseteq SaleNos \ {0} /\ refused \subseteq SaleNos \ {0}

LEMMA RestTyped == TypeInv /\ FormNumber /\ Next => Rest'
<1>. SUFFICES ASSUME TypeInv, FormNumber, Next PROVE Rest'
  OBVIOUS
<1>1. Rest /\ form.no \in SaleNos /\ Visible(role) \subseteq Rows
  BY VisibleRows DEF TypeInv, Rest, Forms
<1>2. Row(form.no, "form") \in Rows /\ Row(form.no, "device") \in Rows
  BY <1>1 DEF Row, Rows
<1>3. ASSUME CloudAccepts \/ CloudRefuses \/ CloudFails PROVE Rest'
  BY <1>1, <1>2, <1>3 DEF CloudAccepts, CloudRefuses, CloudFails, Rest
<1>4. ASSUME QueueSale PROVE Rest'
  BY <1>1, <1>2, <1>4 DEF QueueSale, Rest, FormNumber
<1>5. ASSUME NEW no \in SaleNos, Push(no) \/ PushRefused(no) PROVE Rest'
  BY <1>1, <1>5 DEF Push, PushRefused, Rest, Row, Rows
<1>6. ASSUME ChangeRole \/ Unlock PROVE Rest'
  BY <1>1, <1>6 DEF ChangeRole, Unlock, Rest, device
<1>7. ASSUME Reload PROVE Rest'
  <2>1. loads' \in 0 .. MaxLoads
    BY <1>1, <1>7, SaleAssumption DEF Reload, Rest
  <2>2. known' \in Roles /\ workspace' \subseteq Rows
    BY <1>1, <1>7 DEF Reload, Rest
  <2>. QED
    BY <1>1, <1>7, <2>1, <2>2 DEF Reload, Rest, device
<1>8. CASE UNCHANGED <<role, known, unlocked, loads, cloud, workspace, told, outbox, refused>>
  BY <1>1, <1>8 DEF Rest
<1>. QED
  BY <1>3, <1>4, <1>5, <1>6, <1>7, <1>8
     DEF Next, device, Submit, FormFindsCustomer, FormPutsCustomer, CheckScope, SaveSale,
         PullAnswered, Reconcile, ApplyChange, StartRefresh, RefreshFinds, RefreshPuts, Sweep,
         DeleteCustomers, ListCustomers, OpenList, ListCloud, ListCloudFails, ListLocal,
         ListFallback, OpenInvoice, LoadInvoice

LEMMA TypeStep == TypeInv /\ FormNumber /\ [Next]_vars => TypeInv'
<1>1. TypeInv /\ UNCHANGED vars => TypeInv'
  BY DEF TypeInv, vars, Book
<1>. QED
  BY <1>1, FormTyped, PageTyped, PullTyped, RefreshTyped, BookTyped, StoreTyped, RestTyped
     DEF TypeInv, Rest

LEMMA TypeInvariant == Spec => []TypeInv
<1>1. TypeInv /\ IInv /\ [Next]_vars => TypeInv'
  BY TypeStep DEF IInv, Kept
<1>. QED
  BY InitTypes, SaleInvariant, <1>1, PTL DEF Spec

\* The state of a device is what its records say it is.
THEOREM SaleTypes == Spec => []TypeOK
<1>1. TypeInv /\ IInv => TypeOK
  BY TypesTyped DEF IInv, Kept
<1>. QED
  BY <1>1, TypeInvariant, SaleInvariant, PTL

-----------------------------------------------------------------------------
(* The customers of the refreshed list *)

\* A customer record the user may have.
Allowed(i) == i \in DOMAIN customers /\ CustomerAllowed(customers[i], known)

\* There is such a record for a sale, which the refresh is not going to delete.
Has(s) ==
  IF s.customer # 0
  THEN Allowed(s.customer) /\ s.customer \notin refresh.drop
  ELSE \E i \in DOMAIN customers \ refresh.drop : Allowed(i)

\* A refresh reads the sales in scope and puts their customers one by one; what
\* it has put stays the user's, and it deletes none of it.
RefreshInv ==
  /\ \A s \in refresh.read : InScope(s, known)
  /\ refresh.todo \subseteq refresh.read /\ refresh.now \subseteq refresh.read
  /\ refresh.pc \notin {"find", "put"} => refresh.todo = {}
  /\ refresh.pc # "put" => refresh.now = {}
  /\ \A s \in refresh.now : refresh.now = {s} /\ (s.customer # 0 => refresh.found = s.customer)
  /\ refresh.pc # "delete" => refresh.drop = {}
  /\ refresh.pc \notin {"idle", "done"} =>
       \A s \in refresh.read \ (refresh.todo \cup refresh.now) : Has(s)

CustomerInv == RefreshInv /\ OwnCustomersAreListed

\* What a record is merged with is not lost: a record stays one the user may
\* have, and the one that is written becomes one.
LEMMA PutsAllow ==
  ASSUME NEW id, NEW was, NEW input, customers' = Upserted(id, was, input),
         known = "cashier" => "me" \in input.by, known' = known
  PROVE  Allowed(id)' /\ \A i : Allowed(i) => Allowed(i)'
<1>1. DOMAIN customers' = DOMAIN customers \cup {id}
  BY DEF Upserted
<1>2. customers'[id].by = was.by \cup input.by
  BY DEF Upserted
<1>3. \A i \in DOMAIN customers : i # id => customers'[i] = customers[i]
  BY DEF Upserted
<1>4. Allowed(id)'
  BY <1>1, <1>2 DEF Allowed, CustomerAllowed
<1>. QED
  BY <1>1, <1>3, <1>4 DEF Allowed, CustomerAllowed

\* More records and no more deletions leave a sale its customer.
LEMMA HasStays ==
  ASSUME \A i : Allowed(i) => Allowed(i)', refresh'.drop \subseteq refresh.drop, NEW s, Has(s)
  PROVE  Has(s)'
<1>1. CASE s.customer # 0
  BY <1>1 DEF Has
<1>2. CASE s.customer = 0
  <2>1. PICK i \in DOMAIN customers \ refresh.drop : Allowed(i)
    BY <1>2 DEF Has
  <2>2. i \in DOMAIN customers' /\ Allowed(i)' /\ i \notin refresh'.drop
    BY <2>1 DEF Allowed
  <2>. QED
    BY <1>2, <2>2 DEF Has
<1>. QED
  BY <1>1, <1>2

LEMMA CustomerStep == TypeInv /\ CustomerInv /\ Next => CustomerInv'
<1>. SUFFICES ASSUME TypeInv, CustomerInv, Next PROVE CustomerInv'
  OBVIOUS
<1>p. RefreshInv /\ OwnCustomersAreListed /\ refresh \in Refreshes /\ Book
  BY DEF TypeInv, CustomerInv
<1>1. ASSUME FormPutsCustomer PROVE CustomerInv'
  <2>1. \A i : Allowed(i) => Allowed(i)'
    BY <1>1, PutsAllow DEF FormPutsCustomer
  <2>2. UNCHANGED <<refresh, known>>
    BY <1>1 DEF FormPutsCustomer
  <2>. QED
    BY <1>p, <2>1, <2>2, HasStays DEF CustomerInv, RefreshInv, OwnCustomersAreListed, InScope
<1>2. ASSUME StartRefresh PROVE CustomerInv'
  <2>. DEFINE read == {s \in sales : InScope(s, known)}
  <2>1. /\ refresh'.read = read /\ refresh'.todo = read /\ refresh'.now = {} /\ refresh'.drop = {}
        /\ refresh'.pc = IF read = {} THEN "sweep" ELSE "find"
    BY <1>2 DEF StartRefresh, NoRefresh
  <2>2. known' = known
    BY <1>2 DEF StartRefresh
  <2>3. \A s \in read : InScope(s, known')
    BY <2>2
  <2>. HIDE DEF read
  <2>. QED
    BY <2>1, <2>2, <2>3 DEF CustomerInv, RefreshInv, OwnCustomersAreListed, InScope
<1>3. ASSUME RefreshFinds PROVE CustomerInv'
  <2>1. PICK s \in refresh.todo :
          refresh' = [refresh EXCEPT !.pc = "put", !.todo = @ \ {s}, !.now = {s},
                                     !.found = Found(s.customer), !.was = Read(Found(s.customer))]
    BY <1>3 DEF RefreshFinds
  <2>2. /\ refresh'.pc = "put" /\ refresh'.todo = refresh.todo \ {s} /\ refresh'.now = {s}
        /\ refresh'.found = Found(s.customer) /\ refresh'.drop = refresh.drop
        /\ refresh'.read = refresh.read
    BY <1>p, <2>1 DEF Refreshes
  <2>3. s.customer # 0 => Found(s.customer) = s.customer
    BY DEF Found
  <2>4. UNCHANGED <<customers, known>> /\ refresh.pc = "find"
    BY <1>3 DEF RefreshFinds, device
  <2>5. \A x : Has(x) => Has(x)'
    BY <2>2, <2>4 DEF Has, Allowed
  <2>. QED
    BY <1>p, <2>2, <2>3, <2>4, <2>5 DEF CustomerInv, RefreshInv, OwnCustomersAreListed, InScope
<1>4. ASSUME RefreshPuts PROVE CustomerInv'
  <2>0. PICK id : id = IF refresh.found # 0 THEN refresh.found ELSE FreshCustomer
    OBVIOUS
  <2>1. PICK s \in refresh.now :
          customers' = Upserted(id, refresh.was,
                                [by |-> {RecordedBy(s.no)}, queued |-> s.owner = "device"])
    BY <1>4, <2>0 DEF RefreshPuts
  <2>2. refresh.now = {s} /\ s \in refresh.read /\ (s.customer # 0 => id = s.customer)
    BY <1>p, <2>0, <2>1 DEF RefreshInv
  <2>3. known = "cashier" => "me" \in {RecordedBy(s.no)}
    BY <1>p, <2>2 DEF RefreshInv, InScope
  <2>4. known' = known /\ refresh.pc = "put"
    BY <1>4 DEF RefreshPuts
  <2>5. Allowed(id)' /\ \A i : Allowed(i) => Allowed(i)'
    <3>. DEFINE input == [by |-> {RecordedBy(s.no)}, queued |-> s.owner = "device"]
    <3>1. known = "cashier" => "me" \in input.by
      BY <2>3
    <3>2. customers' = Upserted(id, refresh.was, input)
      BY <2>1
    <3>. HIDE DEF input
    <3>. QED
      BY <2>4, <3>1, <3>2, PutsAllow
  <2>6. /\ refresh'.pc \in {"sweep", "find"} /\ (refresh'.pc = "sweep" => refresh.todo = {})
        /\ refresh'.now = {} /\ refresh'.todo = refresh.todo /\ refresh'.read = refresh.read
        /\ refresh'.drop = refresh.drop
    BY <1>p, <1>4 DEF RefreshPuts, Refreshes
  <2>7. refresh'.drop = {}
    BY <1>p, <2>4, <2>6 DEF RefreshInv
  <2>8. Has(s)'
    <3>1. CASE s.customer # 0
      BY <2>2, <2>5, <2>7, <3>1 DEF Has
    <3>2. CASE s.customer = 0
      <4>1. id \in DOMAIN customers' \ refresh'.drop
        BY <2>5, <2>7 DEF Allowed
      <4>. QED
        BY <2>5, <3>2, <4>1 DEF Has
    <3>. QED
      BY <3>1, <3>2
  <2>9. \A x : Has(x) => Has(x)'
    BY <2>5, <2>6, HasStays
  <2>. QED
    BY <1>p, <2>2, <2>4, <2>6, <2>7, <2>8, <2>9
       DEF CustomerInv, RefreshInv, OwnCustomersAreListed, InScope
<1>5. ASSUME Sweep PROVE CustomerInv'
  <2>. DEFINE drop == {i \in DOMAIN customers : ~CustomerAllowed(customers[i], known)}
  <2>1. /\ refresh'.pc = "delete" /\ refresh'.drop = drop /\ refresh'.read = refresh.read
        /\ refresh'.todo = refresh.todo /\ refresh'.now = refresh.now
    BY <1>p, <1>5 DEF Sweep, Refreshes
  <2>2. UNCHANGED <<customers, known>> /\ refresh.pc = "sweep"
    BY <1>5 DEF Sweep, device
  <2>3. \A i : Allowed(i) => Allowed(i)' /\ i \notin drop
    BY <2>2 DEF Allowed
  <2>. HIDE DEF drop
  <2>4. ASSUME NEW x, Has(x) PROVE Has(x)'
    BY <2>1, <2>2, <2>3, <2>4 DEF Has
  <2>. QED
    BY <1>p, <2>1, <2>2, <2>4 DEF CustomerInv, RefreshInv, OwnCustomersAreListed, InScope
<1>6. ASSUME DeleteCustomers PROVE CustomerInv'
  <2>1. /\ refresh'.pc = "list" /\ refresh'.drop = {} /\ refresh'.read = refresh.read
        /\ refresh'.todo = refresh.todo /\ refresh'.now = refresh.now
    BY <1>p, <1>6 DEF DeleteCustomers, Refreshes
  <2>2. known' = known /\ refresh.pc = "delete"
        /\ customers' = [i \in DOMAIN customers \ refresh.drop |-> customers[i]]
    BY <1>6 DEF DeleteCustomers
  <2>3. ASSUME NEW i, Allowed(i), i \notin refresh.drop PROVE i \in DOMAIN customers' /\ Allowed(i)'
    BY <2>2, <2>3 DEF Allowed
  <2>4. ASSUME NEW x, Has(x) PROVE Has(x)'
    BY <2>1, <2>3, <2>4 DEF Has
  <2>. QED
    BY <1>p, <2>1, <2>2, <2>4 DEF CustomerInv, RefreshInv, OwnCustomersAreListed, InScope
<1>7. ASSUME ListCustomers PROVE CustomerInv'
  <2>1. /\ refresh'.pc = "done" /\ refresh'.drop = refresh.drop /\ refresh'.read = refresh.read
        /\ refresh'.todo = refresh.todo /\ refresh'.now = refresh.now
        /\ refresh'.ids = {i \in DOMAIN customers : CustomerAllowed(customers[i], known)}
    BY <1>p, <1>7 DEF ListCustomers, Refreshes
  <2>2. UNCHANGED <<customers, known>> /\ refresh.pc = "list"
    BY <1>7 DEF ListCustomers, device
  <2>3. \A s \in refresh.read : Has(s)
    BY <1>p, <2>2 DEF RefreshInv
  <2>4. OwnCustomersAreListed'
    BY <2>1, <2>3 DEF OwnCustomersAreListed, Has, Allowed
  <2>. QED
    BY <1>p, <2>1, <2>2, <2>4 DEF CustomerInv, RefreshInv, InScope
<1>8. ASSUME OpenList \/ (\E r \in Rows : OpenInvoice(r)) \/ Reload PROVE CustomerInv'
  <2>1. refresh' = NoRefresh
    BY <1>8 DEF OpenList, OpenInvoice, LeaveForm, Reload
  <2>. QED
    BY <2>1 DEF NoRefresh, CustomerInv, RefreshInv, OwnCustomersAreListed
<1>9. CASE UNCHANGED <<refresh, customers, known>>
  <2>1. \A x : Has(x) => Has(x)'
    BY <1>9 DEF Has, Allowed
  <2>. QED
    BY <1>p, <1>9, <2>1 DEF CustomerInv, RefreshInv, OwnCustomersAreListed, InScope
<1>. QED
  BY <1>1, <1>2, <1>3, <1>4, <1>5, <1>6, <1>7, <1>8, <1>9
     DEF Next, device, Submit, CloudAccepts, CloudRefuses, CloudFails, FormFindsCustomer,
         CheckScope, SaveSale, QueueSale, Push, PushRefused, PullAnswered, Reconcile,
         ApplyChange, ListCloud, ListCloudFails, ListLocal, ListFallback, LoadInvoice,
         ChangeRole, Unlock

\* When the customers have been refreshed, the list has one for every sale the
\* refresh has read (refreshScopedLocalCustomerCache, upsertLocalCustomer).
THEOREM SaleCustomersAreListed == Spec => []OwnCustomersAreListed
<1>1. Init => CustomerInv
  BY DEF Init, NoRefresh, CustomerInv, RefreshInv, OwnCustomersAreListed
<1>2. CustomerInv /\ UNCHANGED vars => CustomerInv'
  BY DEF CustomerInv, RefreshInv, OwnCustomersAreListed, Has, Allowed, InScope, CustomerAllowed, vars
<1>3. TypeInv /\ CustomerInv /\ [Next]_vars => CustomerInv'
  BY <1>2, CustomerStep
<1>4. CustomerInv => OwnCustomersAreListed
  BY DEF CustomerInv
<1>. QED
  BY <1>1, <1>3, <1>4, TypeInvariant, PTL DEF Spec
=============================================================================
