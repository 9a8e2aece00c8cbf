---------------------------- MODULE ProductCatalogue ----------------------------
(***************************************************************************)
(* The product table of the stock page, with the columns in which products *)
(* are added, the import of a CSV file into them, and the requests of       *)
(* services/products/productService, which are queued on the device when   *)
(* the API does not answer.                                                 *)
(*                                                                         *)
(* A column is empty, "unnamed" (something but the name), "named", or       *)
(* "imported": named, with a shop from the file.  A product on the server   *)
(* is its id and the column of the save it was created from.  The texts of *)
(* the table's rows are "loaded" or "typed".                                *)
(***************************************************************************)
EXTENDS Naturals, FiniteSets, Sequences, SequencesExt

CONSTANTS Products,    \* the products in the table
          MaxColumns,  \* bound: columns
          MaxSaves     \* bound: saves of new products

VARIABLES
  page,     \* "closed", "reading", "editing" or "adding"
  manage,   \* canManageProducts
  shop,     \* a business and an active unit of it are selected for new products
  rows,     \* products of the report that was loaded last
  report,   \* the report is under way
  drafts,   \* productDrafts: the text of a row, "" when there is none
  columns,  \* newProductDrafts
  csv,      \* the fields the two columns of a file are mapped to, <<>> without one
  saving,   \* the request under way: what it sends, <<>> without one
  saves,    \* saves of new products so far
  outbox,   \* products queued on the device
  cloud     \* products created on the server

vars == <<page, manage, shop, rows, report, drafts, columns, csv, saving, saves, outbox, cloud>>

Kinds == {"empty", "unnamed", "named", "imported"}
Fields == {"name", "businessUnitId", ""}

\* createEmptyProductDraft: one empty column.
NewColumns == <<"empty">>

NoDrafts == [p \in Products |-> ""]

Content(column) == column # "empty"

\* The columns with content, in their order.
WithContent(cs) ==
  FoldLeft(LAMBDA kept, c : IF Content(c) THEN Append(kept, c) ELSE kept, <<>>, cs)

\* The columns that are saved; those without a name are left out.
ToSave(cs) == {i \in DOMAIN cs : cs[i] \in {"named", "imported"}}

\* createProducts gives every product an id before it is sent.
NewProducts == {[id |-> <<saves, i>>, save |-> saves, column |-> i] : i \in ToSave(columns)}

Idle == page # "closed" /\ saving = <<>>

-----------------------------------------------------------------------------
(* Opening and the report.                                                 *)

Open(m) ==
  /\ page = "closed" /\ page' = "reading" /\ manage' = m
  /\ shop' \in BOOLEAN
  /\ rows' = {} /\ report' = TRUE /\ drafts' = NoDrafts /\ columns' = NewColumns
  /\ csv' = <<>> /\ saving' = <<>>
  /\ UNCHANGED <<saves, outbox, cloud>>

\* getProductRevenueReport: only a row without a draft gets one.
ReportArrives(ps) ==
  /\ page # "closed" /\ report /\ report' = FALSE /\ rows' = ps
  /\ drafts' = [p \in Products |-> IF p \in ps /\ drafts[p] = "" THEN "loaded" ELSE drafts[p]]
  /\ UNCHANGED <<page, manage, shop, columns, csv, saving, saves, outbox, cloud>>

ReportFails ==
  /\ page # "closed" /\ report /\ report' = FALSE /\ rows' = {}
  /\ UNCHANGED <<page, manage, shop, drafts, columns, csv, saving, saves, outbox, cloud>>

-----------------------------------------------------------------------------
(* The table.                                                              *)

\* toggleProductEditing; the button is shown with the rows only.
StartEditing ==
  /\ Idle /\ page = "reading" /\ manage /\ ~report /\ rows # {}
  /\ page' = "editing"
  /\ UNCHANGED <<manage, shop, rows, report, drafts, columns, csv, saving, saves, outbox, cloud>>

\* updateDraft and updateStockPolicy; the quantity cannot be edited.
EditRow(p) ==
  /\ page = "editing" /\ ~report /\ p \in rows /\ drafts' = [drafts EXCEPT ![p] = "typed"]
  /\ UNCHANGED <<page, manage, shop, rows, report, columns, csv, saving, saves, outbox, cloud>>

\* Every row is sent, also those that were not edited.
SaveEdits ==
  /\ Idle /\ page = "editing" /\ ~report /\ rows # {}
  /\ saving' = <<[kind |-> "edits", products |-> rows]>>
  /\ UNCHANGED <<page, manage, shop, rows, report, drafts, columns, csv, saves, outbox, cloud>>

\* Each update is applied, or queued by a member with a grant.
EditsSaved ==
  /\ saving # <<>> /\ saving[1].kind = "edits" /\ saving' = <<>>
  /\ page' = IF page = "editing" THEN "reading" ELSE page
  /\ report' = TRUE
  /\ UNCHANGED <<manage, shop, rows, drafts, columns, csv, saves, outbox, cloud>>

\* One update is refused; the others may have been applied.
EditsRefused ==
  /\ saving # <<>> /\ saving[1].kind = "edits" /\ saving' = <<>>
  /\ UNCHANGED <<page, manage, shop, rows, report, drafts, columns, csv, saves, outbox, cloud>>

-----------------------------------------------------------------------------
(* New products.                                                           *)

\* openAddProducts, which leaves the edits of the table as they are.
OpenAddProducts ==
  /\ Idle /\ page \in {"reading", "editing"} /\ manage /\ page' = "adding"
  /\ UNCHANGED <<manage, shop, rows, report, drafts, columns, csv, saving, saves, outbox, cloud>>

\* Choosing a business selects its first active unit, if it has one; the same
\* happens when the businesses arrive and none was selected.
ChooseShop ==
  /\ page = "adding" /\ csv = <<>> /\ shop' \in BOOLEAN
  /\ UNCHANGED <<page, manage, rows, report, drafts, columns, csv, saving, saves, outbox, cloud>>

CancelAddProducts ==
  /\ page = "adding" /\ page' = "reading"
  /\ csv' = <<>>
  /\ UNCHANGED <<manage, shop, rows, report, drafts, columns, saving, saves, outbox, cloud>>

\* Mutant: the last column is filled in, and no empty one follows.
TypeColumnOnly(i, kind) ==
  /\ page = "adding" /\ csv = <<>> /\ Len(columns) < MaxColumns
  /\ kind = "imported" => columns[i] \in {"imported"}
  /\ columns' = [columns EXCEPT ![i] = kind]
  /\ UNCHANGED <<page, manage, shop, rows, report, drafts, csv, saving, saves, outbox, cloud>>

\* updateNewProductDraft: content in the last column adds an empty one.
TypeColumn(i, kind) ==
  /\ page = "adding" /\ csv = <<>> /\ Len(columns) < MaxColumns
  /\ kind = "imported" => columns[i] \in {"imported"}
  /\ columns' = LET next == [columns EXCEPT ![i] = kind]
                IN IF i = Len(next) /\ Content(kind) THEN Append(next, "empty") ELSE next
  /\ UNCHANGED <<page, manage, shop, rows, report, drafts, csv, saving, saves, outbox, cloud>>

\* CsvImportPanel reads a file; the fields of its headers are recognised once.
ReadFile(fields) ==
  /\ page = "adding" /\ csv = <<>>
  /\ fields[1] # "" => fields[1] # fields[2]
  /\ csv' = fields
  /\ UNCHANGED <<page, manage, shop, rows, report, drafts, columns, saving, saves, outbox, cloud>>

\* setColumnField: the same field may be chosen twice, the later column counts.
AssignColumn(c, field) ==
  /\ csv # <<>> /\ csv' = [csv EXCEPT ![c] = field]
  /\ UNCHANGED <<page, manage, shop, rows, report, drafts, columns, saving, saves, outbox, cloud>>

CancelImport ==
  /\ csv # <<>> /\ csv' = <<>>
  /\ UNCHANGED <<page, manage, shop, rows, report, drafts, columns, saving, saves, outbox, cloud>>

\* confirmMapping and handleProductCsvImport: the columns with content are kept,
\* the records with content follow, and an empty column.
ConfirmImport(records) ==
  /\ csv # <<>> /\ csv' = <<>>
  /\ "name" \in Range(csv)
  /\ "businessUnitId" \notin Range(csv) => "imported" \notin Range(records)
  /\ columns' = IF records = <<>> THEN columns
                ELSE WithContent(columns) \o records \o NewColumns
  /\ Len(columns') <= MaxColumns
  /\ UNCHANGED <<page, manage, shop, rows, report, drafts, saving, saves, outbox, cloud>>

-----------------------------------------------------------------------------
(* Saving them: createProducts.                                            *)

\* saveNewProducts of the named columns.
SaveNew ==
  /\ Idle /\ page = "adding" /\ shop /\ csv = <<>> /\ saves < MaxSaves /\ ToSave(columns) # {}
  /\ saving' = <<[kind |-> "new", products |-> NewProducts]>>
  /\ saves' = saves + 1
  /\ UNCHANGED <<page, manage, shop, rows, report, drafts, columns, csv, outbox, cloud>>

Creating == saving # <<>> /\ saving[1].kind = "new"

\* The grid is cleared and the report is loaded again.
Added ==
  /\ saving' = <<>> /\ columns' = NewColumns
  /\ page' = IF page = "adding" THEN "reading" ELSE page
  /\ report' = TRUE
  /\ UNCHANGED <<manage, shop, rows, drafts, csv, saves>>

\* The error is shown, the columns stay.
NotAdded ==
  saving' = <<>> /\ UNCHANGED <<page, manage, shop, rows, report, drafts, columns, csv, saves>>

\* The server creates the products one by one, and answers.
CloudCreates == Creating /\ cloud' = cloud \cup saving[1].products /\ Added /\ UNCHANGED outbox

\* It refuses one of them, after some were created, or its answer is too late:
\* an error below 500 is not queued.
CloudRefuses(created) ==
  /\ Creating /\ created \subseteq saving[1].products
  /\ cloud' = cloud \cup created /\ NotAdded /\ UNCHANGED outbox

\* Mutant: what is queued gets ids of its own.
QueuedAnew(ps) == {[p EXCEPT !.id = Append(@, saves)] : p \in ps}

\* queueProductWrite of each product, under the id it was sent with.
Queued(ps) == ps

\* The API is not there, fails, or its answer is lost, after it may have created
\* some of the products: they are queued, if the grant of the device allows it.
CloudFails(created) ==
  /\ Creating /\ created \subseteq saving[1].products
  /\ cloud' = cloud \cup created
  /\ outbox' = outbox \cup Queued(saving[1].products) /\ Added

\* There is no grant, or one of the products cannot be stored.
QueueFails(created, stored) ==
  /\ Creating /\ created \subseteq saving[1].products
  /\ stored \in SUBSET Queued(saving[1].products) \ {Queued(saving[1].products)}
  /\ cloud' = cloud \cup created /\ outbox' = outbox \cup stored /\ NotAdded

\* The queue is pushed: the id is taken when the product was created before, and
\* the server refuses it, however often it is pushed.
Push(p) ==
  /\ p \in outbox /\ outbox' = outbox \ {p}
  /\ cloud' = IF \E q \in cloud : q.id = p.id THEN cloud ELSE cloud \cup {p}
  /\ UNCHANGED <<page, manage, shop, rows, report, drafts, columns, csv, saving, saves>>

-----------------------------------------------------------------------------

\* The member leaves.  A page that is left while a request is under way is left
\* out: its answer does the same to the server and the queue.
Leave ==
  /\ Idle /\ page' = "closed" /\ manage' = FALSE /\ shop' = FALSE
  /\ rows' = {} /\ report' = FALSE /\ drafts' = NoDrafts /\ columns' = NewColumns
  /\ csv' = <<>> /\ saving' = <<>>
  /\ UNCHANGED <<saves, outbox, cloud>>

Shut == page = "closed"

Init ==
  /\ page = "closed" /\ manage = FALSE /\ shop = FALSE /\ rows = {} /\ report = FALSE
  /\ drafts = NoDrafts /\ columns = NewColumns /\ csv = <<>> /\ saving = <<>>
  /\ saves = 0 /\ outbox = {} /\ cloud = {}

OpenAny == \E m \in BOOLEAN : Open(m)

Import ==
  \/ \E f, g \in Fields : ReadFile(<<f, g>>)
  \/ \E c \in {1, 2}, f \in Fields : AssignColumn(c, f)
  \/ CancelImport
  \/ \E n \in 0 .. 2 : \E records \in [1 .. n -> Kinds \ {"empty"}] : ConfirmImport(records)

\* The table and its inputs, there once the report has loaded with a row.
RowEdits == StartEditing \/ SaveEdits \/ \E p \in Products : EditRow(p)

\* The grid of new products: an input for every field of every column.
ColumnEdits == \E i \in DOMAIN columns, k \in Kinds : TypeColumn(i, k)

Answer ==
  \/ CloudCreates
  \/ Creating /\ \E created \in SUBSET saving[1].products :
       \/ CloudRefuses(created) \/ CloudFails(created)
       \/ \E stored \in SUBSET Queued(saving[1].products) : QueueFails(created, stored)

Step ==
  \/ \E ps \in SUBSET Products : ReportArrives(ps)
  \/ ReportFails \/ RowEdits \/ EditsSaved \/ EditsRefused
  \/ OpenAddProducts \/ ChooseShop \/ CancelAddProducts
  \/ ColumnEdits \/ Import \/ SaveNew \/ Answer
  \/ \E p \in outbox : Push(p)
  \/ Leave

Next == OpenAny \/ Step

Spec == Init /\ [][Next]_vars

-----------------------------------------------------------------------------

TypeOK ==
  /\ page \in {"closed", "reading", "editing", "adding"} /\ {manage, shop, report} \subseteq BOOLEAN
  /\ rows \subseteq Products /\ drafts \in [Products -> {"", "loaded", "typed"}]
  /\ Len(columns) \in 1 .. MaxColumns /\ \A i \in DOMAIN columns : columns[i] \in Kinds
  /\ Last(columns) = "empty"
  /\ csv = <<>> \/ csv \in [1 .. 2 -> Fields]
  /\ saves \in 0 .. MaxSaves /\ Len(saving) \in {0, 1}

\* A column that is saved once becomes one product on the server, at most: also
\* when the answer is lost, the product is queued, and the queue is pushed later.
SavedOnce ==
  \A p, q \in cloud : p.save = q.save /\ p.column = q.column => p = q
=============================================================================
