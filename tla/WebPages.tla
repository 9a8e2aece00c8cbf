-------------------------------- MODULE WebPages --------------------------------
(***************************************************************************)
(* The pages of the web client with a form of their own, put together as    *)
(* AppRoutes does: one page is open at a time, and what a page keeps is     *)
(* gone when it is left.  A behaviour visits one kind of page, any number   *)
(* of times: the pages share no state of the client, so that a visit to     *)
(* another kind of page in between changes nothing for this one.            *)
(***************************************************************************)
EXTENDS Naturals, FiniteSets

CONSTANTS
  Businesses, Units, BusinessOf, Products, UnitOf, Home, Cent, MaxAmount, MaxLines,
  Catalogue, MaxColumns, NewSaves,
  Members, Baselines, OtherRoles, Screens, BaseScreens, InitialAccess, MaxDrafts, MemberSaves,
  MaxBusinesses, MaxUnits, Slots,
  Roles, Dimensions, EntitiesOf, Timeframes, Dates, MaxRequests

\* A sale is recorded: TransactionRecordPage.
VARIABLES status, level, options, loading, draft, fields, request
saleVars == <<status, level, options, loading, draft, fields, request>>
Sale == INSTANCE SaleForm

\* The ledger of the stock page.
VARIABLES caps, ledger, filter, lists, older, sending
stockVars == <<caps, ledger, filter, lists, older, sending>>
Stock == INSTANCE StockForm WITH page <- ledger, Products <- Catalogue

\* The product table of the stock page.
VARIABLES table, manage, shop, rows, report, drafts, columns, csv, saving, saves, outbox, cloud
tableVars == <<table, manage, shop, rows, report, drafts, columns, csv, saving, saves, outbox, cloud>>
Table == INSTANCE ProductCatalogue WITH
           page <- table, Products <- {CHOOSE p \in Catalogue : TRUE}, MaxSaves <- NewSaves

\* TeamAccessPage and InviteAcceptancePage.
VARIABLES team, members, known, member, editor, touched, busy, invites, invited, changes
teamVars == <<team, members, known, member, editor, touched, busy, invites, invited, changes>>
Team == INSTANCE TeamAccess WITH
          page <- team, server <- members, selected <- member, csv <- invites,
          saves <- changes, MaxSaves <- MemberSaves

\* BusinessStructurePage.
VARIABLES tree, vault, cache, server, list, shared, loads, failed, selected, forms, creating, news
treeVars == <<tree, vault, cache, server, list, shared, loads, failed, selected, forms, creating, news>>
Tree == INSTANCE BusinessStructure WITH page <- tree

\* ReportsPage, ScopedEntityReportPage and EntityReportDetailPage.
VARIABLES reports, choice, picked, typing, sort, panels, requests
reportVars == <<reports, choice, picked, typing, sort, panels, requests>>
Reports == INSTANCE ReportPages WITH page <- reports

-----------------------------------------------------------------------------
\* What the constants stand for.

\* The home unit and its business are among those of the account, amounts are
\* counted in parts of a cent, and the bounds have room for the drafts.
Shop ==
  /\ Cent \in Nat /\ Cent >= 1
  /\ MaxAmount \in Nat /\ MaxAmount >= 1
  /\ MaxLines \in Nat /\ MaxLines >= 2
  /\ Home \in Units /\ BusinessOf \in [Units -> Businesses]

\* There is room for the first column.
Grid == MaxColumns \in Nat /\ MaxColumns >= 1 /\ NewSaves \in Nat

\* There are members and baselines with names; a role that was stored before its
\* baseline was given a screen need not have it.
Roster ==
  /\ Members # {} /\ "" \notin Members
  /\ "" \notin Team!StandardRoles /\ Team!Custom \notin Team!StandardRoles
  /\ BaseScreens \in [Baselines -> SUBSET Screens]
  /\ \A m \in Members : InitialAccess[m] \in Team!Access

Quota == MaxDrafts \in Nat /\ MemberSaves \in Nat

\* There is room for a load.
TreeBounds ==
  /\ MaxBusinesses \in Nat /\ MaxBusinesses >= 1
  /\ MaxUnits \in Nat
  /\ Slots # {}

\* There is the first timeframe, and a tab that every role has.
Reported == "daily" \in Timeframes /\ "products" \in Dimensions

ASSUME PagesAssumption == Shop /\ Grid /\ Roster /\ Quota /\ TreeBounds /\ Reported

-----------------------------------------------------------------------------
vars == <<saleVars, stockVars, tableVars, teamVars, treeVars, reportVars>>

Init == Sale!Init /\ Stock!Init /\ Table!Init /\ Team!Init /\ Tree!Init /\ Reports!Init

-----------------------------------------------------------------------------

SalePage == Sale!Next /\ UNCHANGED <<stockVars, tableVars, teamVars, treeVars, reportVars>>
LedgerPage == Stock!Next /\ UNCHANGED <<saleVars, tableVars, teamVars, treeVars, reportVars>>
ProductPage == Table!Next /\ UNCHANGED <<saleVars, stockVars, teamVars, treeVars, reportVars>>
TeamPages == Team!Next /\ UNCHANGED <<saleVars, stockVars, tableVars, treeVars, reportVars>>
BusinessPage == Tree!Next /\ UNCHANGED <<saleVars, stockVars, tableVars, teamVars, reportVars>>
ReportsPages == Reports!Next /\ UNCHANGED <<saleVars, stockVars, tableVars, teamVars, treeVars>>

Next ==
  \/ Stock!Init /\ Table!Init /\ Team!Init /\ Tree!Init /\ Reports!Init /\ SalePage
  \/ Sale!Init /\ Table!Init /\ Team!Init /\ Tree!Init /\ Reports!Init /\ LedgerPage
  \/ Sale!Init /\ Stock!Init /\ Team!Init /\ Tree!Init /\ Reports!Init /\ ProductPage
  \/ Sale!Init /\ Stock!Init /\ Table!Init /\ Tree!Init /\ Reports!Init /\ TeamPages
  \/ Sale!Init /\ Stock!Init /\ Table!Init /\ Team!Init /\ Reports!Init /\ BusinessPage
  \/ Sale!Init /\ Stock!Init /\ Table!Init /\ Team!Init /\ Tree!Init /\ ReportsPages

Spec == Init /\ [][Next]_vars

-----------------------------------------------------------------------------

\* Every page keeps values it can have.
TypeOK ==
  /\ Sale!TypeOK /\ Stock!TypeOK /\ Table!TypeOK
  /\ Team!TypeOK /\ Tree!TypeOK /\ Reports!TypeOK

\* What a sale says is still owed fits the lines it is sent with, whatever was
\* switched, edited or loaded with a draft before (TransactionRecordPage).
SentAmountsAgree == Sale!SentAmountsAgree

\* A list of the ledger that has loaded shows what the chosen filter asks for:
\* the late answer to an earlier filter never replaces it (StockPage).
LedgerFollowsFilter == Stock!LedgerFollowsFilter

\* A column saved once becomes one product, also when the answer is lost and the
\* product is queued and pushed later (productService).
SavedOnce == Table!SavedOnce

\* A save of a member whose role was not edited keeps the role and the baseline, and
\* takes no screen away; it adds those the baseline was given since, as the page
\* shows them (TeamAccessPage).
UntouchedSaveKeepsAccess == Team!UntouchedSaveKeepsAccess

\* Once the loads have ended the tree has nothing twice, also when the answer to a
\* creation came after a load that saw it; and what was created on the page stays
\* listed, unless a load asked before is shown last (BusinessStructurePage).
ListSettles == Tree!ListSettles

\* What a report panel shows as loaded answers the dimension, the period and the
\* entities chosen now, and one that is loading has that question under way
\* (ReportsPage, ReportDetailTable, EntityMultiSelect, EntityReportDetailPage).
ReportFollowsChoice == Reports!ReportFollowsChoice
=============================================================================
