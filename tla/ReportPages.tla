------------------------------ MODULE ReportPages ------------------------------
(***************************************************************************)
(* The report pages of the web client: ReportsPage with its summary and its *)
(* detail view (ReportDetailTable, EntityMultiSelect), the list of the      *)
(* shops, employees or products (ScopedEntityReportPage) and the page of    *)
(* one of them (EntityReportDetailPage).                                    *)
(*                                                                         *)
(* A page has up to three panels that load by themselves: the chart, the    *)
(* detail table and the directory of entities.  A panel's effect asks when  *)
(* what it depends on changes, asks again every 30 seconds, and ignores the *)
(* answers to what it asked before.  A click or an edit, the render it      *)
(* causes and the effects of that render are one step: React runs the       *)
(* effects of a discrete event before it returns.                           *)
(***************************************************************************)
EXTENDS Naturals, FiniteSets, Sequences

CONSTANTS
  Roles,          \* baseline roles of a member who opens the reports
  Dimensions,     \* the dimensions of a report that are looked at
  EntitiesOf,     \* dimension -> the entities of it the member may see
  Timeframes,     \* the fixed timeframes
  Dates,          \* days a custom range can have, 0 being an empty field
  MaxRequests     \* bound: requests under way at once

VARIABLES
  page,           \* "none", "reports", "list" or "entity"
  choice,         \* role, dimension, view, entity, timeframe and custom range
  picked,         \* selectedIdsByDimension
  typing,         \* the picker's query has text
  sort,           \* sortColumn and sortDirection of the list
  panels,         \* panel -> its state and the question its data answers
  requests        \* requests under way

vars == <<page, choice, picked, typing, sort, panels, requests>>

Panels == {"chart", "detail", "directory"}
NoPeriod == [timeframe |-> "", startDate |-> 0, endDate |-> 0]
Nothing == [dimension |-> "", ids |-> {}, period |-> NoPeriod]
Entities == UNION {EntitiesOf[d] : d \in Dimensions}

\* useState("loading") with no data: a panel that was just mounted.
Blank == [state |-> "loading", data |-> Nothing]

\* What a page starts with: the summary of the first dimension, by day.
Start(role, dimension, entity) ==
  [role |-> role, dimension |-> dimension, view |-> "summary", entity |-> entity,
   timeframe |-> "daily", start |-> 0, end |-> 0]

Away == Start("", "", "")

Init ==
  /\ page = "none"
  /\ choice = Away
  /\ picked = [d \in Dimensions |-> {}]
  /\ typing = FALSE
  /\ sort = [column |-> "name", direction |-> "asc"]
  /\ panels = [p \in Panels |-> Blank]
  /\ requests = {}

-----------------------------------------------------------------------------
(* What a page asks for. *)

\* The tabs of a role, in their order.
RoleDimensions(role) ==
  CASE role \in {"master_owner", "business_admin"} ->
         <<"businesses", "shops", "employees", "products">>
    [] role = "shop_manager" -> <<"shops", "employees", "products">>
    [] OTHER -> <<"employees", "products">>

\* The tab that is open at first: the first of those that are looked at.
FirstDimension(role) ==
  LET all == RoleDimensions(role)
  IN all[CHOOSE i \in DOMAIN all :
           all[i] \in Dimensions /\ \A j \in 1 .. i - 1 : all[j] \notin Dimensions]

CanViewDetail(role) == role \in {"master_owner", "business_admin"}

IsRangeValid(c) ==
  c.timeframe = "custom" => c.start # 0 /\ c.end # 0 /\ c.end >= c.start

\* The part of the filters every report has: the range only when it is custom.
Period(c) ==
  [timeframe |-> c.timeframe,
   startDate |-> IF c.timeframe = "custom" THEN c.start ELSE 0,
   endDate   |-> IF c.timeframe = "custom" THEN c.end ELSE 0]

\* loadReport: one dimension, on an entity's page for that entity alone.
ReportQuery(c) ==
  [dimension |-> c.dimension, ids |-> {c.entity} \ {""}, period |-> Period(c)]

\* loadReportTransactionDetail: the entities picked in the active dimension.
DetailQuery(c, picks) ==
  [dimension |-> c.dimension, ids |-> picks[c.dimension], period |-> Period(c)]

\* loadEntityItems and loadItems: the directory of one dimension.
DirectoryQuery(c) == [dimension |-> c.dimension, ids |-> {}, period |-> NoPeriod]

\* What each panel's effect asks for, Nothing where it returns early or the
\* panel is not mounted.
Wanted(pg, c, picks) ==
  [chart |-> IF (pg = "entity" \/ (pg = "reports" /\ c.view = "summary")) /\ IsRangeValid(c)
             THEN ReportQuery(c) ELSE Nothing,
   detail |-> IF pg = "reports" /\ c.view = "detail" /\ IsRangeValid(c)
              THEN DetailQuery(c, picks) ELSE Nothing,
   directory |-> IF pg \in {"list", "entity"} \/ (pg = "reports" /\ c.view = "detail")
                 THEN DirectoryQuery(c) ELSE Nothing]

Asked == Wanted(page, choice, picked)

Request(p, ask, initial) ==
  [panel |-> p, ask |-> ask, initial |-> initial, ignored |-> FALSE]

-----------------------------------------------------------------------------
(* A render and its effects. *)

\* Mutant: what was asked before may still answer.
NoCleanUp(r) == r

\* The cleanup of an effect: what it asked for is ignored from now on.
CleanUp(r) == [r EXCEPT !.ignored = TRUE]

\* An initial load: the chart drops what it shows, the other two keep their data.
InitialLoad(p, panel) ==
  IF p = "chart" THEN Blank ELSE [panel EXCEPT !.state = "loading"]

\* The picker's effect empties the query when the dimension changes.
QueryAfter(asks, query) == asks.directory = Asked.directory /\ query

\* The page with another choice.  A panel that is gone takes its state and its
\* requests with it; the chart's state is the page's, and outlives a change of
\* view and an incomplete range.
Render(c, picks, query) ==
  LET new == Wanted(page, c, picks)
      changed == {p \in Panels : new[p] # Asked[p]}
      asking == {p \in changed : new[p] # Nothing}
      gone == {p \in Panels \ {"chart"} : new[p] = Nothing}
  IN /\ choice' = c
     /\ picked' = picks
     /\ typing' = QueryAfter(new, query)
     /\ panels' = [p \in Panels |->
          IF p \in gone THEN Blank
          ELSE IF p \in asking THEN InitialLoad(p, panels[p]) ELSE panels[p]]
     /\ requests' =
          {IF r.panel \in changed THEN CleanUp(r) ELSE r :
             r \in {q \in requests : q.panel \notin gone}}
          \cup {Request(p, new[p], TRUE) : p \in asking}
     /\ Cardinality(requests') <= MaxRequests
     /\ UNCHANGED <<page, sort>>

\* A page is opened: its panels are mounted and ask.
Open(pg, c) ==
  LET new == Wanted(pg, c, [d \in Dimensions |-> {}])
  IN /\ page' = pg
     /\ choice' = c
     /\ picked' = [d \in Dimensions |-> {}]
     /\ typing' = FALSE
     /\ sort' = [column |-> "name", direction |-> "asc"]
     /\ panels' = [p \in Panels |-> Blank]
     /\ requests' = {Request(p, new[p], TRUE) : p \in {q \in Panels : new[q] # Nothing}}

-----------------------------------------------------------------------------
(* What is on the screen. *)

\* The summary: what was loaded, also while a custom range is still incomplete.
SummaryShows ==
  IF panels["chart"].state = "ready" THEN "data" ELSE panels["chart"].state

\* The detail table, in its place a hint until the range is complete.
DetailShows ==
  IF ~IsRangeValid(choice) THEN "range pending"
  ELSE IF panels["detail"].state = "ready" THEN "data" ELSE panels["detail"].state

\* The page of an entity: out of scope as soon as one of its loads has failed.
EntityShows ==
  IF panels["directory"].state = "error" \/ panels["chart"].state = "error" THEN "error"
  ELSE IF ~IsRangeValid(choice) THEN "range pending"
  ELSE SummaryShows

\* The table of the shops, employees or products.
ListShows ==
  IF panels["directory"].state = "ready" THEN "data" ELSE panels["directory"].state

\* What each panel shows on the page that is open.
Shows ==
  [chart |-> IF page = "entity" THEN EntityShows ELSE SummaryShows,
   detail |-> DetailShows, directory |-> ListShows]

\* The entities the last directory that arrived has.
Items ==
  LET items == panels["directory"]
  IN IF items.data = Nothing THEN {} ELSE EntitiesOf[items.data.dimension]

\* The picker's tags: what is picked and in the directory.
Tags == picked[choice.dimension] \cap Items

\* Once something is typed, the entities that are not picked yet.
Suggestions == IF typing THEN Items \ picked[choice.dimension] ELSE {}

-----------------------------------------------------------------------------
(* The user. *)

OpenReports(role) ==
  /\ page = "none"
  /\ Open("reports", Start(role, FirstDimension(role), ""))

\* The list stays mounted when another kind of it is opened from the menu.
OpenList(kind) ==
  \/ page \in {"none", "entity"} /\ Open("list", Start("", kind, ""))
  \/ page = "list" /\ kind # choice.dimension /\ Render(Start("", kind, ""), picked, typing)

\* A row of the list, or a link to the entity.
OpenEntity(kind, id) ==
  /\ id \in EntitiesOf[kind]
  /\ \/ page = "list" /\ ListShows = "data" /\ kind = choice.dimension /\ id \in Items
     \/ page = "none"
  /\ Open("entity", Start("", kind, id))

Leave ==
  /\ page # "none"
  /\ Open("none", Away)

ChooseView(view) ==
  /\ page = "reports" /\ CanViewDetail(choice.role) /\ view # choice.view
  /\ Render([choice EXCEPT !.view = view], picked, typing)

ChooseDimension(d) ==
  /\ page = "reports" /\ d # choice.dimension
  /\ \E i \in 1..Len(RoleDimensions(choice.role)) : RoleDimensions(choice.role)[i] = d
  /\ Render([choice EXCEPT !.dimension = d], picked, typing)

ChooseTimeframe(timeframe) ==
  /\ page \in {"reports", "entity"} /\ timeframe # choice.timeframe
  /\ Render([choice EXCEPT !.timeframe = timeframe], picked, typing)

\* One of the two fields of the range, which are there when it is custom.
EditRange(field, date) ==
  /\ page \in {"reports", "entity"} /\ choice.timeframe = "custom"
  /\ date # choice[field]
  /\ Render([choice EXCEPT ![field] = date], picked, typing)

\* The picker's input, disabled while the directory loads.
Type ==
  /\ Asked.directory # Nothing /\ page = "reports"
  /\ panels["directory"].state # "loading"
  /\ typing' = ~typing
  /\ UNCHANGED <<page, choice, picked, sort, panels, requests>>

\* A suggestion is picked, and the query is emptied.
AddEntity(id) ==
  /\ Asked.directory # Nothing /\ page = "reports" /\ id \in Suggestions
  /\ Render(choice, [picked EXCEPT ![choice.dimension] = @ \cup {id}], FALSE)

RemoveEntity(id) ==
  /\ Asked.directory # Nothing /\ page = "reports" /\ id \in Tags
  /\ Render(choice, [picked EXCEPT ![choice.dimension] = @ \ {id}], typing)

ToggleSort(column) ==
  /\ page = "list" /\ ListShows = "data"
  /\ sort' = IF sort.column = column
             THEN [sort EXCEPT !.direction = IF @ = "asc" THEN "desc" ELSE "asc"]
             ELSE [column |-> column, direction |-> "asc"]
  /\ UNCHANGED <<page, choice, picked, typing, panels, requests>>

-----------------------------------------------------------------------------
(* The clock and the server. *)

\* Every 30 seconds the chart and the table ask again.
Poll(p) ==
  /\ p # "directory" /\ Asked[p] # Nothing
  /\ requests' = requests \cup {Request(p, Asked[p], FALSE)}
  /\ Cardinality(requests') <= MaxRequests
  /\ UNCHANGED <<page, choice, picked, typing, sort, panels>>

\* An answer, in any order: an ignored one changes nothing.
Answered(r) ==
  /\ r \in requests
  /\ requests' = requests \ {r}
  /\ panels' = IF r.ignored THEN panels
               ELSE [panels EXCEPT ![r.panel] = [state |-> "ready", data |-> r.ask]]
  /\ UNCHANGED <<page, choice, picked, typing, sort>>

\* A request that fails: an initial load shows the error in place of any data, a
\* poll keeps what there is.
Failed(r) ==
  /\ r \in requests
  /\ requests' = requests \ {r}
  /\ panels' = IF r.ignored \/ ~r.initial THEN panels
               ELSE [panels EXCEPT ![r.panel] = [Blank EXCEPT !.state = "error"]]
  /\ UNCHANGED <<page, choice, picked, typing, sort>>

Next ==
  \/ \E role \in Roles : OpenReports(role)
  \/ \E kind \in Dimensions \ {"businesses"} :
       OpenList(kind) \/ \E id \in Entities : OpenEntity(kind, id)
  \/ Leave
  \/ \E view \in {"summary", "detail"} : ChooseView(view)
  \/ \E d \in Dimensions : ChooseDimension(d)
  \/ \E t \in Timeframes \cup {"custom"} : ChooseTimeframe(t)
  \/ \E field \in {"start", "end"}, date \in Dates \cup {0} : EditRange(field, date)
  \/ Type
  \/ \E id \in Entities : AddEntity(id) \/ RemoveEntity(id)
  \/ \E column \in {"name", "description"} : ToggleSort(column)
  \/ \E p \in Panels : Poll(p)
  \/ \E r \in requests : Answered(r) \/ Failed(r)

Spec == Init /\ [][Next]_vars

-----------------------------------------------------------------------------

\* Every variable has values of its kind.
TypeOK ==
  LET Period_ == [timeframe : Timeframes \cup {"custom", ""}, startDate : Dates \cup {0},
                  endDate : Dates \cup {0}]
      Ask == [dimension : Dimensions \cup {""}, ids : SUBSET Entities, period : Period_]
  IN /\ page \in {"none", "reports", "list", "entity"}
     /\ choice \in [role : Roles \cup {""}, dimension : Dimensions \cup {""},
                    view : {"summary", "detail"}, entity : Entities \cup {""},
                    timeframe : Timeframes \cup {"custom"},
                    start : Dates \cup {0}, end : Dates \cup {0}]
     /\ picked \in [Dimensions -> SUBSET Entities]
     /\ typing \in BOOLEAN
     /\ sort \in [column : {"name", "description"}, direction : {"asc", "desc"}]
     /\ \A p \in Panels : /\ panels[p].state \in {"loading", "ready", "error"}
                          /\ panels[p].data \in Ask
     /\ \A r \in requests : r.panel \in Panels /\ r.ask \in Ask /\ {r.initial, r.ignored} \subseteq BOOLEAN

\* What a panel that asks shows as loaded answers the role's dimension, the period
\* and the entities chosen now, and a panel that says it is loading has that
\* question under way: neither a late answer to an earlier choice nor a poll that
\* outlives it gets in between.  No entity is picked under another's dimension.
ReportFollowsChoice ==
  /\ \A p \in Panels : Asked[p] # Nothing =>
       /\ Shows[p] = "data" => panels[p].data = Asked[p]
       /\ Shows[p] = "loading" =>
            \E r \in requests : r.panel = p /\ r.ask = Asked[p] /\ r.initial /\ ~r.ignored
  /\ \A d \in Dimensions : picked[d] \subseteq EntitiesOf[d]
=============================================================================
