--------------------------- MODULE WebPagesProofs ----------------------------
(*****************************************************************************)
(* That the reports show what was chosen last, for any roles, dimensions,    *)
(* entities and dates, and for any number of requests under way.  The property*)
(* alone says nothing of the answers that are still to come: the invariant is*)
(* that a request that is not ignored asks what its panel asks now, and that *)
(* the picker's query outlives no change of the directory.                   *)
(*                                                                           *)
(* And that every page keeps values it can have.  That the columns a file is *)
(* put behind are columns is shown as for the lines of a sale: by a smallest *)
(* set of places for which it would fail.                                    *)
(*****************************************************************************)
EXTENDS ShopPagesProofs, BusinessPagesProofs

\* Panels and requests are the records the page makes.
Shapes ==
  /\ panels = [p \in Reports!Panels |-> panels[p]]
  /\ \A p \in Reports!Panels :
       /\ panels[p] = [state |-> panels[p].state, data |-> panels[p].data]
       /\ panels[p].state \in {"loading", "ready", "error"}
       /\ panels[p].state = "error" => panels[p].data = Reports!Nothing
  /\ \A r \in requests :
       r = [panel |-> r.panel, ask |-> r.ask, initial |-> r.initial, ignored |-> r.ignored]
       /\ r.panel \in Reports!Panels

\* A panel that is loaded has the answer to what it asks, one that loads has asked.
PanelsAnswer ==
  \A p \in Reports!Panels : Reports!Asked[p] # Reports!Nothing =>
    /\ panels[p].state = "ready" => panels[p].data = Reports!Asked[p]
    /\ panels[p].state = "loading" =>
         \E r \in requests : r.panel = p /\ r.ask = Reports!Asked[p] /\ r.initial /\ ~r.ignored

\* What is not ignored asks what is chosen now.
RequestsAreCurrent ==
  \A r \in requests : ~r.ignored => r.ask = Reports!Asked[r.panel]

\* A query was typed into a picker whose directory is there, or has failed.
QueryIsCurrent ==
  typing => Reports!Asked["directory"] # Reports!Nothing /\ panels["directory"].state # "loading"

PicksInPlace ==
  /\ picked = [d \in Dimensions |-> picked[d]]
  /\ \A d \in Dimensions : picked[d] \subseteq EntitiesOf[d]

ReportsInv == Shapes /\ PanelsAnswer /\ RequestsAreCurrent /\ QueryIsCurrent /\ PicksInPlace

\* A mounted page asks for what it wants, and ignores nothing yet.
LEMMA OpenEstablishes ==
  ASSUME NEW pg, NEW c, Reports!Open(pg, c)
  PROVE  ReportsInv'
<1>. DEFINE new == Reports!Wanted(pg, c, [d \in Dimensions |-> {}])
<1>1. /\ panels' = [p \in Reports!Panels |-> Reports!Blank] /\ typing' = FALSE
      /\ requests' = {Reports!Request(p, new[p], TRUE) : p \in {q \in Reports!Panels : new[q] # Reports!Nothing}}
      /\ picked' = [d \in Dimensions |-> {}]
  BY DEF Reports!Open
<1>2. Reports!Asked' = new
  BY DEF Reports!Open, Reports!Asked
<1>. HIDE DEF new
<1>3. \A p \in Reports!Panels : panels'[p] = [state |-> "loading", data |-> Reports!Nothing]
  BY <1>1 DEF Reports!Blank
<1>4. \A r \in requests' : \E p \in Reports!Panels :
        r = [panel |-> p, ask |-> new[p], initial |-> TRUE, ignored |-> FALSE]
  BY <1>1 DEF Reports!Request
<1>5. Shapes'
  <2>1. panels' = [p \in Reports!Panels |-> panels'[p]]
    BY <1>1
  <2>. QED
    BY <2>1, <1>3, <1>4 DEF Shapes
<1>6. ASSUME NEW p \in Reports!Panels, new[p] # Reports!Nothing
      PROVE  \E r \in requests' : r.panel = p /\ r.ask = new[p] /\ r.initial /\ ~r.ignored
  <2>1. Reports!Request(p, new[p], TRUE) \in requests'
    BY <1>1, <1>6
  <2>. QED
    BY <2>1 DEF Reports!Request
<1>7. PanelsAnswer'
  BY <1>2, <1>3, <1>6 DEF PanelsAnswer
<1>8. RequestsAreCurrent'
  BY <1>2, <1>4 DEF RequestsAreCurrent
<1>9. QueryIsCurrent' /\ PicksInPlace'
  BY <1>1 DEF QueryIsCurrent, PicksInPlace
<1>. QED
  BY <1>5, <1>7, <1>8, <1>9 DEF ReportsInv

LEMMA ReportsInitInv == Reports!Init => ReportsInv
<1>. SUFFICES ASSUME Reports!Init
              PROVE  ReportsInv
  OBVIOUS
<1>1. \A p \in Reports!Panels : Reports!Asked[p] = Reports!Nothing
  BY DEF Reports!Init, Reports!Asked, Reports!Wanted, Reports!Panels
<1>2. Shapes
  BY DEF Reports!Init, Shapes, Reports!Blank
<1>. QED
  BY <1>1, <1>2 DEF Reports!Init, ReportsInv, PanelsAnswer, RequestsAreCurrent, QueryIsCurrent,
       PicksInPlace

\* A render cleans up after each panel whose question changes, and asks anew.
LEMMA ReportsRenderKeeps ==
  ASSUME ReportsInv, NEW c, NEW picks, NEW query, Reports!Render(c, picks, query), query => typing,
         picks = [d \in Dimensions |-> picks[d]],
         \A d \in Dimensions : picks[d] \subseteq EntitiesOf[d]
  PROVE  ReportsInv'
<1>. DEFINE new == Reports!Wanted(reports, c, picks)
            changed == {p \in Reports!Panels : new[p] # Reports!Asked[p]}
            asking == {p \in changed : new[p] # Reports!Nothing}
            gone == {p \in Reports!Panels \ {"chart"} : new[p] = Reports!Nothing}
            kept == {q \in requests : q.panel \notin gone}
<1>1. /\ panels' = [p \in Reports!Panels |->
            IF p \in gone THEN Reports!Blank
            ELSE IF p \in asking THEN Reports!InitialLoad(p, panels[p]) ELSE panels[p]]
      /\ requests' = {IF r.panel \in changed THEN Reports!CleanUp(r) ELSE r : r \in kept}
                     \cup {Reports!Request(p, new[p], TRUE) : p \in asking}
      /\ typing' = Reports!QueryAfter(new, query) /\ picked' = picks
  BY DEF Reports!Render
<1>2. Reports!Asked' = new
  BY DEF Reports!Render, Reports!Asked
<1>. HIDE DEF new
<1>3. ASSUME NEW p \in Reports!Panels
      PROVE  /\ Reports!InitialLoad(p, panels[p]).state = "loading"
             /\ Reports!InitialLoad(p, panels[p]) = [state |-> Reports!InitialLoad(p, panels[p]).state,
                                             data |-> Reports!InitialLoad(p, panels[p]).data]
  BY DEF Reports!InitialLoad, Reports!Blank, ReportsInv, Shapes
<1>4. ASSUME NEW p \in Reports!Panels
      PROVE  panels'[p] = [state |-> panels'[p].state, data |-> panels'[p].data]
             /\ panels'[p].state \in {"loading", "ready", "error"}
             /\ (panels'[p].state = "error" => panels'[p].data = Reports!Nothing)
  <2>1. CASE p \in gone
    BY <1>1, <2>1 DEF Reports!Blank
  <2>2. CASE p \notin gone /\ p \in asking
    <3>1. panels'[p] = Reports!InitialLoad(p, panels[p])
      BY <1>1, <2>2
    <3>. QED
      BY <3>1, <1>3
  <2>3. CASE p \notin gone /\ p \notin asking
    <3>1. panels'[p] = panels[p]
      BY <1>1, <2>3
    <3>. QED
      BY <3>1 DEF ReportsInv, Shapes
  <2>. QED
    BY <2>1, <2>2, <2>3
<1>5. ASSUME NEW r \in requests'
      PROVE  /\ r = [panel |-> r.panel, ask |-> r.ask, initial |-> r.initial, ignored |-> r.ignored]
             /\ r.panel \in Reports!Panels
             /\ (~r.ignored => r.ask = new[r.panel])
  <2>1. CASE \E q \in kept : r = IF q.panel \in changed THEN Reports!CleanUp(q) ELSE q
    <3>1. PICK q \in kept : r = IF q.panel \in changed THEN Reports!CleanUp(q) ELSE q
      BY <2>1
    <3>2. q \in requests /\ q.panel \in Reports!Panels
          /\ q = [panel |-> q.panel, ask |-> q.ask, initial |-> q.initial, ignored |-> q.ignored]
      BY DEF ReportsInv, Shapes
    <3>3. CASE q.panel \in changed
      <4>1. r = [q EXCEPT !.ignored = TRUE]
        BY <3>1, <3>3 DEF Reports!CleanUp
      <4>2. r = [panel |-> q.panel, ask |-> q.ask, initial |-> q.initial, ignored |-> TRUE]
        BY <4>1, <3>2
      <4>. QED
        BY <4>2, <3>2
    <3>4. CASE q.panel \notin changed
      <4>1. r = q /\ new[q.panel] = Reports!Asked[q.panel]
        BY <3>1, <3>2, <3>4
      <4>. QED
        BY <4>1, <3>2 DEF ReportsInv, RequestsAreCurrent
    <3>. QED
      BY <3>3, <3>4
  <2>2. CASE \E p \in asking : r = Reports!Request(p, new[p], TRUE)
    BY <2>2 DEF Reports!Request
  <2>. HIDE DEF kept, changed, asking
  <2>. QED
    BY <1>1, <2>1, <2>2
<1>6. Shapes'
  <2>1. panels' = [p \in Reports!Panels |-> panels'[p]]
    BY <1>1
  <2>. QED
    BY <2>1, <1>4, <1>5 DEF Shapes
<1>7. RequestsAreCurrent'
  BY <1>2, <1>5 DEF RequestsAreCurrent
<1>8. ASSUME NEW p \in Reports!Panels, new[p] # Reports!Nothing
      PROVE  /\ panels'[p].state = "ready" => panels'[p].data = new[p]
             /\ panels'[p].state = "loading" =>
                  \E r \in requests' : r.panel = p /\ r.ask = new[p] /\ r.initial /\ ~r.ignored
  <2>0. p \notin gone
    BY <1>8
  <2>1. CASE p \in asking
    <3>1. Reports!Request(p, new[p], TRUE) \in requests'
      BY <1>1, <2>1
    <3>2. panels'[p] = Reports!InitialLoad(p, panels[p])
      BY <1>1, <2>0, <2>1
    <3>. QED
      BY <3>1, <3>2, <1>3 DEF Reports!Request
  <2>2. CASE p \notin asking
    <3>1. panels'[p] = panels[p] /\ new[p] = Reports!Asked[p] /\ p \notin changed
      BY <1>1, <1>8, <2>0, <2>2
    <3>2. ASSUME NEW r \in requests, r.panel = p
          PROVE  r \in requests'
      <4>1. r \in kept /\ r.panel \notin changed
        BY <2>0, <3>1, <3>2
      <4>. HIDE DEF kept, changed, asking
      <4>. QED
        BY <1>1, <4>1
    <3>. QED
      BY <1>8, <3>1, <3>2 DEF ReportsInv, PanelsAnswer
  <2>. QED
    BY <2>1, <2>2
<1>9. PanelsAnswer'
  BY <1>2, <1>8 DEF PanelsAnswer
<1>10. QueryIsCurrent'
  <2>. SUFFICES ASSUME typing'
                PROVE  new["directory"] # Reports!Nothing /\ panels'["directory"].state # "loading"
    BY <1>2 DEF QueryIsCurrent
  <2>1. new["directory"] = Reports!Asked["directory"] /\ typing
    BY <1>1 DEF Reports!QueryAfter
  <2>2. new["directory"] # Reports!Nothing /\ panels["directory"].state # "loading"
    BY <2>1 DEF ReportsInv, QueryIsCurrent
  <2>3. "directory" \in Reports!Panels /\ "directory" \notin gone /\ "directory" \notin asking
    BY <2>1, <2>2 DEF Reports!Panels
  <2>. QED
    BY <1>1, <2>2, <2>3
<1>11. PicksInPlace'
  BY <1>1 DEF PicksInPlace
<1>. QED
  BY <1>6, <1>7, <1>9, <1>10, <1>11 DEF ReportsInv

\* What can be picked or is shown as picked is of the active dimension.
LEMMA SuggestionsAreOfTheDimension ==
  ASSUME ReportsInv, NEW id \in Reports!Suggestions
  PROVE  id \in EntitiesOf[choice.dimension]
<1>1. typing /\ id \in Reports!Items
  BY DEF Reports!Suggestions
<1>2. panels["directory"].data # Reports!Nothing /\ id \in EntitiesOf[panels["directory"].data.dimension]
  BY <1>1 DEF Reports!Items
<1>3. panels["directory"].state = "ready" /\ Reports!Asked["directory"] # Reports!Nothing
  BY <1>1, <1>2 DEF ReportsInv, QueryIsCurrent, Shapes, Reports!Panels
<1>4. panels["directory"].data = Reports!Asked["directory"]
  BY <1>3 DEF ReportsInv, PanelsAnswer, Reports!Panels
<1>5. Reports!Asked["directory"].dimension = choice.dimension
  BY <1>3 DEF Reports!Asked, Reports!Wanted, Reports!DirectoryQuery
<1>. QED
  BY <1>2, <1>4, <1>5

LEMMA ReportsUserKeeps ==
  ASSUME ReportsInv,
         \/ \E role \in Roles : Reports!OpenReports(role)
         \/ \E kind \in Dimensions \ {"businesses"} :
              Reports!OpenList(kind) \/ \E id \in Reports!Entities : Reports!OpenEntity(kind, id)
         \/ Reports!Leave
         \/ \E view \in {"summary", "detail"} : Reports!ChooseView(view)
         \/ \E d \in Dimensions : Reports!ChooseDimension(d)
         \/ \E t \in Timeframes \cup {"custom"} : Reports!ChooseTimeframe(t)
         \/ \E field \in {"start", "end"}, date \in Dates \cup {0} : Reports!EditRange(field, date)
         \/ \E id \in Reports!Entities : Reports!AddEntity(id) \/ Reports!RemoveEntity(id)
  PROVE  ReportsInv'
<1>1. PicksInPlace
  BY DEF ReportsInv
<1>2. CASE \E pg, c : Reports!Open(pg, c)
  BY <1>2, OpenEstablishes
<1>3. CASE \E c : Reports!Render(c, picked, typing)
  <2>1. PICK c : Reports!Render(c, picked, typing)
    BY <1>3
  <2>2. picked = [d \in Dimensions |-> picked[d]] /\ \A d \in Dimensions : picked[d] \subseteq EntitiesOf[d]
    BY <1>1 DEF PicksInPlace
  <2>. QED
    BY <2>1, <2>2, ReportsRenderKeeps
<1>4. CASE \E id \in Reports!Entities : Reports!AddEntity(id)
  <2>1. PICK id \in Reports!Entities : Reports!AddEntity(id)
    BY <1>4
  <2>. DEFINE new == [picked EXCEPT ![choice.dimension] = @ \cup {id}]
  <2>2. id \in Reports!Suggestions /\ Reports!Render(choice, new, FALSE)
    BY <2>1 DEF Reports!AddEntity
  <2>3. id \in EntitiesOf[choice.dimension]
    BY <2>2, SuggestionsAreOfTheDimension
  <2>4. new = [d \in Dimensions |-> new[d]] /\ \A d \in Dimensions : new[d] \subseteq EntitiesOf[d]
    BY <1>1, <2>3 DEF PicksInPlace
  <2>. HIDE DEF new
  <2>. QED
    BY <2>2, <2>4, ReportsRenderKeeps
<1>5. CASE \E id \in Reports!Entities : Reports!RemoveEntity(id)
  <2>1. PICK id \in Reports!Entities : Reports!RemoveEntity(id)
    BY <1>5
  <2>. DEFINE new == [picked EXCEPT ![choice.dimension] = @ \ {id}]
  <2>2. Reports!Render(choice, new, typing)
    BY <2>1 DEF Reports!RemoveEntity
  <2>3. new = [d \in Dimensions |-> new[d]] /\ \A d \in Dimensions : new[d] \subseteq EntitiesOf[d]
    BY <1>1 DEF PicksInPlace
  <2>. HIDE DEF new
  <2>. QED
    BY <2>2, <2>3, ReportsRenderKeeps
<1>6. CASE \E kind \in Dimensions : Reports!OpenList(kind)
  <2>1. (\E pg, c : Reports!Open(pg, c)) \/ (\E c : Reports!Render(c, picked, typing))
    BY <1>6 DEF Reports!OpenList
  <2>. QED
    BY <2>1, <1>2, <1>3
<1>7. CASE (\E role \in Roles : Reports!OpenReports(role)) \/ Reports!Leave
           \/ (\E kind \in Dimensions, id \in Reports!Entities : Reports!OpenEntity(kind, id))
  <2>1. \E pg, c : Reports!Open(pg, c)
    BY <1>7 DEF Reports!OpenReports, Reports!OpenEntity, Reports!Leave
  <2>. QED
    BY <2>1, <1>2
<1>8. CASE \/ \E view \in {"summary", "detail"} : Reports!ChooseView(view)
           \/ \E d \in Dimensions : Reports!ChooseDimension(d)
           \/ \E t \in Timeframes \cup {"custom"} : Reports!ChooseTimeframe(t)
           \/ \E field \in {"start", "end"}, date \in Dates \cup {0} : Reports!EditRange(field, date)
  <2>1. \E c : Reports!Render(c, picked, typing)
    BY <1>8 DEF Reports!ChooseView, Reports!ChooseDimension, Reports!ChooseTimeframe,
         Reports!EditRange
  <2>. QED
    BY <2>1, <1>3
<1>. QED
  BY <1>4, <1>5, <1>6, <1>7, <1>8

\* A poll asks what is asked now.
LEMMA ReportsPollKeeps ==
  ASSUME ReportsInv, NEW p \in Reports!Panels, Reports!Poll(p)
  PROVE  ReportsInv'
<1>. DEFINE new == [panel |-> p, ask |-> Reports!Asked[p], initial |-> FALSE, ignored |-> FALSE]
<1>1. requests' = requests \cup {new}
  BY DEF Reports!Poll, Reports!Request
<1>2. UNCHANGED <<picked, typing, panels>> /\ Reports!Asked' = Reports!Asked
  BY DEF Reports!Poll, Reports!Asked
<1>3. new = [panel |-> new.panel, ask |-> new.ask, initial |-> new.initial, ignored |-> new.ignored]
      /\ new.panel = p /\ new.ask = Reports!Asked[p]
  OBVIOUS
<1>. HIDE DEF new
<1>4. Shapes' /\ RequestsAreCurrent'
  BY <1>1, <1>2, <1>3 DEF ReportsInv, Shapes, RequestsAreCurrent
<1>5. PanelsAnswer'
  BY <1>1, <1>2 DEF ReportsInv, PanelsAnswer
<1>6. QueryIsCurrent' /\ PicksInPlace'
  BY <1>2 DEF ReportsInv, QueryIsCurrent, PicksInPlace
<1>. QED
  BY <1>4, <1>5, <1>6 DEF ReportsInv

\* The end of a request, with the panel it leaves: that of an answer or of an error,
\* or the same when it is ignored or was a poll.
LEMMA ReportsEndKeeps ==
  ASSUME ReportsInv, NEW r \in requests, Reports!Answered(r) \/ Reports!Failed(r)
  PROVE  ReportsInv'
<1>. DEFINE q == r.panel
            Settled(x) == \/ x = [state |-> "ready", data |-> r.ask]
                          \/ x = [state |-> "error", data |-> Reports!Nothing]
<1>1. requests' = requests \ {r} /\ UNCHANGED <<picked, typing>> /\ Reports!Asked' = Reports!Asked
  BY DEF Reports!Answered, Reports!Failed, Reports!Asked
<1>2. \/ panels' = panels /\ (r.ignored \/ ~r.initial)
      \/ ~r.ignored /\ \E x : Settled(x) /\ panels' = [panels EXCEPT ![q] = x]
  BY DEF Reports!Answered, Reports!Failed, Reports!Blank
<1>3. r.panel \in Reports!Panels /\ panels = [p \in Reports!Panels |-> panels[p]]
  BY DEF ReportsInv, Shapes
<1>4. CASE panels' = panels /\ (r.ignored \/ ~r.initial)
  <2>1. Shapes' /\ RequestsAreCurrent'
    BY <1>1, <1>4 DEF ReportsInv, Shapes, RequestsAreCurrent
  <2>2. PanelsAnswer'
    BY <1>1, <1>4 DEF ReportsInv, PanelsAnswer
  <2>. QED
    BY <1>1, <1>4, <2>1, <2>2 DEF ReportsInv, QueryIsCurrent, PicksInPlace
<1>5. CASE ~r.ignored /\ \E x : Settled(x) /\ panels' = [panels EXCEPT ![q] = x]
  <2>1. PICK x : Settled(x) /\ panels' = [panels EXCEPT ![q] = x]
    BY <1>5
  <2>2. /\ panels' = [p \in Reports!Panels |-> panels'[p]]
        /\ panels'[q] = x /\ \A p \in Reports!Panels \ {q} : panels'[p] = panels[p]
    BY <1>3, <2>1
  <2>3. /\ x = [state |-> x.state, data |-> x.data] /\ x.state \in {"ready", "error"}
        /\ (x.state = "error" => x.data = Reports!Nothing) /\ (x.state = "ready" => x.data = r.ask)
    BY <2>1
  <2>4. r.ask = Reports!Asked[q]
    BY <1>5 DEF ReportsInv, RequestsAreCurrent
  <2>. HIDE DEF q, Settled
  <2>5. Shapes' /\ RequestsAreCurrent'
    BY <1>1, <2>2, <2>3 DEF ReportsInv, Shapes, RequestsAreCurrent
  <2>6. PanelsAnswer'
    <3>. SUFFICES ASSUME NEW p \in Reports!Panels, Reports!Asked[p] # Reports!Nothing
                  PROVE  /\ panels'[p].state = "ready" => panels'[p].data = Reports!Asked[p]
                         /\ panels'[p].state = "loading" =>
                              \E s \in requests' : s.panel = p /\ s.ask = Reports!Asked[p] /\ s.initial /\ ~s.ignored
      BY <1>1 DEF PanelsAnswer
    <3>1. CASE p = q
      BY <3>1, <2>2, <2>3, <2>4
    <3>2. CASE p # q
      BY <3>2, <1>1, <2>2 DEF ReportsInv, PanelsAnswer, q
    <3>. QED
      BY <3>1, <3>2
  <2>7. QueryIsCurrent' /\ PicksInPlace'
    BY <1>1, <2>2, <2>3 DEF ReportsInv, QueryIsCurrent, PicksInPlace, Reports!Panels
  <2>. QED
    BY <2>5, <2>6, <2>7 DEF ReportsInv
<1>. QED
  BY <1>2, <1>4, <1>5

\* Typing needs a directory that is not loading; the order of the list is its own.
LEMMA ReportsControlKeeps ==
  ASSUME ReportsInv, Reports!Type \/ (\E column \in {"name", "description"} : Reports!ToggleSort(column)) \/ UNCHANGED reportVars
  PROVE  ReportsInv'
<1>1. UNCHANGED <<panels, requests, picked>> /\ Reports!Asked' = Reports!Asked
  BY DEF Reports!Type, Reports!ToggleSort, reportVars, Reports!Asked
<1>2. Shapes' /\ PanelsAnswer' /\ RequestsAreCurrent' /\ PicksInPlace'
  BY <1>1 DEF ReportsInv, Shapes, PanelsAnswer, RequestsAreCurrent, PicksInPlace
<1>3. QueryIsCurrent'
  BY <1>1 DEF ReportsInv, QueryIsCurrent, Reports!Type, Reports!ToggleSort, reportVars
<1>. QED
  BY <1>2, <1>3 DEF ReportsInv

LEMMA ReportsNextInv == ReportsInv /\ [Reports!Next]_reportVars => ReportsInv'
BY ReportsUserKeeps, ReportsPollKeeps, ReportsEndKeeps, ReportsControlKeeps DEF Reports!Next

\* What is on the screen is the state of its panel, or something else than data.
LEMMA ReportsInvFollows == ReportsInv => Reports!ReportFollowsChoice
<1>. SUFFICES ASSUME ReportsInv
              PROVE  Reports!ReportFollowsChoice
  OBVIOUS
<1>1. ASSUME NEW p \in Reports!Panels
      PROVE  /\ Reports!Shows[p] = "data" => panels[p].state = "ready"
             /\ Reports!Shows[p] = "loading" => panels[p].state = "loading"
  <2>1. \A s \in Reports!Panels : panels[s].state \in {"loading", "ready", "error"}
    BY DEF ReportsInv, Shapes
  <2>2. CASE p = "chart"
    <3>1. Reports!Shows[p] = (IF reports = "entity" THEN Reports!EntityShows ELSE Reports!SummaryShows)
      BY <2>2 DEF Reports!Shows
    <3>2. \/ Reports!Shows[p] \in {"error", "range pending"}
          \/ Reports!Shows[p] = IF panels[p].state = "ready" THEN "data" ELSE panels[p].state
      BY <2>2, <3>1 DEF Reports!EntityShows, Reports!SummaryShows
    <3>. QED
      BY <2>1, <3>2
  <2>3. CASE p = "detail"
    <3>1. \/ Reports!Shows[p] = "range pending"
          \/ Reports!Shows[p] = IF panels[p].state = "ready" THEN "data" ELSE panels[p].state
      BY <2>3 DEF Reports!Shows, Reports!DetailShows
    <3>. QED
      BY <2>1, <3>1
  <2>4. CASE p = "directory"
    <3>1. Reports!Shows[p] = IF panels[p].state = "ready" THEN "data" ELSE panels[p].state
      BY <2>4 DEF Reports!Shows, Reports!ListShows
    <3>. QED
      BY <2>1, <3>1
  <2>. QED
    BY <2>2, <2>3, <2>4 DEF Reports!Panels
<1>2. \A p \in Reports!Panels : Reports!Asked[p] # Reports!Nothing =>
        /\ Reports!Shows[p] = "data" => panels[p].data = Reports!Asked[p]
        /\ Reports!Shows[p] = "loading" =>
             \E r \in requests : r.panel = p /\ r.ask = Reports!Asked[p] /\ r.initial /\ ~r.ignored
  BY <1>1 DEF ReportsInv, PanelsAnswer
<1>. QED
  BY <1>2 DEF ReportsInv, PicksInPlace, Reports!ReportFollowsChoice

\* A step of another page leaves this one as it is.
LEMMA ReportsSteps == [Next]_vars => [Reports!Next]_reportVars
BY DEF Next, vars, SalePage, LedgerPage, ProductPage, TeamPages, BusinessPage, ReportsPages


\* What a report page shows answers what is chosen now, however late and in
\* whatever order the answers to earlier choices and polls arrive (the "active"
\* flags of ReportsPage, ReportDetailTable and EntityReportDetailPage).
THEOREM ReportsFollowTheChoice == Spec => []ReportFollowsChoice
<1>1. Init => ReportsInv
  BY ReportsInitInv DEF Init
<1>2. ReportsInv /\ [Next]_vars => ReportsInv'
  BY ReportsNextInv, ReportsSteps
<1>3. ReportsInv => ReportFollowsChoice
  BY ReportsInvFollows DEF ReportFollowsChoice
<1>. QED
  BY <1>1, <1>2, <1>3, PTL DEF Spec

-----------------------------------------------------------------------------
(* The columns of the grid. *)

\* The places of a sequence of n columns.
Places(n) == 1 .. n

\* The last of some places.
Greatest(s) == CHOOSE x \in s : \A y \in s : x >= y

\* What becomes of the columns kept so far at the column i.
Kept(cs, kept, i) == IF Table!Content(cs[i]) THEN Append(kept, cs[i]) ELSE kept

\* g keeps the columns with content of the subsets of D, the last one at the end.
IsKept(g, D, cs) ==
  g = [s \in SUBSET D |-> IF s = {} THEN <<>>
                          ELSE Kept(cs, g[s \ {Greatest(s)}], Greatest(s))]

\* A set of numbers that is bounded has a greatest one.
LEMMA GreatestIn ==
  ASSUME NEW n \in Nat, NEW s \in SUBSET (Places(n)), s # {}
  PROVE  Greatest(s) \in s
<1>. DEFINE R == {ss \in Nat \X Nat : ss[1] < ss[2]}
            T == {n - x : x \in s}
<1>1. IsWellFoundedOn(R, Nat)
  BY NatLessThanWellFounded DEF OpToRel
<1>2. T \subseteq Nat /\ T # {}
  <2>1. \A x \in s : n - x \in Nat
    BY DEF Places
  <2>. QED
    BY <2>1
<1>3. PICK m \in T : \A y \in T : ~(<<y, m>> \in R)
  <2>. HIDE DEF R, T
  <2>. QED
    BY <1>1, <1>2, WFMin
<1>4. PICK x \in s : m = n - x
  BY <1>3
<1>5. ASSUME NEW y \in s PROVE x >= y
  <2>1. n - y \in T /\ ~(<<n - y, m>> \in R) /\ n - y \in Nat /\ m \in Nat
    BY <1>2, <1>3 DEF Places
  <2>2. ~(n - y < m)
    BY <2>1
  <2>. QED
    BY <1>4, <2>1, <2>2 DEF Places
<1>. QED
  BY <1>5 DEF Greatest

\* The fold of the model is such a function.
LEMMA WithContentIsKept ==
  ASSUME NEW cs
  PROVE  Table!WithContent(cs) = (CHOOSE g : IsKept(g, DOMAIN cs, cs))[DOMAIN cs]
<1>. DEFINE D == DOMAIN cs
            F(g) == [s \in SUBSET D |-> IF s = {} THEN <<>>
                       ELSE IF Table!Content(cs[Table!Max(s)])
                            THEN Append(g[s \ {Table!Max(s)}], cs[Table!Max(s)])
                            ELSE g[s \ {Table!Max(s)}]]
<1>1. Table!WithContent(cs) = (CHOOSE g : g = F(g))[D]
  BY Zenon DEF Table!WithContent, Table!FoldLeft, Table!MapThenFoldSet
<1>2. ASSUME NEW g PROVE (g = F(g)) <=> IsKept(g, D, cs)
  BY Zenon DEF IsKept, Kept, Greatest, Table!Max
<1>3. (CHOOSE g : g = F(g)) = (CHOOSE g : IsKept(g, D, cs))
  <2>. HIDE DEF F, D
  <2>. QED
    BY <1>2, Zenon
<1>. QED
  BY <1>1, <1>3

\* There is at most one.
LEMMA KeptUnique ==
  ASSUME NEW n \in Nat, NEW D, D \subseteq Places(n), NEW E, E \subseteq D, NEW cs,
         NEW g, IsKept(g, D, cs), NEW h, IsKept(h, E, cs), NEW s, s \subseteq E
  PROVE  g[s] = h[s]
<1>. DEFINE T == {r \in SUBSET E : g[r] # h[r]}
<1>. SUFFICES ASSUME T # {} PROVE FALSE
  OBVIOUS
<1>2. PICK r \in T : \A q \in T : q \subseteq r => q = r
  <2>1. T \in SUBSET (SUBSET E)
    OBVIOUS
  <2>2. IsFiniteSet(E)
    <3>1. IsFiniteSet(Places(n)) /\ E \subseteq Places(n)
      BY FS_Interval DEF Places
    <3>. QED
      BY <3>1, FS_Subset
  <2>. HIDE DEF T
  <2>3. \E r \in T : \A q \in T : q \subseteq r => q = r
    BY <2>1, <2>2, MinimalSet
  <2>. QED
    BY <2>3
<1>3. g[r] = IF r = {} THEN <<>> ELSE Kept(cs, g[r \ {Greatest(r)}], Greatest(r))
  BY DEF IsKept
<1>4. h[r] = IF r = {} THEN <<>> ELSE Kept(cs, h[r \ {Greatest(r)}], Greatest(r))
  BY DEF IsKept
<1>5. CASE r = {}
  BY <1>3, <1>4, <1>5
<1>6. CASE r # {}
  <2>1. Greatest(r) \in r
    BY <1>6, GreatestIn
  <2>2. g[r \ {Greatest(r)}] = h[r \ {Greatest(r)}]
    BY <2>1, <1>2
  <2>. QED
    BY <1>3, <1>4, <1>6, <2>2
<1>. QED
  BY <1>5, <1>6

\* There is one.
LEMMA KeptExists ==
  ASSUME NEW n \in Nat, NEW cs
  PROVE  \E g : IsKept(g, Places(n), cs)
<1>. DEFINE D == Places(n)
            T == {r \in SUBSET D : ~\E g : IsKept(g, r, cs)}
<1>. SUFFICES ASSUME T # {} PROVE FALSE
  OBVIOUS
<1>2. PICK d \in T : \A q \in T : q \subseteq d => q = d
  <2>1. T \in SUBSET (SUBSET D) /\ IsFiniteSet(D)
    BY FS_Interval DEF Places
  <2>. HIDE DEF T, D
  <2>. QED
    BY <2>1, MinimalSet
<1>. DEFINE Rest(s) == s \ {Greatest(s)}
            H(e) == CHOOSE g : IsKept(g, e, cs)
            G == [s \in SUBSET d |-> IF s = {} THEN <<>>
                    ELSE Kept(cs, H(Rest(s))[Rest(s)], Greatest(s))]
<1>3. ASSUME NEW s \in SUBSET d, s # {}
      PROVE  IsKept(H(Rest(s)), Rest(s), cs)
  <2>1. Rest(s) \notin T /\ Rest(s) \in SUBSET D
    BY <1>2, <1>3, GreatestIn
  <2>. QED
    BY <2>1
<1>4. ASSUME NEW s \in SUBSET d, s # {}
      PROVE  G[Rest(s)] = H(Rest(s))[Rest(s)]
  <2>. DEFINE e == Rest(s)
  <2>1. IsKept(H(e), e, cs)
    BY <1>3, <1>4
  <2>2. H(e)[e] = IF e = {} THEN <<>> ELSE Kept(cs, H(e)[e \ {Greatest(e)}], Greatest(e))
    <3>. HIDE DEF H, e
    <3>. QED
      BY <2>1 DEF IsKept
  <2>3. e \in SUBSET d /\ e \in SUBSET (Places(n))
    BY <1>4
  <2>4. G[e] = IF e = {} THEN <<>> ELSE Kept(cs, H(Rest(e))[Rest(e)], Greatest(e))
    <3>. HIDE DEF H, e, Rest
    <3>. QED
      BY <2>3
  <2>. SUFFICES G[e] = H(e)[e]
    OBVIOUS
  <2>5. CASE e = {}
    <3>. HIDE DEF H, e, G, Rest
    <3>. QED
      BY <2>2, <2>4, <2>5
  <2>6. CASE e # {}
    <3>1. IsKept(H(Rest(e)), Rest(e), cs)
      BY <1>3, <2>3, <2>6
    <3>2. Rest(e) \in SUBSET e /\ Rest(e) \in SUBSET Rest(e)
      OBVIOUS
    <3>3. H(e)[Rest(e)] = H(Rest(e))[Rest(e)]
      <4>1. PICK x : x = e
        OBVIOUS
      <4>2. PICK q : q = Rest(e)
        OBVIOUS
      <4>3. PICK h : h = H(e)
        OBVIOUS
      <4>4. PICK hq : hq = H(Rest(e))
        OBVIOUS
      <4>. HIDE DEF H, e, G, Rest
      <4>5. x \subseteq Places(n) /\ q \subseteq x /\ IsKept(h, x, cs) /\ IsKept(hq, q, cs)
        BY <2>1, <2>3, <3>1, <3>2, <4>1, <4>2, <4>3, <4>4
      <4>6. h[q] = hq[q]
        BY ONLY n \in Nat, <4>5, KeptUnique
      <4>. QED
        BY <4>1, <4>2, <4>3, <4>4, <4>6
    <3>4. H(e)[e] = Kept(cs, H(e)[Rest(e)], Greatest(e))
      BY <2>2, <2>6
    <3>. HIDE DEF H, e, G, Rest
    <3>. QED
      BY <2>4, <2>6, <3>3, <3>4
  <2>. QED
    BY <2>5, <2>6
<1>5. G = [s \in SUBSET d |-> IF s = {} THEN <<>> ELSE Kept(cs, G[Rest(s)], Greatest(s))]
  <2>1. \A s \in SUBSET d : G[s] = IF s = {} THEN <<>> ELSE Kept(cs, G[Rest(s)], Greatest(s))
    <3>. HIDE DEF H, Rest
    <3>. QED
      BY <1>4
  <2>2. G = [s \in SUBSET d |-> G[s]]
    <3>. HIDE DEF H, Rest
    <3>. QED
      OBVIOUS
  <2>. HIDE DEF G, Rest
  <2>. QED
    BY <2>1, <2>2, Zenon
<1>6. IsKept(G, d, cs)
  <2>. HIDE DEF G
  <2>. QED
    BY <1>5 DEF IsKept
<1>. QED
  BY <1>6

\* What is kept are columns.
LEMMA WithContentType ==
  ASSUME NEW cs \in Seq(Table!Kinds)
  PROVE  Table!WithContent(cs) \in Seq(Table!Kinds)
<1>. DEFINE n == Len(cs)
            g == CHOOSE f : IsKept(f, Places(n), cs)
            T == {r \in SUBSET (Places(n)) : g[r] \notin Seq(Table!Kinds)}
<1>1. n \in Nat /\ DOMAIN cs = Places(n) /\ \A i \in Places(n) : cs[i] \in Table!Kinds
  BY DEF Places
<1>2. IsKept(g, Places(n), cs)
  <2>. HIDE DEF n
  <2>. QED
    BY <1>1, KeptExists
<1>3. Table!WithContent(cs) = g[Places(n)]
  BY <1>1, WithContentIsKept, Zenon
<1>. SUFFICES ASSUME T # {} PROVE FALSE
  <2>. HIDE DEF g, n
  <2>. QED
    BY <1>1, <1>3
<1>4. PICK r \in T : \A q \in T : q \subseteq r => q = r
  <2>1. T \in SUBSET (SUBSET (Places(n))) /\ IsFiniteSet(Places(n))
    BY <1>1, FS_Interval DEF Places
  <2>. HIDE DEF T, n
  <2>2. \E r \in T : \A q \in T : q \subseteq r => q = r
    BY <2>1, MinimalSet
  <2>. QED
    BY <2>2
<1>. HIDE DEF g, n
<1>5. r \in SUBSET (Places(n)) /\ g[r] \notin Seq(Table!Kinds)
  BY <1>4
<1>6. g[r] = IF r = {} THEN <<>> ELSE Kept(cs, g[r \ {Greatest(r)}], Greatest(r))
  BY <1>2, <1>5 DEF IsKept
<1>7. r # {}
  <2>1. <<>> \in Seq(Table!Kinds)
    OBVIOUS
  <2>. QED
    BY <1>5, <1>6, <2>1
<1>8. Greatest(r) \in r
  BY <1>1, <1>5, <1>7, GreatestIn
<1>9. g[r \ {Greatest(r)}] \in Seq(Table!Kinds)
  BY <1>4, <1>5, <1>8
<1>10. cs[Greatest(r)] \in Table!Kinds
  BY <1>1, <1>5, <1>8
<1>. QED
  BY <1>5, <1>6, <1>7, <1>9, <1>10 DEF Kept

-----------------------------------------------------------------------------
(* The values of the table. *)

\* The grid always ends with an empty column.
GoodColumns(cs) ==
  /\ cs \in Seq(Table!Kinds) /\ Len(cs) \in 1 .. MaxColumns
  /\ cs[Len(cs)] = "empty"

\* The product the table can show.
TableRows == {CHOOSE p \in Catalogue : TRUE}

\* What the table and the grid hold.
TableTypes ==
  /\ table \in {"closed", "reading", "editing", "adding"}
  /\ manage \in BOOLEAN /\ shop \in BOOLEAN /\ report \in BOOLEAN
  /\ rows \subseteq TableRows /\ drafts \in [TableRows -> {"", "loaded", "typed"}]
  /\ GoodColumns(columns)
  /\ csv = <<>> \/ csv \in [1 .. 2 -> Table!Fields]
  /\ saves \in 0 .. NewSaves /\ Len(saving) \in {0, 1}

\* That is what the model says of them.
LEMMA TableTypesFollow == TableTypes => Table!TypeOK
<1>. SUFFICES ASSUME TableTypes PROVE Table!TypeOK
  OBVIOUS
<1>1. \A i \in DOMAIN columns : columns[i] \in Table!Kinds
  <2>1. columns \in Seq(Table!Kinds)
    BY DEF TableTypes, GoodColumns
  <2>. QED
    BY <2>1
<1>2. Table!Last(columns) = "empty" /\ Len(columns) \in 1 .. MaxColumns
  BY DEF TableTypes, GoodColumns, Table!Last
<1>. QED
  BY <1>1, <1>2 DEF TableTypes, TableRows, Table!TypeOK

\* A grid is opened with one empty column.
LEMMA NewColumnsAreGood == ASSUME Grid PROVE GoodColumns(Table!NewColumns)
<1>. DEFINE cs == <<"empty">>
<1>1. cs \in Seq(Table!Kinds) /\ Len(cs) = 1 /\ cs[1] = "empty"
  BY DEF Table!Kinds
<1>2. Table!NewColumns = cs
  BY DEF Table!NewColumns
<1>. HIDE DEF cs
<1>. QED
  BY <1>1, <1>2 DEF GoodColumns, Grid

\* A closed table has such values.
LEMMA TableTypesInit == ASSUME Grid PROVE Table!Init => TableTypes
<1>. SUFFICES ASSUME Grid, Table!Init PROVE TableTypes
  OBVIOUS
<1>1. GoodColumns(columns)
  BY NewColumnsAreGood DEF Table!Init
<1>2. drafts \in [TableRows -> {"", "loaded", "typed"}]
  BY DEF Table!Init, Table!NoDrafts, TableRows
<1>3. saves \in 0 .. NewSaves
  BY DEF Table!Init, Grid
<1>4. Len(saving) \in {0, 1}
  BY DEF Table!Init
<1>. QED
  BY <1>1, <1>2, <1>3, <1>4 DEF Table!Init, TableTypes

\* A step that leaves the columns and the inputs alone.
LEMMA TableOpenTypes ==
  ASSUME Grid, TableTypes, Table!OpenAny \/ Table!Leave
  PROVE  TableTypes'
<1>1. drafts' \in [TableRows -> {"", "loaded", "typed"}]
  BY DEF Table!OpenAny, Table!Open, Table!Leave, Table!NoDrafts, TableRows
<1>2. GoodColumns(columns')
  BY NewColumnsAreGood DEF Table!OpenAny, Table!Open, Table!Leave
<1>3. rows' = {} /\ csv' = <<>> /\ saving' = <<>> /\ saves' = saves
  BY DEF Table!OpenAny, Table!Open, Table!Leave
<1>4. /\ table' \in {"closed", "reading"}
      /\ manage' \in BOOLEAN /\ shop' \in BOOLEAN /\ report' \in BOOLEAN
  BY DEF Table!OpenAny, Table!Open, Table!Leave
<1>. QED
  BY <1>1, <1>2, <1>3, <1>4 DEF TableTypes, GoodColumns

\* The report, and the rows with their drafts.
LEMMA TableRowTypes ==
  ASSUME TableTypes,
         \/ \E ps \in SUBSET TableRows : Table!ReportArrives(ps)
         \/ \E p \in TableRows : Table!EditRow(p)
  PROVE  TableTypes'
<1>1. rows' \subseteq TableRows /\ report' \in BOOLEAN
  BY DEF TableTypes, Table!ReportArrives, Table!EditRow
<1>2. drafts' \in [TableRows -> {"", "loaded", "typed"}]
  <2>1. ASSUME NEW ps \in SUBSET TableRows, Table!ReportArrives(ps)
        PROVE  drafts' \in [TableRows -> {"", "loaded", "typed"}]
    BY <2>1 DEF TableTypes, Table!ReportArrives, TableRows
  <2>2. ASSUME NEW p \in TableRows, Table!EditRow(p)
        PROVE  drafts' \in [TableRows -> {"", "loaded", "typed"}]
    BY <2>2 DEF TableTypes, Table!EditRow
  <2>. QED
    BY <2>1, <2>2
<1>3. UNCHANGED <<table, manage, shop, columns, csv, saving, saves>>
  BY DEF Table!ReportArrives, Table!EditRow
<1>. QED
  BY <1>1, <1>2, <1>3 DEF TableTypes, GoodColumns

\* The page, the request and the file.
LEMMA TableStateTypes ==
  ASSUME Grid, TableTypes,
         \/ Table!ReportFails \/ Table!StartEditing \/ Table!SaveEdits \/ Table!EditsSaved
         \/ Table!EditsRefused \/ Table!OpenAddProducts \/ Table!ChooseShop
         \/ Table!CancelAddProducts \/ Table!CancelImport \/ Table!SaveNew
         \/ (\E p \in outbox : Table!Push(p)) \/ UNCHANGED tableVars
  PROVE  TableTypes'
<1>1. UNCHANGED <<columns, drafts>> /\ csv' \in {csv, <<>>} /\ rows' \in {rows, {}}
  BY DEF Table!ReportFails, Table!StartEditing, Table!SaveEdits, Table!EditsSaved,
         Table!EditsRefused, Table!OpenAddProducts, Table!ChooseShop, Table!CancelAddProducts,
         Table!CancelImport, Table!SaveNew, Table!Push, tableVars
<1>2. /\ table' \in {table, "reading", "editing", "adding"}
      /\ manage' = manage /\ shop' \in BOOLEAN /\ report' \in BOOLEAN
  BY DEF TableTypes, Table!ReportFails, Table!StartEditing, Table!SaveEdits, Table!EditsSaved,
         Table!EditsRefused, Table!OpenAddProducts, Table!ChooseShop, Table!CancelAddProducts,
         Table!CancelImport, Table!SaveNew, Table!Push, tableVars
<1>3. saves' = saves \/ (saves < NewSaves /\ saves' = saves + 1)
  BY DEF Table!ReportFails, Table!StartEditing, Table!SaveEdits, Table!EditsSaved,
         Table!EditsRefused, Table!OpenAddProducts, Table!ChooseShop, Table!CancelAddProducts,
         Table!CancelImport, Table!SaveNew, Table!Push, tableVars
<1>4. saving' = saving \/ saving' = <<>> \/ \E r : saving' = <<r>>
  BY DEF Table!ReportFails, Table!StartEditing, Table!SaveEdits, Table!EditsSaved,
         Table!EditsRefused, Table!OpenAddProducts, Table!ChooseShop, Table!CancelAddProducts,
         Table!CancelImport, Table!SaveNew, Table!Push, tableVars
<1>5. Len(saving') \in {0, 1}
  <2>1. Len(<<>>) = 0 /\ \A r : Len(<<r>>) = 1
    OBVIOUS
  <2>. QED
    BY <1>4, <2>1 DEF TableTypes
<1>6. saves' \in 0 .. NewSaves
  <2>1. saves \in 0 .. NewSaves /\ NewSaves \in Nat
    BY DEF TableTypes, Grid
  <2>. QED
    BY <1>3, <2>1
<1>. QED
  BY <1>1, <1>2, <1>5, <1>6 DEF TableTypes, GoodColumns

\* The answer to the new products.
LEMMA TableAnswerTypes ==
  ASSUME Grid, TableTypes, Table!Answer
  PROVE  TableTypes'
<1>1. saving' = <<>> /\ UNCHANGED <<manage, shop, rows, drafts, csv, saves>>
  BY DEF Table!Answer, Table!CloudCreates, Table!CloudRefuses, Table!CloudFails, Table!QueueFails,
         Table!Added, Table!NotAdded
<1>2. columns' \in {columns, Table!NewColumns} /\ table' \in {table, "reading"} /\ report' \in {report, TRUE}
  BY DEF Table!Answer, Table!CloudCreates, Table!CloudRefuses, Table!CloudFails, Table!QueueFails,
         Table!Added, Table!NotAdded
<1>3. GoodColumns(columns')
  BY <1>2, NewColumnsAreGood DEF TableTypes
<1>. QED
  BY <1>1, <1>2, <1>3 DEF TableTypes, GoodColumns

\* Typing into a column: content in the last one adds an empty one.
LEMMA TableColumnTypes ==
  ASSUME Grid, TableTypes, NEW i \in DOMAIN columns, NEW k \in Table!Kinds, Table!TypeColumn(i, k)
  PROVE  TableTypes'
<1>1. PICK cs : cs = columns
  OBVIOUS
<1>2. cs \in Seq(Table!Kinds) /\ Len(cs) \in 1 .. MaxColumns /\ cs[Len(cs)] = "empty" /\ i \in 1 .. Len(cs)
  <2>1. GoodColumns(cs) /\ i \in DOMAIN cs
    BY <1>1 DEF TableTypes
  <2>2. cs \in Seq(Table!Kinds) /\ Len(cs) \in 1 .. MaxColumns /\ cs[Len(cs)] = "empty"
    BY <2>1 DEF GoodColumns
  <2>. QED
    BY <2>1, <2>2
<1>. DEFINE next == [cs EXCEPT ![i] = k]
<1>3. /\ next \in Seq(Table!Kinds) /\ Len(next) = Len(cs)
      /\ next[i] = k /\ \A j \in 1 .. Len(cs) : j # i => next[j] = cs[j]
  BY <1>2
<1>4. /\ columns' = IF i = Len(next) /\ Table!Content(k) THEN Append(next, "empty") ELSE next
      /\ Len(cs) < MaxColumns
  BY <1>1 DEF Table!TypeColumn
<1>5. "empty" \in Table!Kinds
  BY DEF Table!Kinds
<1>. HIDE DEF next
<1>6. GoodColumns(columns')
  <2>1. CASE i = Len(next) /\ Table!Content(k)
    <3>1. PICK more : more = Append(next, "empty")
      OBVIOUS
    <3>2. more \in Seq(Table!Kinds) /\ Len(more) = Len(cs) + 1 /\ more[Len(more)] = "empty"
      BY <1>3, <1>5, <3>1
    <3>3. Len(more) \in 1 .. MaxColumns
      BY <1>2, <1>4, <3>2 DEF Grid
    <3>. QED
      BY <1>4, <2>1, <3>1, <3>2, <3>3 DEF GoodColumns
  <2>2. CASE ~(i = Len(next) /\ Table!Content(k))
    <3>1. next[Len(next)] = "empty"
      BY <1>2, <1>3, <2>2 DEF Table!Content
    <3>. QED
      BY <1>2, <1>3, <1>4, <2>2, <3>1 DEF GoodColumns
  <2>. QED
    BY <2>1, <2>2
<1>7. UNCHANGED <<table, manage, shop, rows, report, drafts, csv, saving, saves>>
  BY DEF Table!TypeColumn
<1>. QED
  BY <1>6, <1>7 DEF TableTypes, GoodColumns

\* The file and its columns.
LEMMA TableImportTypes ==
  ASSUME Grid, TableTypes, Table!Import
  PROVE  TableTypes'
<1>1. UNCHANGED <<table, manage, shop, rows, report, drafts, saving, saves>>
  BY DEF Table!Import, Table!ReadFile, Table!AssignColumn, Table!CancelImport, Table!ConfirmImport
<1>. SUFFICES GoodColumns(columns') /\ (csv' = <<>> \/ csv' \in [1 .. 2 -> Table!Fields])
  BY <1>1 DEF TableTypes
<1>3. ASSUME NEW f \in Table!Fields, NEW g \in Table!Fields, Table!ReadFile(<<f, g>>)
      PROVE  columns' = columns /\ csv' \in [1 .. 2 -> Table!Fields]
  <2>1. <<f, g>> \in [1 .. 2 -> Table!Fields]
    OBVIOUS
  <2>2. PICK file : file = <<f, g>>
    OBVIOUS
  <2>3. Table!ReadFile(file)
    BY <1>3, <2>2
  <2>. QED
    BY <2>1, <2>2, <2>3 DEF Table!ReadFile
<1>4. ASSUME NEW c \in {1, 2}, NEW f \in Table!Fields, Table!AssignColumn(c, f)
      PROVE  columns' = columns /\ csv' \in [1 .. 2 -> Table!Fields]
  BY <1>4 DEF Table!AssignColumn, TableTypes
<1>5. ASSUME Table!CancelImport PROVE columns' = columns /\ csv' = <<>>
  BY <1>5 DEF Table!CancelImport
<1>6. ASSUME NEW n \in 0 .. 2, NEW records \in [1 .. n -> Table!Kinds \ {"empty"}],
             Table!ConfirmImport(records)
      PROVE  GoodColumns(columns') /\ csv' = <<>>
  <2>1. CASE records = <<>>
    BY <1>6, <2>1 DEF Table!ConfirmImport, TableTypes
  <2>2. CASE records # <<>>
    <3>1. PICK kept : kept = Table!WithContent(columns)
      OBVIOUS
    <3>2. kept \in Seq(Table!Kinds) /\ records \in Seq(Table!Kinds)
      <4>1. columns \in Seq(Table!Kinds)
        BY DEF TableTypes, GoodColumns
      <4>2. kept \in Seq(Table!Kinds)
        BY <3>1, <4>1, WithContentType
      <4>. QED
        BY <4>2
    <3>3. PICK one : one = <<"empty">> /\ one \in Seq(Table!Kinds) /\ Len(one) = 1 /\ one[1] = "empty"
      <4>1. <<"empty">> \in Seq(Table!Kinds)
        BY DEF Table!Kinds
      <4>2. Len(<<"empty">>) = 1 /\ <<"empty">>[1] = "empty"
        OBVIOUS
      <4>. QED
        BY <4>1, <4>2
    <3>4. PICK cs : cs = kept \o records
      OBVIOUS
    <3>5. cs \in Seq(Table!Kinds)
      BY <3>2, <3>4
    <3>6. columns' = cs \o one /\ Len(columns') <= MaxColumns
      BY <1>6, <2>2, <3>1, <3>3, <3>4 DEF Table!ConfirmImport, Table!NewColumns
    <3>7. PICK all : all = cs \o one
      OBVIOUS
    <3>8. all \in Seq(Table!Kinds) /\ Len(all) = Len(cs) + 1 /\ all[Len(all)] = "empty"
      BY <3>3, <3>5, <3>7
    <3>9. Len(all) \in 1 .. MaxColumns
      BY <3>5, <3>6, <3>7, <3>8 DEF Grid
    <3>. QED
      BY <1>6, <3>6, <3>7, <3>8, <3>9 DEF Table!ConfirmImport, GoodColumns
  <2>. QED
    BY <2>1, <2>2
<1>. QED
  BY <1>3, <1>4, <1>5, <1>6 DEF Table!Import, TableTypes

\* Every step keeps them.
LEMMA TableTypesNext == ASSUME Grid PROVE TableTypes /\ [Table!Next]_tableVars => TableTypes'
<1>. SUFFICES ASSUME Grid, TableTypes, [Table!Next]_tableVars PROVE TableTypes'
  OBVIOUS
<1>1. CASE Table!OpenAny \/ Table!Leave
  BY <1>1, TableOpenTypes
<1>2. CASE (\E ps \in SUBSET TableRows : Table!ReportArrives(ps)) \/ \E p \in TableRows : Table!EditRow(p)
  BY <1>2, TableRowTypes
<1>3. CASE \/ Table!ReportFails \/ Table!StartEditing \/ Table!SaveEdits \/ Table!EditsSaved
           \/ Table!EditsRefused \/ Table!OpenAddProducts \/ Table!ChooseShop
           \/ Table!CancelAddProducts \/ Table!CancelImport \/ Table!SaveNew
           \/ (\E p \in outbox : Table!Push(p)) \/ UNCHANGED tableVars
  BY <1>3, TableStateTypes
<1>4. CASE Table!Answer
  BY <1>4, TableAnswerTypes
<1>5. CASE Table!ColumnEdits
  BY <1>5, TableColumnTypes DEF Table!ColumnEdits
<1>6. CASE Table!Import
  BY <1>6, TableImportTypes
<1>. QED
  BY <1>1, <1>2, <1>3, <1>4, <1>5, <1>6 DEF Table!Next, Table!Step, Table!RowEdits, TableRows

-----------------------------------------------------------------------------
(* The values of the team's pages. *)

\* The review of a file of invitations: how many are left, and how many were made.
Reviews == [state : {"none", "review", "sending"}, left : 0 .. MaxDrafts, made : Nat]

\* The variables of which TeamInv says nothing.
TeamTypes ==
  /\ team \in {"closed", "team", "invitation"} /\ touched \in BOOLEAN
  /\ changes \in 0 .. MemberSaves /\ invites \in Reviews
  /\ invited \in {"none", "loading", "ready", "accepting", "accepted", "error"}

\* With the invariant of the roles they are what the model says.
LEMMA TeamTypesFollow == TeamInv /\ TeamTypes => Team!TypeOK
<1>. SUFFICES ASSUME TeamInv, TeamTypes PROVE Team!TypeOK
  OBVIOUS
<1>1. members \in [Members -> Team!Accounts] /\ (known = <<>> \/ known[1] \in [Members -> Team!Accounts])
  <2>1. \A w \in Workspaces : w \in [Members -> Team!Accounts] /\ <<w>>[1] = w
    BY DEF Workspaces
  <2>2. members \in Workspaces /\ (known = <<>> \/ \E w \in Workspaces : known = <<w>>)
    BY DEF TeamInv, PageInPlace
  <2>. QED
    BY <2>1, <2>2
<1>2. editor.inputs.screens \subseteq Screens /\ member \in Members \cup {""}
  BY DEF TeamInv, PageInPlace, Editors
<1>3. invites.state \in {"none", "review", "sending"} /\ invites.left \in 0 .. MaxDrafts
  BY DEF TeamTypes, Reviews
<1>. QED
  BY <1>1, <1>2, <1>3 DEF TeamTypes, Team!TypeOK

\* A closed page has such values.
LEMMA TeamTypesInit == ASSUME Quota PROVE Team!Init => TeamTypes
<1>1. Team!NoCsv \in Reviews
  BY DEF Team!NoCsv, Reviews, Quota
<1>2. 0 \in 0 .. MemberSaves
  BY DEF Quota
<1>. QED
  BY <1>1, <1>2 DEF Team!Init, TeamTypes

\* The invitations of a file.
LEMMA TeamFileTypes ==
  ASSUME Quota, TeamTypes,
         \/ \E n \in 1 .. MaxDrafts : Team!ReviewCsv(n) \/ Team!SendCsv(n)
         \/ Team!CancelCsv \/ Team!CsvDone \/ \E made \in BOOLEAN : Team!CsvInvite(made)
  PROVE  TeamTypes'
<1>1. UNCHANGED <<team, changes, invited>> /\ touched' \in {touched, FALSE}
  BY DEF Team!ReviewCsv, Team!SendCsv, Team!CancelCsv, Team!CsvDone, Team!CsvInvite, Team!Show
<1>2. Team!NoCsv \in Reviews
  BY DEF Team!NoCsv, Reviews, Quota
<1>3. ASSUME NEW n \in 1 .. MaxDrafts, Team!ReviewCsv(n) \/ Team!SendCsv(n)
      PROVE  invites' \in Reviews
  <2>1. invites' \in {[state |-> "review", left |-> n, made |-> 0], [state |-> "sending", left |-> n, made |-> 0]}
    BY <1>3 DEF Team!ReviewCsv, Team!SendCsv, Team!NoCsv
  <2>. QED
    BY <2>1 DEF Reviews, Quota
<1>4. ASSUME NEW made \in BOOLEAN, Team!CsvInvite(made)
      PROVE  invites' \in Reviews
  <2>1. PICK i \in Reviews : i = invites
    BY DEF TeamTypes
  <2>2. invites' = [i EXCEPT !.left = i.left - 1, !.made = IF made THEN i.made + 1 ELSE i.made] /\ i.left > 0
    BY <1>4, <2>1 DEF Team!CsvInvite
  <2>3. i.left - 1 \in 0 .. MaxDrafts /\ (IF made THEN i.made + 1 ELSE i.made) \in Nat
    BY <2>2 DEF Reviews, Quota
  <2>. QED
    BY <2>2, <2>3 DEF Reviews
<1>5. ASSUME Team!CancelCsv \/ Team!CsvDone PROVE invites' \in Reviews
  BY <1>2, <1>5 DEF Team!CancelCsv, Team!CsvDone
<1>. QED
  BY <1>1, <1>3, <1>4, <1>5 DEF TeamTypes

\* The page is opened or left, here and on the page of an invitation.
LEMMA TeamPageTypes ==
  ASSUME Quota, TeamTypes,
         \/ Team!OpenAny \/ Team!Leave \/ Team!DetailsArrive \/ Team!Accepted
         \/ \E token \in BOOLEAN : Team!Accept(token)
  PROVE  TeamTypes'
<1>1. Team!NoCsv \in Reviews
  BY DEF Team!NoCsv, Reviews, Quota
<1>2. /\ team' \in {team, "closed", "team", "invitation"} /\ touched' \in {touched, FALSE}
      /\ changes' = changes /\ invites' \in {invites, Team!NoCsv}
      /\ invited' \in {invited, "none", "loading", "ready", "accepting", "accepted", "error"}
  BY DEF Team!OpenAny, Team!OpenTeam, Team!OpenInvitation, Team!Leave, Team!DetailsArrive, Team!Accepted,
         Team!Accept, Team!Invitation
<1>. QED
  BY <1>1, <1>2 DEF TeamTypes

\* The rest of the page: edits and requests.
LEMMA TeamEditTypes ==
  ASSUME Quota, TeamTypes,
         \/ Team!Loaded \/ Team!LoadFails \/ Team!Edits
         \/ Team!SaveEmployee \/ Team!RemoveEmployee \/ Team!Saved \/ Team!Removed \/ Team!Refused
         \/ Team!Invite \/ UNCHANGED teamVars
  PROVE  TeamTypes'
<1>1. UNCHANGED <<team, invites, invited>>
  BY DEF Team!Loaded, Team!LoadFails, Team!Edits, Team!Edited, Team!Select, Team!ChooseRole, Team!ChooseBase,
         Team!ToggleScreen, Team!ChooseScope, Team!SaveEmployee, Team!RemoveEmployee, Team!Send,
         Team!Saved, Team!Removed, Team!Refused, Team!Invite, teamVars
<1>2. touched' \in {touched, TRUE, FALSE}
  BY DEF Team!Loaded, Team!LoadFails, Team!Show, Team!Edits, Team!Select, Team!ChooseRole, Team!ChooseBase,
         Team!ToggleScreen, Team!ChooseScope, Team!SaveEmployee, Team!RemoveEmployee, Team!Send,
         Team!Saved, Team!Removed, Team!Refused, Team!Invite, teamVars
<1>3. changes' = changes \/ (changes < MemberSaves /\ changes' = changes + 1)
  BY DEF Team!Loaded, Team!LoadFails, Team!Edits, Team!Edited, Team!Select, Team!ChooseRole, Team!ChooseBase,
         Team!ToggleScreen, Team!ChooseScope, Team!SaveEmployee, Team!RemoveEmployee, Team!Send,
         Team!Saved, Team!Removed, Team!Refused, Team!Invite, teamVars
<1>4. changes' \in 0 .. MemberSaves
  <2>1. changes \in 0 .. MemberSaves /\ MemberSaves \in Nat
    BY DEF TeamTypes, Quota
  <2>. QED
    BY <1>3, <2>1
<1>. QED
  BY <1>1, <1>2, <1>4 DEF TeamTypes

\* Every step keeps them.
LEMMA TeamTypesNext == ASSUME Quota PROVE TeamTypes /\ [Team!Next]_teamVars => TeamTypes'
BY TeamFileTypes, TeamPageTypes, TeamEditTypes DEF Team!Next, Team!Step

-----------------------------------------------------------------------------
(* The values of the form and of the tree. *)

\* The invariant of the sale form has its types.
LEMMA SaleTypesFollow == ASSUME Shop PROVE SaleInv => Sale!TypeOK
<1>. SUFFICES ASSUME SaleInv PROVE Sale!TypeOK
  OBVIOUS
<1>1. fields \in Forms /\ Len(fields.lines) \in 1 .. MaxLines
  BY DEF SaleInv, GoodForm
<1>2. \A i \in DOMAIN fields.lines : fields.lines[i] \in Sale!Lines
  <2>1. PICK ls \in Seq(Sale!Lines) : ls = fields.lines
    BY <1>1 DEF Forms
  <2>2. \A i \in DOMAIN ls : ls[i] \in Sale!Lines
    OBVIOUS
  <2>. QED
    BY <2>1, <2>2
<1>. QED
  BY <1>1, <1>2 DEF SaleInv, Forms, Totals, Sale!TypeOK

\* The invariant of the tree has its types.
LEMMA TreeTypesFollow == TreeInv /\ TreeNews => Tree!TypeOK
<1>. SUFFICES ASSUME TreeInv, TreeNews PROVE Tree!TypeOK
  OBVIOUS
<1>1. \A got \in {cache, server, shared, news.own} \cup {loads[s].got : s \in Slots} : got \in Content
  BY DEF TreeInv, TreeTypes, TreeLoads, TreeNews
<1>2. list.businesses \in Seq(Tree!BusinessIds) /\ list.units \in Seq(Tree!UnitRecords)
  BY DEF TreeInv, TreeTypes, TreeLists
<1>3. Tree!Range(list.businesses) \subseteq Tree!BusinessIds /\ Tree!Range(list.units) \subseteq Tree!UnitRecords
  BY <1>2 DEF Tree!Range
<1>4. \A got \in {cache, server, shared, news.own} \cup {loads[s].got : s \in Slots} :
        got.businesses \subseteq Tree!BusinessIds /\ got.units \subseteq Tree!UnitRecords
  BY <1>1 DEF Content
<1>. QED
  BY <1>3, <1>4 DEF TreeInv, TreeTypes, Tree!TypeOK

-----------------------------------------------------------------------------
(* The values of the reports. *)

\* What is chosen on a page of reports.
Choices == [role : Roles \cup {""}, dimension : Dimensions \cup {""},
            view : {"summary", "detail"}, entity : Reports!Entities \cup {""},
            timeframe : Timeframes \cup {"custom"},
            start : Dates \cup {0}, end : Dates \cup {0}]

\* The periods that are asked for.
Periods == [timeframe : Timeframes \cup {"custom", ""}, startDate : Dates \cup {0},
            endDate : Dates \cup {0}]

\* The questions of a panel.
Asks == [dimension : Dimensions \cup {""}, ids : SUBSET Reports!Entities, period : Periods]

\* The tab of a page that has tabs.
OnATab(pg, c) == pg = "reports" => c.dimension \in Dimensions

\* The variables of which ReportsInv does not say what they hold.
ReportTypes ==
  /\ reports \in {"none", "reports", "list", "entity"}
  /\ choice \in Choices /\ OnATab(reports, choice)
  /\ picked \in [Dimensions -> SUBSET Reports!Entities] /\ typing \in BOOLEAN
  /\ sort \in [column : {"name", "description"}, direction : {"asc", "desc"}]
  /\ \A p \in Reports!Panels : panels[p].data \in Asks
  /\ \A r \in requests : r.ask \in Asks /\ r.initial \in BOOLEAN /\ r.ignored \in BOOLEAN

\* With the invariant of the panels they are what the model says.
LEMMA ReportTypesFollow == ReportsInv /\ ReportTypes => Reports!TypeOK
BY DEF ReportsInv, Shapes, ReportTypes, Choices, Asks, Periods, Reports!TypeOK

\* A page asks of entities of the member, in a period.
LEMMA WantedTypes ==
  ASSUME NEW pg, NEW c \in Choices, OnATab(pg, c),
         NEW picks \in [Dimensions -> SUBSET Reports!Entities], NEW p \in Reports!Panels
  PROVE  Reports!Wanted(pg, c, picks)[p] \in Asks /\ Reports!Nothing \in Asks
<1>1. Reports!Nothing \in Asks
  BY DEF Reports!Nothing, Reports!NoPeriod, Asks, Periods
<1>2. Reports!Period(c) \in Periods
  BY DEF Reports!Period, Periods, Choices
<1>3. Reports!ReportQuery(c) \in Asks
  BY <1>2 DEF Reports!ReportQuery, Asks, Choices
<1>4. pg = "reports" => Reports!DetailQuery(c, picks) \in Asks
  BY <1>2 DEF Reports!DetailQuery, Asks, Choices, OnATab
<1>5. Reports!DirectoryQuery(c) \in Asks
  BY DEF Reports!DirectoryQuery, Reports!NoPeriod, Asks, Periods, Choices
<1>6. CASE p = "chart"
  BY <1>1, <1>3, <1>6 DEF Reports!Wanted
<1>7. CASE p = "detail"
  BY <1>1, <1>4, <1>7 DEF Reports!Wanted
<1>8. CASE p = "directory"
  BY <1>1, <1>5, <1>8 DEF Reports!Wanted
<1>. QED
  BY <1>1, <1>6, <1>7, <1>8 DEF Reports!Panels

\* A page starts with the summary by day.
LEMMA StartTypes ==
  ASSUME Reported, NEW role \in Roles \cup {""}, NEW d \in Dimensions \cup {""},
         NEW e \in Reports!Entities \cup {""}
  PROVE  Reports!Start(role, d, e) \in Choices /\ Reports!Start(role, d, e).dimension = d
BY DEF Reported, Reports!Start, Choices

\* The page of a role has a first tab.
LEMMA FirstDimensionIsOne ==
  ASSUME Reported, NEW role
  PROVE  Reports!FirstDimension(role) \in Dimensions
<1>1. PICK tabs : tabs = Reports!RoleDimensions(role)
  OBVIOUS
<1>2. \E n \in 2 .. 4 : DOMAIN tabs = 1 .. n /\ tabs[n] = "products"
  <2>1. \/ tabs = <<"businesses", "shops", "employees", "products">>
        \/ tabs = <<"shops", "employees", "products">>
        \/ tabs = <<"employees", "products">>
    BY <1>1 DEF Reports!RoleDimensions
  <2>2. CASE tabs = <<"businesses", "shops", "employees", "products">>
    <3>1. DOMAIN tabs = 1 .. 4 /\ tabs[4] = "products"
      BY <2>2
    <3>. QED
      BY <3>1
  <2>3. CASE tabs = <<"shops", "employees", "products">>
    <3>1. DOMAIN tabs = 1 .. 3 /\ tabs[3] = "products"
      BY <2>3
    <3>. QED
      BY <3>1
  <2>4. CASE tabs = <<"employees", "products">>
    <3>1. DOMAIN tabs = 1 .. 2 /\ tabs[2] = "products"
      BY <2>4
    <3>. QED
      BY <3>1
  <2>. QED
    BY <2>1, <2>2, <2>3, <2>4
<1>3. PICK n \in 2 .. 4 : DOMAIN tabs = 1 .. n /\ tabs[n] \in Dimensions
  BY <1>2 DEF Reported
<1>. DEFINE First(i) == tabs[i] \in Dimensions /\ \A j \in 1 .. i - 1 : tabs[j] \notin Dimensions
<1>4. \E i \in DOMAIN tabs : First(i)
  <2>1. CASE tabs[1] \in Dimensions
    <3>1. First(1) /\ 1 \in 1 .. n
      BY <2>1
    <3>. QED
      BY <1>3, <3>1
  <2>2. CASE tabs[1] \notin Dimensions /\ tabs[2] \in Dimensions
    <3>1. First(2) /\ 2 \in 1 .. n
      BY <2>2
    <3>. QED
      BY <1>3, <3>1
  <2>3. CASE tabs[1] \notin Dimensions /\ tabs[2] \notin Dimensions /\ tabs[3] \in Dimensions
    <3>1. First(3) /\ 3 \in 1 .. n
      BY <1>3, <2>3
    <3>. QED
      BY <1>3, <3>1
  <2>4. CASE tabs[1] \notin Dimensions /\ tabs[2] \notin Dimensions /\ tabs[3] \notin Dimensions
    <3>1. First(4) /\ 4 \in 1 .. n
      BY <1>3, <2>4
    <3>. QED
      BY <1>3, <3>1
  <2>. QED
    BY <2>1, <2>2, <2>3, <2>4
<1>5. Reports!FirstDimension(role) = tabs[CHOOSE i \in DOMAIN tabs : First(i)]
  BY <1>1 DEF Reports!FirstDimension
<1>. QED
  BY <1>4, <1>5

\* An opened page has such values.
LEMMA OpenTypes ==
  ASSUME NEW pg \in {"none", "reports", "list", "entity"}, NEW c \in Choices, OnATab(pg, c),
         Reports!Open(pg, c)
  PROVE  ReportTypes'
<1>. DEFINE none == [d \in Dimensions |-> {}]
            new == Reports!Wanted(pg, c, none)
<1>1. none \in [Dimensions -> SUBSET Reports!Entities]
  OBVIOUS
<1>2. \A p \in Reports!Panels : new[p] \in Asks /\ Reports!Nothing \in Asks
  BY <1>1, WantedTypes
<1>3. /\ panels' = [p \in Reports!Panels |-> Reports!Blank]
      /\ requests' = {Reports!Request(p, new[p], TRUE) : p \in {q \in Reports!Panels : new[q] # Reports!Nothing}}
      /\ picked' = none
  BY DEF Reports!Open
<1>4. /\ reports' = pg /\ choice' = c /\ typing' = FALSE
      /\ sort' = [column |-> "name", direction |-> "asc"]
  BY DEF Reports!Open
<1>. HIDE DEF new, none
<1>5. \A p \in Reports!Panels : panels'[p].data \in Asks
  BY <1>2, <1>3 DEF Reports!Blank
<1>6. ASSUME NEW r \in requests' PROVE r.ask \in Asks /\ r.initial \in BOOLEAN /\ r.ignored \in BOOLEAN
  <2>1. PICK p \in Reports!Panels : r = Reports!Request(p, new[p], TRUE)
    BY <1>3
  <2>2. r.ask = new[p] /\ r.initial = TRUE /\ r.ignored = FALSE
    BY <2>1 DEF Reports!Request
  <2>. QED
    BY <1>2, <2>2
<1>7. OnATab(reports', choice')
  BY <1>4
<1>. QED
  BY <1>1, <1>3, <1>4, <1>5, <1>6, <1>7 DEF ReportTypes, OnATab

\* So has one that is rendered with another choice or other picks.
LEMMA RenderTypes ==
  ASSUME ReportsInv, ReportTypes, NEW c \in Choices, OnATab(reports, c),
         NEW picks \in [Dimensions -> SUBSET Reports!Entities], NEW query \in BOOLEAN,
         Reports!Render(c, picks, query)
  PROVE  ReportTypes'
<1>. DEFINE new == Reports!Wanted(reports, c, picks)
            changed == {p \in Reports!Panels : new[p] # Reports!Asked[p]}
            asking == {p \in changed : new[p] # Reports!Nothing}
            gone == {p \in Reports!Panels \ {"chart"} : new[p] = Reports!Nothing}
            kept == {q \in requests : q.panel \notin gone}
<1>1. /\ panels' = [p \in Reports!Panels |->
            IF p \in gone THEN Reports!Blank
            ELSE IF p \in asking THEN Reports!InitialLoad(p, panels[p]) ELSE panels[p]]
      /\ requests' = {IF r.panel \in changed THEN Reports!CleanUp(r) ELSE r : r \in kept}
                     \cup {Reports!Request(p, new[p], TRUE) : p \in asking}
  BY DEF Reports!Render
<1>2. \A p \in Reports!Panels : new[p] \in Asks /\ Reports!Nothing \in Asks
  BY WantedTypes
<1>3. /\ choice' = c /\ picked' = picks /\ UNCHANGED <<reports, sort>>
      /\ typing' = Reports!QueryAfter(new, query)
  BY DEF Reports!Render
<1>4. typing' \in BOOLEAN
  BY <1>3 DEF Reports!QueryAfter
<1>5. ASSUME NEW p \in Reports!Panels PROVE panels'[p].data \in Asks
  <2>1. panels[p] = [state |-> panels[p].state, data |-> panels[p].data] /\ panels[p].data \in Asks
    BY DEF ReportsInv, Shapes, ReportTypes
  <2>2. Reports!Blank.data \in Asks /\ Reports!InitialLoad(p, panels[p]).data \in Asks
    BY <1>2, <2>1 DEF Reports!Blank, Reports!InitialLoad
  <2>. HIDE DEF new, gone, asking
  <2>. QED
    BY <1>1, <2>1, <2>2
<1>6. ASSUME NEW r \in requests' PROVE r.ask \in Asks /\ r.initial \in BOOLEAN /\ r.ignored \in BOOLEAN
  <2>1. CASE \E q \in kept : r = IF q.panel \in changed THEN Reports!CleanUp(q) ELSE q
    <3>1. PICK q \in requests : r = Reports!CleanUp(q) \/ r = q
      BY <2>1
    <3>2. /\ q = [panel |-> q.panel, ask |-> q.ask, initial |-> q.initial, ignored |-> q.ignored]
          /\ q.ask \in Asks /\ q.initial \in BOOLEAN /\ q.ignored \in BOOLEAN
      BY DEF ReportsInv, Shapes, ReportTypes
    <3>. QED
      BY <3>1, <3>2 DEF Reports!CleanUp
  <2>2. CASE \E p \in asking : r = Reports!Request(p, new[p], TRUE)
    BY <1>2, <2>2 DEF Reports!Request
  <2>. HIDE DEF kept, changed, asking
  <2>. QED
    BY <1>1, <2>1, <2>2
<1>. HIDE DEF new
<1>. QED
  BY <1>3, <1>4, <1>5, <1>6 DEF ReportTypes, OnATab

\* What the member does on a page.
LEMMA ReportUserTypes ==
  ASSUME Reported, ReportsInv, ReportTypes,
         \/ \E role \in Roles : Reports!OpenReports(role)
         \/ \E kind \in Dimensions \ {"businesses"} :
              Reports!OpenList(kind) \/ \E id \in Reports!Entities : Reports!OpenEntity(kind, id)
         \/ Reports!Leave
         \/ \E view \in {"summary", "detail"} : Reports!ChooseView(view)
         \/ \E d \in Dimensions : Reports!ChooseDimension(d)
         \/ \E t \in Timeframes \cup {"custom"} : Reports!ChooseTimeframe(t)
         \/ \E field \in {"start", "end"}, date \in Dates \cup {0} : Reports!EditRange(field, date)
         \/ \E id \in Reports!Entities : Reports!AddEntity(id) \/ Reports!RemoveEntity(id)
  PROVE  ReportTypes'
<1>t. /\ choice \in Choices /\ OnATab(reports, choice)
      /\ picked \in [Dimensions -> SUBSET Reports!Entities] /\ typing \in BOOLEAN
  BY DEF ReportTypes
<1>1. ASSUME NEW role \in Roles, Reports!OpenReports(role) PROVE ReportTypes'
  <2>1. PICK c : c = Reports!Start(role, Reports!FirstDimension(role), "")
    OBVIOUS
  <2>2. c \in Choices /\ OnATab("reports", c)
    BY <2>1, StartTypes, FirstDimensionIsOne DEF OnATab
  <2>3. Reports!Open("reports", c)
    BY <1>1, <2>1 DEF Reports!OpenReports
  <2>. QED
    BY <2>2, <2>3, OpenTypes
<1>2. ASSUME NEW kind \in Dimensions, Reports!OpenList(kind) PROVE ReportTypes'
  <2>1. PICK c : c = Reports!Start("", kind, "")
    OBVIOUS
  <2>2. c \in Choices /\ \A pg : OnATab(pg, c)
    BY <2>1, StartTypes DEF OnATab
  <2>3. Reports!Open("list", c) \/ Reports!Render(c, picked, typing)
    BY <1>2, <2>1 DEF Reports!OpenList
  <2>. QED
    BY <1>t, <2>2, <2>3, OpenTypes, RenderTypes
<1>3. ASSUME NEW kind \in Dimensions, NEW id \in Reports!Entities, Reports!OpenEntity(kind, id)
      PROVE  ReportTypes'
  <2>1. PICK c : c = Reports!Start("", kind, id)
    OBVIOUS
  <2>2. c \in Choices /\ OnATab("entity", c)
    BY <2>1, StartTypes DEF OnATab
  <2>3. Reports!Open("entity", c)
    BY <1>3, <2>1 DEF Reports!OpenEntity
  <2>. QED
    BY <2>2, <2>3, OpenTypes
<1>4. ASSUME Reports!Leave PROVE ReportTypes'
  <2>1. Reports!Away \in Choices /\ OnATab("none", Reports!Away) /\ Reports!Open("none", Reports!Away)
    BY <1>4, StartTypes DEF Reports!Away, Reports!Leave, OnATab
  <2>. QED
    BY <2>1, OpenTypes
<1>5. ASSUME NEW c \in Choices, OnATab(reports, c), Reports!Render(c, picked, typing) PROVE ReportTypes'
  BY <1>t, <1>5, RenderTypes
<1>6. ASSUME NEW view \in {"summary", "detail"}, Reports!ChooseView(view) PROVE ReportTypes'
  <2>1. PICK c : c = [choice EXCEPT !.view = view]
    OBVIOUS
  <2>2. c \in Choices /\ OnATab(reports, c)
    BY <1>t, <2>1 DEF Choices, OnATab
  <2>. QED
    BY <1>5, <1>6, <2>1, <2>2 DEF Reports!ChooseView
<1>7. ASSUME NEW d \in Dimensions, Reports!ChooseDimension(d) PROVE ReportTypes'
  <2>1. PICK c : c = [choice EXCEPT !.dimension = d]
    OBVIOUS
  <2>2. c \in Choices /\ OnATab(reports, c)
    BY <1>t, <2>1 DEF Choices, OnATab
  <2>. QED
    BY <1>5, <1>7, <2>1, <2>2 DEF Reports!ChooseDimension
<1>8. ASSUME NEW t \in Timeframes \cup {"custom"}, Reports!ChooseTimeframe(t) PROVE ReportTypes'
  <2>1. PICK c : c = [choice EXCEPT !.timeframe = t]
    OBVIOUS
  <2>2. c \in Choices /\ OnATab(reports, c)
    BY <1>t, <2>1 DEF Choices, OnATab
  <2>. QED
    BY <1>5, <1>8, <2>1, <2>2 DEF Reports!ChooseTimeframe
<1>9. ASSUME NEW field \in {"start", "end"}, NEW date \in Dates \cup {0}, Reports!EditRange(field, date)
      PROVE  ReportTypes'
  <2>1. PICK c : c = [choice EXCEPT ![field] = date]
    OBVIOUS
  <2>2. c \in Choices /\ OnATab(reports, c)
    BY <1>t, <2>1 DEF Choices, OnATab
  <2>. QED
    BY <1>5, <1>9, <2>1, <2>2 DEF Reports!EditRange
<1>10. ASSUME NEW id \in Reports!Entities, Reports!AddEntity(id) \/ Reports!RemoveEntity(id)
       PROVE  ReportTypes'
  <2>1. PICK picks \in [Dimensions -> SUBSET Reports!Entities], query \in BOOLEAN :
          Reports!Render(choice, picks, query)
    <3>1. [picked EXCEPT ![choice.dimension] = @ \cup {id}] \in [Dimensions -> SUBSET Reports!Entities]
      BY <1>t
    <3>2. [picked EXCEPT ![choice.dimension] = @ \ {id}] \in [Dimensions -> SUBSET Reports!Entities]
      BY <1>t
    <3>. QED
      BY <1>t, <1>10, <3>1, <3>2 DEF Reports!AddEntity, Reports!RemoveEntity
  <2>. QED
    BY <1>t, <2>1, RenderTypes
<1>. QED
  BY <1>1, <1>2, <1>3, <1>4, <1>6, <1>7, <1>8, <1>9, <1>10

\* The clock, the server, and what is of the page alone.
LEMMA ReportRestTypes ==
  ASSUME ReportsInv, ReportTypes,
         \/ Reports!Type \/ (\E column \in {"name", "description"} : Reports!ToggleSort(column))
         \/ (\E p \in Reports!Panels : Reports!Poll(p))
         \/ (\E r \in requests : Reports!Answered(r) \/ Reports!Failed(r))
         \/ UNCHANGED reportVars
  PROVE  ReportTypes'
<1>t. /\ choice \in Choices /\ OnATab(reports, choice)
      /\ picked \in [Dimensions -> SUBSET Reports!Entities] /\ typing \in BOOLEAN
  BY DEF ReportTypes
<1>1. CASE Reports!Type \/ UNCHANGED reportVars
  BY <1>1 DEF Reports!Type, reportVars, ReportTypes, OnATab
<1>2. ASSUME NEW column \in {"name", "description"}, Reports!ToggleSort(column) PROVE ReportTypes'
  <2>1. sort' \in [column : {"name", "description"}, direction : {"asc", "desc"}]
    BY <1>2 DEF Reports!ToggleSort, ReportTypes
  <2>. QED
    BY <1>2, <2>1 DEF Reports!ToggleSort, ReportTypes, OnATab
<1>3. ASSUME NEW p \in Reports!Panels, Reports!Poll(p) PROVE ReportTypes'
  <2>1. requests' = requests \cup {Reports!Request(p, Reports!Asked[p], FALSE)}
    BY <1>3 DEF Reports!Poll
  <2>2. Reports!Asked[p] \in Asks
    BY <1>t, WantedTypes DEF Reports!Asked
  <2>3. ASSUME NEW r \in requests' PROVE r.ask \in Asks /\ r.initial \in BOOLEAN /\ r.ignored \in BOOLEAN
    <3>1. CASE r \in requests
      BY <3>1 DEF ReportTypes
    <3>2. CASE r \notin requests
      <4>1. r.ask = Reports!Asked[p] /\ r.initial = FALSE /\ r.ignored = FALSE
        BY <2>1, <3>2 DEF Reports!Request
      <4>. QED
        BY <2>2, <4>1
    <3>. QED
      BY <3>1, <3>2
  <2>. QED
    BY <1>3, <2>3 DEF Reports!Poll, ReportTypes, OnATab
<1>4. ASSUME NEW r \in requests, Reports!Answered(r) \/ Reports!Failed(r) PROVE ReportTypes'
  <2>1. requests' \subseteq requests /\ UNCHANGED <<reports, choice, picked, typing, sort>>
    BY <1>4 DEF Reports!Answered, Reports!Failed
  <2>2. r.ask \in Asks /\ Reports!Nothing \in Asks
    BY <1>t, WantedTypes DEF ReportTypes, Reports!Panels
  <2>3. panels' = panels \/ \E x : x.data \in Asks /\ panels' = [panels EXCEPT ![r.panel] = x]
    <3>1. [state |-> "ready", data |-> r.ask].data \in Asks
      BY <2>2
    <3>2. [Reports!Blank EXCEPT !.state = "error"].data \in Asks
      BY <2>2 DEF Reports!Blank
    <3>. QED
      BY <1>4, <3>1, <3>2 DEF Reports!Answered, Reports!Failed
  <2>4. \A p \in Reports!Panels : panels'[p].data \in Asks
    <3>1. panels = [p \in Reports!Panels |-> panels[p]] /\ \A p \in Reports!Panels : panels[p].data \in Asks
      BY DEF ReportsInv, Shapes, ReportTypes
    <3>. QED
      BY <2>3, <3>1
  <2>. QED
    BY <2>1, <2>4 DEF ReportTypes, OnATab
<1>. QED
  BY <1>1, <1>2, <1>3, <1>4

\* Every step keeps them.
LEMMA ReportTypesNext ==
  ASSUME Reported PROVE ReportsInv /\ ReportTypes /\ [Reports!Next]_reportVars => ReportTypes'
BY ReportUserTypes, ReportRestTypes DEF Reports!Next

\* A closed page has such values.
LEMMA ReportTypesInit == ASSUME Reported PROVE Reports!Init => ReportTypes
<1>1. Reports!Away \in Choices
  BY StartTypes DEF Reports!Away
<1>2. Reports!Nothing \in Asks
  BY DEF Reports!Nothing, Reports!NoPeriod, Asks, Periods
<1>3. Reports!Init => \A p \in Reports!Panels : panels[p].data \in Asks
  BY <1>2 DEF Reports!Init, Reports!Blank
<1>. SUFFICES ASSUME Reports!Init PROVE ReportTypes
  OBVIOUS
<1>4. /\ reports = "none" /\ choice = Reports!Away /\ typing = FALSE /\ requests = {}
      /\ picked = [d \in Dimensions |-> {}]
      /\ sort = [column |-> "name", direction |-> "asc"]
  BY DEF Reports!Init
<1>5. sort \in [column : {"name", "description"}, direction : {"asc", "desc"}]
  BY <1>4
<1>6. OnATab(reports, choice)
  BY <1>4 DEF OnATab
<1>. QED
  BY <1>1, <1>3, <1>4, <1>5, <1>6 DEF ReportTypes

-----------------------------------------------------------------------------
\* Every page keeps values it can have: the grid of new products ends with one empty
\* column and never outgrows its bound, the total of a sale is one its lines or its
\* field can have, the members of the team keep roles that exist, and the questions
\* of a report name the entities of the member (the forms of TransactionRecordPage,
\* StockPage, TeamAccessPage, BusinessStructurePage and the report pages).
THEOREM PageTypes == Spec => []TypeOK
<1>. DEFINE Inv == /\ SaleInv /\ StockInv /\ TableTypes /\ TeamInv /\ TeamTypes
                   /\ TreeInv /\ TreeNews /\ ReportsInv /\ ReportTypes
<1>a. Shop /\ Grid /\ Roster /\ Quota /\ TreeBounds /\ Reported
  BY PagesAssumption
<1>1. Init => Inv
  BY <1>a, SaleInitInv, StockInitInv, TableTypesInit, TeamInitInv, TeamTypesInit, TreeInitInv,
     TreeNewsInit, ReportsInitInv, ReportTypesInit DEF Init
<1>2. Inv /\ [Next]_vars => Inv'
  <2>. SUFFICES ASSUME Inv, [Next]_vars PROVE Inv'
    OBVIOUS
  <2>1. SaleInv' /\ StockInv'
    BY <1>a, SaleNextInv, SaleSteps, StockNextInv, StockSteps
  <2>2. TableTypes'
    BY <1>a, TableTypesNext, TableSteps
  <2>3. TeamInv' /\ TeamTypes'
    BY <1>a, TeamNextInv, TeamTypesNext, TeamSteps
  <2>4. TreeInv' /\ TreeNews'
    BY <1>a, TreeNextInv, TreeNewsNext, TreeSteps
  <2>5. ReportsInv' /\ ReportTypes'
    BY <1>a, ReportsNextInv, ReportTypesNext, ReportsSteps
  <2>. QED
    BY <2>1, <2>2, <2>3, <2>4, <2>5
<1>3. Inv => TypeOK
  BY <1>a, SaleTypesFollow, TableTypesFollow, TeamTypesFollow, TreeTypesFollow, ReportTypesFollow
     DEF StockInv, TypeOK
<1>. QED
  BY <1>1, <1>2, <1>3, PTL DEF Spec
=============================================================================
