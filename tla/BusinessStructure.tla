---------------------------- MODULE BusinessStructure ----------------------------
(***************************************************************************)
(* The page of the businesses and their units (pages/business) with the     *)
(* requests of services/business/businessService and the copies they keep   *)
(* on the device.                                                           *)
(*                                                                         *)
(* Every load of the page asks for the businesses and then for the units of *)
(* each; loads overlap, since the page loads when it is opened, when the    *)
(* device is online again and after each creation.  The answer to a         *)
(* creation is put at the end of the list, while loads replace the list.    *)
(* The employees in the tree and the texts of the forms are left out.       *)
(***************************************************************************)
EXTENDS Naturals, FiniteSets, Sequences, SequencesExt

CONSTANTS MaxBusinesses,  \* bound: businesses of the account
          MaxUnits,       \* bound: their units
          Slots           \* bound: loads at a time

VARIABLES
  page,      \* "closed" or "open"
  vault,     \* the offline vault is unlocked: answers are kept on the device
  cache,     \* what is kept there
  server,    \* the businesses and units on the server
  list,      \* businesses and businessUnits of the page
  shared,    \* those of the workspace that the other pages read
  loads,     \* the loads under way: what has been answered to each
  failed,    \* whether the load that ended last has failed
  selected,  \* selectedBusinessId, 0 for none
  forms,     \* the forms that are open
  creating,  \* the creation under way, <<>> for none
  news       \* history: what was created here, as the page was told (own), the loads
             \* asked before the last of it (before), and whether the page shows one
             \* of these (late)

vars == <<page, vault, cache, server, list, shared, loads, failed, selected, forms, creating, news>>

\* A unit is its number and its business; the page keeps them in the order of
\* the answer.
BusinessIds == 1 .. MaxBusinesses
UnitRecords == [id : 1 .. MaxUnits, business : BusinessIds]
Nothing == [businesses |-> {}, units |-> {}]

Free == [step |-> "none", got |-> Nothing]
Asked == [step |-> "businesses", got |-> Nothing]

NoNews == [own |-> Nothing, before |-> {}, late |-> FALSE]

Ordered(s) == SetToSeq(s)

\* The businesses and units of an answer are kept on the device.
Kept(got) ==
  IF vault THEN [businesses |-> cache.businesses \cup got.businesses,
                 units |-> cache.units \cup got.units] ELSE cache

-----------------------------------------------------------------------------
(* loadPage.                                                               *)

Open(v) ==
  /\ page = "closed" /\ page' = "open" /\ vault' = v
  /\ loads' = [s \in Slots |-> IF s = CHOOSE x \in Slots : TRUE THEN Asked ELSE Free]
  /\ UNCHANGED <<cache, server, list, shared, failed, selected, forms, creating, news>>

\* The "online" event; one slot is kept for the load after a creation.
Online ==
  /\ page = "open" /\ Cardinality({s \in Slots : loads[s] = Free}) > 1
  /\ loads' = [loads EXCEPT ![CHOOSE s \in Slots : loads[s] = Free] = Asked]
  /\ UNCHANGED <<page, vault, cache, server, list, shared, failed, selected, forms, creating, news>>

\* listBusinesses answers, or what is kept on the device, if there is any.
BusinessesAnswered(s) ==
  /\ page = "open" /\ loads[s].step = "businesses"
  /\ \E bs \in {server.businesses} \cup
               (IF vault /\ cache.businesses # {} THEN {cache.businesses} ELSE {}) :
       /\ loads' = [loads EXCEPT ![s] = [step |-> "units", got |-> [businesses |-> bs, units |-> {}]]]
       /\ cache' = Kept([businesses |-> bs, units |-> {}])
  /\ UNCHANGED <<page, vault, server, list, shared, failed, selected, forms, creating, news>>

UnitsOf(b, where) == {u \in where : u.business = b}

\* listBusinessUnits answers for each business, or the device does, if units of
\* the business are kept there.
UnitsAnswered(s, offline) ==
  /\ page = "open" /\ loads[s].step = "units" /\ offline \subseteq loads[s].got.businesses
  /\ \A b \in offline : vault /\ UnitsOf(b, cache.units) # {}
  /\ LET us == UNION {UnitsOf(b, IF b \in offline THEN cache.units ELSE server.units) :
                        b \in loads[s].got.businesses}
     IN /\ loads' = [loads EXCEPT ![s] = [step |-> "arrive", got |-> [@.got EXCEPT !.units = us]]]
        /\ cache' = Kept([businesses |-> {}, units |-> us])
  /\ UNCHANGED <<page, vault, server, list, shared, failed, selected, forms, creating, news>>

\* The answer replaces what is shown, also when a later load has been shown.
Arrive(s) ==
  /\ page = "open" /\ loads[s].step = "arrive"
  /\ LET got == loads[s].got
     IN /\ list' = [businesses |-> Ordered(got.businesses), units |-> Ordered(got.units)]
        /\ shared' = got
        /\ selected' = IF selected \in got.businesses THEN selected ELSE 0
  /\ loads' = [loads EXCEPT ![s] = Free] /\ failed' = FALSE
  /\ news' = [news EXCEPT !.before = @ \ {s}, !.late = s \in news.before]
  /\ UNCHANGED <<page, vault, cache, server, forms, creating>>

\* Neither the API nor the device answers one of the requests.
LoadFails(s) ==
  /\ page = "open" /\ loads[s].step \in {"businesses", "units"}
  /\ loads' = [loads EXCEPT ![s] = Free] /\ failed' = TRUE
  /\ news' = [news EXCEPT !.before = @ \ {s}]
  /\ UNCHANGED <<page, vault, cache, server, list, shared, selected, forms, creating>>

-----------------------------------------------------------------------------
(* Selecting and creating.                                                 *)

\* selectBusiness of one that is listed closes the form of the units.
SelectBusiness(b) ==
  /\ page = "open" /\ b \in Range(list.businesses)
  /\ selected' = b /\ forms' = forms \ {"unit"}
  /\ UNCHANGED <<page, vault, cache, server, list, shared, loads, failed, creating, news>>

\* The unit form is shown under the selected business only.
Shown(form) == form = "unit" => selected \in Range(list.businesses)

ToggleForm(form) ==
  /\ page = "open" /\ Shown(form)
  /\ forms' = IF form \in forms THEN forms \ {form} ELSE forms \cup {form}
  /\ UNCHANGED <<page, vault, cache, server, list, shared, loads, failed, selected, creating, news>>

\* submitBusiness and submitUnit of a name that is long enough.
Submit(form) ==
  /\ page = "open" /\ form \in forms /\ Shown(form) /\ creating = <<>>
  /\ creating' = <<[form |-> form, business |-> IF form = "unit" THEN selected ELSE 0, made |-> 0]>>
  /\ UNCHANGED <<page, vault, cache, server, list, shared, loads, failed, selected, forms, news>>

NewBusiness == Cardinality(server.businesses) + 1
NewUnit(b) == [id |-> Cardinality(server.units) + 1, business |-> b]

\* The server creates it.
Made ==
  /\ creating # <<>> /\ creating[1].made = 0
  /\ IF creating[1].form = "business"
     THEN /\ NewBusiness <= MaxBusinesses
          /\ server' = [server EXCEPT !.businesses = @ \cup {NewBusiness}]
          /\ creating' = <<[creating[1] EXCEPT !.made = NewBusiness]>>
     ELSE LET u == NewUnit(creating[1].business) IN
          /\ u.id <= MaxUnits
          /\ server' = [server EXCEPT !.units = @ \cup {u}]
          /\ creating' = <<[creating[1] EXCEPT !.made = u.id]>>
  /\ UNCHANGED <<page, vault, cache, list, shared, loads, failed, selected, forms, news>>

\* The loads under way were asked before c was there.
Told(c) ==
  news' = [news EXCEPT !.own = [businesses |-> @.businesses \cup c.businesses,
                                units |-> @.units \cup c.units],
                       !.before = {s \in Slots : loads[s] # Free}]

\* The answer: the new one is kept on the device and put at the end of the list.
Answered ==
  /\ creating # <<>> /\ creating[1].made # 0 /\ creating' = <<>>
  /\ forms' = forms \ {creating[1].form}
  /\ IF creating[1].form = "business"
     THEN LET b == creating[1].made IN
          /\ list' = [list EXCEPT !.businesses = Append(@, b)]
          /\ selected' = b
          /\ cache' = Kept([businesses |-> {b}, units |-> {}])
          /\ Told([businesses |-> {b}, units |-> {}])
     ELSE LET u == [id |-> creating[1].made, business |-> creating[1].business] IN
          /\ list' = [list EXCEPT !.units = Append(@, u)]
          /\ cache' = Kept([businesses |-> {}, units |-> {u}])
          /\ Told([businesses |-> {}, units |-> {u}])
          /\ UNCHANGED selected
  /\ UNCHANGED <<page, vault, server, shared, failed>>

\* Mutant: the page is not told that the businesses have changed.
CreatedQuietly == Answered /\ UNCHANGED loads

\* notifyBusinessWorkspaceChanged: the page loads everything again.
Created ==
  /\ Answered
  /\ \E s \in Slots : loads[s] = Free
  /\ loads' = [loads EXCEPT ![CHOOSE s \in Slots : loads[s] = Free] = Asked]

\* It is refused, or its answer is lost: the error is shown.
CreateFails ==
  /\ creating # <<>> /\ creating' = <<>>
  /\ UNCHANGED <<page, vault, cache, server, list, shared, loads, failed, selected, forms, news>>

-----------------------------------------------------------------------------

\* The listeners are removed; pages are left while nothing is under way.
Leave ==
  /\ page = "open" /\ creating = <<>> /\ \A s \in Slots : loads[s] = Free
  /\ page' = "closed" /\ list' = [businesses |-> <<>>, units |-> <<>>]
  /\ selected' = 0 /\ forms' = {} /\ failed' = FALSE /\ news' = NoNews
  /\ UNCHANGED <<vault, cache, server, shared, loads, creating>>

Shut == page = "closed"

Init ==
  /\ page = "closed" /\ vault = FALSE /\ cache = Nothing
  /\ server = [businesses |-> {1}, units |-> {}]
  /\ list = [businesses |-> <<>>, units |-> <<>>] /\ shared = Nothing
  /\ loads = [s \in Slots |-> Free] /\ failed = FALSE
  /\ selected = 0 /\ forms = {} /\ creating = <<>> /\ news = NoNews

OpenAny == \E v \in BOOLEAN : Open(v)

Step ==
  \/ Online
  \/ \E s \in Slots : \/ BusinessesAnswered(s) \/ Arrive(s) \/ LoadFails(s)
                      \/ \E offline \in SUBSET loads[s].got.businesses : UnitsAnswered(s, offline)
  \/ \E b \in BusinessIds : SelectBusiness(b)
  \/ \E form \in {"business", "unit"} : ToggleForm(form) \/ Submit(form)
  \/ Made \/ Created \/ CreateFails \/ Leave

Next == OpenAny \/ Step

Spec == Init /\ [][Next]_vars

-----------------------------------------------------------------------------

TypeOK ==
  /\ page \in {"closed", "open"} /\ {vault, failed} \subseteq BOOLEAN
  /\ \A got \in {cache, server, shared, news.own} \cup {loads[s].got : s \in Slots} :
       got.businesses \subseteq BusinessIds /\ got.units \subseteq UnitRecords
  /\ Range(list.businesses) \subseteq BusinessIds /\ Range(list.units) \subseteq UnitRecords
  /\ selected \in 0 .. MaxBusinesses /\ forms \subseteq {"business", "unit"}

Quiet == creating = <<>> /\ \A s \in Slots : loads[s] = Free

\* When nothing is under way and the last load has succeeded, the tree has no
\* business and no unit twice, and units of listed businesses only: one that a load
\* had already shown when the answer to its creation came, and was put into the
\* list again, is not there twice for ever.  And what was created on the page stays
\* listed, whoever answers the loads, the API or the device.  It is only lost to a
\* load that was asked before and shown last: nothing orders the answers, and nothing
\* loads again then.
ListSettles ==
  /\ page = "open" /\ Quiet /\ ~failed =>
       /\ IsInjective(list.businesses) /\ IsInjective(list.units)
       /\ \A u \in Range(list.units) : u.business \in Range(list.businesses)
  /\ page = "open" /\ ~news.late =>
       /\ news.own.businesses \subseteq Range(list.businesses)
       /\ news.own.units \subseteq Range(list.units)
=============================================================================
