------------------------- MODULE BusinessPagesProofs -------------------------
(*****************************************************************************)
(* That saving a member whose role was not edited keeps their access, for any*)
(* members, roles and screens, also for a role stored before its baseline was*)
(* given a screen.  It rests on the inputs being those of the member that is *)
(* selected whenever they were not edited, and on what filling in a role and *)
(* saving it makes of the role.                                              *)
(*                                                                           *)
(* And that the tree of businesses and units settles, for any number of loads*)
(* under way: a list that has a creation put into it, and may have it twice, *)
(* is going to be replaced by a load that was started with it or after it;   *)
(* and any load asked after a creation has what was created, from the API or *)
(* from the device (TreeNews).                                               *)
(*****************************************************************************)
EXTENDS WebPages, Sequences, FiniteSetTheorems, TLAPS

\* The members as the server keeps them.
Workspaces == [Members -> Team!Accounts]

Editors == [inputs : [role : Team!StandardRoles \cup {Team!Custom, ""}, base : Team!StandardRoles \cup {""},
                      screens : SUBSET Screens],
            unit : {"", "u1"}, status : {"active", "disabled"}]

\* The request under way is one of the page, and the page is still there.
RequestInPlace ==
  \/ busy = <<>>
  \/ team = "team" /\ busy = <<[kind |-> "load"]>>
  \/ /\ team = "team" /\ known # <<>>
     /\ \E m \in Members :
          \/ busy = <<[kind |-> "remove", member |-> m]>>
          \/ \E e \in Editors : /\ Team!CanSave(e.inputs)
                                /\ busy = <<[kind |-> "save", member |-> m, editor |-> e]>>

\* Nothing is kept of a page that is left.
PageInPlace ==
  /\ team # "team" => known = <<>>
  /\ invites.state # "none" => team = "team" /\ known # <<>>
  /\ known = <<>> \/ \E w \in Workspaces : known = <<w>>
  /\ member \in Members \cup {""}

InputsFollowSelection ==
  known # <<>> /\ member # "" /\ ~touched =>
    editor.inputs = Team!RoleInputs(known[1][member].access)

TeamInv ==
  /\ members \in Workspaces /\ editor \in Editors
  /\ RequestInPlace /\ PageInPlace /\ InputsFollowSelection

-----------------------------------------------------------------------------
(* The inputs of a role and back.                                          *)

\* What the effect fills in is what a save would store again, with the screens of the
\* baseline.
LEMMA RoundTrip ==
  ASSUME Roster, NEW a \in Team!Access
  PROVE  /\ Team!CanSave(Team!RoleInputs(a))
         /\ Team!SavedAccess(Team!RoleInputs(a)) = Team!WithBaseline(a)
<1>1. CASE a \in Team!StandardAccess
  <2>1. a.role \in Team!StandardRoles /\ a.role # Team!Custom /\ a.role # ""
        /\ a = [role |-> a.role, base |-> "", screens |-> {}]
    BY <1>1 DEF Roster, Team!StandardAccess
  <2>. QED
    BY <2>1 DEF Team!RoleInputs, Team!CanSave, Team!SavedAccess, Team!WithBaseline
<1>2. CASE a \in Team!CustomAccess
  <2>1. a.role = Team!Custom /\ a.base \in Baselines /\ a.base # ""
        /\ a = [role |-> Team!Custom, base |-> a.base, screens |-> a.screens]
    BY <1>2 DEF Roster, Team!CustomAccess, Team!StandardRoles
  <2>2. Team!RoleInputs(a) = [role |-> Team!Custom, base |-> a.base, screens |-> a.screens \ BaseScreens[a.base]]
    BY <2>1 DEF Team!RoleInputs, Team!BaseOf, Team!ScreensOf
  <2>3. BaseScreens[a.base] \cup (a.screens \ BaseScreens[a.base]) = a.screens \cup BaseScreens[a.base]
    OBVIOUS
  <2>4. Team!CanSave(Team!RoleInputs(a))
    <3>1. Team!RoleInputs(a).role = Team!Custom /\ Team!RoleInputs(a).base = a.base
      BY <2>2
    <3>. QED
      BY <2>1, <3>1 DEF Team!CanSave, Team!Custom
  <2>5. Team!SavedAccess(Team!RoleInputs(a))
          = [role |-> Team!Custom, base |-> a.base,
             screens |-> BaseScreens[a.base] \cup (a.screens \ BaseScreens[a.base])]
    BY <2>2 DEF Team!SavedAccess
  <2>6. Team!WithBaseline(a)
          = [role |-> Team!Custom, base |-> a.base, screens |-> a.screens \cup BaseScreens[a.base]]
    BY <1>2, <2>1 DEF Team!WithBaseline, Team!CustomAccess
  <2>. QED
    BY <2>3, <2>4, <2>5, <2>6
<1>. QED
  BY <1>1, <1>2 DEF Team!Access

LEMMA RoleInputsType ==
  ASSUME Roster, NEW a \in Team!Access
  PROVE  Team!RoleInputs(a) \in [role : Team!StandardRoles \cup {Team!Custom, ""}, base : Team!StandardRoles \cup {""},
                            screens : SUBSET Screens]
<1>1. CASE a \in Team!StandardAccess
  BY <1>1 DEF Team!RoleInputs, Team!BaseOf, Team!ScreensOf, Team!StandardAccess, Roster,
       Team!StandardRoles
<1>2. CASE a \in Team!CustomAccess
  BY <1>2 DEF Team!RoleInputs, Team!BaseOf, Team!ScreensOf, Team!CustomAccess, Team!StandardRoles
<1>. QED
  BY <1>1, <1>2 DEF Team!Access

UnitIds == {"", "u1"}
Statuses == {"active", "disabled"}

\* An account has the parts it is made of.
LEMMA AccountParts ==
  ASSUME NEW a \in Team!Access, NEW u \in UnitIds, NEW st \in Statuses,
         NEW x, x = [access |-> a, unit |-> u, status |-> st]
  PROVE  x.access = a /\ x \in Team!Accounts
<1>1. Team!Accounts = [access : Team!Access, unit : UnitIds, status : Statuses]
  BY DEF Team!Accounts, UnitIds, Statuses
<1>. QED
  BY <1>1

\* What the server stores is an account again.
LEMMA StoredIsAccount ==
  ASSUME Roster, NEW e \in Editors, Team!CanSave(e.inputs), Team!Storable(e.inputs), NEW m \in Team!Accounts
  PROVE  Team!Stored(m, e) \in Team!Accounts
<1>. DEFINE a == Team!SavedAccess(e.inputs)
<1>1. e.inputs.role \in Team!StandardRoles \cup {Team!Custom} /\ e.inputs.screens \subseteq Screens
      /\ e.unit \in UnitIds /\ e.status \in Statuses
  BY DEF Editors, Team!CanSave, UnitIds, Statuses
<1>2. ASSUME e.inputs.role = Team!Custom
      PROVE  a \in Team!Access
  <2>. DEFINE b == e.inputs.base
              all == BaseScreens[b] \cup e.inputs.screens
  <2>1. b \in Baselines /\ BaseScreens[b] \subseteq Screens
    BY <1>2 DEF Team!Storable, Roster
  <2>2. a = [role |-> Team!Custom, base |-> b, screens |-> all]
    BY <1>2 DEF Team!SavedAccess
  <2>3. all \subseteq Screens
    BY <1>1, <2>1
  <2>. HIDE DEF a, b, all
  <2>4. a \in Team!CustomAccess
    BY <2>1, <2>2, <2>3 DEF Team!CustomAccess
  <2>. QED
    BY <2>4 DEF Team!Access
<1>3. ASSUME e.inputs.role # Team!Custom
      PROVE  a \in Team!Access
  <2>1. a = [role |-> e.inputs.role, base |-> "", screens |-> {}]
    BY <1>3 DEF Team!SavedAccess
  <2>2. e.inputs.role \in Team!StandardRoles
    BY <1>1, <1>3
  <2>. HIDE DEF a
  <2>3. a \in Team!StandardAccess
    BY <2>1, <2>2 DEF Team!StandardAccess
  <2>. QED
    BY <2>3 DEF Team!Access
<1>4. a \in Team!Access
  BY <1>2, <1>3
<1>5. PICK u \in UnitIds : Team!Stored(m, e) = [access |-> a, unit |-> u, status |-> e.status]
  <2>. DEFINE v == IF e.unit = "" THEN m.unit ELSE e.unit
  <2>1. v \in UnitIds
    BY <1>1 DEF Team!Accounts, UnitIds
  <2>2. Team!Stored(m, e) = [access |-> a, unit |-> v, status |-> e.status]
    BY DEF Team!Stored
  <2>. HIDE DEF v
  <2>. QED
    BY <2>1, <2>2
<1>. HIDE DEF a
<1>. QED
  BY <1>1, <1>4, <1>5, AccountParts

-----------------------------------------------------------------------------
(* The steps.                                                              *)

LEMMA TeamInitInv == ASSUME Roster PROVE Team!Init => TeamInv
<1>. SUFFICES ASSUME Team!Init
              PROVE  TeamInv
  OBVIOUS
<1>1. ASSUME NEW m \in Members
      PROVE  members[m] \in Team!Accounts
  <2>1. PICK u \in UnitIds, st \in Statuses :
          members[m] = [access |-> InitialAccess[m], unit |-> u, status |-> st]
    BY DEF Team!Init, UnitIds, Statuses
  <2>2. InitialAccess[m] \in Team!Access
    BY DEF Roster
  <2>. QED
    BY <2>1, <2>2, AccountParts
<1>2. members \in Workspaces
  <2>1. members = [m \in Members |-> members[m]]
    BY DEF Team!Init
  <2>. QED
    BY <1>1, <2>1 DEF Workspaces
<1>3. editor \in Editors
  BY DEF Team!Init, Team!NoEditor, Editors
<1>. QED
  BY <1>2, <1>3 DEF Team!Init, TeamInv, RequestInPlace, PageInPlace, InputsFollowSelection,
       Team!NoCsv

\* Whatever workspace arrives, the inputs are those of a member of it.
LEMMA TeamShowKeeps ==
  ASSUME Roster, TeamInv, NEW w \in Workspaces, Team!Show(w)
  PROVE  /\ known' = <<w>> /\ member' \in Members /\ editor' \in Editors
         /\ InputsFollowSelection'
<1>. DEFINE s == IF member \in Members THEN member ELSE CHOOSE m \in Members : TRUE
<1>1. /\ known' = <<w>> /\ member' = s
      /\ editor' = IF s = member /\ known # <<>>
                   THEN [editor EXCEPT !.inputs = Team!RoleInputs(w[s].access)] ELSE Team!EditorOf(w[s])
  BY DEF Team!Show
<1>2. s \in Members
  BY DEF Roster
<1>. HIDE DEF s
<1>3. w[s] \in Team!Accounts /\ w[s].access \in Team!Access
  BY <1>2 DEF Workspaces, Team!Accounts
<1>4. editor' \in Editors /\ editor'.inputs = Team!RoleInputs(w[s].access)
  <2>1. Team!RoleInputs(w[s].access) \in [role : Team!StandardRoles \cup {Team!Custom, ""}, base : Team!StandardRoles \cup {""},
                                     screens : SUBSET Screens]
    BY <1>3, RoleInputsType
  <2>2. editor \in Editors /\ w[s].unit \in {"", "u1"} /\ w[s].status \in {"active", "disabled"}
    BY <1>3 DEF TeamInv, Team!Accounts
  <2>. QED
    BY <1>1, <2>1, <2>2 DEF Team!EditorOf, Editors
<1>. QED
  BY <1>1, <1>2, <1>4 DEF InputsFollowSelection

\* A workspace with the answer for one member in it.
LEMMA ReplacedMember ==
  ASSUME NEW w \in Workspaces, NEW m \in Members, NEW x \in Team!Accounts
  PROVE  [w EXCEPT ![m] = x] \in Workspaces
<1>1. \A n \in Members : [w EXCEPT ![m] = x][n] = IF n = m THEN x ELSE w[n]
  BY DEF Workspaces
<1>. QED
  BY <1>1 DEF Workspaces

LEMMA TeamLoadKeeps ==
  ASSUME Roster, TeamInv, Team!Loaded \/ Team!LoadFails
  PROVE  TeamInv'
<1>1. busy' = <<>> /\ team' = team /\ team = "team" /\ UNCHANGED <<members, invites>>
  BY DEF Team!Loaded, Team!LoadFails
<1>2. CASE Team!Loaded
  <2>1. Team!Show(members)
    BY <1>2 DEF Team!Loaded
  <2>2. known' = <<members>> /\ member' \in Members /\ editor' \in Editors /\ InputsFollowSelection'
    BY <2>1, TeamShowKeeps DEF TeamInv
  <2>. QED
    BY <1>1, <2>2 DEF TeamInv, RequestInPlace, PageInPlace
<1>3. CASE Team!LoadFails
  BY <1>1, <1>3 DEF Team!LoadFails, TeamInv, RequestInPlace, PageInPlace, InputsFollowSelection
<1>. QED
  BY <1>2, <1>3

\* Opening finds nothing of an earlier page.
LEMMA TeamOpenKeeps ==
  ASSUME TeamInv, Team!OpenAny
  PROVE  TeamInv'
<1>1. team = "closed" /\ known' = <<>> /\ UNCHANGED <<members, editor, invites>> /\ invites.state = "none"
  BY DEF Team!OpenAny, Team!OpenTeam, Team!OpenInvitation, Team!Invitation, TeamInv, PageInPlace
<1>2. RequestInPlace' /\ member' \in Members \cup {""}
  BY <1>1 DEF Team!OpenAny, Team!OpenTeam, Team!OpenInvitation, Team!Invitation, TeamInv,
       RequestInPlace, PageInPlace
<1>. QED
  BY <1>1, <1>2 DEF TeamInv, PageInPlace, InputsFollowSelection

LEMMA TeamSelectKeeps ==
  ASSUME Roster, TeamInv, NEW m \in Members, Team!Select(m)
  PROVE  TeamInv'
<1>1. PICK w \in Workspaces : known = <<w>>
  BY DEF Team!Select, TeamInv, PageInPlace
<1>2. member' = m /\ editor' = Team!EditorOf(w[m]) /\ UNCHANGED <<team, members, known, busy, invites>>
  BY <1>1 DEF Team!Select
<1>3. w[m] \in Team!Accounts /\ Team!RoleInputs(w[m].access) \in
        [role : Team!StandardRoles \cup {Team!Custom, ""}, base : Team!StandardRoles \cup {""}, screens : SUBSET Screens]
  <2>1. w[m] \in Team!Accounts /\ w[m].access \in Team!Access
    BY DEF Workspaces, Team!Accounts
  <2>. QED
    BY <2>1, RoleInputsType
<1>4. editor' \in Editors /\ editor'.inputs = Team!RoleInputs(w[m].access)
  BY <1>2, <1>3 DEF Team!EditorOf, Editors, Team!Accounts
<1>. QED
  BY <1>1, <1>2, <1>4 DEF TeamInv, RequestInPlace, PageInPlace, InputsFollowSelection

\* Edits of the role are marked, those of the scope leave it alone.
LEMMA TeamEditKeeps ==
  ASSUME Roster, TeamInv,
         \/ \E r \in Team!StandardRoles \cup {Team!Custom} : Team!ChooseRole(r)
         \/ \E b \in Baselines : Team!ChooseBase(b)
         \/ \E s \in Screens : Team!ToggleScreen(s)
         \/ \E u \in {"", "u1"}, st \in {"active", "disabled"} : Team!ChooseScope(u, st)
  PROVE  TeamInv'
<1>1. UNCHANGED <<team, members, known, member, busy, invites>>
  BY DEF Team!ChooseRole, Team!ChooseBase, Team!ToggleScreen, Team!ChooseScope, Team!Edited
<1>2. editor \in Editors
  BY DEF TeamInv
<1>3. ASSUME NEW r \in Team!StandardRoles \cup {Team!Custom}, Team!ChooseRole(r)
      PROVE  editor' \in Editors /\ touched' = TRUE
  <2>1. Team!BaseOf(known[1][member].access) \in Team!StandardRoles \cup {""}
    <3>1. PICK w \in Workspaces : known = <<w>>
      BY <1>3 DEF Team!ChooseRole, Team!Editing, TeamInv, PageInPlace
    <3>2. member \in Members /\ w[member].access \in Team!Access
      BY <1>3, <3>1 DEF Team!ChooseRole, Team!Editing, TeamInv, PageInPlace, Workspaces, Team!Accounts
    <3>3. \A a \in Team!Access : Team!BaseOf(a) \in Team!StandardRoles \cup {""}
      <4>. TAKE a \in Team!Access
      <4>1. a.role = Team!Custom => a.base \in Baselines \cup {""}
        BY DEF Team!Access, Team!StandardAccess, Team!CustomAccess
      <4>. QED
        BY <4>1 DEF Team!BaseOf, Team!StandardRoles
    <3>. QED
      BY <3>1, <3>2, <3>3
  <2>. DEFINE base == Team!BaseOf(known[1][member].access)
              new == IF r = Team!Custom
                     THEN [role |-> r, screens |-> editor.inputs.screens,
                           base |-> IF editor.inputs.base = "" THEN base ELSE editor.inputs.base]
                     ELSE [role |-> r, base |-> r, screens |-> {}]
  <2>2. editor' = [editor EXCEPT !.inputs = new] /\ touched' = TRUE
    BY <1>3 DEF Team!ChooseRole
  <2>. HIDE DEF base
  <2>3. new \in [role : Team!StandardRoles \cup {Team!Custom, ""}, base : Team!StandardRoles \cup {""},
                 screens : SUBSET Screens]
    BY <1>2, <2>1 DEF Editors, base
  <2>. HIDE DEF new
  <2>. QED
    BY <1>2, <2>2, <2>3 DEF Editors
<1>4. ASSUME NEW b \in Baselines, Team!ChooseBase(b)
      PROVE  editor' \in Editors /\ touched' = TRUE
  BY <1>2, <1>4 DEF Team!ChooseBase, Editors, Team!StandardRoles
<1>5. ASSUME NEW s \in Screens, Team!ToggleScreen(s)
      PROVE  editor' \in Editors /\ touched' = TRUE
  BY <1>2, <1>5 DEF Team!ToggleScreen, Editors
<1>6. ASSUME NEW u \in {"", "u1"}, NEW st \in {"active", "disabled"}, Team!ChooseScope(u, st)
      PROVE  editor' \in Editors /\ touched' = touched /\ editor'.inputs = editor.inputs
  BY <1>2, <1>6 DEF Team!ChooseScope, Editors
<1>7. RequestInPlace' /\ PageInPlace'
  BY <1>1 DEF TeamInv, RequestInPlace, PageInPlace
<1>8. editor' \in Editors
      /\ (~touched' => ~touched /\ editor'.inputs = editor.inputs)
  BY <1>3, <1>4, <1>5, <1>6
<1>9. InputsFollowSelection'
  BY <1>1, <1>8 DEF TeamInv, InputsFollowSelection
<1>. QED
  BY <1>1, <1>7, <1>8, <1>9 DEF TeamInv

\* What is sent is what is selected now.
LEMMA TeamSendKeeps ==
  ASSUME Roster, TeamInv, Team!SaveEmployee \/ Team!RemoveEmployee
  PROVE  TeamInv'
<1>1. team = "team" /\ known # <<>> /\ member \in Members
  BY DEF Team!SaveEmployee, Team!RemoveEmployee, Team!Editing, TeamInv, PageInPlace
<1>2. UNCHANGED <<team, members, known, member, editor, touched, invites>>
  BY DEF Team!SaveEmployee, Team!RemoveEmployee, Team!Send
<1>3. \/ busy' = <<[kind |-> "remove", member |-> member]>>
      \/ Team!CanSave(editor.inputs) /\ busy' = <<[kind |-> "save", member |-> member, editor |-> editor]>>
  BY DEF Team!SaveEmployee, Team!RemoveEmployee, Team!Send
<1>4. RequestInPlace'
  BY <1>1, <1>2, <1>3 DEF RequestInPlace, TeamInv
<1>. QED
  BY <1>2, <1>4 DEF TeamInv, PageInPlace, InputsFollowSelection

LEMMA TeamSavedKeeps ==
  ASSUME Roster, TeamInv, Team!Saved
  PROVE  TeamInv'
<1>1. PICK m \in Members, e \in Editors :
        Team!CanSave(e.inputs) /\ busy = <<[kind |-> "save", member |-> m, editor |-> e]>>
  BY DEF Team!Saved, TeamInv, RequestInPlace
<1>2. /\ Team!Storable(e.inputs) /\ members' = [members EXCEPT ![m] = Team!Stored(members[m], e)]
      /\ busy' = <<[kind |-> "load"]>> /\ UNCHANGED <<team, known, member, editor, touched, invites>>
  BY <1>1 DEF Team!Saved
<1>3. members[m] \in Team!Accounts
  BY DEF TeamInv, Workspaces
<1>4. Team!Stored(members[m], e) \in Team!Accounts
  BY <1>1, <1>2, <1>3, StoredIsAccount
<1>5. members' \in Workspaces
  BY <1>2, <1>4, ReplacedMember DEF TeamInv
<1>6. team = "team"
  BY <1>1 DEF TeamInv, RequestInPlace
<1>. QED
  BY <1>2, <1>5, <1>6 DEF TeamInv, RequestInPlace, PageInPlace, InputsFollowSelection

\* The member that was removed is shown disabled, with the access they had.
LEMMA TeamRemovedKeeps ==
  ASSUME Roster, TeamInv, Team!Removed
  PROVE  TeamInv'
<1>1. PICK m \in Members : team = "team" /\ known # <<>> /\ busy = <<[kind |-> "remove", member |-> m]>>
  BY DEF Team!Removed, TeamInv, RequestInPlace
<1>2. PICK w \in Workspaces : known = <<w>>
  BY <1>1 DEF TeamInv, PageInPlace
<1>. DEFINE x == [members[m] EXCEPT !.status = "disabled"]
<1>3. /\ members' = [members EXCEPT ![m] = x] /\ busy' = <<>> /\ UNCHANGED <<team, invites>>
      /\ Team!Show([w EXCEPT ![m] = members'[m]])
  BY <1>1, <1>2 DEF Team!Removed
<1>4. x \in Team!Accounts
  BY DEF TeamInv, Workspaces, Team!Accounts
<1>5. members' \in Workspaces /\ members'[m] = x
  BY <1>3, <1>4, ReplacedMember DEF TeamInv, Workspaces
<1>. HIDE DEF x
<1>6. [w EXCEPT ![m] = x] \in Workspaces /\ Team!Show([w EXCEPT ![m] = x])
  BY <1>3, <1>4, <1>5, ReplacedMember
<1>7. PICK v \in Workspaces : Team!Show(v)
  BY <1>6
<1>8. known' = <<v>> /\ member' \in Members /\ editor' \in Editors /\ InputsFollowSelection'
  BY <1>7, TeamShowKeeps
<1>. QED
  BY <1>1, <1>3, <1>5, <1>8 DEF TeamInv, RequestInPlace, PageInPlace

LEMMA TeamCsvKeeps ==
  ASSUME Roster, TeamInv,
         Team!CsvDone \/ Team!CancelCsv \/ (\E made \in BOOLEAN : Team!CsvInvite(made))
         \/ \E n \in 1 .. MaxDrafts : Team!ReviewCsv(n) \/ Team!SendCsv(n)
  PROVE  TeamInv'
<1>1. UNCHANGED <<team, members, busy>> /\ team = "team" /\ known # <<>>
  BY DEF Team!CsvDone, Team!CancelCsv, Team!CsvInvite, Team!ReviewCsv, Team!SendCsv, TeamInv,
         PageInPlace
<1>2. CASE Team!Show(members)
  <2>1. known' = <<members>> /\ member' \in Members /\ editor' \in Editors /\ InputsFollowSelection'
    BY <1>2, TeamShowKeeps DEF TeamInv
  <2>2. RequestInPlace'
    BY <1>1, <2>1 DEF TeamInv, RequestInPlace
  <2>. QED
    BY <1>1, <2>1, <2>2 DEF TeamInv, PageInPlace
<1>3. CASE UNCHANGED <<known, member, editor, touched>>
  BY <1>1, <1>3 DEF TeamInv, RequestInPlace, PageInPlace, InputsFollowSelection
<1>. QED
  BY <1>2, <1>3 DEF Team!CsvDone, Team!CancelCsv, Team!CsvInvite, Team!ReviewCsv, Team!SendCsv

\* The page of an invitation and the one of the team are never open together.
LEMMA TeamInvitationKeeps ==
  ASSUME TeamInv, Team!DetailsArrive \/ Team!Accepted \/ \E token \in BOOLEAN : Team!Accept(token)
  PROVE  TeamInv'
<1>1. team = "invitation" /\ team' # "team" /\ UNCHANGED <<members, known, member, editor, touched, busy, invites>>
  BY DEF Team!DetailsArrive, Team!Accepted, Team!Accept, Team!Invitation
<1>2. busy = <<>> /\ known = <<>> /\ invites.state = "none"
  BY <1>1 DEF TeamInv, RequestInPlace, PageInPlace
<1>. QED
  BY <1>1, <1>2 DEF TeamInv, RequestInPlace, PageInPlace, InputsFollowSelection

LEMMA TeamOtherKeeps ==
  ASSUME TeamInv, Team!Refused \/ Team!Invite \/ Team!Leave \/ UNCHANGED teamVars
  PROVE  TeamInv'
<1>1. CASE Team!Refused \/ Team!Invite
  <2>1. UNCHANGED <<team, members, known, member, editor, touched, invites>>
        /\ (busy' = <<>> \/ (team = "team" /\ busy' = <<[kind |-> "load"]>>))
    BY <1>1 DEF Team!Refused, Team!Invite, Team!Ready
  <2>. QED
    BY <2>1 DEF TeamInv, RequestInPlace, PageInPlace, InputsFollowSelection
<1>2. CASE Team!Leave
  <2>1. Team!NoEditor \in Editors
    BY DEF Team!NoEditor, Editors
  <2>. QED
    BY <1>2, <2>1 DEF Team!Leave, TeamInv, RequestInPlace, PageInPlace, InputsFollowSelection,
         Team!NoCsv
<1>3. CASE UNCHANGED teamVars
  BY <1>3 DEF teamVars, TeamInv, RequestInPlace, PageInPlace, InputsFollowSelection
<1>. QED
  BY <1>1, <1>2, <1>3

LEMMA TeamNextInv == ASSUME Roster PROVE TeamInv /\ [Team!Next]_teamVars => TeamInv'
<1>. SUFFICES ASSUME TeamInv, [Team!Next]_teamVars
              PROVE  TeamInv'
  OBVIOUS
<1>. QED
  BY TeamLoadKeeps, TeamOpenKeeps, TeamSelectKeeps, TeamEditKeeps, TeamSendKeeps, TeamSavedKeeps,
       TeamRemovedKeeps, TeamCsvKeeps,
     TeamInvitationKeeps, TeamOtherKeeps
     DEF Team!Next, Team!Step, Team!Edits

LEMMA TeamInvFollows == ASSUME Roster PROVE TeamInv => Team!UntouchedSaveKeepsAccess
<1>. SUFFICES ASSUME TeamInv, Team!Editing, ~touched
              PROVE  Team!CanSave(editor.inputs)
                     /\ Team!SavedAccess(editor.inputs) = Team!WithBaseline(known[1][member].access)
  BY DEF Team!UntouchedSaveKeepsAccess
<1>1. PICK w \in Workspaces : known = <<w>>
  BY DEF Team!Editing, TeamInv, PageInPlace
<1>2. member \in Members
  BY DEF Team!Editing, TeamInv, PageInPlace
<1>3. w[member].access \in Team!Access /\ editor.inputs = Team!RoleInputs(w[member].access)
  BY <1>1, <1>2 DEF Team!Editing, Workspaces, Team!Accounts, TeamInv, InputsFollowSelection
<1>. QED
  BY <1>1, <1>3, RoundTrip

\* A step of another page leaves this one as it is.
LEMMA TeamSteps == [Next]_vars => [Team!Next]_teamVars
BY DEF Next, vars, SalePage, LedgerPage, ProductPage, TeamPages, BusinessPage, ReportsPages


\* UntouchedSaveKeepsAccess: the inputs of a member whose role was not edited, saved,
\* store the role, the baseline and the screens that are shown - those the member has
\* and those of the baseline -, whatever members, roles and screens there are, complete
\* or stored before the baseline was given a screen, and whatever was selected, edited,
\* loaded and removed before (TeamAccessPage's effects and saveEmployee, and the roles
\* that team/service.rs stores).
THEOREM UntouchedSaveIsHarmless == Spec => []UntouchedSaveKeepsAccess
<1>1. Init => TeamInv
  BY PagesAssumption, TeamInitInv DEF Init
<1>2. TeamInv /\ [Next]_vars => TeamInv'
  BY PagesAssumption, TeamNextInv, TeamSteps
<1>3. TeamInv => UntouchedSaveKeepsAccess
  BY PagesAssumption, TeamInvFollows DEF UntouchedSaveKeepsAccess
<1>. QED
  BY <1>1, <1>2, <1>3, PTL DEF Spec

-----------------------------------------------------------------------------
(* The tree of businesses and units. *)

\* What is put at the end of a list is in it.
LEMMA AppendRange ==
  ASSUME NEW S, NEW q \in Seq(S), NEW x \in S
  PROVE  Append(q, x) \in Seq(S) /\ Tree!Range(Append(q, x)) = Tree!Range(q) \cup {x}
<1>1. PICK n \in Nat : n = Len(q) /\ DOMAIN q = 1 .. n
  OBVIOUS
<1>2. PICK r \in Seq(S) : /\ r = Append(q, x) /\ DOMAIN r = 1 .. n + 1
                         /\ r[n + 1] = x /\ \A i \in 1 .. n : r[i] = q[i]
  <2>1. PICK r : r = Append(q, x)
    OBVIOUS
  <2>2. r \in Seq(S)
    BY <2>1
  <2>3. Len(r) = n + 1
    BY <1>1, <2>1
  <2>4. DOMAIN r = 1 .. n + 1
    BY <2>2, <2>3
  <2>5. r[n + 1] = x
    BY <1>1, <2>1
  <2>6. \A i \in 1 .. n : r[i] = q[i]
    BY <1>1, <2>1
  <2>. QED
    BY <2>1, <2>2, <2>4, <2>5, <2>6
<1>3. \A i \in 1 .. n + 1 : i \in 1 .. n \/ i = n + 1
  BY <1>1
<1>4. \A i \in 1 .. n : i \in 1 .. n + 1
  BY <1>1
<1>5. n + 1 \in 1 .. n + 1
  BY <1>1
<1>. QED
  BY <1>1, <1>2, <1>3, <1>4, <1>5 DEF Tree!Range

\* A list in the order of an answer has every member of a finite set once.
LEMMA OrderedOnce ==
  ASSUME NEW S, IsFiniteSet(S)
  PROVE  /\ Tree!Ordered(S) \in Seq(S)
         /\ Tree!IsInjective(Tree!Ordered(S))
         /\ Tree!Range(Tree!Ordered(S)) = S
<1>. DEFINE n == Cardinality(S)
            f == Tree!Ordered(S)
<1>1. Tree!Cardinality(S) = n
  BY DEF Tree!Cardinality, Cardinality, Tree!IsFiniteSet, IsFiniteSet
<1>2. n \in Nat /\ ExistsBijection(1 .. n, S)
  BY FS_CardinalityType
<1>3. f = CHOOSE g \in [1 .. n -> S] : Tree!IsInjective(g)
  BY <1>1 DEF Tree!Ordered, Tree!SetToSeq
<1>4. \E g \in [1 .. n -> S] : Tree!IsInjective(g)
  BY <1>2 DEF ExistsBijection, Bijection, Injection, IsInjective, Tree!IsInjective
<1>. HIDE DEF n, f
<1>5. f \in [1 .. n -> S] /\ Tree!IsInjective(f)
  BY <1>3, <1>4
<1>6. f \in Injection(1 .. n, S)
  BY <1>5 DEF Injection, IsInjective, Tree!IsInjective
<1>7. f \in Surjection(1 .. n, S)
  <2>1. Cardinality(1 .. n) = n
    BY <1>2, FS_Interval
  <2>. QED
    BY <1>6, <2>1, FS_Injection DEF n
<1>8. f \in Seq(S) /\ Tree!Range(f) = S
  BY <1>2, <1>5, <1>7 DEF Surjection, Tree!Range
<1>. QED
  BY <1>5, <1>8 DEF f

\* Businesses and units, on the server or in an answer.
Content == [businesses : SUBSET Tree!BusinessIds, units : SUBSET Tree!UnitRecords]

\* There are as many units as the bounds allow.
LEMMA ContentIsFinite ==
  ASSUME TreeBounds, NEW c \in Content
  PROVE  IsFiniteSet(c.businesses) /\ IsFiniteSet(c.units)
<1>1. IsFiniteSet(1 .. MaxBusinesses) /\ IsFiniteSet(1 .. MaxUnits)
  BY FS_Interval DEF TreeBounds
<1>2. c.businesses \subseteq 1 .. MaxBusinesses /\ c.units \subseteq Tree!UnitRecords
  BY DEF Content, Tree!BusinessIds
<1>. DEFINE pairs == (1 .. MaxUnits) \X (1 .. MaxBusinesses)
            made == [p \in pairs |-> [id |-> p[1], business |-> p[2]]]
<1>3. IsFiniteSet(pairs)
  BY <1>1, FS_Product
<1>4. made \in Surjection(pairs, Tree!UnitRecords)
  <2>1. \A p \in pairs : made[p] \in Tree!UnitRecords
    BY DEF Tree!UnitRecords, Tree!BusinessIds
  <2>2. ASSUME NEW u \in Tree!UnitRecords PROVE \E p \in pairs : made[p] = u
    <3>1. <<u.id, u.business>> \in pairs /\ made[<<u.id, u.business>>] = u
      BY DEF Tree!UnitRecords, Tree!BusinessIds
    <3>. QED
      BY <3>1
  <2>. HIDE DEF pairs
  <2>. QED
    BY <2>1, <2>2 DEF Surjection
<1>. HIDE DEF pairs, made
<1>5. IsFiniteSet(Tree!UnitRecords)
  BY <1>3, <1>4, FS_Surjection
<1>. QED
  BY <1>1, <1>2, <1>5, FS_Subset

\* A load, and what has been answered to it.
TreeLoads == [step : {"none", "businesses", "units", "arrive"}, got : Content]

\* What the page lists, in the order of the answer.
TreeLists == [businesses : Seq(Tree!BusinessIds), units : Seq(Tree!UnitRecords)]

\* The creation under way.
Creations ==
  [form : {"business"}, business : {0}, made : 0 .. MaxBusinesses]
  \cup [form : {"unit"}, business : Tree!BusinessIds, made : 0 .. MaxUnits]

\* Every variable has values of its kind.
TreeTypes ==
  /\ tree \in {"closed", "open"} /\ vault \in BOOLEAN /\ failed \in BOOLEAN
  /\ cache \in Content /\ server \in Content /\ shared \in Content
  /\ list \in TreeLists
  /\ loads \in [Slots -> TreeLoads]
  /\ selected \in 0 .. MaxBusinesses /\ forms \subseteq {"business", "unit"}
  /\ creating = <<>> \/ \E c \in Creations : creating = <<c>>

\* The units of an answer are those of its businesses.
Closed(c) == \A u \in c.units : u.business \in c.businesses

\* A list as an answer leaves it.
Once(l) ==
  /\ Tree!IsInjective(l.businesses) /\ Tree!IsInjective(l.units)
  /\ \A u \in Tree!Range(l.units) : u.business \in Tree!Range(l.businesses)

\* A list that is not as an answer leaves it is going to be replaced, or the load that
\* ended last has failed.
TreeInv ==
  /\ TreeTypes
  /\ \A s \in Slots : loads[s].step = "arrive" => Closed(loads[s].got)
  /\ tree = "open" => Once(list) \/ failed \/ \E s \in Slots : loads[s] # Tree!Free

\* An empty answer is one.
LEMMA NothingIsContent == Tree!Nothing \in Content
BY DEF Tree!Nothing, Content

\* An empty list has nothing twice.
LEMMA EmptyListIsGood ==
  ASSUME NEW l, l = [businesses |-> <<>>, units |-> <<>>]
  PROVE  l \in TreeLists /\ Once(l)
<1>1. l.businesses = <<>> /\ l.units = <<>>
  OBVIOUS
<1>2. l \in TreeLists
  BY DEF TreeLists
<1>3. Once(l)
  BY <1>1 DEF Once, Tree!IsInjective, Tree!Range
<1>. QED
  BY <1>2, <1>3

\* The states a load goes through.
LEMMA LoadTypes ==
  /\ Tree!Free \in TreeLoads /\ Tree!Asked \in TreeLoads
  /\ Tree!Free.step = "none" /\ Tree!Asked.step = "businesses"
BY NothingIsContent DEF Tree!Free, Tree!Asked, TreeLoads

\* At first the page is not there.
LEMMA TreeInitInv == ASSUME TreeBounds PROVE Tree!Init => TreeInv
<1>. SUFFICES ASSUME TreeBounds, Tree!Init PROVE TreeInv
  OBVIOUS
<1>1. [businesses |-> {1}, units |-> {}] \in Content
  BY DEF Content, Tree!BusinessIds, TreeBounds
<1>2. list \in TreeLists
  BY EmptyListIsGood DEF Tree!Init
<1>3. TreeTypes
  <2>1. loads \in [Slots -> TreeLoads]
    BY LoadTypes DEF Tree!Init
  <2>2. cache \in Content /\ shared \in Content /\ server \in Content
    BY <1>1, NothingIsContent DEF Tree!Init
  <2>3. selected \in 0 .. MaxBusinesses
    BY DEF Tree!Init, TreeBounds
  <2>. QED
    BY <1>2, <2>1, <2>2, <2>3 DEF Tree!Init, TreeTypes
<1>. QED
  BY <1>3, LoadTypes DEF Tree!Init, TreeInv

\* What a step does to one load, when it leaves the list and the outcome of the last
\* load alone.
LEMMA OneLoadKeeps ==
  ASSUME TreeInv, NEW s \in Slots, NEW l \in TreeLoads,
         l.step # "none", l.step = "arrive" => Closed(l.got),
         loads' = [loads EXCEPT ![s] = l],
         NEW c \in Content, cache' = c,
         UNCHANGED <<tree, vault, server, list, shared, failed, selected, forms, creating>>
  PROVE  TreeInv'
<1>1. TreeTypes'
  BY DEF TreeInv, TreeTypes
<1>2. loads'[s] = l /\ \A x \in Slots : x # s => loads'[x] = loads[x]
  BY DEF TreeInv, TreeTypes
<1>3. loads'[s] # Tree!Free
  BY <1>2, LoadTypes
<1>. QED
  BY <1>1, <1>2, <1>3 DEF TreeInv

\* What is kept of an answer.
LEMMA KeptType ==
  ASSUME TreeTypes, NEW c \in Content
  PROVE  Tree!Kept(c) \in Content
BY DEF TreeTypes, Tree!Kept, Content

\* A load that starts or goes on.
LEMMA TreeLoadKeeps ==
  ASSUME TreeBounds, TreeInv, NEW s \in Slots
  PROVE  /\ Tree!Online => TreeInv'
         /\ Tree!BusinessesAnswered(s) => TreeInv'
         /\ \A offline : Tree!UnitsAnswered(s, offline) => TreeInv'
<1>t. loads[s] \in TreeLoads /\ cache \in Content /\ server \in Content
  BY DEF TreeInv, TreeTypes
<1>1. ASSUME Tree!Online PROVE TreeInv'
  <2>1. PICK x \in Slots : loads' = [loads EXCEPT ![x] = Tree!Asked]
    <3>1. Tree!Cardinality({x \in Slots : loads[x] = Tree!Free}) > 1
      BY <1>1 DEF Tree!Online
    <3>2. {x \in Slots : loads[x] = Tree!Free} # {}
      <4>1. Tree!Cardinality({}) = 0
        BY FS_EmptySet DEF Tree!Cardinality, Cardinality, Tree!IsFiniteSet, IsFiniteSet
      <4>. QED
        BY <3>1, <4>1
    <3>3. loads' = [loads EXCEPT ![CHOOSE x \in Slots : loads[x] = Tree!Free] = Tree!Asked]
      BY <1>1 DEF Tree!Online
    <3>. QED
      BY <3>2, <3>3
  <2>. QED
    BY <1>t, <1>1, <2>1, LoadTypes, OneLoadKeeps DEF Tree!Online
<1>2. ASSUME Tree!BusinessesAnswered(s) PROVE TreeInv'
  <2>1. PICK bs \in {server.businesses} \cup {cache.businesses} :
          /\ loads' = [loads EXCEPT ![s] = [step |-> "units",
                                            got |-> [businesses |-> bs, units |-> {}]]]
          /\ cache' = Tree!Kept([businesses |-> bs, units |-> {}])
    BY <1>2 DEF Tree!BusinessesAnswered
  <2>. DEFINE got == [businesses |-> bs, units |-> {}]
              l == [step |-> "units", got |-> got]
  <2>2. got \in Content
    BY <1>t, <2>1 DEF Content
  <2>3. l \in TreeLoads /\ l.step = "units"
    BY <2>2 DEF TreeLoads
  <2>4. Tree!Kept(got) \in Content
    BY <2>2, KeptType DEF TreeInv
  <2>5. UNCHANGED <<tree, vault, server, list, shared, failed, selected, forms, creating>>
    BY <1>2 DEF Tree!BusinessesAnswered
  <2>. HIDE DEF got, l
  <2>. QED
    BY <2>1, <2>3, <2>4, <2>5, OneLoadKeeps DEF got, l
<1>3. ASSUME NEW offline, Tree!UnitsAnswered(s, offline) PROVE TreeInv'
  <2>. DEFINE bs == loads[s].got.businesses
              us == UNION {Tree!UnitsOf(b, IF b \in offline THEN cache.units ELSE server.units) :
                             b \in bs}
              got == [businesses |-> bs, units |-> us]
              l == [step |-> "arrive", got |-> got]
  <2>1. us \subseteq Tree!UnitRecords /\ \A u \in us : u.business \in bs
    BY <1>t DEF Tree!UnitsOf, Content
  <2>2. bs \subseteq Tree!BusinessIds
    BY <1>t DEF TreeLoads, Content
  <2>3. [loads[s].got EXCEPT !.units = us] = got
    <3>1. loads[s].got \in Content
      BY <1>t DEF TreeLoads
    <3>. HIDE DEF us
    <3>. QED
      BY <3>1 DEF Content
  <2>4. /\ loads' = [loads EXCEPT ![s] = [step |-> "arrive", got |-> [loads[s].got EXCEPT !.units = us]]]
        /\ cache' = Tree!Kept([businesses |-> {}, units |-> us])
        /\ UNCHANGED <<tree, vault, server, list, shared, failed, selected, forms, creating>>
    BY <1>t, <1>3 DEF Tree!UnitsAnswered
  <2>. HIDE DEF us, bs
  <2>5. Tree!Kept([businesses |-> {}, units |-> us]) \in Content
    <3>1. [businesses |-> {}, units |-> us] \in Content
      BY <2>1 DEF Content
    <3>. QED
      BY <3>1, KeptType DEF TreeInv
  <2>6. l \in TreeLoads /\ l.step = "arrive" /\ Closed(l.got)
    BY <2>1, <2>2 DEF TreeLoads, Content, Closed
  <2>7. loads' = [loads EXCEPT ![s] = l]
    BY <2>3, <2>4
  <2>. HIDE DEF got, l
  <2>. QED
    BY <2>4, <2>5, <2>6, <2>7, OneLoadKeeps
<1>. QED
  BY <1>1, <1>2, <1>3

\* A load that ends: what it shows is as an answer leaves it.
LEMMA TreeEndKeeps ==
  ASSUME TreeBounds, TreeInv, NEW s \in Slots, Tree!Arrive(s) \/ Tree!LoadFails(s)
  PROVE  TreeInv'
<1>t. TreeTypes
  BY DEF TreeInv
<1>1. loads' = [loads EXCEPT ![s] = Tree!Free]
  BY DEF Tree!Arrive, Tree!LoadFails
<1>2. loads' \in [Slots -> TreeLoads] /\ \A x \in Slots : loads'[x].step = "arrive" => loads'[x] = loads[x]
  BY <1>t, <1>1, LoadTypes DEF TreeTypes
<1>3. CASE Tree!LoadFails(s)
  <2>1. TreeTypes'
    BY <1>t, <1>2, <1>3 DEF Tree!LoadFails, TreeTypes
  <2>. QED
    BY <1>2, <1>3, <2>1 DEF Tree!LoadFails, TreeInv
<1>4. CASE Tree!Arrive(s)
  <2>1. PICK got : got = loads[s].got
    OBVIOUS
  <2>2. got \in Content /\ Closed(got)
    BY <1>t, <1>4, <2>1 DEF Tree!Arrive, TreeInv, TreeTypes, TreeLoads
  <2>3. /\ list' = [businesses |-> Tree!Ordered(got.businesses), units |-> Tree!Ordered(got.units)]
        /\ shared' = got
        /\ selected' = IF selected \in got.businesses THEN selected ELSE 0
        /\ UNCHANGED <<tree, vault, cache, server, forms, creating>>
        /\ failed' = FALSE
    BY <1>4, <2>1 DEF Tree!Arrive
  <2>4. IsFiniteSet(got.businesses) /\ IsFiniteSet(got.units)
    BY <2>2, ContentIsFinite
  <2>5. PICK bs : bs = Tree!Ordered(got.businesses)
    OBVIOUS
  <2>6. PICK us : us = Tree!Ordered(got.units)
    OBVIOUS
  <2>7. /\ bs \in Seq(got.businesses) /\ Tree!IsInjective(bs) /\ Tree!Range(bs) = got.businesses
        /\ us \in Seq(got.units) /\ Tree!IsInjective(us) /\ Tree!Range(us) = got.units
    BY <2>4, <2>5, <2>6, OrderedOnce
  <2>8. list'.businesses = bs /\ list'.units = us /\ list' = [businesses |-> bs, units |-> us]
    BY <2>3, <2>5, <2>6
  <2>9. list' \in TreeLists
    BY <2>2, <2>7, <2>8 DEF Content, TreeLists
  <2>10. Once(list')
    BY <2>2, <2>7, <2>8 DEF Once, Closed
  <2>11. selected' \in 0 .. MaxBusinesses
    BY <1>t, <2>3 DEF TreeTypes, TreeBounds
  <2>12. TreeTypes'
    BY <1>t, <1>2, <2>2, <2>3, <2>9, <2>11 DEF TreeTypes
  <2>. QED
    BY <1>2, <2>10, <2>12 DEF TreeInv, Once
<1>. QED
  BY <1>3, <1>4

\* Opening and leaving.
LEMMA TreeOpenKeeps ==
  ASSUME TreeBounds, TreeInv, Tree!OpenAny \/ Tree!Leave
  PROVE  TreeInv'
<1>t. TreeTypes
  BY DEF TreeInv
<1>1. CASE Tree!OpenAny
  <2>1. PICK v \in BOOLEAN : Tree!Open(v)
    BY <1>1 DEF Tree!OpenAny
  <2>2. PICK x \in Slots : loads' = [s \in Slots |-> IF s = x THEN Tree!Asked ELSE Tree!Free]
    BY <2>1 DEF Tree!Open, TreeBounds
  <2>3. /\ loads' \in [Slots -> TreeLoads]
        /\ \A s \in Slots : loads'[s].step # "arrive"
        /\ loads'[x] # Tree!Free
    BY <2>2, LoadTypes
  <2>4. TreeTypes'
    BY <1>t, <2>1, <2>3 DEF Tree!Open, TreeTypes
  <2>. QED
    BY <2>3, <2>4 DEF TreeInv
<1>2. CASE Tree!Leave
  <2>1. tree' = "closed" /\ list' = [businesses |-> <<>>, units |-> <<>>]
    BY <1>2 DEF Tree!Leave
  <2>2. list' \in TreeLists
    BY <2>1, EmptyListIsGood
  <2>3. selected' \in 0 .. MaxBusinesses /\ forms' \subseteq {"business", "unit"} /\ failed' \in BOOLEAN
    <3>1. selected' = 0 /\ forms' = {} /\ failed' = FALSE
      BY <1>2 DEF Tree!Leave
    <3>2. 0 \in 0 .. MaxBusinesses
      BY DEF TreeBounds
    <3>. QED
      BY <3>1, <3>2
  <2>4. UNCHANGED <<vault, cache, server, shared, loads, creating>>
    BY <1>2 DEF Tree!Leave
  <2>5. TreeTypes'
    BY <1>t, <2>1, <2>2, <2>3, <2>4 DEF TreeTypes
  <2>. QED
    BY <2>1, <2>4, <2>5 DEF TreeInv
<1>. QED
  BY <1>1, <1>2

\* The forms, and a creation on its way.
LEMMA TreeFormsKeep ==
  ASSUME TreeBounds, TreeInv
  PROVE  /\ \A b \in Tree!BusinessIds : Tree!SelectBusiness(b) => TreeInv'
         /\ \A form \in {"business", "unit"} : Tree!ToggleForm(form) \/ Tree!Submit(form) => TreeInv'
         /\ Tree!Made \/ Tree!CreateFails => TreeInv'
         /\ UNCHANGED treeVars => TreeInv'
<1>t. TreeTypes
  BY DEF TreeInv
<1>. SUFFICES ASSUME \/ \E b \in Tree!BusinessIds : Tree!SelectBusiness(b)
                     \/ \E form \in {"business", "unit"} : Tree!ToggleForm(form) \/ Tree!Submit(form)
                     \/ Tree!Made \/ Tree!CreateFails
                     \/ UNCHANGED treeVars
              PROVE  TreeInv'
  OBVIOUS
<1>1. UNCHANGED <<tree, list, loads, failed, cache, shared, vault>>
  BY DEF Tree!SelectBusiness, Tree!ToggleForm, Tree!Submit, Tree!Made, Tree!CreateFails, treeVars
<1>2. SUFFICES TreeTypes'
  BY <1>1 DEF TreeInv, Once
<1>3. SUFFICES /\ server' \in Content /\ selected' \in 0 .. MaxBusinesses
               /\ forms' \subseteq {"business", "unit"}
               /\ creating' = <<>> \/ \E c \in Creations : creating' = <<c>>
  BY <1>t, <1>1 DEF TreeTypes
<1>4. ASSUME NEW b \in Tree!BusinessIds, Tree!SelectBusiness(b)
      PROVE  UNCHANGED <<server, creating>> /\ selected' \in 0 .. MaxBusinesses /\ forms' \subseteq forms
  BY <1>4 DEF Tree!SelectBusiness, Tree!BusinessIds
<1>5. ASSUME NEW form \in {"business", "unit"}, Tree!ToggleForm(form)
      PROVE  UNCHANGED <<server, selected, creating>> /\ forms' \subseteq forms \cup {form}
  BY <1>5 DEF Tree!ToggleForm
<1>6. ASSUME NEW form \in {"business", "unit"}, Tree!Submit(form)
      PROVE  /\ UNCHANGED <<server, selected, forms>>
             /\ \E c \in Creations : creating' = <<c>>
  <2>1. CASE form = "business"
    <3>. DEFINE c == [form |-> "business", business |-> 0, made |-> 0]
    <3>1. c \in Creations
      BY DEF Creations, TreeBounds
    <3>. QED
      BY <1>6, <2>1, <3>1 DEF Tree!Submit
  <2>2. CASE form = "unit"
    <3>. DEFINE c == [form |-> "unit", business |-> selected, made |-> 0]
    <3>1. selected \in Tree!BusinessIds
      BY <1>t, <1>6, <2>2 DEF Tree!Submit, Tree!Shown, TreeTypes, TreeLists, Tree!Range
    <3>2. c \in Creations
      BY <3>1 DEF Creations, TreeBounds
    <3>. QED
      BY <1>6, <2>2, <3>2 DEF Tree!Submit
  <2>. QED
    BY <1>6, <2>1, <2>2 DEF Tree!Submit
<1>7. ASSUME Tree!Made
      PROVE  /\ server' \in Content /\ UNCHANGED <<selected, forms>>
             /\ \E c \in Creations : creating' = <<c>>
  <2>1. PICK c \in Creations : creating = <<c>> /\ creating[1] = c
    BY <1>t, <1>7 DEF TreeTypes, Tree!Made
  <2>2. IsFiniteSet(server.businesses) /\ IsFiniteSet(server.units)
    BY <1>t, ContentIsFinite DEF TreeTypes
  <2>3. Tree!Cardinality(server.businesses) \in Nat /\ Tree!Cardinality(server.units) \in Nat
    BY <2>2, FS_CardinalityType DEF Tree!Cardinality, Cardinality, Tree!IsFiniteSet, IsFiniteSet
  <2>4. CASE c.form = "business"
    <3>1. PICK b \in Tree!BusinessIds :
            /\ server' = [server EXCEPT !.businesses = @ \cup {b}]
            /\ creating' = <<[c EXCEPT !.made = b]>>
      BY <1>7, <2>1, <2>3, <2>4 DEF Tree!Made, Tree!NewBusiness, Tree!BusinessIds
    <3>2. [c EXCEPT !.made = b] \in Creations
      BY <2>4, <3>1 DEF Creations, Tree!BusinessIds
    <3>3. server' \in Content
      BY <1>t, <3>1 DEF TreeTypes, Content
    <3>. QED
      BY <1>7, <3>1, <3>2, <3>3 DEF Tree!Made
  <2>5. CASE c.form # "business"
    <3>1. c \in [form : {"unit"}, business : Tree!BusinessIds, made : 0 .. MaxUnits]
      BY <2>5 DEF Creations
    <3>2. PICK u : u = Tree!NewUnit(c.business)
      OBVIOUS
    <3>3. /\ u.id <= MaxUnits
          /\ server' = [server EXCEPT !.units = @ \cup {u}]
          /\ creating' = <<[c EXCEPT !.made = u.id]>>
      BY <1>7, <2>1, <2>5, <3>2 DEF Tree!Made
    <3>4. u \in Tree!UnitRecords /\ u.id \in 0 .. MaxUnits
      BY <2>3, <3>1, <3>2, <3>3 DEF Tree!NewUnit, Tree!UnitRecords, TreeBounds
    <3>5. [c EXCEPT !.made = u.id] \in Creations
      BY <3>1, <3>4 DEF Creations
    <3>6. server' \in Content
      BY <1>t, <3>3, <3>4 DEF TreeTypes, Content
    <3>. QED
      BY <1>7, <3>3, <3>5, <3>6 DEF Tree!Made
  <2>. QED
    BY <2>4, <2>5
<1>8. ASSUME Tree!CreateFails \/ UNCHANGED treeVars
      PROVE  /\ UNCHANGED <<server, selected, forms>>
             /\ creating' = <<>> \/ creating' = creating
  BY <1>8 DEF Tree!CreateFails, treeVars
<1>. QED
  BY <1>t, <1>4, <1>5, <1>6, <1>7, <1>8 DEF TreeTypes

\* The answer to a creation: what is shown has to be loaded again.
LEMMA TreeCreatedKeeps ==
  ASSUME TreeBounds, TreeInv, Tree!Created
  PROVE  TreeInv'
<1>t. TreeTypes
  BY DEF TreeInv
<1>1. PICK x \in Slots : loads' = [loads EXCEPT ![x] = Tree!Asked]
  BY DEF Tree!Created
<1>2. loads' \in [Slots -> TreeLoads] /\ loads'[x] # Tree!Free
  BY <1>t, <1>1, LoadTypes DEF TreeTypes
<1>3. \A s \in Slots : loads'[s].step = "arrive" => loads'[s] = loads[s]
  BY <1>t, <1>1, LoadTypes DEF TreeTypes
<1>4. PICK c \in Creations : creating = <<c>> /\ creating[1] = c
  BY <1>t DEF TreeTypes, Tree!Created, Tree!Answered
<1>5. PICK bs : bs = list.businesses
  OBVIOUS
<1>6. PICK us : us = list.units
  OBVIOUS
<1>7. /\ bs \in Seq(Tree!BusinessIds) /\ us \in Seq(Tree!UnitRecords)
      /\ list = [businesses |-> bs, units |-> us]
  BY <1>t, <1>5, <1>6 DEF TreeTypes, TreeLists
<1>8. /\ list' \in TreeLists /\ selected' \in 0 .. MaxBusinesses /\ cache' \in Content
  <2>1. CASE c.form = "business"
    <3>1. PICK b : b = c.made
      OBVIOUS
    <3>2. b \in Tree!BusinessIds
      BY <1>4, <2>1, <3>1 DEF Creations, Tree!BusinessIds, Tree!Created, Tree!Answered
    <3>3. /\ list' = [list EXCEPT !.businesses = Append(list.businesses, b)]
          /\ selected' = b
          /\ cache' = Tree!Kept([businesses |-> {b}, units |-> {}])
      BY <1>4, <2>1, <3>1 DEF Tree!Created, Tree!Answered
    <3>4. [businesses |-> {b}, units |-> {}] \in Content
      BY <3>2 DEF Content
    <3>5. Append(bs, b) \in Seq(Tree!BusinessIds)
      BY <1>7, <3>2
    <3>6. list' = [businesses |-> Append(bs, b), units |-> us]
      BY <1>7, <3>3
    <3>7. cache' \in Content
      BY <1>t, <3>3, <3>4, KeptType
    <3>. QED
      <4>1. selected' \in 0 .. MaxBusinesses
        BY <3>2, <3>3 DEF Tree!BusinessIds, TreeBounds
      <4>2. list' \in TreeLists
        BY <1>7, <3>5, <3>6 DEF TreeLists
      <4>. QED
        BY <3>7, <4>1, <4>2
  <2>2. CASE c.form # "business"
    <3>1. PICK u : u = [id |-> c.made, business |-> c.business]
      OBVIOUS
    <3>2. u \in Tree!UnitRecords
      BY <1>4, <2>2, <3>1 DEF Creations, Tree!UnitRecords, Tree!Created, Tree!Answered, TreeBounds
    <3>3. /\ list' = [list EXCEPT !.units = Append(list.units, u)]
          /\ selected' = selected
          /\ cache' = Tree!Kept([businesses |-> {}, units |-> {u}])
      BY <1>4, <2>2, <3>1 DEF Tree!Created, Tree!Answered
    <3>4. [businesses |-> {}, units |-> {u}] \in Content
      BY <3>2 DEF Content
    <3>5. Append(us, u) \in Seq(Tree!UnitRecords)
      BY <1>7, <3>2
    <3>6. list' = [businesses |-> bs, units |-> Append(us, u)]
      BY <1>7, <3>3
    <3>7. cache' \in Content
      BY <1>t, <3>3, <3>4, KeptType
    <3>. QED
      BY <1>t, <1>7, <3>3, <3>5, <3>6, <3>7 DEF TreeLists, TreeTypes
  <2>. QED
    BY <2>1, <2>2
<1>9. /\ UNCHANGED <<tree, vault, server, shared, failed>>
      /\ creating' = <<>> /\ forms' \subseteq forms
  BY DEF Tree!Created, Tree!Answered
<1>10. TreeTypes'
  BY <1>t, <1>2, <1>8, <1>9 DEF TreeTypes
<1>. QED
  BY <1>2, <1>3, <1>10 DEF TreeInv

\* Every step of the page keeps the invariant.
LEMMA TreeNextInv ==
  ASSUME TreeBounds
  PROVE  TreeInv /\ [Tree!Next]_treeVars => TreeInv'
<1>. SUFFICES ASSUME TreeBounds, TreeInv, [Tree!Next]_treeVars PROVE TreeInv'
  OBVIOUS
<1>1. CASE \E s \in Slots : \/ Tree!BusinessesAnswered(s) \/ Tree!Arrive(s) \/ Tree!LoadFails(s)
                           \/ \E offline \in SUBSET loads[s].got.businesses :
                                Tree!UnitsAnswered(s, offline)
  <2>1. PICK s \in Slots : \/ Tree!BusinessesAnswered(s) \/ Tree!Arrive(s) \/ Tree!LoadFails(s)
                         \/ \E offline : Tree!UnitsAnswered(s, offline)
    BY <1>1
  <2>. QED
    BY <2>1, TreeLoadKeeps, TreeEndKeeps
<1>2. CASE Tree!Online
  <2>1. PICK s \in Slots : TRUE
    BY DEF TreeBounds
  <2>. QED
    BY <1>2, <2>1, TreeLoadKeeps
<1>3. CASE Tree!OpenAny \/ Tree!Leave
  BY <1>3, TreeOpenKeeps
<1>4. CASE Tree!Created
  BY <1>4, TreeCreatedKeeps
<1>5. CASE \/ \E b \in Tree!BusinessIds : Tree!SelectBusiness(b)
           \/ \E form \in {"business", "unit"} : Tree!ToggleForm(form) \/ Tree!Submit(form)
           \/ Tree!Made \/ Tree!CreateFails
           \/ UNCHANGED treeVars
  BY <1>5, TreeFormsKeep
<1>. QED
  BY <1>1, <1>2, <1>3, <1>4, <1>5 DEF Tree!Next, Tree!Step

\* A step of another page leaves this one as it is.
LEMMA TreeSteps == [Next]_vars => [Tree!Next]_treeVars
BY DEF Next, vars, SalePage, LedgerPage, ProductPage, TeamPages, BusinessPage, ReportsPages

-----------------------------------------------------------------------------
(* What is created on the page stays in the list. *)

\* The businesses of an answer and those its units belong to.
BusinessesIn(c) == c.businesses \cup {u.business : u \in c.units}

\* One answer is part of another one.
Within(c, d) == c.businesses \subseteq d.businesses /\ c.units \subseteq d.units

\* Businesses the server has, and the device too when it keeps what it is told.
Known(B) == B \subseteq server.businesses /\ (vault => B \subseteq cache.businesses)

\* A load that was asked after the last creation has what was created here, as far as
\* it has been answered.
LoadHas(l) ==
  /\ l.step = "units" => BusinessesIn(news.own) \subseteq l.got.businesses
  /\ l.step = "arrive" => Within(news.own, l.got)

\* What is going to be put into the list is on the server.
CreationKnown(c) ==
  /\ c.form = "unit" => Known({c.business})
  /\ c.form = "business" /\ c.made # 0 => c.made \in server.businesses
  /\ c.form = "unit" /\ c.made # 0 => [id |-> c.made, business |-> c.business] \in server.units

\* What was created here is on the server and, with a vault, on the device.
OwnKnown ==
  /\ Known(BusinessesIn(news.own))
  /\ news.own.units \subseteq server.units
  /\ vault => news.own.units \subseteq cache.units

\* What is created here is on the server and on the device that answers in its place,
\* so that every load that is asked afterwards has it.
TreeNews ==
  /\ news \in [own : Content, before : SUBSET Slots, late : BOOLEAN]
  /\ tree = "closed" => list.businesses = <<>> /\ creating = <<>> /\ news = Tree!NoNews
  /\ cache.businesses \subseteq server.businesses
  /\ Known(Tree!Range(list.businesses))
  /\ \A s \in Slots : Known(loads[s].got.businesses)
  /\ \A c \in Creations : creating = <<c>> => CreationKnown(c)
  /\ OwnKnown
  /\ \A s \in news.before : loads[s] # Tree!Free
  /\ \A s \in Slots \ news.before : LoadHas(loads[s])
  /\ ~news.late => /\ news.own.businesses \subseteq Tree!Range(list.businesses)
                   /\ news.own.units \subseteq Tree!Range(list.units)

\* Nothing was created.
LEMMA NoNewsFacts ==
  /\ Tree!NoNews \in [own : Content, before : SUBSET Slots, late : BOOLEAN]
  /\ Tree!NoNews.own.businesses = {} /\ Tree!NoNews.own.units = {}
  /\ BusinessesIn(Tree!NoNews.own) = {} /\ Tree!NoNews.before = {}
<1>1. Tree!NoNews.own = Tree!Nothing /\ Tree!NoNews.before = {} /\ Tree!NoNews.late = FALSE
  BY DEF Tree!NoNews
<1>2. Tree!Nothing.businesses = {} /\ Tree!Nothing.units = {}
  BY DEF Tree!Nothing
<1>3. Tree!NoNews \in [own : Content, before : SUBSET Slots, late : BOOLEAN]
  BY NothingIsContent DEF Tree!NoNews
<1>. QED
  BY <1>1, <1>2, <1>3 DEF BusinessesIn

\* A load that has not been answered.
LEMMA NewLoads ==
  \A l \in {Tree!Free, Tree!Asked} :
    l.got.businesses = {} /\ l.step \notin {"units", "arrive"}
<1>1. Tree!Free.got = Tree!Nothing /\ Tree!Asked.got = Tree!Nothing
      /\ Tree!Free.step = "none" /\ Tree!Asked.step = "businesses"
  BY DEF Tree!Free, Tree!Asked
<1>2. Tree!Nothing.businesses = {}
  BY DEF Tree!Nothing
<1>. QED
  BY <1>1, <1>2

\* At first nothing is there.
LEMMA TreeNewsInit == ASSUME TreeBounds, Tree!Init PROVE TreeNews
<1>1. /\ news = Tree!NoNews /\ creating = <<>> /\ list.businesses = <<>> /\ cache.businesses = {}
      /\ \A s \in Slots : loads[s] = Tree!Free
  BY DEF Tree!Init, Tree!Nothing
<1>2. Tree!Range(list.businesses) = {}
  BY <1>1 DEF Tree!Range
<1>3. \A s \in Slots : Known(loads[s].got.businesses) /\ LoadHas(loads[s])
  BY <1>1, NewLoads DEF Known, LoadHas
<1>4. OwnKnown
  BY <1>1, NoNewsFacts DEF OwnKnown, Known
<1>5. \A c \in Creations : creating # <<c>>
  BY <1>1
<1>. QED
  BY <1>1, <1>2, <1>3, <1>4, <1>5, NoNewsFacts DEF TreeNews, Known

\* The forms, and a creation on its way: the list and the loads stay.
LEMMA NewsFormsKeep ==
  ASSUME TreeBounds, TreeInv, TreeNews,
         \/ \E b \in Tree!BusinessIds : Tree!SelectBusiness(b)
         \/ \E form \in {"business", "unit"} : Tree!ToggleForm(form) \/ Tree!Submit(form)
         \/ Tree!Made \/ Tree!CreateFails
         \/ UNCHANGED treeVars
  PROVE  TreeNews'
<1>1. UNCHANGED <<tree, vault, cache, list, loads, news>>
  BY DEF Tree!SelectBusiness, Tree!ToggleForm, Tree!Submit, Tree!Made, Tree!CreateFails, treeVars
<1>2. SUFFICES /\ server.businesses \subseteq server'.businesses
               /\ server.units \subseteq server'.units
               /\ tree = "closed" => creating' = <<>>
               /\ \A c \in Creations : creating' = <<c>> => CreationKnown(c)'
  BY <1>1 DEF TreeNews, OwnKnown, Known, LoadHas
<1>3. CASE \/ \E b \in Tree!BusinessIds : Tree!SelectBusiness(b)
           \/ \E form \in {"business", "unit"} : Tree!ToggleForm(form)
           \/ UNCHANGED treeVars
  <2>1. UNCHANGED <<server, creating>>
    BY <1>3 DEF Tree!SelectBusiness, Tree!ToggleForm, treeVars
  <2>. QED
    BY <1>1, <2>1 DEF TreeNews, CreationKnown, Known
<1>4. CASE Tree!CreateFails
  <2>1. server' = server /\ creating' = <<>>
    BY <1>4 DEF Tree!CreateFails
  <2>. QED
    BY <2>1
<1>5. CASE \E form \in {"business", "unit"} : Tree!Submit(form)
  <2>1. PICK form \in {"business", "unit"} : Tree!Submit(form)
    BY <1>5
  <2>2. PICK b : b = IF form = "unit" THEN selected ELSE 0
    OBVIOUS
  <2>3. /\ tree = "open" /\ server' = server
        /\ creating' = <<[form |-> form, business |-> b, made |-> 0]>>
    BY <2>1, <2>2 DEF Tree!Submit
  <2>4. form = "unit" => b \in Tree!Range(list.businesses)
    BY <2>1, <2>2 DEF Tree!Submit, Tree!Shown
  <2>5. ASSUME NEW c \in Creations, creating' = <<c>> PROVE CreationKnown(c)'
    <3>1. c = [form |-> form, business |-> b, made |-> 0]
      BY <2>3, <2>5
    <3>2. c.form = form /\ c.business = b /\ c.made = 0
      BY <3>1
    <3>3. form = "unit" => Known({b})
      BY <2>4 DEF TreeNews, Known
    <3>. QED
      BY <1>1, <2>3, <3>2, <3>3 DEF CreationKnown, Known
  <2>. QED
    BY <2>3, <2>5
<1>6. CASE Tree!Made
  <2>1. PICK c \in Creations : creating = <<c>> /\ creating[1] = c
    BY <1>6 DEF TreeInv, TreeTypes, Tree!Made
  <2>2. CreationKnown(c) /\ tree # "closed" /\ server \in Content
    BY <2>1 DEF TreeNews, TreeInv, TreeTypes
  <2>3. CASE c.form = "business"
    <3>1. PICK b : b = Tree!NewBusiness
      OBVIOUS
    <3>2. /\ server' = [server EXCEPT !.businesses = @ \cup {b}]
          /\ creating' = <<[c EXCEPT !.made = b]>>
      BY <1>6, <2>1, <2>3, <3>1 DEF Tree!Made
    <3>3. server'.businesses = server.businesses \cup {b} /\ server'.units = server.units
      BY <2>2, <3>2 DEF Content
    <3>4. ASSUME NEW d \in Creations, creating' = <<d>> PROVE CreationKnown(d)'
      <4>1. d = [c EXCEPT !.made = b]
        BY <3>2, <3>4
      <4>2. d.form = "business" /\ d.made = b
        BY <2>3, <4>1 DEF Creations
      <4>. QED
        BY <3>3, <4>2 DEF CreationKnown
    <3>. QED
      BY <2>2, <3>3, <3>4
  <2>4. CASE c.form # "business"
    <3>1. PICK u : u = Tree!NewUnit(c.business)
      OBVIOUS
    <3>2. /\ server' = [server EXCEPT !.units = @ \cup {u}]
          /\ creating' = <<[c EXCEPT !.made = u.id]>>
      BY <1>6, <2>1, <2>4, <3>1 DEF Tree!Made
    <3>3. server'.businesses = server.businesses /\ server'.units = server.units \cup {u}
      BY <2>2, <3>2 DEF Content
    <3>4. ASSUME NEW d \in Creations, creating' = <<d>> PROVE CreationKnown(d)'
      <4>1. d = [c EXCEPT !.made = u.id]
        BY <3>2, <3>4
      <4>2. c.form = "unit"
        BY <2>4 DEF Creations
      <4>3. d.form = "unit" /\ d.made = u.id /\ d.business = c.business
        BY <4>1, <4>2 DEF Creations
      <4>4. u = [id |-> d.made, business |-> d.business]
        BY <3>1, <4>3 DEF Tree!NewUnit
      <4>5. Known({c.business})
        BY <2>2, <4>2 DEF CreationKnown
      <4>. QED
        BY <1>1, <3>3, <4>3, <4>4, <4>5 DEF CreationKnown, Known
    <3>. QED
      BY <2>2, <3>3, <3>4
  <2>. QED
    BY <2>3, <2>4
<1>. QED
  BY <1>3, <1>4, <1>5, <1>6

\* What a page is told of, and a load, as records with their fields.
LEMMA ContentOf ==
  ASSUME NEW bs \in SUBSET Tree!BusinessIds, NEW us \in SUBSET Tree!UnitRecords
  PROVE  \E r \in Content : /\ r = [businesses |-> bs, units |-> us]
                            /\ r.businesses = bs /\ r.units = us
<1>1. [businesses |-> bs, units |-> us] \in Content
  BY DEF Content
<1>. QED
  BY <1>1

LEMMA LoadOf ==
  ASSUME NEW step \in {"none", "businesses", "units", "arrive"}, NEW got \in Content
  PROVE  \E l \in TreeLoads : l = [step |-> step, got |-> got] /\ l.step = step /\ l.got = got
<1>1. [step |-> step, got |-> got] \in TreeLoads
  BY DEF TreeLoads
<1>. QED
  BY <1>1

\* What a step does to one load and to what is kept on the device.
LEMMA NewsOneLoad ==
  ASSUME TreeInv, TreeNews, NEW s \in Slots, NEW l \in TreeLoads, l # Tree!Free,
         loads' = [loads EXCEPT ![s] = l],
         s \notin news.before => LoadHas(l),
         Known(l.got.businesses)',
         cache.businesses \subseteq cache'.businesses, cache.units \subseteq cache'.units,
         cache'.businesses \subseteq server.businesses,
         UNCHANGED <<tree, vault, server, list, creating, news>>
  PROVE  TreeNews'
<1>1. loads'[s] = l /\ \A x \in Slots : x # s => loads'[x] = loads[x]
  BY DEF TreeInv, TreeTypes
<1>2. \A x \in Slots : Known(loads[x].got.businesses)'
  BY <1>1 DEF TreeNews, Known
<1>3. \A x \in Slots \ news.before : LoadHas(loads[x])'
  BY <1>1 DEF TreeNews, LoadHas
<1>4. \A c \in Creations : creating = <<c>> => CreationKnown(c)'
  BY DEF TreeNews, CreationKnown, Known
<1>5. \A x \in news.before : loads'[x] # Tree!Free
  BY <1>1 DEF TreeNews
<1>6. OwnKnown' /\ Known(Tree!Range(list.businesses))'
  BY DEF TreeNews, OwnKnown, Known
<1>. QED
  BY <1>2, <1>3, <1>4, <1>5, <1>6 DEF TreeNews

\* What is kept of an answer is kept with all that was kept before.
LEMMA KeptGrows ==
  ASSUME TreeTypes, NEW c \in Content, NEW d, d = Tree!Kept(c)
  PROVE  /\ cache.businesses \subseteq d.businesses /\ cache.units \subseteq d.units
         /\ d.businesses \subseteq cache.businesses \cup c.businesses
         /\ vault => c.businesses \subseteq d.businesses /\ c.units \subseteq d.units
BY DEF TreeTypes, Tree!Kept, Content

\* A load that starts or goes on.
LEMMA NewsLoadKeeps ==
  ASSUME TreeBounds, TreeInv, TreeNews, NEW s \in Slots
  PROVE  /\ Tree!Online => TreeNews'
         /\ Tree!BusinessesAnswered(s) => TreeNews'
         /\ \A offline : Tree!UnitsAnswered(s, offline) => TreeNews'
<1>t. TreeTypes /\ loads[s] \in TreeLoads /\ cache \in Content /\ server \in Content
      /\ news.own \in Content
  BY DEF TreeInv, TreeTypes, TreeNews
<1>1. ASSUME Tree!Online PROVE TreeNews'
  <2>1. PICK x \in Slots : loads' = [loads EXCEPT ![x] = Tree!Asked]
    <3>1. Tree!Cardinality({x \in Slots : loads[x] = Tree!Free}) > 1
      BY <1>1 DEF Tree!Online
    <3>2. {x \in Slots : loads[x] = Tree!Free} # {}
      <4>1. Tree!Cardinality({}) = 0
        BY FS_EmptySet DEF Tree!Cardinality, Cardinality, Tree!IsFiniteSet, IsFiniteSet
      <4>. QED
        BY <3>1, <4>1
    <3>3. loads' = [loads EXCEPT ![CHOOSE x \in Slots : loads[x] = Tree!Free] = Tree!Asked]
      BY <1>1 DEF Tree!Online
    <3>. QED
      BY <3>2, <3>3
  <2>2. UNCHANGED <<tree, vault, cache, server, list, creating, news>>
    BY <1>1 DEF Tree!Online
  <2>3. LoadHas(Tree!Asked) /\ Known(Tree!Asked.got.businesses)' /\ Tree!Asked # Tree!Free
    BY NewLoads, LoadTypes DEF LoadHas, Known
  <2>4. cache.businesses \subseteq server.businesses
    BY DEF TreeNews
  <2>. QED
    BY <2>1, <2>2, <2>3, <2>4, LoadTypes, NewsOneLoad
<1>2. ASSUME Tree!BusinessesAnswered(s) PROVE TreeNews'
  <2>1. PICK bs \in {server.businesses} \cup (IF vault THEN {cache.businesses} ELSE {}) :
          /\ loads' = [loads EXCEPT ![s] = [step |-> "units",
                                            got |-> [businesses |-> bs, units |-> {}]]]
          /\ cache' = Tree!Kept([businesses |-> bs, units |-> {}])
    BY <1>2 DEF Tree!BusinessesAnswered
  <2>2. PICK got \in Content : got = [businesses |-> bs, units |-> {}] /\ got.businesses = bs
    <3>1. bs \in SUBSET Tree!BusinessIds
      BY <1>t, <2>1 DEF Content
    <3>. QED
      BY <3>1, ContentOf
  <2>3. PICK l \in TreeLoads : l = [step |-> "units", got |-> got] /\ l.step = "units" /\ l.got = got
    BY LoadOf
  <2>4. UNCHANGED <<tree, vault, server, list, creating, news>>
    BY <1>2 DEF Tree!BusinessesAnswered
  <2>5. bs \subseteq server.businesses /\ BusinessesIn(news.own) \subseteq bs
    BY <2>1 DEF TreeNews, OwnKnown, Known
  <2>6. PICK d : d = cache' /\ d = Tree!Kept(got)
    BY <2>1, <2>2
  <2>7. /\ cache.businesses \subseteq d.businesses /\ cache.units \subseteq d.units
        /\ d.businesses \subseteq server.businesses
        /\ vault => bs \subseteq d.businesses
    BY <1>t, <2>2, <2>5, <2>6, KeptGrows DEF TreeNews
  <2>8. LoadHas(l) /\ l # Tree!Free
    BY <2>2, <2>3, <2>5, LoadTypes DEF LoadHas
  <2>9. Known(l.got.businesses)'
    BY <2>2, <2>3, <2>4, <2>5, <2>6, <2>7 DEF Known
  <2>. QED
    BY <2>1, <2>2, <2>3, <2>4, <2>6, <2>7, <2>8, <2>9, NewsOneLoad
<1>3. ASSUME NEW offline, Tree!UnitsAnswered(s, offline) PROVE TreeNews'
  <2>1. PICK bs : bs = loads[s].got.businesses
    OBVIOUS
  <2>2. PICK us : us = UNION {Tree!UnitsOf(b, IF b \in offline THEN cache.units ELSE server.units) :
                                b \in bs}
    OBVIOUS
  <2>3. /\ loads' = [loads EXCEPT ![s] = [step |-> "arrive", got |-> [loads[s].got EXCEPT !.units = us]]]
        /\ cache' = Tree!Kept([businesses |-> {}, units |-> us])
        /\ UNCHANGED <<tree, vault, server, list, creating, news>>
        /\ \A b \in offline : vault
        /\ loads[s].step = "units"
    BY <1>t, <1>3, <2>1, <2>2 DEF Tree!UnitsAnswered
  <2>4. us \subseteq Tree!UnitRecords
    BY <1>t, <2>2 DEF Tree!UnitsOf, Content
  <2>5. PICK got \in Content : /\ got = [loads[s].got EXCEPT !.units = us]
                              /\ got.businesses = bs /\ got.units = us
    <3>1. PICK old \in Content : old = loads[s].got /\ old.businesses = bs
      BY <1>t, <2>1 DEF TreeLoads
    <3>2. [old EXCEPT !.units = us] = [businesses |-> bs, units |-> us]
      BY <3>1 DEF Content
    <3>3. bs \in SUBSET Tree!BusinessIds
      BY <3>1 DEF Content
    <3>. QED
      BY <2>4, <3>1, <3>2, <3>3, ContentOf
  <2>6. PICK l \in TreeLoads : l = [step |-> "arrive", got |-> got] /\ l.step = "arrive" /\ l.got = got
    BY LoadOf
  <2>7. PICK kept \in Content : kept = [businesses |-> {}, units |-> us] /\ kept.businesses = {}
    BY <2>4, ContentOf
  <2>8. PICK d : d = cache' /\ d = Tree!Kept(kept)
    BY <2>3, <2>7
  <2>9. /\ cache.businesses \subseteq d.businesses /\ cache.units \subseteq d.units
        /\ d.businesses \subseteq server.businesses
    BY <1>t, <2>7, <2>8, KeptGrows DEF TreeNews
  <2>10. s \notin news.before => LoadHas(l)
    <3>1. ASSUME s \notin news.before PROVE Within(news.own, got)
      <4>1. BusinessesIn(news.own) \subseteq bs
        BY <2>1, <2>3, <3>1 DEF TreeNews, LoadHas
      <4>2. ASSUME NEW u \in news.own.units PROVE u \in us
        <5>1. u.business \in bs
          BY <4>1 DEF BusinessesIn
        <5>2. u \in server.units /\ (vault => u \in cache.units)
          BY DEF TreeNews, OwnKnown
        <5>3. u \in Tree!UnitsOf(u.business,
                                 IF u.business \in offline THEN cache.units ELSE server.units)
          BY <2>3, <5>2 DEF Tree!UnitsOf
        <5>. QED
          BY <2>2, <5>1, <5>3
      <4>. QED
        BY <2>5, <4>1, <4>2 DEF Within, BusinessesIn
    <3>. QED
      BY <2>6, <3>1 DEF LoadHas
  <2>11. Known(bs)
    BY <2>1 DEF TreeNews
  <2>12. Known(l.got.businesses)' /\ l # Tree!Free
    BY <2>3, <2>5, <2>6, <2>8, <2>9, <2>11, LoadTypes DEF Known
  <2>. QED
    BY <2>3, <2>5, <2>6, <2>8, <2>9, <2>10, <2>12, NewsOneLoad
<1>. QED
  BY <1>1, <1>2, <1>3

\* A load that ends.
LEMMA NewsEndKeeps ==
  ASSUME TreeBounds, TreeInv, TreeNews, NEW s \in Slots, Tree!Arrive(s) \/ Tree!LoadFails(s)
  PROVE  TreeNews'
<1>t. TreeTypes /\ news \in [own : Content, before : SUBSET Slots, late : BOOLEAN]
  BY DEF TreeInv, TreeNews
<1>1. /\ loads' = [loads EXCEPT ![s] = Tree!Free]
      /\ UNCHANGED <<tree, vault, cache, server, creating>> /\ tree = "open"
  BY DEF Tree!Arrive, Tree!LoadFails
<1>2. loads'[s] = Tree!Free /\ \A x \in Slots : x # s => loads'[x] = loads[x]
  BY <1>t, <1>1 DEF TreeTypes
<1>3. PICK before : before = news.before \ {s}
  OBVIOUS
<1>4. PICK late \in BOOLEAN :
        /\ news' = [news EXCEPT !.before = before, !.late = late]
        /\ Tree!LoadFails(s) => late = news.late
        /\ Tree!Arrive(s) => late = (s \in news.before)
  <2>1. CASE Tree!Arrive(s)
    <3>1. PICK late \in BOOLEAN : late = (s \in news.before)
      <4>1. CASE s \in news.before
        <5>1. TRUE = (s \in news.before)
          BY <4>1
        <5>. QED
          BY <5>1
      <4>2. CASE s \notin news.before
        <5>1. FALSE = (s \in news.before)
          BY <4>2
        <5>. QED
          BY <5>1
      <4>. QED
        BY <4>1, <4>2
    <3>2. news' = [news EXCEPT !.before = before, !.late = late] /\ ~Tree!LoadFails(s)
      BY <1>3, <2>1, <3>1 DEF Tree!Arrive, Tree!LoadFails
    <3>. QED
      BY <2>1, <3>1, <3>2
  <2>2. CASE ~Tree!Arrive(s)
    <3>1. news' = [news EXCEPT !.before = before]
      BY <1>3, <2>2 DEF Tree!LoadFails
    <3>2. PICK late \in BOOLEAN : late = news.late
      BY <1>t
    <3>3. [news EXCEPT !.before = before] = [news EXCEPT !.before = before, !.late = late]
      BY <1>t, <3>2
    <3>. QED
      BY <2>2, <3>1, <3>2, <3>3
  <2>. QED
    BY <2>1, <2>2
<1>5. /\ news'.own = news.own /\ news'.before = before /\ news'.late = late
      /\ news' \in [own : Content, before : SUBSET Slots, late : BOOLEAN]
  BY <1>t, <1>3, <1>4
<1>6. \A x \in Slots : Known(loads[x].got.businesses)'
  BY <1>1, <1>2, NewLoads DEF TreeNews, Known
<1>7. \A x \in Slots \ before : LoadHas(loads[x])'
  BY <1>2, <1>3, <1>5, NewLoads DEF TreeNews, LoadHas
<1>8. \A x \in before : loads'[x] # Tree!Free
  BY <1>t, <1>2, <1>3 DEF TreeNews
<1>9. OwnKnown'
  BY <1>1, <1>5 DEF TreeNews, OwnKnown, Known
<1>10. \A c \in Creations : creating = <<c>> => CreationKnown(c)'
  BY <1>1 DEF TreeNews, CreationKnown, Known
<1>11. /\ Known(Tree!Range(list.businesses))'
       /\ ~late => /\ news.own.businesses \subseteq Tree!Range(list'.businesses)
                   /\ news.own.units \subseteq Tree!Range(list'.units)
  <2>1. CASE Tree!LoadFails(s)
    <3>1. list' = list /\ late = news.late
      BY <1>4, <2>1 DEF Tree!LoadFails
    <3>. QED
      BY <1>1, <3>1 DEF TreeNews, Known
  <2>2. CASE Tree!Arrive(s)
    <3>1. PICK got \in Content : got = loads[s].got
      BY <1>t DEF TreeTypes, TreeLoads
    <3>2. list' = [businesses |-> Tree!Ordered(got.businesses), units |-> Tree!Ordered(got.units)]
      BY <2>2, <3>1 DEF Tree!Arrive
    <3>3. IsFiniteSet(got.businesses) /\ IsFiniteSet(got.units)
      BY ContentIsFinite
    <3>4. list'.businesses = Tree!Ordered(got.businesses) /\ list'.units = Tree!Ordered(got.units)
      BY <3>2
    <3>5. Tree!Range(list'.businesses) = got.businesses /\ Tree!Range(list'.units) = got.units
      BY <3>3, <3>4, OrderedOnce
    <3>6. Known(got.businesses)
      BY <3>1 DEF TreeNews
    <3>7. ~late => Within(news.own, got)
      BY <1>4, <2>2, <3>1 DEF TreeNews, LoadHas, Tree!Arrive
    <3>. QED
      BY <1>1, <3>5, <3>6, <3>7 DEF Known, Within
  <2>. QED
    BY <2>1, <2>2
<1>. QED
  BY <1>1, <1>5, <1>6, <1>7, <1>8, <1>9, <1>10, <1>11 DEF TreeNews

\* Opening and leaving.
LEMMA NewsOpenKeeps ==
  ASSUME TreeBounds, TreeInv, TreeNews, Tree!OpenAny \/ Tree!Leave
  PROVE  TreeNews'
<1>1. /\ UNCHANGED <<cache, server, creating>> /\ creating = <<>>
      /\ news' = Tree!NoNews /\ list'.businesses = <<>>
  <2>1. CASE Tree!Leave
    BY <2>1 DEF Tree!Leave
  <2>2. CASE Tree!OpenAny
    BY <2>2 DEF Tree!OpenAny, Tree!Open, TreeNews
  <2>. QED
    BY <2>1, <2>2
<1>2. \A s \in Slots : loads'[s] \in {Tree!Free, Tree!Asked}
  <2>1. CASE Tree!Leave
    BY <2>1 DEF Tree!Leave
  <2>2. CASE Tree!OpenAny
    BY <2>2 DEF Tree!OpenAny, Tree!Open
  <2>. QED
    BY <2>1, <2>2
<1>3. Tree!Range(list'.businesses) = {}
  BY <1>1 DEF Tree!Range
<1>4. \A s \in Slots : Known(loads[s].got.businesses)' /\ LoadHas(loads[s])'
  BY <1>2, NewLoads DEF Known, LoadHas
<1>5. OwnKnown'
  BY <1>1, NoNewsFacts DEF OwnKnown, Known
<1>6. \A c \in Creations : creating' # <<c>>
  BY <1>1
<1>. QED
  BY <1>1, <1>3, <1>4, <1>5, <1>6, NoNewsFacts DEF TreeNews, Known

\* The answer to a creation: what is new is in the list, and on the device.
LEMMA NewsCreatedKeeps ==
  ASSUME TreeBounds, TreeInv, TreeNews, Tree!Created
  PROVE  TreeNews'
<1>t. TreeTypes /\ news \in [own : Content, before : SUBSET Slots, late : BOOLEAN]
  BY DEF TreeInv, TreeNews
<1>1. PICK x \in Slots : loads[x] = Tree!Free /\ loads' = [loads EXCEPT ![x] = Tree!Asked]
  BY DEF Tree!Created
<1>2. loads'[x] = Tree!Asked /\ \A y \in Slots : y # x => loads'[y] = loads[y]
  BY <1>t, <1>1 DEF TreeTypes
<1>3. PICK c \in Creations : creating = <<c>> /\ creating[1] = c /\ CreationKnown(c)
  BY <1>t DEF TreeTypes, Tree!Created, Tree!Answered, TreeNews
<1>4. /\ UNCHANGED <<tree, vault, server>> /\ creating' = <<>> /\ c.made # 0 /\ tree # "closed"
  BY <1>3 DEF Tree!Created, Tree!Answered, TreeNews
<1>5. PICK bs \in Seq(Tree!BusinessIds), us \in Seq(Tree!UnitRecords) :
        list = [businesses |-> bs, units |-> us] /\ list.businesses = bs /\ list.units = us
  BY <1>t DEF TreeTypes, TreeLists
<1>6. PICK new \in Content, nbs \in Seq(Tree!BusinessIds), nus \in Seq(Tree!UnitRecords) :
        /\ cache' = Tree!Kept(new) /\ Tree!Told(new)
        /\ list'.businesses = nbs /\ list'.units = nus
        /\ Tree!Range(nbs) = Tree!Range(bs) \cup new.businesses
        /\ Tree!Range(nus) = Tree!Range(us) \cup new.units
        /\ new.units \subseteq server.units /\ BusinessesIn(new) \subseteq server.businesses
        /\ vault => {u.business : u \in new.units} \subseteq cache.businesses
  <2>1. CASE c.form = "business"
    <3>1. PICK b : b = c.made
      OBVIOUS
    <3>2. b \in Tree!BusinessIds
      BY <1>4, <2>1, <3>1 DEF Creations, Tree!BusinessIds
    <3>3. PICK new \in Content : new = [businesses |-> {b}, units |-> {}]
                                 /\ new.businesses = {b} /\ new.units = {}
      <4>1. {b} \in SUBSET Tree!BusinessIds /\ {} \in SUBSET Tree!UnitRecords
        BY <3>2
      <4>. QED
        BY <4>1, ContentOf
    <3>4. /\ list' = [list EXCEPT !.businesses = Append(list.businesses, b)]
          /\ cache' = Tree!Kept(new) /\ Tree!Told(new)
      BY <1>3, <2>1, <3>1, <3>3 DEF Tree!Created, Tree!Answered
    <3>5. list'.businesses = Append(bs, b) /\ list'.units = us
      BY <1>5, <3>4
    <3>6. Append(bs, b) \in Seq(Tree!BusinessIds) /\ Tree!Range(Append(bs, b)) = Tree!Range(bs) \cup {b}
      BY <3>2, AppendRange
    <3>7. b \in server.businesses
      BY <1>3, <1>4, <2>1, <3>1 DEF CreationKnown
    <3>. QED
      BY <3>3, <3>4, <3>5, <3>6, <3>7 DEF BusinessesIn
  <2>2. CASE c.form # "business"
    <3>1. PICK u : u = [id |-> c.made, business |-> c.business] /\ u.business = c.business
      <4>1. [id |-> c.made, business |-> c.business].business = c.business
        OBVIOUS
      <4>. QED
        BY <4>1
    <3>2. u \in Tree!UnitRecords /\ c.form = "unit"
      BY <1>4, <2>2, <3>1 DEF Creations, Tree!UnitRecords, TreeBounds
    <3>3. PICK new \in Content : new = [businesses |-> {}, units |-> {u}]
                                 /\ new.businesses = {} /\ new.units = {u}
      <4>1. PICK none \in SUBSET Tree!BusinessIds : none = {}
        OBVIOUS
      <4>2. PICK one \in SUBSET Tree!UnitRecords : one = {u}
        BY <3>2
      <4>3. PICK r \in Content : /\ r = [businesses |-> none, units |-> one]
                                /\ r.businesses = none /\ r.units = one
        BY ContentOf
      <4>. QED
        BY <4>1, <4>2, <4>3
    <3>4. /\ list' = [list EXCEPT !.units = Append(list.units, u)]
          /\ cache' = Tree!Kept(new) /\ Tree!Told(new)
      BY <1>3, <2>2, <3>1, <3>3 DEF Tree!Created, Tree!Answered
    <3>5. list'.businesses = bs /\ list'.units = Append(us, u)
      BY <1>5, <3>4
    <3>6. Append(us, u) \in Seq(Tree!UnitRecords) /\ Tree!Range(Append(us, u)) = Tree!Range(us) \cup {u}
      BY <3>2, AppendRange
    <3>7. u \in server.units /\ Known({u.business})
      BY <1>3, <1>4, <3>1, <3>2 DEF CreationKnown
    <3>. QED
      BY <3>3, <3>4, <3>5, <3>6, <3>7 DEF BusinessesIn, Known
  <2>. QED
    BY <2>1, <2>2
<1>7. PICK d : d = cache' /\ d = Tree!Kept(new)
  BY <1>6
<1>8. /\ cache.businesses \subseteq d.businesses /\ cache.units \subseteq d.units
      /\ d.businesses \subseteq server.businesses
      /\ vault => new.businesses \subseteq d.businesses /\ new.units \subseteq d.units
  BY <1>t, <1>6, <1>7, KeptGrows DEF TreeNews, BusinessesIn
<1>9. PICK own \in Content : /\ own.businesses = news.own.businesses \cup new.businesses
                            /\ own.units = news.own.units \cup new.units
                            /\ news'.own = own
                            /\ news'.late = news.late
                            /\ news'.before = {s \in Slots : loads[s] # Tree!Free}
                            /\ news' \in [own : Content, before : SUBSET Slots, late : BOOLEAN]
  <2>1. PICK own : own = [businesses |-> news.own.businesses \cup new.businesses,
                         units |-> news.own.units \cup new.units]
    OBVIOUS
  <2>2. /\ own \in Content /\ own.businesses = news.own.businesses \cup new.businesses
        /\ own.units = news.own.units \cup new.units
    BY <1>t, <2>1 DEF Content
  <2>3. PICK before : before = {s \in Slots : loads[s] # Tree!Free}
    OBVIOUS
  <2>4. news' = [news EXCEPT !.own = own, !.before = before]
    BY <1>6, <2>1, <2>3 DEF Tree!Told
  <2>5. /\ news'.own = own /\ news'.late = news.late /\ news'.before = before
        /\ news' \in [own : Content, before : SUBSET Slots, late : BOOLEAN]
    BY <1>t, <2>2, <2>3, <2>4
  <2>. QED
    BY <2>2, <2>3, <2>5
<1>10. Known(BusinessesIn(own))' /\ OwnKnown'
  <2>1. BusinessesIn(own) = BusinessesIn(news.own) \cup BusinessesIn(new)
    BY <1>9 DEF BusinessesIn
  <2>2. BusinessesIn(own) \subseteq server.businesses
    BY <1>6, <2>1 DEF TreeNews, OwnKnown, Known
  <2>3. vault => BusinessesIn(new) \subseteq d.businesses
    BY <1>6, <1>8 DEF BusinessesIn
  <2>4. vault => BusinessesIn(own) \subseteq d.businesses
    BY <1>8, <2>1, <2>3 DEF TreeNews, OwnKnown, Known
  <2>5. own.units \subseteq server.units /\ (vault => own.units \subseteq d.units)
    BY <1>6, <1>8, <1>9 DEF TreeNews, OwnKnown
  <2>. QED
    BY <1>4, <1>7, <1>9, <2>2, <2>4, <2>5 DEF OwnKnown, Known
<1>11. \A y \in Slots : Known(loads[y].got.businesses)'
  BY <1>2, <1>4, <1>7, <1>8, NewLoads DEF TreeNews, Known
<1>12. \A y \in Slots \ news'.before : LoadHas(loads[y])'
  BY <1>1, <1>2, <1>9, NewLoads DEF LoadHas
<1>13. \A y \in news'.before : loads'[y] # Tree!Free
  BY <1>1, <1>2, <1>9
<1>14. Known(Tree!Range(list.businesses))'
  <2>1. Known(Tree!Range(bs))
    BY <1>5 DEF TreeNews
  <2>2. Tree!Range(nbs) \subseteq server.businesses /\ (vault => Tree!Range(nbs) \subseteq d.businesses)
    BY <1>6, <1>8, <2>1 DEF Known, BusinessesIn
  <2>. QED
    BY <1>4, <1>6, <1>7, <2>2 DEF Known
<1>15. ~news.late => /\ own.businesses \subseteq Tree!Range(nbs)
                    /\ own.units \subseteq Tree!Range(nus)
  BY <1>5, <1>6, <1>9 DEF TreeNews
<1>. QED
  BY <1>4, <1>6, <1>7, <1>8, <1>9, <1>10, <1>11, <1>12, <1>13, <1>14, <1>15 DEF TreeNews

\* Every step of the page keeps what was created.
LEMMA TreeNewsNext ==
  ASSUME TreeBounds
  PROVE  TreeInv /\ TreeNews /\ [Tree!Next]_treeVars => TreeNews'
<1>. SUFFICES ASSUME TreeBounds, TreeInv, TreeNews, [Tree!Next]_treeVars PROVE TreeNews'
  OBVIOUS
<1>1. CASE \E s \in Slots : \/ Tree!BusinessesAnswered(s) \/ Tree!Arrive(s) \/ Tree!LoadFails(s)
                           \/ \E offline \in SUBSET loads[s].got.businesses :
                                Tree!UnitsAnswered(s, offline)
  <2>1. PICK s \in Slots : \/ Tree!BusinessesAnswered(s) \/ Tree!Arrive(s) \/ Tree!LoadFails(s)
                         \/ \E offline : Tree!UnitsAnswered(s, offline)
    BY <1>1
  <2>. QED
    BY <2>1, NewsLoadKeeps, NewsEndKeeps
<1>2. CASE Tree!Online
  <2>1. PICK s \in Slots : TRUE
    BY DEF TreeBounds
  <2>. QED
    BY <1>2, <2>1, NewsLoadKeeps
<1>3. CASE Tree!OpenAny \/ Tree!Leave
  BY <1>3, NewsOpenKeeps
<1>4. CASE Tree!Created
  BY <1>4, NewsCreatedKeeps
<1>5. CASE \/ \E b \in Tree!BusinessIds : Tree!SelectBusiness(b)
           \/ \E form \in {"business", "unit"} : Tree!ToggleForm(form) \/ Tree!Submit(form)
           \/ Tree!Made \/ Tree!CreateFails
           \/ UNCHANGED treeVars
  BY <1>5, NewsFormsKeep
<1>. QED
  BY <1>1, <1>2, <1>3, <1>4, <1>5 DEF Tree!Next, Tree!Step

-----------------------------------------------------------------------------

\* ListSettles: when nothing is under way and the last load has succeeded, the tree has
\* nothing twice and units of listed businesses only; and what was created on the page
\* is listed from then on, whoever answers the loads, until a load that was asked before
\* is shown last.  In any order of the answers to loads and creations, for any number of
\* loads at a time (loadPage and the submit handlers of BusinessStructurePage).
THEOREM TreeListSettles == Spec => []ListSettles
<1>1. Init => TreeInv /\ TreeNews
  BY PagesAssumption, TreeInitInv, TreeNewsInit DEF Init
<1>2. TreeInv /\ TreeNews /\ [Next]_vars => TreeInv' /\ TreeNews'
  BY PagesAssumption, TreeNextInv, TreeNewsNext, TreeSteps
<1>3. TreeInv /\ TreeNews => ListSettles
  BY DEF TreeInv, TreeNews, Once, ListSettles, Tree!ListSettles, Tree!Quiet
<1>. QED
  BY <1>1, <1>2, <1>3, PTL DEF Spec
=============================================================================
