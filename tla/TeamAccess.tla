------------------------------- MODULE TeamAccess -------------------------------
(***************************************************************************)
(* The page on which the access of an employee is edited (pages/team), the  *)
(* invitations it sends, one by one or from a CSV file, and the page on     *)
(* which an invitation is accepted.                                        *)
(*                                                                         *)
(* The access of a member is a standard role, or a custom role that adds    *)
(* screens to a baseline role.  In the editor the role and the screens are *)
(* set again from the server's answer whenever the workspace or the         *)
(* selected member changes; the scope and the status are inputs of the     *)
(* browser, filled once when the member is selected.                       *)
(*                                                                         *)
(* What the server makes of a saved role is taken from team/service.rs.    *)
(***************************************************************************)
EXTENDS Naturals, FiniteSets

CONSTANTS Members,       \* employees in the workspace
          Baselines,     \* cashier, shop_manager and business_admin
          OtherRoles,    \* other standard roles
          Screens,       \* the options of screenAccessOptions
          BaseScreens,   \* [Baselines -> SUBSET Screens]: permissions of a baseline
          InitialAccess, \* [Members -> Access]
          MaxDrafts,     \* bound: invitations in a file
          MaxSaves       \* bound: requests that change members

VARIABLES
  page,      \* "closed", "team" or "invitation"
  server,    \* the members on the server
  known,     \* <<w>> when the workspace w has been loaded
  selected,  \* selectedId, "" for none
  editor,    \* the inputs of the selected member
  touched,   \* the role or the screens were edited since they were set
  busy,      \* the request under way, <<>> without one
  csv,       \* the invitations of a file under review or being sent
  invited,   \* status of the page of an invitation
  saves      \* requests that changed a member so far

vars == <<page, server, known, selected, editor, touched, busy, csv, invited, saves>>

Custom == "custom"
StandardRoles == Baselines \cup OtherRoles

\* A role as the server stores it: a custom role is known by its baseline (its
\* code) and its permissions, those of the baseline and the added ones.  A screen
\* that the baseline was given later is not among them.
StandardAccess == [role : StandardRoles, base : {""}, screens : {{}}]
CustomAccess == [role : {Custom}, base : Baselines, screens : SUBSET Screens]
Access == StandardAccess \cup CustomAccess
Accounts == [access : Access, unit : {"", "u1"}, status : {"active", "disabled"}]

\* resolveCustomBaseRoleId
BaseOf(a) ==
  IF a.role = Custom THEN a.base ELSE IF a.role \in Baselines THEN a.role ELSE ""

\* The screens of the role that are not those of its baseline.
ScreensOf(a) == IF a.role = Custom THEN a.screens \ BaseScreens[a.base] ELSE {}

\* The effect that fills the role inputs.
RoleInputs(a) == [role |-> a.role, base |-> BaseOf(a), screens |-> ScreensOf(a)]

NoEditor == [inputs |-> [role |-> "", base |-> "", screens |-> {}], unit |-> "", status |-> "active"]

\* A member is selected: the form is mounted again, the effect fills the role.
EditorOf(m) == [inputs |-> RoleInputs(m.access), unit |-> m.unit, status |-> m.status]

\* saveEmployee: what is sent of the role, and what the server stores.
SavedAccess(inputs) ==
  IF inputs.role = Custom
  THEN [role |-> Custom, base |-> inputs.base, screens |-> BaseScreens[inputs.base] \cup inputs.screens]
  ELSE [role |-> inputs.role, base |-> "", screens |-> {}]

\* The access with all screens of its baseline, which the page shows as checked.
WithBaseline(a) ==
  IF a.role = Custom THEN [a EXCEPT !.screens = @ \cup BaseScreens[a.base]] ELSE a

\* The save button, and the server's test of the baseline.
CanSave(inputs) == inputs.role # "" /\ (inputs.role = Custom => inputs.base # "")
Storable(inputs) == inputs.role = Custom => inputs.base \in Baselines

\* An empty scope is sent as null, which the server reads as "not named".
Stored(m, e) ==
  [access |-> SavedAccess(e.inputs), unit |-> IF e.unit = "" THEN m.unit ELSE e.unit,
   status |-> e.status]

NoCsv == [state |-> "none", left |-> 0, made |-> 0]

Ready == page = "team" /\ known # <<>> /\ busy = <<>>

\* The workspace arrives: the selection stays if its member is there, and the
\* role inputs are set again; the form is mounted again for another member only.
Show(w) ==
  LET s == IF selected \in Members THEN selected ELSE CHOOSE m \in Members : TRUE IN
  /\ known' = <<w>> /\ selected' = s /\ touched' = FALSE
  /\ editor' = IF s = selected /\ known # <<>>
               THEN [editor EXCEPT !.inputs = RoleInputs(w[s].access)] ELSE EditorOf(w[s])

Edited == UNCHANGED <<page, server, known, selected, busy, csv, invited, saves>>

-----------------------------------------------------------------------------
(* Loading and selecting.                                                  *)

\* The page is opened, with ?member or without.
OpenTeam(s) ==
  /\ page = "closed" /\ page' = "team" /\ selected' = s /\ busy' = <<[kind |-> "load"]>>
  /\ UNCHANGED <<server, known, editor, touched, csv, invited, saves>>

\* reload; the statuses of the synchronisation may be missing.
Loaded ==
  /\ page = "team" /\ busy # <<>> /\ busy[1].kind = "load" /\ busy' = <<>>
  /\ Show(server)
  /\ UNCHANGED <<page, server, csv, invited, saves>>

LoadFails ==
  /\ page = "team" /\ busy # <<>> /\ busy[1].kind = "load" /\ busy' = <<>>
  /\ UNCHANGED <<page, server, known, selected, editor, touched, csv, invited, saves>>

\* Mutant: the effect does not run for another member.
SelectOnly(m) ==
  /\ page = "team" /\ known # <<>> /\ selected # "" /\ m # selected
  /\ selected' = m /\ editor' = [EditorOf(known[1][m]) EXCEPT !.inputs = editor.inputs]
  /\ touched' = FALSE
  /\ UNCHANGED <<page, server, known, busy, csv, invited, saves>>

Select(m) ==
  /\ page = "team" /\ known # <<>> /\ selected # "" /\ m # selected
  /\ selected' = m /\ editor' = EditorOf(known[1][m]) /\ touched' = FALSE
  /\ UNCHANGED <<page, server, known, busy, csv, invited, saves>>

-----------------------------------------------------------------------------
(* The editor.                                                             *)

Editing == page = "team" /\ known # <<>> /\ selected # ""

\* A standard role becomes the baseline too; a custom one keeps it.
ChooseRole(r) ==
  /\ Editing /\ r # editor.inputs.role
  /\ editor' = [editor EXCEPT !.inputs =
       IF r = Custom
       THEN [role |-> r, screens |-> @.screens,
             base |-> IF @.base = "" THEN BaseOf(known[1][selected].access) ELSE @.base]
       ELSE [role |-> r, base |-> r, screens |-> {}]]
  /\ touched' = TRUE /\ Edited

\* The screens of the new baseline are no custom screens any more.
ChooseBase(b) ==
  /\ Editing /\ editor.inputs.role = Custom
  /\ editor' = [editor EXCEPT !.inputs.base = b, !.inputs.screens = @ \ BaseScreens[b]]
  /\ touched' = TRUE /\ Edited

\* The screens of the baseline cannot be unchecked.
ToggleScreen(s) ==
  /\ Editing /\ editor.inputs.role = Custom
  /\ editor.inputs.base \in Baselines => s \notin BaseScreens[editor.inputs.base]
  /\ editor' = [editor EXCEPT !.inputs.screens = IF s \in @ THEN @ \ {s} ELSE @ \cup {s}]
  /\ touched' = TRUE /\ Edited

ChooseScope(u, st) ==
  /\ Editing /\ editor' = [editor EXCEPT !.unit = u, !.status = st]
  /\ UNCHANGED touched /\ Edited

-----------------------------------------------------------------------------
(* Saving, removing and inviting.                                          *)

Send(request) ==
  /\ busy' = <<request>> /\ saves < MaxSaves /\ saves' = saves + 1
  /\ UNCHANGED <<page, server, known, selected, editor, touched, csv, invited>>

SaveEmployee ==
  Ready /\ Editing /\ CanSave(editor.inputs)
        /\ Send([kind |-> "save", member |-> selected, editor |-> editor])

\* removeEmployee; the button is disabled for a disabled member.
RemoveEmployee ==
  Ready /\ Editing /\ known[1][selected].status = "active"
        /\ Send([kind |-> "remove", member |-> selected])

\* The server stores the member; the page loads everything again.
Saved ==
  /\ busy # <<>> /\ busy[1].kind = "save" /\ Storable(busy[1].editor.inputs)
  /\ server' = [server EXCEPT ![busy[1].member] = Stored(@, busy[1].editor)]
  /\ busy' = <<[kind |-> "load"]>>
  /\ UNCHANGED <<page, known, selected, editor, touched, csv, invited, saves>>

\* The answer replaces the member in the workspace that is shown.
Removed ==
  /\ busy # <<>> /\ busy[1].kind = "remove" /\ busy' = <<>>
  /\ server' = [server EXCEPT ![busy[1].member].status = "disabled"]
  /\ Show([known[1] EXCEPT ![busy[1].member] = server'[busy[1].member]])
  /\ UNCHANGED <<page, csv, invited, saves>>

Refused ==
  /\ busy # <<>> /\ busy[1].kind \in {"save", "remove"} /\ busy' = <<>>
  /\ UNCHANGED <<page, server, known, selected, editor, touched, csv, invited, saves>>

\* submitInvite; everything is loaded again when the invitation was made.
Invite ==
  /\ Ready /\ busy' \in {<<[kind |-> "load"]>>, <<>>}
  /\ UNCHANGED <<page, server, known, selected, editor, touched, csv, invited, saves>>

\* handleEmployeeCsvImport: rows without an address are dropped; a role that is
\* not found among the standard roles has to be chosen.
ReviewCsv(n) ==
  /\ page = "team" /\ known # <<>> /\ csv.state # "sending" /\ n > 0
  /\ csv' = [NoCsv EXCEPT !.state = "review", !.left = n]
  /\ UNCHANGED <<page, server, known, selected, editor, touched, busy, invited, saves>>

CancelCsv ==
  /\ csv.state = "review" /\ csv' = NoCsv
  /\ UNCHANGED <<page, server, known, selected, editor, touched, busy, invited, saves>>

\* sendCsvInvites of the drafts that have a role.
SendCsv(n) ==
  /\ csv.state = "review" /\ n \in 1 .. csv.left
  /\ csv' = [state |-> "sending", left |-> n, made |-> 0]
  /\ UNCHANGED <<page, server, known, selected, editor, touched, busy, invited, saves>>

\* One after the other; one that fails does not stop the others.
CsvInvite(made) ==
  /\ csv.state = "sending" /\ csv.left > 0
  /\ csv' = [csv EXCEPT !.left = @ - 1, !.made = IF made THEN @ + 1 ELSE @]
  /\ UNCHANGED <<page, server, known, selected, editor, touched, busy, invited, saves>>

\* The workspace is loaded again when one was made, if that succeeds.
CsvDone ==
  /\ csv.state = "sending" /\ csv.left = 0 /\ csv' = NoCsv
  /\ \/ csv.made > 0 /\ Show(server)
     \/ UNCHANGED <<known, selected, editor, touched>>
  /\ UNCHANGED <<page, server, busy, invited, saves>>

-----------------------------------------------------------------------------
(* InviteAcceptancePage.                                                   *)

Invitation == UNCHANGED <<server, known, selected, editor, touched, busy, csv, saves>>

OpenInvitation(token) ==
  /\ page = "closed" /\ page' = "invitation"
  /\ invited' = IF token THEN "loading" ELSE "error"
  /\ Invitation

DetailsArrive ==
  page = "invitation" /\ invited = "loading" /\ invited' \in {"ready", "error"}
  /\ UNCHANGED page /\ Invitation

\* Without a token of Keycloak the browser goes to its login and comes back.
Accept(token) ==
  /\ page = "invitation" /\ invited = "ready"
  /\ IF token THEN invited' = "accepting" /\ UNCHANGED page
              ELSE invited' = "none" /\ page' = "closed"
  /\ Invitation

\* An invitation that was accepted before is an error as any other.
Accepted ==
  page = "invitation" /\ invited = "accepting" /\ invited' \in {"accepted", "error"}
  /\ UNCHANGED page /\ Invitation

-----------------------------------------------------------------------------

\* Pages are left while no request is under way.
Leave ==
  /\ page # "closed" /\ busy = <<>> /\ csv.state # "sending" /\ invited # "accepting"
  /\ page' = "closed" /\ known' = <<>> /\ selected' = "" /\ editor' = NoEditor
  /\ touched' = FALSE /\ csv' = NoCsv /\ invited' = "none"
  /\ UNCHANGED <<server, busy, saves>>

Shut == page = "closed"

Init ==
  /\ page = "closed"
  /\ server = [m \in Members |->
       [access |-> InitialAccess[m], unit |-> "", status |-> "active"]]
  /\ known = <<>> /\ selected = "" /\ editor = NoEditor /\ touched = FALSE
  /\ busy = <<>> /\ csv = NoCsv /\ invited = "none" /\ saves = 0

OpenAny ==
  \/ \E s \in Members \cup {""} : OpenTeam(s)
  \/ \E token \in BOOLEAN : OpenInvitation(token)

Edits ==
  \/ \E m \in Members : Select(m)
  \/ \E r \in StandardRoles \cup {Custom} : ChooseRole(r)
  \/ \E b \in Baselines : ChooseBase(b)
  \/ \E s \in Screens : ToggleScreen(s)
  \/ \E u \in {"", "u1"}, st \in {"active", "disabled"} : ChooseScope(u, st)

Step ==
  \/ Loaded \/ LoadFails \/ Edits
  \/ SaveEmployee \/ RemoveEmployee \/ Saved \/ Removed \/ Refused \/ Invite
  \/ \E n \in 1 .. MaxDrafts : ReviewCsv(n) \/ SendCsv(n)
  \/ CancelCsv \/ CsvDone \/ \E made \in BOOLEAN : CsvInvite(made)
  \/ DetailsArrive \/ Accepted \/ \E token \in BOOLEAN : Accept(token)
  \/ Leave

Next == OpenAny \/ Step

Spec == Init /\ [][Next]_vars

-----------------------------------------------------------------------------

TypeOK ==
  /\ page \in {"closed", "team", "invitation"} /\ server \in [Members -> Accounts]
  /\ known = <<>> \/ known[1] \in [Members -> Accounts]
  /\ selected \in Members \cup {""} /\ touched \in BOOLEAN
  /\ editor.inputs.screens \subseteq Screens /\ saves \in 0 .. MaxSaves
  /\ csv.state \in {"none", "review", "sending"} /\ csv.left \in 0 .. MaxDrafts
  /\ invited \in {"none", "loading", "ready", "accepting", "accepted", "error"}

\* Saving a member whose role was not edited leaves their access as the page
\* shows it: the role inputs are those of the selected member, whatever was
\* edited for another one or loaded in between, and they name the role the
\* server has, the baseline of a custom role and every screen added to it.  No
\* screen is taken away, and none is added but those the baseline was given after
\* the role was stored.
UntouchedSaveKeepsAccess ==
  Editing /\ ~touched =>
    CanSave(editor.inputs)
    /\ SavedAccess(editor.inputs) = WithBaseline(known[1][selected].access)
=============================================================================
