---------------------------- MODULE DeviceAccess ----------------------------
(***************************************************************************)
(* Who may use a device, online and offline: the session a tab holds in    *)
(* memory and shares through localStorage and IndexedDB, the Keycloak      *)
(* adapter of each tab, and the encrypted vault with the signed grant and  *)
(* the authorization snapshot that stand in for the API when there is no   *)
(* network.                                                                *)
(*                                                                         *)
(* A tab does one thing at a time (work.at says which and how far), beside *)
(* the requests it has in flight.  One step is the code between two        *)
(* awaits: a read or a write of a store, or an answer of the network.  At  *)
(* the API, the authorization version of a user is read before the rights, *)
(* and an administrator may act in between.                                *)
(***************************************************************************)
EXTENDS Naturals, FiniteSets

CONSTANTS Tabs,        \* browser tabs of one device
          Users,       \* people who sign in on it
          Rights,      \* permissions and scopes an administrator gives
          MaxVersion,  \* bound: changes of a user's rights
          MaxToken,    \* bound: access tokens issued
          MaxKey,      \* bound: vaults set up
          MaxTime,     \* bound: clock
          GrantLife,   \* how long a grant is good
          None

ASSUME DeviceAssumption ==
    /\ {MaxVersion, MaxToken, MaxKey, MaxTime, GrantLife} \subseteq Nat
    /\ None \notin Users

VARIABLES past,     \* API: past[u][v] is what version v of u's rights was
          version,  \* API: the authorization version of a user
          sso,      \* Keycloak: who is signed in in this browser
          live,     \* Keycloak: tokens that introspection calls active
          minted,   \* tokens and keys made so far
          now,      \* the clock of the device
          store,    \* what all tabs share: localStorage and IndexedDB
          tab,      \* what each tab has in memory
          flight    \* requests that wait for an answer

vars == <<past, version, sso, live, minted, now, store, tab, flight>>
server == <<past, version, sso, live>>

Versions == 0..MaxVersion
Tokens == [user : Users, id : 1..MaxToken]
NoToken == [user |-> None, id |-> 0]       \* the empty accessToken of an offline session

Grants == [user : Users, version : Versions, rights : SUBSET Rights, until : 0..(MaxTime + GrantLife)]
Sessions == [user : Users, token : Tokens \cup {NoToken}, grant : Grants \cup {None}]
Vaults == [user : Users, key : 1..MaxKey]
GrantRecords == [user : Users, key : 1..MaxKey, grant : Grants]
Snapshots == [user : Users, version : Versions, rights : SUBSET Rights, key : 1..MaxKey,
              until : 0..(MaxTime + GrantLife)]

Stores == [local : Sessions \cup {None}, idb : Sessions \cup {None}, vault : Vaults \cup {None},
           grant : GrantRecords \cup {None}, snap : Snapshots \cup {None}]

\* The authorization a page works with: TeamWorkspace of teamService.ts.
Teams == [user : Users, version : Versions, rights : SUBSET Rights]

\* What is not there is none of the things a store or a page can hold.
ASSUME NoneAssumption ==
    None \notin Tokens \cup Grants \cup Sessions \cup Vaults \cup GrantRecords \cup Snapshots
                 \cup Teams

Booting == {"load", "keep", "sso", "identity", "grantVersion", "grantRights", "event", "render"}
Hydrating == {"team", "asked", "teamRights", "offline", "dropSnap", "save", "dropGrant", "put"}
Unlocking == {"vault", "unlockGrant", "unlockDrop", "unlockSnap", "unlockDropSnap"}
Enabling == {"enable", "enableUnlock", "setup", "saveVault", "saveGrant"}
Resting == {"rest", "ready", "error", "failed"}
\* "stuck" is a shell that shows "Loading your validated role" and has nothing to wait for.
Works == [at : Booting \cup Hydrating \cup Unlocking \cup Enabling \cup Resting
                 \cup {"stuck", "bye"},
          session : Sessions \cup {None}, grant : Grants \cup {None}, team : Teams \cup {None},
          asked : Sessions \cup {None}, \* the session the authorization is loaded for
          key : 0..MaxKey]
Idle == [at |-> "rest", session |-> None, grant |-> None, team |-> None, asked |-> None,
         key |-> 0]

TabStates == [page : {"closed", "boot", "auth", "access", "shell"},
              mem : Sessions \cup {None}, kc : Tokens \cup {None},
              key : Vaults \cup {None}, work : Works]
Closed == [page |-> "closed", mem |-> None, kc |-> None, key |-> None, work |-> Idle]

TypeOK ==
    /\ past \in [Users -> [Versions -> SUBSET Rights]]
    /\ version \in [Users -> Versions]
    /\ sso \in Users \cup {None}
    /\ live \in SUBSET Tokens
    /\ minted \in [token : 0..MaxToken, key : 0..MaxKey]
    /\ now \in 0..MaxTime
    /\ store \in Stores
    /\ tab \in [Tabs -> TabStates]
    /\ flight \in SUBSET [tab : Tabs, token : Tokens \cup {NoToken}]

Init ==
    /\ past = [u \in Users |-> [v \in Versions |-> Rights]]
    /\ version = [u \in Users |-> 0]
    /\ sso = None
    /\ live = {}
    /\ minted = [token |-> 0, key |-> 0]
    /\ now = 0
    /\ store = [local |-> None, idb |-> None, vault |-> None, grant |-> None, snap |-> None]
    /\ tab = [t \in Tabs |-> Closed]
    /\ flight = {}

-----------------------------------------------------------------------------
(* Helpers *)

\* What getActiveSession returns: memory, or what another tab has stored.
Active(t) == IF tab[t].mem # None THEN tab[t].mem ELSE store.local

\* setActiveSession and clearActiveSession write all three places.
StoresWith(s) == [store EXCEPT !.local = s, !.idb = s]
SetSession(t, s, work, page) ==
    /\ store' = StoresWith(s)
    /\ tab' = [tab EXCEPT ![t].mem = s, ![t].work = work, ![t].page = page]

At(t, where) == tab[t].work.at = where
GoTo(t, where) == tab' = [tab EXCEPT ![t].work.at = where]

\* The work is over; the page shows its outcome.
Rest(t, where) == tab' = [tab EXCEPT ![t].work = [Idle EXCEPT !.at = where]]

\* The vault is open, and it is the vault of the record's user and key.
Opens(t, record) ==
    /\ tab[t].key # None
    /\ record.user = tab[t].key.user
    /\ record.key = tab[t].key.key

\* Mutant: a 401 is never taken for an old one.
IsStaleNever(used, current) == FALSE

\* A new data key, wrapped with the passphrase: no other passphrase unwraps it.
NewKey == minted.key + 1

\* lockOutOnAuthFailure: the answer is about an older token than the session's.
IsStale(used, current) ==
    /\ used # NoToken
    /\ current # None
    /\ current.token # NoToken
    /\ current.token # used

\* Where a tab is when its session has been taken away.  The shell goes to the
\* sign-in page; an operation that is under way goes on.
LockedPage(t) == IF tab[t].page = "shell" THEN "auth" ELSE tab[t].page
LockedWork(t) ==
    IF tab[t].page = "shell" /\ tab[t].work.at \notin Enabling \cup {"bye"}
    THEN Idle
    ELSE tab[t].work

\* The token of the Keycloak adapter goes into the session, if there is one.
WithToken(t, k) ==
    LET s == Active(t)
        new == IF s = None THEN None ELSE [s EXCEPT !.token = k]
    IN /\ tab' = [tab EXCEPT ![t].kc = k, ![t].mem = new]
       /\ store' = IF s = None THEN store ELSE StoresWith(new)

-----------------------------------------------------------------------------
(* Administrator, identity provider, time *)

ChangeRights(u, r) ==
    /\ version[u] < MaxVersion
    /\ r # past[u][version[u]]
    /\ version' = [version EXCEPT ![u] = @ + 1]
    /\ past' = [past EXCEPT ![u] = [v \in Versions |-> IF v > version[u] THEN r ELSE past[u][v]]]
    /\ UNCHANGED <<sso, live, minted, now, store, tab, flight>>

\* The redirect to Keycloak and back: the app starts again.
Login(t, u) ==
    /\ tab[t].page = "auth"
    /\ At(t, "rest")
    /\ Active(t) = None
    /\ sso' = IF sso = None THEN u ELSE sso
    /\ tab' = [tab EXCEPT ![t] = Closed]
    /\ flight' = {f \in flight : f.tab # t}
    /\ UNCHANGED <<past, version, live, minted, now, store>>

Expire(k) ==
    /\ k \in live
    /\ live' = live \ {k}
    /\ UNCHANGED <<past, version, sso, minted, now, store, tab, flight>>

\* The Keycloak session of the browser ends, and its tokens with it.
SsoEnds ==
    /\ sso # None
    /\ sso' = None
    /\ live' = {k \in live : k.user # sso}
    /\ UNCHANGED <<past, version, minted, now, store, tab, flight>>

Tick ==
    /\ now < MaxTime
    /\ now' = now + 1
    /\ UNCHANGED <<server, minted, store, tab, flight>>

-----------------------------------------------------------------------------
(* The start of a tab: main.tsx, hydrateActiveSession, initializeKeycloak *)

Open(t) ==
    /\ tab[t].page = "closed"
    /\ tab' = [tab EXCEPT ![t] = [Closed EXCEPT
                  !.page = "boot",
                  !.mem = store.local,
                  !.work.at = IF store.local = None THEN "load" ELSE "sso"]]
    /\ UNCHANGED <<server, minted, now, store, flight>>

Load(t) ==
    /\ At(t, "load")
    /\ tab' = [tab EXCEPT ![t].work.session = store.idb, ![t].work.at = "keep"]
    /\ UNCHANGED <<server, minted, now, store, flight>>

Keep(t) ==
    /\ At(t, "keep")
    /\ LET s == tab[t].work.session IN
        /\ tab' = [tab EXCEPT ![t].mem = s, ![t].work = [Idle EXCEPT !.at = "sso"]]
        /\ store' = IF s = None THEN store ELSE [store EXCEPT !.local = s]
    /\ UNCHANGED <<server, minted, now, flight>>

\* keycloak.init with check-sso gives the tab a token of its own.
CheckSso(t) ==
    /\ At(t, "sso")
    /\ sso # None
    /\ minted.token < MaxToken
    /\ LET k == [user |-> sso, id |-> minted.token + 1] IN
        /\ minted' = [minted EXCEPT !.token = @ + 1]
        /\ live' = live \cup {k}
        /\ tab' = [tab EXCEPT ![t].kc = k, ![t].work.at = "identity"]
    /\ UNCHANGED <<past, version, sso, now, store, flight>>

\* Not signed in: a stored session is kept; without one the stores are cleared.
NoSso(t) ==
    /\ At(t, "sso")
    /\ sso = None
    /\ IF Active(t) = None
       THEN SetSession(t, None, [Idle EXCEPT !.at = "render"], "boot")
       ELSE /\ tab' = [tab EXCEPT ![t].mem = Active(t), ![t].work = [Idle EXCEPT !.at = "render"]]
            /\ UNCHANGED store
    /\ UNCHANGED <<server, minted, now, flight>>

\* init or createSession rejects: main.tsx renders with what there is.
BootFails(t) ==
    /\ tab[t].work.at \in {"sso", "identity"}
    /\ tab' = [tab EXCEPT ![t].work = [Idle EXCEPT !.at = "render"]]
    /\ UNCHANGED <<server, minted, now, store, flight>>

\* createSession: the identity, then the grant, whose failure is ignored.
Identity(t) ==
    /\ At(t, "identity")
    /\ tab[t].kc \in live
    /\ GoTo(t, "grantVersion")
    /\ UNCHANGED <<server, minted, now, store, flight>>

\* The API's authorize reads the version first.
AskGrant(t) ==
    /\ At(t, "grantVersion")
    /\ tab[t].kc \in live
    /\ tab' = [tab EXCEPT ![t].work.at = "grantRights",
                          ![t].work.team = [user |-> tab[t].kc.user,
                                            version |-> version[tab[t].kc.user], rights |-> {}]]
    /\ UNCHANGED <<server, minted, now, store, flight>>

\* Mutant: the session has no place for a grant.
NewSessionBare(t, g) == [user |-> tab[t].kc.user, token |-> tab[t].kc]

NewSession(t, g) == [user |-> tab[t].kc.user, token |-> tab[t].kc, grant |-> g]

AnswerGrant(t) ==
    /\ At(t, "grantRights")
    /\ LET who == tab[t].work.team.user
           g == [user |-> who, version |-> tab[t].work.team.version,
                 rights |-> past[who][version[who]], until |-> now + GrantLife] IN
        tab' = [tab EXCEPT ![t].work = [Idle EXCEPT !.at = "event", !.session = NewSession(t, g)]]
    /\ UNCHANGED <<server, minted, now, store, flight>>

NoGrant(t) ==
    /\ tab[t].work.at \in {"grantVersion", "grantRights"}
    /\ tab' = [tab EXCEPT ![t].work = [Idle EXCEPT !.at = "event", !.session = NewSession(t, None)]]
    /\ UNCHANGED <<server, minted, now, store, flight>>

\* After the login event, recorded or not, the session takes effect.
Created(t) ==
    /\ At(t, "event")
    /\ SetSession(t, tab[t].work.session, [Idle EXCEPT !.at = "render"], "boot")
    /\ UNCHANGED <<server, minted, now, flight>>

\* The first page: the shell of a deep link, or the access page, or sign-in.
Render(t) ==
    /\ At(t, "render")
    /\ IF Active(t) = None
       THEN tab' = [tab EXCEPT ![t].page = "auth", ![t].work = Idle]
       ELSE \E p \in {"access", "shell"} :
              tab' = [tab EXCEPT ![t].page = p, ![t].mem = Active(t),
                                 ![t].work = [Idle EXCEPT !.at = "team", !.session = Active(t)]]
    /\ UNCHANGED <<server, minted, now, store, flight>>

-----------------------------------------------------------------------------
(* The access page and the shell load the authorization of the session *)

\* What each page makes of an answer, of none, and of an error.
Arrived(t) == IF tab[t].page = "shell" THEN "ready" ELSE "save"
Undefined(t) == IF tab[t].page = "shell" THEN "stuck" ELSE "error"
Rejected(t) == IF tab[t].page = "shell" THEN "failed" ELSE "error"

\* hydrateAuthorizationWorkspace looks at the session of this moment.
NoSession(t) ==
    /\ At(t, "team")
    /\ Active(t) = None
    /\ Rest(t, Undefined(t))
    /\ UNCHANGED <<server, minted, now, store, flight>>

WithoutToken(t) ==
    /\ At(t, "team")
    /\ Active(t) # None
    /\ Active(t).token = NoToken
    /\ tab' = [tab EXCEPT ![t].mem = Active(t), ![t].work.at = "offline",
                          ![t].work.asked = Active(t)]
    /\ UNCHANGED <<server, minted, now, store, flight>>

\* getJson: the adapter has renewed the token or not, and the request goes out with
\* the token the session has then.
SendTeam(t) ==
    /\ At(t, "team")
    /\ Active(t) # None
    /\ Active(t).token # NoToken
    /\ tab' = [tab EXCEPT ![t].mem = Active(t), ![t].work.at = "asked",
                          ![t].work.asked = Active(t)]
    /\ UNCHANGED <<server, minted, now, store, flight>>

\* The API knows the token and reads the version of its user.
AskTeam(t) ==
    /\ At(t, "asked")
    /\ tab[t].work.asked.token \in live
    /\ LET u == tab[t].work.asked.token.user IN
        tab' = [tab EXCEPT ![t].work.at = "teamRights",
                  ![t].work.team = [user |-> u, version |-> version[u], rights |-> {}]]
    /\ UNCHANGED <<server, minted, now, store, flight>>

\* A 401 ends the session: the token is not good any more, or introspection failed,
\* or the user, the membership or the role is not as it should be.
TeamDenied(t) ==
    /\ tab[t].work.at \in {"asked", "teamRights"}
    /\ ~IsStale(tab[t].work.asked.token, Active(t))
    /\ SetSession(t, None,
                  IF tab[t].page = "shell" THEN Idle ELSE [Idle EXCEPT !.at = "error"],
                  LockedPage(t))
    /\ UNCHANGED <<server, minted, now, flight>>

\* Mutant: the shell does not catch the error.
TeamFailsUncaught(t) ==
    /\ tab[t].work.at \in {"asked", "teamRights"}
    /\ Rest(t, Undefined(t))
    /\ UNCHANGED <<server, minted, now, store, flight>>

\* No network, no answer in time, an error, or a 401 about an older token: the same
\* in both pages.
TeamFails(t) ==
    /\ tab[t].work.at \in {"asked", "teamRights"}
    /\ Rest(t, Rejected(t))
    /\ UNCHANGED <<server, minted, now, store, flight>>

\* Mutant: the rights are read first, and the version after them.
AnswerTeamRightsFirst(t) ==
    /\ At(t, "teamRights")
    /\ LET who == tab[t].work.team.user IN
        /\ who = tab[t].work.asked.user
        /\ tab' = [tab EXCEPT ![t].work.at = Arrived(t),
                  ![t].work.team = [user |-> who, version |-> version[who],
                                    rights |-> past[who][tab[t].work.team.version]]]
    /\ UNCHANGED <<server, minted, now, store, flight>>

\* It reads the rights, which may be those of a later version.  A team without
\* the user of the session is an error.
AnswerTeam(t) ==
    /\ At(t, "teamRights")
    /\ LET who == tab[t].work.team.user IN
        IF who # tab[t].work.asked.user
        THEN Rest(t, Rejected(t))
        ELSE tab' = [tab EXCEPT ![t].work.at = Arrived(t),
                  ![t].work.session = IF Arrived(t) = "ready" THEN None ELSE @,
                  ![t].work.asked = None,
                  ![t].work.team.rights = past[who][version[who]]]
    /\ UNCHANGED <<server, minted, now, store, flight>>

\* A page has what it needs: the access page navigates to the shell, which loads
\* the authorization once more.  Without a session the shell is the sign-in page.
Entered(t) ==
    tab' = [tab EXCEPT ![t].page = IF Active(t) = None THEN "auth" ELSE "shell",
                       ![t].mem = Active(t),
                       ![t].work = IF Active(t) = None THEN Idle
                                   ELSE [Idle EXCEPT !.at = "team", !.session = Active(t)]]

\* hydrateOfflineWorkspace reads the snapshot, if the vault is open.
UsesSnapshot(t) == Opens(t, store.snap) /\ store.snap.user = tab[t].work.asked.user

ReadSnapshot(t) ==
    /\ At(t, "offline")
    /\ LET r == store.snap IN
        IF tab[t].key = None \/ r = None THEN Rest(t, Undefined(t))
        ELSE IF ~UsesSnapshot(t) THEN Rest(t, Rejected(t))
        ELSE IF r.until <= now THEN GoTo(t, "dropSnap")
        ELSE IF tab[t].page = "access" THEN Entered(t)
        ELSE tab' = [tab EXCEPT ![t].work = [Idle EXCEPT !.at = "ready",
                        !.team = [user |-> r.user, version |-> r.version,
                                  rights |-> r.rights]]]
    /\ UNCHANGED <<server, minted, now, store, flight>>

\* The delete is a transaction of its own, whatever the record is by then.
DropSnapshot(t) ==
    /\ At(t, "dropSnap")
    /\ store' = [store EXCEPT !.snap = None]
    /\ Rest(t, Undefined(t))
    /\ UNCHANGED <<server, minted, now, flight>>

\* The access page has the team: saveOfflineAuthorizationSnapshot, then navigate.
\* Every error of it is swallowed by the page.
MaySave(t, r) ==
    /\ r # None
    /\ Opens(t, r)
    /\ r.grant.user = tab[t].work.session.user
    /\ r.grant.version = tab[t].work.team.version

CheckGrant(t) ==
    /\ At(t, "save")
    /\ LET r == store.grant
           unlocked == tab[t].key # None /\ tab[t].key.user = tab[t].work.session.user
       IN IF unlocked /\ r # None /\ r.user = tab[t].key.user /\ r.grant.until <= now
          THEN GoTo(t, "dropGrant")
          ELSE IF unlocked /\ MaySave(t, r)
               THEN tab' = [tab EXCEPT ![t].work.at = "put", ![t].work.grant = r.grant]
               ELSE Entered(t)
    /\ UNCHANGED <<server, minted, now, store, flight>>

DropGrant(t) ==
    /\ At(t, "dropGrant")
    /\ store' = [store EXCEPT !.grant = None]
    /\ Entered(t)
    /\ UNCHANGED <<server, minted, now, flight>>

PutSnapshot(t) ==
    /\ At(t, "put")
    /\ store' = [store EXCEPT !.snap =
          [user |-> tab[t].work.session.user, version |-> tab[t].work.team.version,
           rights |-> tab[t].work.team.rights, key |-> tab[t].key.key,
           until |-> tab[t].work.grant.until]]
    /\ Entered(t)
    /\ UNCHANGED <<server, minted, now, flight>>

\* A shell whose loading failed goes back to the access page, and both are the
\* sign-in page without a session.  There a reload tries again and "sign in again"
\* clears the session.
Retry(t) ==
    /\ At(t, "failed")
    /\ tab' = [tab EXCEPT ![t].page = IF Active(t) = None THEN "auth" ELSE "access",
                  ![t].mem = Active(t),
                  ![t].work = IF Active(t) = None THEN Idle
                              ELSE [Idle EXCEPT !.at = "team", !.session = Active(t)]]
    /\ UNCHANGED <<server, minted, now, store, flight>>

SignInAgain(t) ==
    /\ tab[t].page = "access"
    /\ At(t, "error")
    /\ SetSession(t, None, Idle, "auth")
    /\ UNCHANGED <<server, minted, now, flight>>

-----------------------------------------------------------------------------
(* Requests of an open page *)

\* Bound: a page has one request in flight at a time.
Request(t) ==
    /\ tab[t].page = "shell"
    /\ At(t, "ready")
    /\ \A f \in flight : f.tab # t
    /\ Active(t) # None
    /\ flight' = flight \cup {[tab |-> t, token |-> Active(t).token]}
    /\ tab' = [tab EXCEPT ![t].mem = Active(t)]
    /\ UNCHANGED <<server, minted, now, store>>

Answer(f) ==
    /\ f \in flight
    /\ f.token \in live
    /\ flight' = flight \ {f}
    /\ UNCHANGED <<server, minted, now, store, tab>>

Timeout(f) ==
    /\ f \in flight
    /\ flight' = flight \ {f}
    /\ UNCHANGED <<server, minted, now, store, tab>>

\* A 401, whatever its reason: the API gives it for a token that is still good, too.
\* Unless it is about an older token, it ends the session of every tab.
Denied(f) ==
    /\ f \in flight
    /\ flight' = flight \ {f}
    /\ IF IsStale(f.token, Active(f.tab))
       THEN UNCHANGED <<store, tab>>
       ELSE SetSession(f.tab, None, LockedWork(f.tab), LockedPage(f.tab))
    /\ UNCHANGED <<server, minted, now>>

\* refreshKeycloakTokenIfNeeded: before a request, or when the token runs out.
\* A failure changes nothing; a success is written into the session, if there is one.
Refresh(t) ==
    /\ tab[t].kc # None
    /\ sso = tab[t].kc.user
    /\ IF tab[t].kc \in live
       THEN WithToken(t, tab[t].kc) /\ UNCHANGED <<minted, live>>
       ELSE LET k == [user |-> sso, id |-> minted.token + 1] IN
            /\ minted.token < MaxToken
            /\ minted' = [minted EXCEPT !.token = @ + 1]
            /\ live' = live \cup {k}
            /\ WithToken(t, k)
    /\ UNCHANGED <<past, version, sso, now, flight>>

\* The refresh token is refused: the adapter forgets its tokens, the session stays.
\* (A token does not run out in the moment between its issue and the first page.)
RefreshRefused(t) ==
    /\ tab[t].kc # None
    /\ tab[t].work.at \notin Booting
    /\ sso # tab[t].kc.user
    /\ tab[t].kc \notin live
    /\ tab' = [tab EXCEPT ![t].kc = None]
    /\ UNCHANGED <<server, minted, now, store, flight>>

\* signOut: the logout event, recorded or not; then the session goes and the
\* browser leaves for Keycloak, which it may not reach.
SignOut(t) ==
    /\ tab[t].page = "shell"
    /\ At(t, "ready")
    /\ Rest(t, "bye")
    /\ UNCHANGED <<server, minted, now, store, flight>>

Leave(t, reached) ==
    /\ At(t, "bye")
    /\ store' = StoresWith(None)
    /\ tab' = [tab EXCEPT ![t] = Closed]
    /\ flight' = {f \in flight : f.tab # t}
    /\ IF reached
       THEN /\ sso' = None
            /\ live' = {k \in live : k.user # sso}
       ELSE UNCHANGED <<sso, live>>
    /\ UNCHANGED <<past, version, minted, now>>

\* A reload or a closed tab: memory is lost, with the data key.
Close(t) ==
    /\ tab[t].page # "closed"
    /\ tab' = [tab EXCEPT ![t] = Closed]
    /\ flight' = {f \in flight : f.tab # t}
    /\ UNCHANGED <<server, minted, now, store>>

-----------------------------------------------------------------------------
(* The vault: enableOfflineAccess *)

\* It is over, and leaves the page as it was; or the page was left meanwhile.
Done(t) == IF tab[t].page = "shell"
           THEN [tab[t].work EXCEPT !.at = "ready", !.session = None, !.key = 0]
           ELSE Idle

Enable(t) ==
    /\ tab[t].page = "shell"
    /\ At(t, "ready")
    /\ tab[t].mem # None
    /\ tab[t].mem.grant # None
    /\ tab' = [tab EXCEPT ![t].work.at = "enable", ![t].work.session = tab[t].mem]
    /\ UNCHANGED <<server, minted, now, store, flight>>

FindVault(t) ==
    /\ At(t, "enable")
    /\ IF store.vault = None THEN GoTo(t, "setup")
       ELSE IF store.vault.user = tab[t].work.session.user THEN GoTo(t, "enableUnlock")
       ELSE tab' = [tab EXCEPT ![t].work = Done(t)]
    /\ UNCHANGED <<server, minted, now, store, flight>>

\* unlockOfflineVault with the user of the session; a wrong passphrase locks.
EnableUnlock(t, right) ==
    /\ At(t, "enableUnlock")
    /\ IF right
       THEN tab' = [tab EXCEPT ![t].key = store.vault, ![t].work.at = "saveGrant"]
       ELSE tab' = [tab EXCEPT ![t].key = None, ![t].work = Done(t)]
    /\ UNCHANGED <<server, minted, now, store, flight>>

\* setupOfflineVault looks again, makes a key, and then writes.
SetupVault(t) ==
    /\ At(t, "setup")
    /\ IF store.vault # None
       THEN tab' = [tab EXCEPT ![t].work = Done(t)] /\ UNCHANGED minted
       ELSE /\ minted.key < MaxKey
            /\ minted' = [minted EXCEPT !.key = NewKey]
            /\ tab' = [tab EXCEPT ![t].work.at = "saveVault", ![t].work.key = NewKey]
    /\ UNCHANGED <<server, now, store, flight>>

SaveVault(t) ==
    /\ At(t, "saveVault")
    /\ LET v == [user |-> tab[t].work.session.user, key |-> tab[t].work.key] IN
        /\ store' = [store EXCEPT !.vault = v]
        /\ tab' = [tab EXCEPT ![t].key = v, ![t].work.at = "saveGrant", ![t].work.key = 0]
    /\ UNCHANGED <<server, minted, now, flight>>

\* saveOfflineGrant: signed, in its time, and of the vault's user.
SaveGrant(t) ==
    /\ At(t, "saveGrant")
    /\ LET g == tab[t].work.session.grant IN
        store' = IF g.until > now /\ g.user = tab[t].key.user
                 THEN [store EXCEPT !.grant = [user |-> g.user, key |-> tab[t].key.key, grant |-> g]]
                 ELSE store
    /\ tab' = [tab EXCEPT ![t].work = Done(t)]
    /\ UNCHANGED <<server, minted, now, flight>>

-----------------------------------------------------------------------------
(* The sign-in page: a session found, or unlockOfflineSession *)

Found(t) ==
    /\ tab[t].page = "auth"
    /\ At(t, "rest")
    /\ Active(t) # None
    /\ tab' = [tab EXCEPT ![t].page = "access", ![t].mem = Active(t),
                          ![t].work = [Idle EXCEPT !.at = "team", !.session = Active(t)]]
    /\ UNCHANGED <<server, minted, now, store, flight>>

\* Back inside the app to the sign-in page: by the history of the tab, or by a
\* dashboard that has no place for the member (DashboardRouter).  Memory is kept.
Revisit(t) ==
    /\ tab[t].page = "shell"
    /\ At(t, "ready")
    /\ tab' = [tab EXCEPT ![t].page = "auth", ![t].work = Idle]
    /\ UNCHANGED <<server, minted, now, store, flight>>

Unlock(t) ==
    /\ tab[t].page = "auth"
    /\ At(t, "rest")
    /\ Active(t) = None
    /\ store.vault # None
    /\ GoTo(t, "vault")
    /\ UNCHANGED <<server, minted, now, store, flight>>

UnlockVault(t, right) ==
    /\ At(t, "vault")
    /\ IF right
       THEN tab' = [tab EXCEPT ![t].key = store.vault, ![t].work.at = "unlockGrant"]
       ELSE tab' = [tab EXCEPT ![t].key = None, ![t].work = Idle]
    /\ UNCHANGED <<server, minted, now, store, flight>>

\* Whatever goes wrong from here on locks the vault again.
Relock(t) == tab' = [tab EXCEPT ![t].key = None, ![t].work = Idle]

UnlockGrant(t) ==
    /\ At(t, "unlockGrant")
    /\ LET r == store.grant IN
        IF r = None \/ r.user # tab[t].key.user THEN Relock(t)
        ELSE IF r.grant.until <= now THEN GoTo(t, "unlockDrop")
        ELSE IF ~Opens(t, r) THEN Relock(t)
        ELSE tab' = [tab EXCEPT ![t].work.at = "unlockSnap", ![t].work.grant = r.grant]
    /\ UNCHANGED <<server, minted, now, store, flight>>

UnlockDropGrant(t) ==
    /\ At(t, "unlockDrop")
    /\ store' = [store EXCEPT !.grant = None]
    /\ Relock(t)
    /\ UNCHANGED <<server, minted, now, flight>>

\* Mutant: the versions of snapshot and grant are not compared.
AgreesOnRights(r, g) == r.rights \subseteq g.rights

\* The snapshot must be of the grant's version and within its rights.
Agrees(r, g) == r.version = g.version /\ r.rights \subseteq g.rights

UnlockSnapshot(t) ==
    /\ At(t, "unlockSnap")
    /\ LET r == store.snap
           g == tab[t].work.grant
       IN IF r = None \/ ~Opens(t, r) \/ r.user # g.user THEN Relock(t) /\ UNCHANGED store
          ELSE IF r.until <= now THEN GoTo(t, "unlockDropSnap") /\ UNCHANGED store
          ELSE IF ~Agrees(r, g) THEN Relock(t) /\ UNCHANGED store
          ELSE LET s == [user |-> r.user, token |-> NoToken, grant |-> g]
               IN SetSession(t, s, [Idle EXCEPT !.at = "team", !.session = s], "access")
    /\ UNCHANGED <<server, minted, now, flight>>

UnlockDropSnapshot(t) ==
    /\ At(t, "unlockDropSnap")
    /\ store' = [store EXCEPT !.snap = None]
    /\ Relock(t)
    /\ UNCHANGED <<server, minted, now, flight>>

-----------------------------------------------------------------------------
Boot(t) ==
    \/ Load(t) \/ Keep(t) \/ CheckSso(t) \/ NoSso(t) \/ BootFails(t) \/ Identity(t)
    \/ AskGrant(t) \/ AnswerGrant(t) \/ NoGrant(t) \/ Created(t) \/ Render(t)

\* What follows without the network, or ends with the time-out of apiFetch.
Resume(t) ==
    \/ NoSession(t) \/ WithoutToken(t) \/ AskTeam(t) \/ TeamDenied(t) \/ TeamFails(t)
    \/ AnswerTeam(t) \/ ReadSnapshot(t) \/ DropSnapshot(t) \/ CheckGrant(t) \/ DropGrant(t)
    \/ PutSnapshot(t) \/ Retry(t)

Hydrate(t) == SendTeam(t) \/ Resume(t)

Vault(t) ==
    \/ FindVault(t) \/ SetupVault(t) \/ SaveVault(t) \/ SaveGrant(t)
    \/ UnlockGrant(t) \/ UnlockDropGrant(t) \/ UnlockSnapshot(t) \/ UnlockDropSnapshot(t)
    \/ \E right \in BOOLEAN : EnableUnlock(t, right) \/ UnlockVault(t, right)

Person(t) ==
    \/ Open(t) \/ Close(t) \/ Found(t) \/ Revisit(t) \/ SignInAgain(t) \/ SignOut(t) \/ Unlock(t)
    \/ Enable(t) \/ Request(t) \/ Refresh(t) \/ RefreshRefused(t)
    \/ \E u \in Users : Login(t, u)
    \/ \E reached \in BOOLEAN : Leave(t, reached)

Next ==
    \/ \E t \in Tabs : Boot(t) \/ Hydrate(t) \/ Vault(t) \/ Person(t)
    \/ \E f \in flight : Answer(f) \/ Denied(f) \/ Timeout(f)
    \/ \E u \in Users, r \in SUBSET Rights : ChangeRights(u, r)
    \/ \E k \in live : Expire(k)
    \/ SsoEnds
    \/ Tick

\* The browser's own steps go on, and a request of apiFetch has a time-out.  Nothing
\* of the kind is said of the start: keycloak.init and the raw fetch of createSession
\* have none; nor of SendTeam, which waits for the adapter to renew its token.
Fairness == \A t \in Tabs : WF_vars(Render(t)) /\ WF_vars(Resume(t)) /\ WF_vars(Vault(t))

Spec == Init /\ [][Next]_vars /\ Fairness

-----------------------------------------------------------------------------
(* What a device promises *)

\* A session that came from the vault carries the grant it was checked against.
FromVault(t) == tab[t].mem # None /\ tab[t].mem.token = NoToken

\* Working offline, a page never shows rights of an authorization version older
\* than the one the session's grant was issued for: the snapshot is compared with
\* the grant when the vault is unlocked, and read again when the page loads.  This
\* is so on a device with one tab: the late write of a second one can put an older
\* snapshot back after the vault was unlocked.
OldRightsStayGone ==
    \A t \in Tabs :
        At(t, "ready") /\ FromVault(t) => tab[t].work.team.version >= tab[t].mem.grant.version

\* The rights a page works with were the user's under the version that came with
\* them or under a later one, online and from the snapshot, although the API reads
\* version and rights at two moments: a version never vouches for older rights.
\* With a second tab, in which another user signs in, a snapshot of equal version
\* can hold the rights of the other user.
RightsAreOfTheirVersion ==
    \A t \in Tabs :
        At(t, "ready") =>
            LET w == tab[t].work.team IN
            \E v \in w.version .. version[w.user] : w.rights = past[w.user][v]

\* An open tab gives up a session with a token for two reasons only: the person wants
\* to sign in again, or a request sent with this very token, or with none, was answered
\* 401.  A 401 to a request with an older token never does it, whether that token was
\* good or not: the session was given a new one, or is another one, meanwhile.
LateDenialIsIgnored ==
    [][\A t \in Tabs :
          /\ tab[t].mem # None /\ tab[t].mem.token # NoToken /\ tab[t].page # "closed"
          /\ tab'[t].mem = None /\ tab'[t].page # "closed"
          => \/ At(t, "error") /\ flight' = flight
             \/ tab[t].work.asked # None /\ tab[t].work.asked.token = tab[t].mem.token
             \/ \E f \in flight \ flight' :
                    f.tab = t /\ f.token \in {tab[t].mem.token, NoToken}]_vars

\* The session has a token.
Online(t) == Active(t) # None /\ Active(t).token # NoToken

Entering == {"render", "team", "asked", "teamRights", "save", "dropGrant", "put"}

\* As long as the adapter does not keep a page waiting for a token for ever, loading
\* the authorization comes to an end while the session has a token: the page works, or
\* shows an error or the sign-in.  Unlocking the vault leads back to the sign-in or on
\* to the load.  What a shell does with an offline session it cannot restore, or
\* with none, is not promised: it may be stuck.
EntryEnds ==
    \A t \in Tabs :
        []<>~At(t, "team") =>
            /\ tab[t].work.at \in Entering ~> (tab[t].work.at \in Resting \/ ~Online(t))
            /\ tab[t].work.at \in Unlocking ~> (At(t, "rest") \/ tab[t].work.at \in Entering)

=============================================================================
