-------------------------- MODULE DeviceAccessProofs --------------------------
(*****************************************************************************)
(* What holds of the sessions and the offline access of a device, for any    *)
(* users, rights, versions, tokens, keys and times.                          *)
(*                                                                           *)
(* The types, for any number of tabs.  They are inductive only with what each*)
(* step of a tab leaves to the next one: a tab that is about to use a vault, *)
(* a key, a grant, a session or a team has one (InPlace).                    *)
(*                                                                           *)
(* A late 401: it follows from the types, step by step.                      *)
(*                                                                           *)
(* The versions of the rights, for a device with one tab: what a tab works   *)
(* with is no older than its grant, and is what the user had under that      *)
(* version or a later one.  The invariant says that memory and the two stores*)
(* agree once the tab has read them (Shared), where a team of a version comes*)
(* from (Vouched) and which of the two, the grant or the snapshot, is the    *)
(* newer one at every place of the work (NoOlder).  With a second tab both   *)
(* properties fail: its late write of a snapshot is not undone by what       *)
(* happened in the first one meanwhile.                                      *)
(*****************************************************************************)
EXTENDS DeviceAccess, TLAPS

-----------------------------------------------------------------------------
(* What a tab and the stores hold.                                         *)

\* The places of a tab's work, the pages, and what may be missing.
Where == Booting \cup Hydrating \cup Unlocking \cup Enabling \cup Resting
         \cup {"stuck", "bye"}
Pages == {"closed", "boot", "auth", "access", "shell"}
OptSession == Sessions \cup {None}
OptGrant == Grants \cup {None}
OptTeam == Teams \cup {None}
OptToken == Tokens \cup {None}
OptVault == Vaults \cup {None}
OptRecord == GrantRecords \cup {None}
OptSnapshot == Snapshots \cup {None}
Keys == 0..MaxKey

\* The same sets with a name for each field.
LEMMA Shape ==
  /\ Works = [at : Where, session : OptSession, grant : OptGrant, team : OptTeam, asked : OptSession,
      key : Keys]
  /\ TabStates = [page : Pages, mem : OptSession, kc : OptToken, key : OptVault, work : Works]
BY DEF Works, Where, OptSession, OptGrant, OptTeam, Keys, TabStates, Pages, OptToken,
       OptVault

\* f is what the tabs may be.
Typed(f) == f \in [Tabs -> TabStates]

\* One field of a tab may be set to what it can hold,
LEMMA Fields == ASSUME NEW t \in Tabs, NEW f, Typed(f) PROVE
  /\ \A x \in Pages : Typed([f EXCEPT ![t].page = x])
  /\ \A x \in OptSession : Typed([f EXCEPT ![t].mem = x])
  /\ \A x \in OptToken : Typed([f EXCEPT ![t].kc = x])
  /\ \A x \in OptVault : Typed([f EXCEPT ![t].key = x])
  /\ \A x \in Works : Typed([f EXCEPT ![t].work = x])
  /\ \A x \in TabStates : Typed([f EXCEPT ![t] = x])
BY Shape DEF Typed

\* and so may one field of its work.
LEMMA WorkFields == ASSUME NEW t \in Tabs, NEW f, Typed(f) PROVE
  /\ \A x \in Where : Typed([f EXCEPT ![t].work.at = x])
  /\ \A x \in OptSession : Typed([f EXCEPT ![t].work.session = x])
  /\ \A x \in OptGrant : Typed([f EXCEPT ![t].work.grant = x])
  /\ \A x \in OptTeam : Typed([f EXCEPT ![t].work.team = x])
  /\ \A x \in OptSession : Typed([f EXCEPT ![t].work.asked = x])
  /\ \A x \in Keys : Typed([f EXCEPT ![t].work.key = x])
<1>1. \A x \in Where : Typed([f EXCEPT ![t].work.at = x])
  BY Shape DEF Typed
<1>2. \A x \in OptSession : Typed([f EXCEPT ![t].work.session = x])
  BY Shape DEF Typed
<1>3. \A x \in OptGrant : Typed([f EXCEPT ![t].work.grant = x])
  BY Shape DEF Typed
<1>4. \A x \in OptTeam : Typed([f EXCEPT ![t].work.team = x])
  BY Shape DEF Typed
<1>5. \A x \in OptSession : Typed([f EXCEPT ![t].work.asked = x])
  BY Shape DEF Typed
<1>6. \A x \in Keys : Typed([f EXCEPT ![t].work.key = x])
  BY Shape DEF Typed
<1> QED BY <1>1, <1>2, <1>3, <1>4, <1>5, <1>6

\* What the step before has left for the place the work is at; v is the vault.
InPlace(x, v) ==
  LET w == x.work IN
  /\ w.at \in {"load", "keep"} => x.mem = None /\ x.kc = None
  /\ w.at \in {"grantVersion", "grantRights"} => x.kc # None
  /\ w.at = "event" => w.session # None
  /\ w.at \in {"grantRights", "teamRights", "save", "dropGrant", "put"} => w.team # None
  /\ w.at \in {"team", "asked", "teamRights", "offline", "save", "put"} => w.session # None
  /\ w.at \in {"asked", "teamRights", "offline"} => w.asked # None
  /\ w.at \in {"asked", "teamRights"} => w.asked.token # NoToken
  /\ w.at \in Enabling => w.session # None /\ w.session.grant # None
  /\ w.at = "saveVault" => w.key # 0
  /\ w.at \in {"put", "saveGrant"} => x.key # None
  /\ w.at \in {"put", "unlockSnap", "unlockDropSnap"} => w.grant # None
  /\ w.at \in {"vault", "enableUnlock"} => v # None

\* The types, and every tab ready for its next step.
TypeInv == TypeOK /\ \A t \in Tabs : InPlace(tab[t], store.vault)

\* A step of one tab keeps the types and the vault, and leaves the tab ready.
Tidy(t) ==
  /\ Typed(tab')
  /\ InPlace(tab'[t], store'.vault)
  /\ \A r \in Tabs : r # t => tab'[r] = tab[r]
  /\ store' \in Stores
  /\ store.vault # None => store'.vault # None

\* The places that are gone to are places.
LEMMA Places ==
  /\ {"load", "keep", "sso", "identity", "grantVersion", "grantRights", "event",
     "render"} \subseteq Where
  /\ {"team", "asked", "teamRights", "offline", "dropSnap", "save", "dropGrant", "put"} \subseteq Where
  /\ {"vault", "unlockGrant", "unlockDrop", "unlockSnap", "unlockDropSnap"} \subseteq Where
  /\ {"enable", "enableUnlock", "setup", "saveVault", "saveGrant"} \subseteq Where
  /\ {"rest", "ready", "error", "stuck", "failed", "bye"} \subseteq Where
  /\ {"closed", "boot", "auth", "access", "shell"} \subseteq Pages
BY DEF Where, Booting, Hydrating, Unlocking, Enabling, Resting, Pages

\* The fields of a tab.
LEMMA TabParts ==
  ASSUME Typed(tab), NEW t \in Tabs
  PROVE  /\ tab[t] \in TabStates
         /\ tab[t].page \in Pages /\ tab[t].mem \in OptSession /\ tab[t].kc \in OptToken
            /\ tab[t].key \in OptVault
         /\ tab[t].work \in Works
         /\ tab[t].work.at \in Where /\ tab[t].work.session \in OptSession
            /\ tab[t].work.grant \in OptGrant
         /\ tab[t].work.team \in OptTeam /\ tab[t].work.asked \in OptSession /\ tab[t].work.key \in Keys
BY Shape DEF Typed

\* A tab with no work, and a closed one.
LEMMA IdleTyped == Idle \in Works /\ Closed \in TabStates
<1>1. None \in OptSession /\ None \in OptGrant /\ None \in OptTeam
      /\ 0 \in Keys /\ None \in OptToken /\ None \in OptVault
  BY DeviceAssumption DEF OptSession, OptGrant, OptTeam, Keys, OptToken, OptVault
<1>2. "rest" \in Where BY Places
<1>3. "closed" \in Pages BY DEF Pages
<1>4. Idle \in Works BY <1>1, <1>2, Shape DEF Idle
<1>5. Closed \in TabStates
  <2>. HIDE DEF Idle
  <2> QED BY <1>1, <1>3, <1>4, Shape DEF Closed
<1> QED BY <1>4, <1>5

\* Work that starts, or is over.
LEMMA IdleWork ==
  ASSUME NEW a \in Where
  PROVE /\ [Idle EXCEPT !.at = a] \in Works
        /\ \A s \in OptSession : [Idle EXCEPT !.at = a, !.session = s] \in Works
<1>1. None \in OptSession /\ None \in OptGrant /\ None \in OptTeam
      /\ 0 \in Keys /\ None \in OptToken /\ None \in OptVault
  BY DeviceAssumption DEF OptSession, OptGrant, OptTeam, Keys, OptToken, OptVault
<1>2. [Idle EXCEPT !.at = a] = [at |-> a, session |-> None, grant |-> None, team |-> None,
       asked |-> None, key |-> 0]
  BY DEF Idle
<1>3. ASSUME NEW s \in OptSession
      PROVE [Idle EXCEPT !.at = a, !.session = s]
              = [at |-> a, session |-> s, grant |-> None, team |-> None, asked |-> None, key |-> 0]
  <2>. DEFINE i == [Idle EXCEPT !.at = a]
  <2>1. i = [at |-> a, session |-> None, grant |-> None, team |-> None, asked |-> None, key |-> 0]
    BY <1>2
  <2>2. [i EXCEPT !.session = s] = [at |-> a, session |-> s, grant |-> None, team |-> None,
         asked |-> None, key |-> 0]
    <3>. HIDE DEF i
    <3>. QED BY <2>1
  <2>. QED BY <2>2
<1>4. [Idle EXCEPT !.at = a] \in Works BY <1>1, <1>2, Shape
<1>5. ASSUME NEW s \in OptSession PROVE [Idle EXCEPT !.at = a, !.session = s] \in Works
  BY <1>1, <1>3, <1>5, Shape
<1> QED BY <1>4, <1>5

\* The entries of the stores.
LEMMA StoreParts ==
  ASSUME store \in Stores
  PROVE  /\ store.local \in OptSession /\ store.idb \in OptSession /\ store.vault \in OptVault
         /\ store.grant \in OptRecord /\ store.snap \in OptSnapshot
BY DEF Stores, OptSession, OptVault, OptRecord, OptSnapshot

\* Each entry may be set to what it can hold.
LEMMA StoreFields ==
  ASSUME store \in Stores
  PROVE  /\ \A x \in OptSession : StoresWith(x) \in Stores /\ StoresWith(x).vault = store.vault
         /\ \A x \in OptSession : [store EXCEPT !.local = x] \in Stores
            /\ [store EXCEPT !.local = x].vault = store.vault
         /\ \A x \in OptVault : [store EXCEPT !.vault = x] \in Stores
            /\ [store EXCEPT !.vault = x].vault = x
         /\ \A x \in OptRecord : [store EXCEPT !.grant = x] \in Stores
            /\ [store EXCEPT !.grant = x].vault = store.vault
         /\ \A x \in OptSnapshot : [store EXCEPT !.snap = x] \in Stores
            /\ [store EXCEPT !.snap = x].vault = store.vault
<1>1. Stores = [local : OptSession, idb : OptSession, vault : OptVault, grant : OptRecord,
       snap : OptSnapshot]
  BY DEF Stores, OptSession, OptVault, OptRecord, OptSnapshot
<1>. QED BY <1>1 DEF StoresWith

\* getActiveSession returns a session or none.
LEMMA ActiveTyped ==
  ASSUME Typed(tab), store \in Stores, NEW t \in Tabs
  PROVE  Active(t) \in OptSession
BY TabParts, StoreParts DEF Active

\* The fields of a session.
LEMMA SessionParts ==
  ASSUME NEW s \in OptSession, s # None
  PROVE  s.user \in Users /\ s.token \in Tokens \cup {NoToken} /\ s.grant \in OptGrant
BY DEF OptSession, Sessions, OptGrant

\* None stands for each thing that may be missing.
LEMMA Nones ==
  /\ None \in OptSession /\ None \in OptGrant /\ None \in OptTeam /\ 0 \in Keys
  /\ None \in OptToken /\ None \in OptVault /\ None \in OptRecord /\ None \in OptSnapshot
BY DeviceAssumption
   DEF OptSession, OptGrant, OptTeam, Keys, OptToken, OptVault, OptRecord, OptSnapshot

\* What is there is not None.
LEMMA Somes ==
  /\ \A x \in Tokens : x \in OptToken /\ x # None
  /\ \A x \in Grants : x \in OptGrant /\ x # None
  /\ \A x \in Sessions : x \in OptSession /\ x # None
  /\ \A x \in Vaults : x \in OptVault /\ x # None
  /\ \A x \in GrantRecords : x \in OptRecord /\ x # None
  /\ \A x \in Snapshots : x \in OptSnapshot /\ x # None
  /\ \A x \in Teams : x \in OptTeam /\ x # None
BY NoneAssumption DEF OptSession, OptGrant, OptTeam, OptToken, OptVault, OptRecord, OptSnapshot

\* What is not None is one of them.
LEMMA NotNone ==
  /\ \A x \in OptToken : x # None => x \in Tokens
  /\ \A x \in OptGrant : x # None => x \in Grants
  /\ \A x \in OptSession : x # None => x \in Sessions
  /\ \A x \in OptVault : x # None => x \in Vaults
  /\ \A x \in OptRecord : x # None => x \in GrantRecords
  /\ \A x \in OptSnapshot : x # None => x \in Snapshots
  /\ \A x \in OptTeam : x # None => x \in Teams
BY DEF OptSession, OptGrant, OptTeam, OptToken, OptVault, OptRecord, OptSnapshot

\* A team, a session and a grant that are put together.
LEMMA TeamMade ==
  ASSUME NEW u \in Users, NEW v \in Versions, NEW r \in SUBSET Rights
  PROVE  [user |-> u, version |-> v, rights |-> r] \in Teams
BY DEF Teams

LEMMA SessionMade ==
  ASSUME NEW u \in Users, NEW k \in Tokens \cup {NoToken}, NEW g \in OptGrant
  PROVE  [user |-> u, token |-> k, grant |-> g] \in Sessions
BY DEF Sessions, OptGrant

LEMMA GrantMade ==
  ASSUME NEW u \in Users, NEW v \in Versions, NEW r \in SUBSET Rights,
         NEW d \in 0..(MaxTime + GrantLife)
  PROVE  [user |-> u, version |-> v, rights |-> r, until |-> d] \in Grants
BY DEF Grants

\* The fields of a token.
LEMMA TokenParts ==
  ASSUME NEW k \in Tokens
  PROVE  k.user \in Users /\ k.id \in 1..MaxToken
BY DEF Tokens

\* The API's own data.
LEMMA ServerParts ==
  ASSUME TypeOK
  PROVE  /\ \A u \in Users : version[u] \in Versions
         /\ \A u \in Users, v \in Versions : past[u][v] \in SUBSET Rights
         /\ live \subseteq Tokens
         /\ minted.token \in 0..MaxToken /\ minted.key \in 0..MaxKey /\ now \in 0..MaxTime
BY DEF TypeOK

\* What is put into the stores.
LEMMA SnapshotMade ==
  ASSUME NEW u \in Users, NEW v \in Versions, NEW r \in SUBSET Rights, NEW k \in 1..MaxKey,
         NEW d \in 0..(MaxTime + GrantLife)
  PROVE  [user |-> u, version |-> v, rights |-> r, key |-> k, until |-> d] \in Snapshots
BY DEF Snapshots

LEMMA RecordMade ==
  ASSUME NEW u \in Users, NEW k \in 1..MaxKey, NEW g \in Grants
  PROVE  [user |-> u, key |-> k, grant |-> g] \in GrantRecords
BY DEF GrantRecords

LEMMA VaultMade ==
  ASSUME NEW u \in Users, NEW k \in 1..MaxKey
  PROVE  [user |-> u, key |-> k] \in Vaults
BY DEF Vaults

\* The parts of the things that are kept.
LEMMA GrantParts ==
  ASSUME NEW g \in Grants
  PROVE  g.user \in Users /\ g.version \in Versions /\ g.rights \in SUBSET Rights
         /\ g.until \in 0..(MaxTime + GrantLife)
BY DEF Grants

LEMMA TeamParts ==
  ASSUME NEW n \in Teams
  PROVE  n.user \in Users /\ n.version \in Versions /\ n.rights \in SUBSET Rights
BY DEF Teams

LEMMA VaultParts ==
  ASSUME NEW k \in Vaults
  PROVE  k.user \in Users /\ k.key \in 1..MaxKey
BY DEF Vaults

LEMMA RecordParts ==
  ASSUME NEW r \in GrantRecords
  PROVE  r.user \in Users /\ r.key \in 1..MaxKey /\ r.grant \in Grants
BY DEF GrantRecords

LEMMA SnapshotParts ==
  ASSUME NEW r \in Snapshots
  PROVE  r.user \in Users /\ r.version \in Versions /\ r.rights \in SUBSET Rights
         /\ r.key \in 1..MaxKey
         /\ r.until \in 0..(MaxTime + GrantLife)
BY DEF Snapshots

\* The effects of a page that is entered: hydration, or the sign-in page.
LEMMA EnteredTidy ==
  ASSUME TypeInv, NEW t \in Tabs, Entered(t), store' \in Stores, store'.vault = store.vault
  PROVE  Tidy(t)
<1>1. Typed(tab) /\ store \in Stores /\ Active(t) \in OptSession
  BY ActiveTyped DEF TypeInv, TypeOK, Typed
<1>2. CASE Active(t) = None
  <2>1. tab' = [tab EXCEPT ![t].page = "auth", ![t].mem = Active(t), ![t].work = Idle]
    BY <1>2 DEF Entered
  <2>2. Typed(tab')
    BY <1>1, <2>1, Places, Fields, IdleTyped
  <2>3. InPlace(tab'[t], store'.vault)
    BY <1>1, <2>1, Shape DEF InPlace, Typed, Enabling, Idle
  <2>4. \A r \in Tabs : r # t => tab'[r] = tab[r]
    BY <1>1, <2>1 DEF Typed
  <2>. QED
    BY <2>2, <2>3, <2>4 DEF Tidy
<1>3. CASE Active(t) # None
  <2>1. tab' = [tab EXCEPT ![t].page = "shell", ![t].mem = Active(t),
                           ![t].work = [Idle EXCEPT !.at = "team", !.session = Active(t)]]
    BY <1>3 DEF Entered
  <2>2. Typed(tab')
    BY <1>1, <2>1, Places, Fields, IdleWork
  <2>3. InPlace(tab'[t], store'.vault)
    BY <1>1, <1>3, <2>1, Shape DEF InPlace, Typed, Enabling
  <2>4. \A r \in Tabs : r # t => tab'[r] = tab[r]
    BY <1>1, <2>1 DEF Typed
  <2>. QED
    BY <2>2, <2>3, <2>4 DEF Tidy
<1>. QED
  BY <1>2, <1>3

\* The vault is locked again.
LEMMA RelockTidy ==
  ASSUME TypeInv, NEW t \in Tabs, Relock(t), store' \in Stores, store'.vault = store.vault
  PROVE  Tidy(t)
<1>1. Typed(tab)
  BY DEF TypeInv, TypeOK, Typed
<1>2. Typed(tab')
  BY <1>1, Nones, Fields, IdleTyped DEF Relock
<1>3. InPlace(tab'[t], store'.vault)
  BY <1>1, Shape DEF Relock, InPlace, Typed, Enabling, Idle
<1>4. \A r \in Tabs : r # t => tab'[r] = tab[r]
  BY <1>1 DEF Typed, Relock
<1>. QED
  BY <1>2, <1>3, <1>4 DEF Tidy

\* The work that is left when offline access has been enabled.
LEMMA DoneTyped ==
  ASSUME Typed(tab), NEW t \in Tabs
  PROVE  Done(t) \in Works /\ Done(t).at \in {"ready", "rest"}
<1>1. CASE tab[t].page = "shell"
  <2>. DEFINE w == tab[t].work
  <2>1. w \in Works
    BY TabParts
  <2>. HIDE DEF w
  <2>2. Done(t) = [w EXCEPT !.at = "ready", !.session = None, !.key = 0]
    BY <1>1 DEF Done, w
  <2>3. [w EXCEPT !.at = "ready"] \in Works
    BY <2>1, Places, Shape
  <2>4. [w EXCEPT !.at = "ready", !.session = None] \in Works
    BY <2>3, Nones, Shape
  <2>5. Done(t) \in Works
    BY <2>2, <2>4, Nones, Shape
  <2>6. Done(t).at = "ready"
    BY <2>1, <2>2, Shape
  <2>. QED
    BY <2>5, <2>6
<1>2. CASE tab[t].page # "shell"
  BY <1>2, IdleTyped DEF Done, Idle
<1>. QED
  BY <1>1, <1>2

\* A refresh puts a token into the session.
LEMMA RefreshesToken ==
  ASSUME TypeInv, NEW t \in Tabs, Refresh(t)
  PROVE  \E k \in Tokens : WithToken(t, k)
<1>p. TypeOK /\ Typed(tab)
  BY DEF TypeInv, TypeOK, Typed
<1>1. tab[t].kc \in Tokens /\ sso = tab[t].kc.user
  BY <1>p, TabParts, NotNone DEF Refresh
<1>2. CASE tab[t].kc \in live
  BY <1>1, <1>2 DEF Refresh
<1>3. CASE tab[t].kc \notin live
  <2>1. minted.token < MaxToken
    BY <1>3 DEF Refresh
  <2>2. minted.token + 1 \in 1..MaxToken
    BY <1>p, <2>1, ServerParts, DeviceAssumption
  <2>3. [user |-> sso, id |-> minted.token + 1] \in Tokens
    BY <1>1, <2>2, TokenParts DEF Tokens
  <2>. QED
    BY <1>3, <2>3 DEF Refresh
<1>. QED
  BY <1>2, <1>3

\* A tab is closed.
LEMMA ClosedTidy ==
  ASSUME TypeInv, NEW t \in Tabs, tab' = [tab EXCEPT ![t] = Closed], store' \in Stores,
         store'.vault = store.vault
  PROVE  Tidy(t)
<1>1. Typed(tab)
  BY DEF TypeInv, TypeOK, Typed
<1>2. Typed(tab')
  BY <1>1, IdleTyped, Fields
<1>3. InPlace(tab'[t], store'.vault)
  BY <1>1 DEF InPlace, Typed, Enabling, Closed, Idle
<1>4. \A r \in Tabs : r # t => tab'[r] = tab[r]
  BY <1>1 DEF Typed
<1>. QED
  BY <1>2, <1>3, <1>4 DEF Tidy

-----------------------------------------------------------------------------
(* Every step of a tab keeps the types.                                    *)

\* The steps of loading the application and signing in.
LEMMA BootTidy ==
  ASSUME TypeInv, NEW t \in Tabs, Boot(t)
  PROVE  Tidy(t)
<1>p. TypeOK /\ Typed(tab) /\ store \in Stores /\ InPlace(tab[t], store.vault)
  BY DEF TypeInv, TypeOK, Typed
<1>q. Active(t) \in OptSession
  BY <1>p, ActiveTyped
<1>1. ASSUME Load(t) PROVE Tidy(t)
  <2>1. Typed(tab')
    BY <1>1, <1>p, StoreParts, Places, Fields, WorkFields DEF Load
  <2>2. InPlace(tab'[t], store'.vault)
    BY <1>1, <1>p, Shape DEF Load, InPlace, Typed, Enabling, At
  <2>3. \A r \in Tabs : r # t => tab'[r] = tab[r]
    BY <1>1, <1>p DEF Load, Typed
  <2>. QED
    BY <1>1, <1>p, <2>1, <2>2, <2>3 DEF Load, Tidy
<1>2. ASSUME Keep(t) PROVE Tidy(t)
  <2>1. Typed(tab')
    BY <1>2, <1>p, TabParts, Places, Fields, IdleWork DEF Keep
  <2>2. InPlace(tab'[t], store'.vault)
    BY <1>2, <1>p, Shape DEF Keep, InPlace, Typed
  <2>3. \A r \in Tabs : r # t => tab'[r] = tab[r]
    BY <1>2, <1>p DEF Keep, Typed
  <2>4. store' \in Stores /\ store'.vault = store.vault
    BY <1>2, <1>p, <1>q, Nones, TabParts, StoreFields DEF Keep
  <2>. QED
    BY <2>1, <2>2, <2>3, <2>4 DEF Tidy
<1>3. ASSUME CheckSso(t) PROVE Tidy(t)
  <2>f1. [user |-> sso, id |-> minted.token + 1] \in Tokens
    BY <1>3, <1>p, DeviceAssumption DEF CheckSso, TypeOK, Tokens
  <2>f2. [user |-> sso, id |-> minted.token + 1] \in OptToken
    BY <1>3, <2>f1, Somes
  <2>1. Typed(tab')
    BY <1>3, <1>p, <2>f2, Places, Fields, WorkFields DEF CheckSso
  <2>2. InPlace(tab'[t], store'.vault)
    BY <1>3, <1>p, Shape DEF CheckSso, InPlace, Typed
  <2>3. \A r \in Tabs : r # t => tab'[r] = tab[r]
    BY <1>3, <1>p DEF CheckSso, Typed
  <2>. QED
    BY <1>3, <1>p, <2>1, <2>2, <2>3 DEF CheckSso, Tidy
<1>4. ASSUME NoSso(t) PROVE Tidy(t)
  <2>1. Typed(tab')
    <3>1. CASE Active(t) = None
      <4>1. tab' = [tab EXCEPT ![t].mem = None, ![t].work = [Idle EXCEPT !.at = "render"],
             ![t].page = "boot"]
        BY <1>4, <3>1 DEF NoSso, SetSession
      <4>. QED
        BY <4>1, <1>p, Places, Nones, Fields, IdleWork
    <3>2. CASE Active(t) # None
      <4>1. tab' = [tab EXCEPT ![t].mem = Active(t), ![t].work = [Idle EXCEPT !.at = "render"]]
        BY <1>4, <3>2 DEF NoSso, SetSession
      <4>. QED
        BY <4>1, <1>p, <1>q, Places, Fields, IdleWork
    <3>. QED
      BY <3>1, <3>2
  <2>2. InPlace(tab'[t], store'.vault)
    <3>1. CASE Active(t) = None
      <4>1. tab' = [tab EXCEPT ![t].mem = None, ![t].work = [Idle EXCEPT !.at = "render"],
             ![t].page = "boot"]
        BY <1>4, <3>1 DEF NoSso, SetSession
      <4>. QED
        BY <4>1, <3>1, <1>4, <1>p, <1>q, Shape DEF InPlace, Typed
    <3>2. CASE Active(t) # None
      <4>1. tab' = [tab EXCEPT ![t].mem = Active(t), ![t].work = [Idle EXCEPT !.at = "render"]]
        BY <1>4, <3>2 DEF NoSso, SetSession
      <4>. QED
        BY <4>1, <3>2, <1>4, <1>p, <1>q, Shape DEF InPlace, Typed
    <3>. QED
      BY <3>1, <3>2
  <2>3. \A r \in Tabs : r # t => tab'[r] = tab[r]
    BY <1>4, <1>p DEF NoSso, SetSession, Typed
  <2>4. store' \in Stores /\ store'.vault = store.vault
    BY <1>4, <1>p, <1>q, Nones, TabParts, StoreFields DEF NoSso, SetSession
  <2>. QED
    BY <2>1, <2>2, <2>3, <2>4 DEF Tidy
<1>5. ASSUME BootFails(t) PROVE Tidy(t)
  <2>1. Typed(tab')
    BY <1>5, <1>p, Places, Fields, WorkFields, IdleWork, IdleTyped DEF BootFails
  <2>2. InPlace(tab'[t], store'.vault)
    BY <1>5, <1>p, Shape DEF BootFails, InPlace, Typed, Enabling, Idle
  <2>3. \A r \in Tabs : r # t => tab'[r] = tab[r]
    BY <1>5, <1>p DEF BootFails, Typed
  <2>. QED
    BY <1>5, <1>p, <2>1, <2>2, <2>3 DEF BootFails, Tidy
<1>6. ASSUME Identity(t) PROVE Tidy(t)
  <2>f1. tab[t].kc # None
    BY <1>6, <1>p, ServerParts, Somes DEF Identity
  <2>1. Typed(tab')
    BY <1>6, <1>p, Places, WorkFields DEF Identity, GoTo
  <2>2. InPlace(tab'[t], store'.vault)
    BY <1>6, <1>p, <2>f1 DEF Identity, GoTo, InPlace, Enabling
  <2>3. \A r \in Tabs : r # t => tab'[r] = tab[r]
    BY <1>6, <1>p DEF Identity, GoTo, Typed
  <2>. QED
    BY <1>6, <1>p, <2>1, <2>2, <2>3 DEF Identity, GoTo, Tidy
<1>7. ASSUME AskGrant(t) PROVE Tidy(t)
  <2>f1. tab[t].kc \in Tokens /\ tab[t].kc # None
    BY <1>7, <1>p, ServerParts, Somes DEF AskGrant
  <2>f2. [user |-> tab[t].kc.user, version |-> version[tab[t].kc.user], rights |-> {}] \in Teams
    BY <1>7, <2>f1, <1>p, TokenParts, ServerParts, TeamMade
  <2>f3. [user |-> tab[t].kc.user, version |-> version[tab[t].kc.user], rights |-> {}] \in OptTeam
         /\ [user |-> tab[t].kc.user, version |-> version[tab[t].kc.user], rights |-> {}] # None
    BY <1>7, <2>f2, Somes
  <2>1. Typed(tab')
    BY <1>7, <1>p, <2>f3, Places, WorkFields DEF AskGrant
  <2>2. InPlace(tab'[t], store'.vault)
    BY <1>7, <1>p, <2>f1, <2>f3 DEF AskGrant, InPlace, Typed, Enabling
  <2>3. \A r \in Tabs : r # t => tab'[r] = tab[r]
    BY <1>7, <1>p DEF AskGrant, Typed
  <2>. QED
    BY <1>7, <1>p, <2>1, <2>2, <2>3 DEF AskGrant, Tidy
<1>8. ASSUME AnswerGrant(t) PROVE Tidy(t)
  <2>f1. tab[t].kc \in Tokens
    BY <1>8, <1>p, TabParts, NotNone DEF AnswerGrant, At, InPlace
  <2>f2. tab[t].work.team \in Teams
    BY <1>8, <1>p, TabParts, NotNone DEF AnswerGrant, At, InPlace
  <2>f3. tab[t].work.team.user \in Users /\ tab[t].work.team.version \in Versions
    BY <1>8, <2>f2 DEF Teams
  <2>f4. now + GrantLife \in 0..(MaxTime + GrantLife)
    BY <1>8, <1>p, ServerParts, DeviceAssumption
  <2>f5. [user |-> tab[t].work.team.user, version |-> tab[t].work.team.version,
          rights |-> past[tab[t].work.team.user][version[tab[t].work.team.user]],
           until |-> now + GrantLife] \in OptGrant
    BY <1>8, <1>p, <2>f3, <2>f4, GrantMade, ServerParts, Somes
  <2>f6. NewSession(t, [user |-> tab[t].work.team.user, version |-> tab[t].work.team.version,
          rights |-> past[tab[t].work.team.user][version[tab[t].work.team.user]],
           until |-> now + GrantLife]) \in Sessions
    BY <1>8, <2>f5, <2>f1, TokenParts, SessionMade, Somes DEF NewSession
  <2>f7. PICK s \in Sessions :
            tab' = [tab EXCEPT ![t].work = [Idle EXCEPT !.at = "event", !.session = s]]
    BY <1>8, <2>f6 DEF AnswerGrant
  <2>f8. s \in OptSession /\ s # None
    BY Somes
  <2>1. Typed(tab')
    BY <1>p, <2>f7, <2>f8, Places, Fields, IdleWork
  <2>2. InPlace(tab'[t], store'.vault)
    <3>1. tab'[t].work = [Idle EXCEPT !.at = "event", !.session = s]
      BY <1>p, <2>f7, Shape DEF Typed
    <3>. QED
      BY <2>f8, <3>1 DEF InPlace, Enabling, Idle
  <2>3. \A r \in Tabs : r # t => tab'[r] = tab[r]
    BY <1>8, <1>p DEF AnswerGrant, Typed
  <2>. QED
    BY <1>8, <1>p, <2>1, <2>2, <2>3 DEF AnswerGrant, Tidy
<1>9. ASSUME NoGrant(t) PROVE Tidy(t)
  <2>f1. tab[t].kc \in Tokens
    BY <1>9, <1>p, TabParts, NotNone DEF NoGrant, InPlace
  <2>f2. NewSession(t, None) \in Sessions
    BY <1>9, <2>f1, Nones, TokenParts, SessionMade, Somes DEF NewSession
  <2>f3. PICK s \in Sessions :
            tab' = [tab EXCEPT ![t].work = [Idle EXCEPT !.at = "event", !.session = s]]
    BY <1>9, <2>f2 DEF NoGrant
  <2>f4. s \in OptSession /\ s # None
    BY Somes
  <2>1. Typed(tab')
    BY <1>p, <2>f3, <2>f4, Places, Fields, IdleWork
  <2>2. InPlace(tab'[t], store'.vault)
    <3>1. tab'[t].work = [Idle EXCEPT !.at = "event", !.session = s]
      BY <1>p, <2>f3, Shape DEF Typed
    <3>. QED
      BY <2>f4, <3>1 DEF InPlace, Enabling, Idle
  <2>3. \A r \in Tabs : r # t => tab'[r] = tab[r]
    BY <1>9, <1>p DEF NoGrant, Typed
  <2>. QED
    BY <1>9, <1>p, <2>1, <2>2, <2>3 DEF NoGrant, Tidy
<1>10. ASSUME Created(t) PROVE Tidy(t)
  <2>1. Typed(tab')
    BY <1>10, <1>p, TabParts, Places, Fields, IdleWork DEF Created, SetSession
  <2>2. InPlace(tab'[t], store'.vault)
    BY <1>10, <1>p, Shape DEF Created, SetSession, InPlace, Typed
  <2>3. \A r \in Tabs : r # t => tab'[r] = tab[r]
    BY <1>10, <1>p DEF Created, SetSession, Typed
  <2>4. store' \in Stores /\ store'.vault = store.vault
    BY <1>10, <1>p, Nones, TabParts, StoreFields DEF Created, SetSession
  <2>. QED
    BY <2>1, <2>2, <2>3, <2>4 DEF Tidy
<1>11. ASSUME Render(t) PROVE Tidy(t)
  <2>1. Typed(tab')
    <3>1. CASE Active(t) = None
      <4>1. tab' = [tab EXCEPT ![t].page = "auth", ![t].work = Idle]
        BY <1>11, <3>1 DEF Render
      <4>. QED
        BY <4>1, <1>p, Places, Fields, IdleTyped
    <3>2. CASE Active(t) # None
      <4>1. PICK p \in {"access", "shell"} :
              tab' = [tab EXCEPT ![t].page = p, ![t].mem = Active(t),
                        ![t].work = [Idle EXCEPT !.at = "team", !.session = Active(t)]]
        BY <1>11, <3>2 DEF Render
      <4>2. p \in Pages
        BY <4>1 DEF Pages
      <4>. QED
        BY <1>11, <4>1, <4>2, <1>p, <1>q, Places, Fields, IdleWork
    <3>. QED
      BY <3>1, <3>2
  <2>2. InPlace(tab'[t], store'.vault)
    <3>1. CASE Active(t) = None
      <4>1. tab' = [tab EXCEPT ![t].page = "auth", ![t].work = Idle]
        BY <1>11, <3>1 DEF Render
      <4>. QED
        BY <4>1, <3>1, <1>11, <1>p, Shape DEF Render, InPlace, Typed
    <3>2. CASE Active(t) # None
      <4>1. PICK p \in {"access", "shell"} :
              tab' = [tab EXCEPT ![t].page = p, ![t].mem = Active(t),
                        ![t].work = [Idle EXCEPT !.at = "team", !.session = Active(t)]]
        BY <1>11, <3>2 DEF Render
      <4>2. p \in Pages
        BY <4>1 DEF Pages
      <4>. QED
        BY <1>11, <4>1, <4>2, <3>2, <1>p DEF InPlace, Typed, Enabling
    <3>. QED
      BY <3>1, <3>2
  <2>3. \A r \in Tabs : r # t => tab'[r] = tab[r]
    BY <1>11, <1>p DEF Render, Typed
  <2>. QED
    BY <1>11, <1>p, <2>1, <2>2, <2>3 DEF Render, Tidy
<1>. QED
  BY <1>1, <1>2, <1>3, <1>4, <1>5, <1>6, <1>7, <1>8, <1>9, <1>10, <1>11 DEF Boot

\* The steps of loading the authorization, online and offline.
LEMMA HydrateTidy ==
  ASSUME TypeInv, NEW t \in Tabs, Hydrate(t)
  PROVE  Tidy(t)
<1>p. TypeOK /\ Typed(tab) /\ store \in Stores /\ InPlace(tab[t], store.vault)
  BY DEF TypeInv, TypeOK, Typed
<1>q. Active(t) \in OptSession
  BY <1>p, ActiveTyped
<1>1. ASSUME NoSession(t) PROVE Tidy(t)
  <2>f1. Undefined(t) \in {"stuck", "error"}
    BY <1>1, <1>p DEF Undefined
  <2>1. Typed(tab')
    BY <1>1, <1>p, <2>f1, Places, Fields, IdleWork DEF NoSession, Rest
  <2>2. InPlace(tab'[t], store'.vault)
    BY <1>1, <1>p, <1>q, <2>f1 DEF NoSession, Rest, InPlace, Enabling
  <2>3. \A r \in Tabs : r # t => tab'[r] = tab[r]
    BY <1>1, <1>p DEF NoSession, Rest, Typed
  <2>. QED
    BY <1>1, <1>p, <2>1, <2>2, <2>3 DEF NoSession, Rest, Tidy
<1>2. ASSUME WithoutToken(t) PROVE Tidy(t)
  <2>1. Typed(tab')
    BY <1>2, <1>p, <1>q, Places, Fields, WorkFields DEF WithoutToken
  <2>2. InPlace(tab'[t], store'.vault)
    BY <1>2, <1>p, Shape DEF WithoutToken, InPlace, Typed, At
  <2>3. \A r \in Tabs : r # t => tab'[r] = tab[r]
    BY <1>2, <1>p DEF WithoutToken, Typed
  <2>. QED
    BY <1>2, <1>p, <2>1, <2>2, <2>3 DEF WithoutToken, Tidy
<1>13. ASSUME SendTeam(t) PROVE Tidy(t)
  <2>1. Typed(tab')
    BY <1>13, <1>p, <1>q, Places, Fields, WorkFields DEF SendTeam
  <2>2. InPlace(tab'[t], store'.vault)
    BY <1>13, <1>p, Shape DEF SendTeam, InPlace, Typed, At
  <2>3. \A r \in Tabs : r # t => tab'[r] = tab[r]
    BY <1>13, <1>p DEF SendTeam, Typed
  <2>. QED
    BY <1>13, <1>p, <2>1, <2>2, <2>3 DEF SendTeam, Tidy
<1>3. ASSUME AskTeam(t) PROVE Tidy(t)
  <2>1. PICK k : k = tab[t].work.asked.token
    OBVIOUS
  <2>2. k \in Tokens
    BY <1>3, <1>p, <2>1, ServerParts DEF AskTeam
  <2>3. PICK n : n = [user |-> k.user, version |-> version[k.user], rights |-> {}]
    OBVIOUS
  <2>4. n \in OptTeam /\ n # None
    BY <1>p, <2>2, <2>3, TokenParts, ServerParts, TeamMade, Somes
  <2>5. tab' = [tab EXCEPT ![t].work.at = "teamRights", ![t].work.team = n] /\ store' = store
        /\ tab[t].work.at = "asked"
    BY <1>3, <2>1, <2>3 DEF AskTeam, At
  <2>6. Typed(tab')
    BY <1>p, <2>4, <2>5, Places, WorkFields
  <2>7. InPlace(tab'[t], store'.vault)
    BY <1>p, <2>4, <2>5, Shape DEF InPlace, Typed, Enabling
  <2>8. \A r \in Tabs : r # t => tab'[r] = tab[r]
    BY <1>p, <2>5 DEF Typed
  <2>. QED
    BY <1>p, <2>5, <2>6, <2>7, <2>8 DEF Tidy
<1>4. ASSUME TeamDenied(t) PROVE Tidy(t)
  <2>f1. LockedPage(t) \in Pages
    BY <1>4, <1>p, TabParts, Places DEF LockedPage
  <2>f2. (IF tab[t].page = "shell" THEN Idle ELSE [Idle EXCEPT !.at = "error"]) \in Works
    BY <1>4, IdleTyped, IdleWork, Places
  <2>1. Typed(tab')
    BY <1>4, <1>p, <1>q, <2>f1, <2>f2, Nones, Fields DEF TeamDenied, SetSession
  <2>2. InPlace(tab'[t], store'.vault)
    BY <1>4, <1>p, <1>q, <2>f1, <2>f2, Shape DEF TeamDenied, SetSession, InPlace, Typed
  <2>3. \A r \in Tabs : r # t => tab'[r] = tab[r]
    BY <1>4, <1>p DEF TeamDenied, SetSession, Typed
  <2>4. store' \in Stores /\ store'.vault = store.vault
    BY <1>4, <1>p, Nones, StoreFields DEF TeamDenied, SetSession
  <2>. QED
    BY <2>1, <2>2, <2>3, <2>4 DEF Tidy
<1>5. ASSUME TeamFails(t) PROVE Tidy(t)
  <2>f1. Rejected(t) \in {"failed", "error"}
    BY <1>5, <1>p DEF Rejected
  <2>1. Typed(tab')
    BY <1>5, <1>p, <2>f1, Places, Fields, IdleWork DEF TeamFails, Rest
  <2>2. InPlace(tab'[t], store'.vault)
    BY <1>5, <1>p, <1>q, <2>f1 DEF TeamFails, Rest, InPlace, Enabling
  <2>3. \A r \in Tabs : r # t => tab'[r] = tab[r]
    BY <1>5, <1>p DEF TeamFails, Rest, Typed
  <2>. QED
    BY <1>5, <1>p, <2>1, <2>2, <2>3 DEF TeamFails, Rest, Tidy
<1>6. ASSUME AnswerTeam(t) PROVE Tidy(t)
  <2>. DEFINE who == tab[t].work.team.user
  <2>1. tab[t].work.team \in Teams /\ who \in Users /\ past[who][version[who]] \in SUBSET Rights
        /\ tab[t].work.session \in Sessions
    BY <1>6, <1>p, TabParts, NotNone, TeamParts, ServerParts DEF AnswerTeam, At, InPlace
  <2>2. CASE who # tab[t].work.asked.user
    <3>1. Rejected(t) \in {"failed", "error"} /\ Rest(t, Rejected(t))
      BY <1>6, <2>2 DEF Rejected, AnswerTeam
    <3>2. Typed(tab')
      BY <1>p, <3>1, Places, Fields, IdleWork DEF Rest
    <3>3. InPlace(tab'[t], store'.vault)
      BY <1>p, <3>1, Shape DEF Rest, InPlace, Typed, Enabling, Idle
    <3>4. \A r \in Tabs : r # t => tab'[r] = tab[r]
      BY <1>p, <3>1 DEF Rest, Typed
    <3>. QED
      BY <1>6, <1>p, <3>2, <3>3, <3>4 DEF AnswerTeam, Tidy
  <2>3. CASE who = tab[t].work.asked.user
    <3>. DEFINE r == past[who][version[who]]
                f1 == [tab EXCEPT ![t].work.at = Arrived(t)]
                s == IF Arrived(t) = "ready" THEN None ELSE f1[t].work.session
                f2 == [f1 EXCEPT ![t].work.session = s]
                f3 == [f2 EXCEPT ![t].work.asked = None]
                f4 == [f3 EXCEPT ![t].work.team.rights = r]
    <3>1. Arrived(t) \in {"ready", "save"}
      BY DEF Arrived
    <3>2. tab' = f4
      BY <1>6, <2>3 DEF AnswerTeam
    <3>3. Typed(f1) /\ f1[t].work.session = tab[t].work.session
          /\ f1[t].work.team = tab[t].work.team
          /\ f1[t].work.at = Arrived(t)
      <4>1. PICK a : a = Arrived(t)
        OBVIOUS
      <4>2. a \in Where /\ f1 = [tab EXCEPT ![t].work.at = a]
        BY <3>1, <4>1, Places
      <4>3. Typed([tab EXCEPT ![t].work.at = a])
        BY <1>p, <4>2, WorkFields
      <4>. QED
        BY <1>p, <4>1, <4>2, <4>3, Shape DEF Typed
    <3>4. s \in OptSession /\ (Arrived(t) = "save" => s # None)
      BY <2>1, <3>3, Nones, Somes
    <3>. HIDE DEF f1, s
    <3>5. Typed(f2) /\ f2[t].work.team = tab[t].work.team /\ f2[t].work.session = s
          /\ f2[t].work.at = Arrived(t)
      BY <3>3, <3>4, WorkFields, Shape DEF Typed
    <3>. HIDE DEF f2
    <3>6. Typed(f3) /\ f3[t].work.team = tab[t].work.team /\ f3[t].work.session = s
          /\ f3[t].work.at = Arrived(t)
      BY <3>5, Nones, WorkFields, Shape DEF Typed
    <3>. HIDE DEF f3
    <3>7. [tab[t].work.team EXCEPT !.rights = r] \in Teams
      BY <2>1 DEF Teams
    <3>8. Typed(f4)
      <4>1. f4 = [f3 EXCEPT ![t].work.team = [tab[t].work.team EXCEPT !.rights = r]]
        BY <3>6
      <4>. QED
        BY <4>1, <3>6, <3>7, Somes, WorkFields
    <3>9. f4[t].work.at = Arrived(t) /\ f4[t].work.session = s /\ f4[t].work.team # None
      BY <2>1, <3>6, <3>7, Somes, Shape DEF Typed
    <3>10. InPlace(f4[t], store.vault)
      BY <3>1, <3>4, <3>9 DEF InPlace, Enabling
    <3>11. \A q \in Tabs : q # t => tab'[q] = tab[q]
      BY <1>6, <1>p DEF AnswerTeam, Typed, Rest
    <3>. QED
      BY <1>6, <1>p, <3>2, <3>8, <3>10, <3>11 DEF AnswerTeam, Tidy
  <2>. QED
    BY <2>2, <2>3
<1>7. ASSUME ReadSnapshot(t) PROVE Tidy(t)
  <2>1. store' = store
    BY <1>7 DEF ReadSnapshot
  <2>2. CASE tab[t].key = None \/ store.snap = None \/ ~UsesSnapshot(t)
    <3>1. PICK w \in {"stuck", "error", "failed"} : Rest(t, w)
      BY <1>7, <2>2 DEF ReadSnapshot, Undefined, Rejected
    <3>2. Typed(tab')
      BY <1>p, <3>1, Places, Fields, IdleWork DEF Rest
    <3>3. InPlace(tab'[t], store'.vault)
      BY <1>p, <3>1, Shape DEF Rest, InPlace, Typed, Enabling, Idle
    <3>4. \A r \in Tabs : r # t => tab'[r] = tab[r]
      BY <1>p, <3>1 DEF Rest, Typed
    <3>. QED
      BY <1>p, <2>1, <3>2, <3>3, <3>4 DEF Tidy
  <2>3. CASE ~(tab[t].key = None \/ store.snap = None \/ ~UsesSnapshot(t))
             /\ store.snap.until <= now
    <3>1. GoTo(t, "dropSnap")
      BY <1>7, <2>3 DEF ReadSnapshot
    <3>2. Typed(tab')
      BY <1>p, <3>1, Places, WorkFields DEF GoTo
    <3>3. InPlace(tab'[t], store'.vault)
      BY <1>p, <3>1, Shape DEF GoTo, InPlace, Typed, Enabling
    <3>4. \A r \in Tabs : r # t => tab'[r] = tab[r]
      BY <1>p, <3>1 DEF GoTo, Typed
    <3>. QED
      BY <1>p, <2>1, <3>2, <3>3, <3>4 DEF Tidy
  <2>4. CASE ~(tab[t].key = None \/ store.snap = None \/ ~UsesSnapshot(t))
             /\ ~(store.snap.until <= now)
             /\ tab[t].page = "access"
    BY <1>7, <1>p, <2>1, <2>4, EnteredTidy DEF ReadSnapshot
  <2>5. CASE ~(tab[t].key = None \/ store.snap = None \/ ~UsesSnapshot(t))
             /\ ~(store.snap.until <= now)
             /\ tab[t].page # "access"
    <3>. DEFINE n == [user |-> store.snap.user, version |-> store.snap.version,
          rights |-> store.snap.rights]
    <3>1. n \in OptTeam
      BY <1>p, <2>5, StoreParts, NotNone, SnapshotParts, TeamMade, Somes
    <3>2. tab' = [tab EXCEPT ![t].work = [Idle EXCEPT !.at = "ready", !.team = n]]
      BY <1>7, <2>5 DEF ReadSnapshot
    <3>3. [Idle EXCEPT !.at = "ready", !.team = n]
            = [at |-> "ready", session |-> None, grant |-> None, team |-> n, asked |-> None,
             key |-> 0]
      <4>. DEFINE i == [Idle EXCEPT !.at = "ready"]
      <4>1. i = [at |-> "ready", session |-> None, grant |-> None, team |-> None, asked |-> None,
             key |-> 0]
        BY DEF Idle
      <4>. HIDE DEF i, n
      <4>2. [i EXCEPT !.team = n]
              = [at |-> "ready", session |-> None, grant |-> None, team |-> n, asked |-> None,
               key |-> 0]
        BY <4>1
      <4>. QED
        BY <4>2 DEF i
    <3>. HIDE DEF n
    <3>4. [Idle EXCEPT !.at = "ready", !.team = n] \in Works
      BY <3>1, <3>3, Places, Nones, Shape
    <3>5. Typed(tab')
      BY <1>p, <3>2, <3>4, Fields
    <3>6. InPlace(tab'[t], store'.vault)
      BY <1>p, <3>2, <3>3, Shape DEF InPlace, Typed, Enabling
    <3>7. \A r \in Tabs : r # t => tab'[r] = tab[r]
      BY <1>p, <3>2 DEF Typed
    <3>. QED
      BY <1>p, <2>1, <3>5, <3>6, <3>7 DEF Tidy
  <2>. QED
    BY <2>2, <2>3, <2>4, <2>5
<1>8. ASSUME DropSnapshot(t) PROVE Tidy(t)
  <2>f1. Undefined(t) \in {"stuck", "error"}
    BY <1>8, <1>p DEF Undefined
  <2>1. Typed(tab')
    BY <1>8, <1>p, <2>f1, Places, Fields, IdleWork DEF DropSnapshot, Rest
  <2>2. InPlace(tab'[t], store'.vault)
    BY <1>8, <1>p, <2>f1 DEF DropSnapshot, Rest, InPlace, Enabling
  <2>3. \A r \in Tabs : r # t => tab'[r] = tab[r]
    BY <1>8, <1>p DEF DropSnapshot, Rest, Typed
  <2>4. store' \in Stores /\ store'.vault = store.vault
    BY <1>8, <1>p, <2>f1, Nones, TabParts, StoreFields DEF DropSnapshot, Rest
  <2>. QED
    BY <2>1, <2>2, <2>3, <2>4 DEF Tidy
<1>9. ASSUME CheckGrant(t) PROVE Tidy(t)
  <2>. DEFINE r == store.grant
              unlocked == tab[t].key # None /\ tab[t].key.user = tab[t].work.session.user
              expired == unlocked /\ r # None /\ r.user = tab[t].key.user /\ r.grant.until <= now
              saves == unlocked /\ MaySave(t, r)
  <2>1. store' = store /\ tab[t].work.at = "save"
    BY <1>9 DEF CheckGrant, At
  <2>2. CASE expired
    <3>1. GoTo(t, "dropGrant")
      BY <1>9, <2>2 DEF CheckGrant
    <3>2. Typed(tab')
      BY <1>p, <3>1, Places, WorkFields DEF GoTo
    <3>3. InPlace(tab'[t], store'.vault)
      BY <1>p, <2>1, <3>1, Shape DEF GoTo, InPlace, Typed, Enabling
    <3>4. \A q \in Tabs : q # t => tab'[q] = tab[q]
      BY <1>p, <3>1 DEF GoTo, Typed
    <3>. QED
      BY <1>p, <2>1, <3>2, <3>3, <3>4 DEF Tidy
  <2>3. CASE ~expired /\ saves
    <3>1. tab' = [tab EXCEPT ![t].work.at = "put", ![t].work.grant = store.grant.grant]
      BY <1>9, <2>3 DEF CheckGrant
    <3>2. store.grant.grant \in OptGrant /\ store.grant.grant # None
      BY <1>p, <2>3, StoreParts, NotNone, RecordParts, Somes DEF MaySave
    <3>3. Typed(tab')
      BY <1>p, <3>1, <3>2, Places, WorkFields
    <3>4. InPlace(tab'[t], store'.vault)
      BY <1>p, <2>1, <2>3, <3>1, <3>2 DEF InPlace, Typed, Enabling
    <3>5. \A q \in Tabs : q # t => tab'[q] = tab[q]
      BY <1>p, <3>1 DEF Typed
    <3>. QED
      BY <1>p, <2>1, <3>3, <3>4, <3>5 DEF Tidy
  <2>4. CASE ~expired /\ ~saves
    BY <1>9, <1>p, <2>1, <2>4, EnteredTidy DEF CheckGrant
  <2>. QED
    BY <2>2, <2>3, <2>4
<1>10. ASSUME DropGrant(t) PROVE Tidy(t)
  BY <1>10, <1>p, Nones, StoreFields, EnteredTidy DEF DropGrant
<1>11. ASSUME PutSnapshot(t) PROVE Tidy(t)
  <2>. DEFINE r == [user |-> tab[t].work.session.user, version |-> tab[t].work.team.version,
                    rights |-> tab[t].work.team.rights, key |-> tab[t].key.key,
                    until |-> tab[t].work.grant.until]
  <2>1. /\ tab[t].work.session \in Sessions /\ tab[t].work.team \in Teams /\ tab[t].key \in Vaults
        /\ tab[t].work.grant \in Grants
    BY <1>11, <1>p, TabParts, NotNone DEF PutSnapshot, At, InPlace
  <2>2. tab[t].work.session.user \in Users
    BY <2>1, Somes, SessionParts
  <2>3. r \in Snapshots
    BY <2>1, <2>2, TeamParts, VaultParts, GrantParts, SnapshotMade
  <2>. HIDE DEF r
  <2>4. store' = [store EXCEPT !.snap = r] /\ Entered(t)
    BY <1>11 DEF PutSnapshot, r
  <2>. QED
    BY <1>p, <2>3, <2>4, Somes, StoreFields, EnteredTidy
<1>12. ASSUME Retry(t) PROVE Tidy(t)
  <2>1. Typed(tab')
    <3>1. CASE Active(t) = None
      <4>1. tab' = [tab EXCEPT ![t].page = "auth", ![t].mem = Active(t), ![t].work = Idle]
        BY <1>12, <3>1 DEF Retry
      <4>. QED
        BY <4>1, <1>p, <1>q, Places, Fields, IdleTyped
    <3>2. CASE Active(t) # None
      <4>1. tab' = [tab EXCEPT ![t].page = "access", ![t].mem = Active(t),
             ![t].work = [Idle EXCEPT !.at = "team", !.session = Active(t)]]
        BY <1>12, <3>2 DEF Retry
      <4>. QED
        BY <4>1, <1>p, <1>q, Places, Fields, IdleWork
    <3>. QED
      BY <3>1, <3>2
  <2>2. InPlace(tab'[t], store'.vault)
    <3>1. CASE Active(t) = None
      <4>1. tab' = [tab EXCEPT ![t].page = "auth", ![t].mem = Active(t), ![t].work = Idle]
        BY <1>12, <3>1 DEF Retry
      <4>. QED
        BY <4>1, <3>1, <1>12, <1>p, Shape DEF Retry, InPlace, Typed
    <3>2. CASE Active(t) # None
      <4>1. tab' = [tab EXCEPT ![t].page = "access", ![t].mem = Active(t),
             ![t].work = [Idle EXCEPT !.at = "team", !.session = Active(t)]]
        BY <1>12, <3>2 DEF Retry
      <4>. QED
        BY <4>1, <3>2, <1>12, <1>p DEF InPlace, Typed, Enabling
    <3>. QED
      BY <3>1, <3>2
  <2>3. \A r \in Tabs : r # t => tab'[r] = tab[r]
    BY <1>12, <1>p DEF Retry, Typed
  <2>. QED
    BY <1>12, <1>p, <2>1, <2>2, <2>3 DEF Retry, Tidy
<1>. QED
  BY <1>1, <1>2, <1>3, <1>4, <1>5, <1>6, <1>7, <1>8, <1>9, <1>10, <1>11, <1>12,
     <1>13 DEF Hydrate, Resume

\* The steps of enabling offline access and of unlocking the vault.
LEMMA VaultTidy ==
  ASSUME TypeInv, NEW t \in Tabs, Vault(t)
  PROVE  Tidy(t)
<1>p. TypeOK /\ Typed(tab) /\ store \in Stores /\ InPlace(tab[t], store.vault)
  BY DEF TypeInv, TypeOK, Typed
<1>q. Active(t) \in OptSession
  BY <1>p, ActiveTyped
<1>1. ASSUME FindVault(t) PROVE Tidy(t)
  <2>1. store' = store /\ tab[t].work.at = "enable"
    BY <1>1 DEF FindVault, At
  <2>2. ASSUME NEW w \in {"setup", "enableUnlock"}, GoTo(t, w), w = "enableUnlock"
               => store.vault # None
        PROVE  Tidy(t)
    <3>1. Typed(tab')
      BY <1>p, <2>2, Places, WorkFields DEF GoTo
    <3>2. InPlace(tab'[t], store'.vault)
      BY <1>p, <2>1, <2>2, Shape DEF GoTo, InPlace, Typed, Enabling
    <3>3. \A r \in Tabs : r # t => tab'[r] = tab[r]
      BY <1>p, <2>2 DEF GoTo, Typed
    <3>. QED
      BY <1>p, <2>1, <3>1, <3>2, <3>3 DEF Tidy
  <2>3. ASSUME tab' = [tab EXCEPT ![t].work = Done(t)]
        PROVE  Tidy(t)
    <3>1. Typed(tab')
      BY <1>p, <2>3, DoneTyped, Fields
    <3>2. InPlace(tab'[t], store'.vault)
      BY <1>p, <2>3, DoneTyped, Shape DEF Typed, InPlace, Enabling
    <3>3. \A r \in Tabs : r # t => tab'[r] = tab[r]
      BY <1>p, <2>3 DEF Typed
    <3>. QED
      BY <1>p, <2>1, <3>1, <3>2, <3>3 DEF Tidy
  <2>. QED
    BY <1>1, <2>2, <2>3 DEF FindVault
<1>2. ASSUME NEW right \in BOOLEAN, EnableUnlock(t, right) PROVE Tidy(t)
  <2>1. store' = store /\ tab[t].work.at = "enableUnlock"
    BY <1>2 DEF EnableUnlock, At
  <2>2. CASE right
    <3>1. tab' = [tab EXCEPT ![t].key = store.vault, ![t].work.at = "saveGrant"]
      BY <1>2, <2>2 DEF EnableUnlock
    <3>2. Typed(tab')
      BY <1>p, <3>1, StoreParts, Places, Fields, WorkFields
    <3>3. InPlace(tab'[t], store'.vault)
      BY <1>p, <2>1, <3>1, Shape DEF InPlace, Typed, Enabling
    <3>4. \A r \in Tabs : r # t => tab'[r] = tab[r]
      BY <1>p, <3>1 DEF Typed
    <3>. QED
      BY <1>p, <2>1, <3>2, <3>3, <3>4 DEF Tidy
  <2>3. CASE ~right
    <3>1. tab' = [tab EXCEPT ![t].key = None, ![t].work = Done(t)]
      BY <1>2, <2>3 DEF EnableUnlock
    <3>2. Typed(tab')
      BY <1>p, <3>1, DoneTyped, Nones, Fields
    <3>3. InPlace(tab'[t], store'.vault)
      BY <1>p, <3>1, DoneTyped, Shape DEF InPlace, Typed, Enabling
    <3>4. \A r \in Tabs : r # t => tab'[r] = tab[r]
      BY <1>p, <3>1 DEF Typed
    <3>. QED
      BY <1>p, <2>1, <3>2, <3>3, <3>4 DEF Tidy
  <2>. QED
    BY <2>2, <2>3
<1>3. ASSUME SetupVault(t) PROVE Tidy(t)
  <2>1. store' = store /\ tab[t].work.at = "setup"
    BY <1>3 DEF SetupVault, At
  <2>2. CASE store.vault # None
    <3>1. tab' = [tab EXCEPT ![t].work = Done(t)]
      BY <1>3, <2>2 DEF SetupVault
    <3>2. Typed(tab')
      BY <1>p, <3>1, DoneTyped, Fields
    <3>3. InPlace(tab'[t], store'.vault)
      BY <1>p, <3>1, DoneTyped, Shape DEF InPlace, Typed, Enabling
    <3>4. \A r \in Tabs : r # t => tab'[r] = tab[r]
      BY <1>p, <3>1 DEF Typed
    <3>. QED
      BY <1>p, <2>1, <3>2, <3>3, <3>4 DEF Tidy
  <2>3. CASE store.vault = None
    <3>1. tab' = [tab EXCEPT ![t].work.at = "saveVault", ![t].work.key = NewKey]
          /\ minted.key < MaxKey
      BY <1>3, <2>3 DEF SetupVault
    <3>2. NewKey \in Keys /\ NewKey # 0
      BY <1>p, <3>1, ServerParts, DeviceAssumption DEF NewKey, Keys
    <3>3. Typed(tab')
      BY <1>p, <3>1, <3>2, Places, WorkFields
    <3>4. InPlace(tab'[t], store'.vault)
      BY <1>p, <2>1, <3>1, <3>2, Shape DEF InPlace, Typed, Enabling
    <3>5. \A r \in Tabs : r # t => tab'[r] = tab[r]
      BY <1>p, <3>1 DEF Typed
    <3>. QED
      BY <1>p, <2>1, <3>3, <3>4, <3>5 DEF Tidy
  <2>. QED
    BY <2>2, <2>3
<1>4. ASSUME SaveVault(t) PROVE Tidy(t)
  <2>. DEFINE v == [user |-> tab[t].work.session.user, key |-> tab[t].work.key]
  <2>1. tab[t].work.session \in OptSession /\ tab[t].work.session # None
        /\ tab[t].work.key \in 1..MaxKey /\ tab[t].work.at = "saveVault"
    BY <1>4, <1>p, TabParts DEF SaveVault, At, InPlace, Enabling, Keys
  <2>2. v \in Vaults
    BY <2>1, SessionParts, VaultMade
  <2>. HIDE DEF v
  <2>3. store' = [store EXCEPT !.vault = v]
        /\ tab' = [tab EXCEPT ![t].key = v, ![t].work.at = "saveGrant", ![t].work.key = 0]
    BY <1>4 DEF SaveVault, v
  <2>4. v \in OptVault /\ v # None
    BY <2>2, Somes
  <2>5. Typed(tab')
    BY <1>p, <2>3, <2>4, Places, Nones, Fields, WorkFields
  <2>6. InPlace(tab'[t], store'.vault)
    BY <1>p, <2>1, <2>3, <2>4, Shape DEF InPlace, Typed, Enabling
  <2>7. \A r \in Tabs : r # t => tab'[r] = tab[r]
    BY <1>p, <2>3 DEF Typed
  <2>8. store' \in Stores /\ store'.vault # None
    BY <1>p, <2>3, <2>4, StoreFields
  <2>. QED
    BY <2>5, <2>6, <2>7, <2>8 DEF Tidy
<1>5. ASSUME SaveGrant(t) PROVE Tidy(t)
  <2>. DEFINE g == tab[t].work.session.grant
              r == [user |-> g.user, key |-> tab[t].key.key, grant |-> g]
  <2>1. tab[t].work.session \in OptSession /\ tab[t].work.session # None /\ g # None
        /\ tab[t].key \in Vaults
    BY <1>5, <1>p, TabParts, NotNone DEF SaveGrant, At, InPlace, Enabling
  <2>2. r \in OptRecord
    BY <2>1, SessionParts, NotNone, GrantParts, VaultParts, RecordMade, Somes
  <2>. HIDE DEF r
  <2>3. (store' = [store EXCEPT !.grant = r] \/ store' = store)
        /\ tab' = [tab EXCEPT ![t].work = Done(t)]
    BY <1>5 DEF SaveGrant, r
  <2>4. Typed(tab')
    BY <1>p, <2>3, DoneTyped, Fields
  <2>5. InPlace(tab'[t], store'.vault)
    BY <1>p, <2>3, DoneTyped, Shape DEF InPlace, Typed, Enabling
  <2>6. \A q \in Tabs : q # t => tab'[q] = tab[q]
    BY <1>p, <2>3 DEF Typed
  <2>7. store' \in Stores /\ store'.vault = store.vault
    <3>1. [store EXCEPT !.grant = r] \in Stores /\ [store EXCEPT !.grant = r].vault = store.vault
      BY <1>p, <2>2, StoreFields
    <3>. QED
      BY <1>p, <2>3, <3>1
  <2>. QED
    BY <2>4, <2>5, <2>6, <2>7 DEF Tidy
<1>6. ASSUME NEW right \in BOOLEAN, UnlockVault(t, right) PROVE Tidy(t)
  <2>1. store' = store
    BY <1>6 DEF UnlockVault
  <2>2. CASE right
    <3>1. tab' = [tab EXCEPT ![t].key = store.vault, ![t].work.at = "unlockGrant"]
      BY <1>6, <2>2 DEF UnlockVault
    <3>2. Typed(tab')
      BY <1>p, <3>1, StoreParts, Places, Fields, WorkFields
    <3>3. InPlace(tab'[t], store'.vault)
      BY <1>p, <3>1, Shape DEF InPlace, Typed, Enabling
    <3>4. \A r \in Tabs : r # t => tab'[r] = tab[r]
      BY <1>p, <3>1 DEF Typed
    <3>. QED
      BY <1>p, <2>1, <3>2, <3>3, <3>4 DEF Tidy
  <2>3. CASE ~right
    BY <1>6, <1>p, <2>1, <2>3, RelockTidy DEF UnlockVault, Relock
  <2>. QED
    BY <2>2, <2>3
<1>7. ASSUME UnlockGrant(t) PROVE Tidy(t)
  <2>1. store' = store
    BY <1>7 DEF UnlockGrant
  <2>2. CASE Relock(t)
    BY <1>p, <2>1, <2>2, RelockTidy
  <2>3. CASE GoTo(t, "unlockDrop")
    <3>1. Typed(tab')
      BY <1>p, <2>3, Places, WorkFields DEF GoTo
    <3>2. InPlace(tab'[t], store'.vault)
      BY <1>p, <2>3, Shape DEF GoTo, InPlace, Typed, Enabling
    <3>3. \A r \in Tabs : r # t => tab'[r] = tab[r]
      BY <1>p, <2>3 DEF GoTo, Typed
    <3>. QED
      BY <1>p, <2>1, <3>1, <3>2, <3>3 DEF Tidy
  <2>4. CASE store.grant # None
             /\ tab' = [tab EXCEPT ![t].work.at = "unlockSnap", ![t].work.grant = store.grant.grant]
    <3>1. store.grant.grant \in OptGrant /\ store.grant.grant # None
      BY <1>p, <2>4, StoreParts, NotNone, RecordParts, Somes
    <3>2. Typed(tab')
      BY <1>p, <2>4, <3>1, Places, WorkFields
    <3>3. InPlace(tab'[t], store'.vault)
      BY <1>p, <2>4, <3>1, Shape DEF InPlace, Typed, Enabling
    <3>4. \A r \in Tabs : r # t => tab'[r] = tab[r]
      BY <1>p, <2>4 DEF Typed
    <3>. QED
      BY <1>p, <2>1, <3>2, <3>3, <3>4 DEF Tidy
  <2>. QED
    BY <1>7, <2>2, <2>3, <2>4 DEF UnlockGrant
<1>8. ASSUME UnlockDropGrant(t) PROVE Tidy(t)
  BY <1>8, <1>p, Nones, StoreFields, RelockTidy DEF UnlockDropGrant
<1>9. ASSUME UnlockSnapshot(t) PROVE Tidy(t)
  <2>1. CASE Relock(t) /\ UNCHANGED store
    BY <1>p, <2>1, RelockTidy
  <2>2. CASE GoTo(t, "unlockDropSnap") /\ UNCHANGED store
    <3>1. Typed(tab')
      BY <1>p, <2>2, Places, WorkFields DEF GoTo
    <3>2. InPlace(tab'[t], store'.vault)
      BY <1>9, <1>p, <2>2 DEF GoTo, InPlace, Enabling, UnlockSnapshot, At
    <3>3. \A r \in Tabs : r # t => tab'[r] = tab[r]
      BY <1>p, <2>2 DEF GoTo, Typed
    <3>. QED
      BY <1>p, <2>2, <3>1, <3>2, <3>3 DEF Tidy
  <2>3. CASE /\ store.snap # None
             /\ LET s == [user |-> store.snap.user, token |-> NoToken, grant |-> tab[t].work.grant]
                IN SetSession(t, s, [Idle EXCEPT !.at = "team", !.session = s], "access")
    <3>. DEFINE s == [user |-> store.snap.user, token |-> NoToken, grant |-> tab[t].work.grant]
    <3>1. s \in OptSession /\ s # None
      BY <1>p, <2>3, StoreParts, TabParts, NotNone, SnapshotParts, SessionMade, Somes
    <3>2. SetSession(t, s, [Idle EXCEPT !.at = "team", !.session = s], "access")
      BY <2>3
    <3>. HIDE DEF s
    <3>3. Typed(tab')
      BY <1>p, <3>1, <3>2, Places, Fields, IdleWork DEF SetSession
    <3>4. InPlace(tab'[t], store'.vault)
      BY <1>p, <3>1, <3>2 DEF SetSession, InPlace, Typed, Enabling
    <3>5. \A r \in Tabs : r # t => tab'[r] = tab[r]
      BY <1>p, <3>2 DEF SetSession, Typed
    <3>6. store' \in Stores /\ store'.vault = store.vault
      BY <1>p, <3>1, <3>2, StoreFields DEF SetSession
    <3>. QED
      BY <3>3, <3>4, <3>5, <3>6 DEF Tidy
  <2>. QED
    BY <1>9, <2>1, <2>2, <2>3 DEF UnlockSnapshot
<1>10. ASSUME UnlockDropSnapshot(t) PROVE Tidy(t)
  BY <1>10, <1>p, Nones, StoreFields, RelockTidy DEF UnlockDropSnapshot
<1>. QED
  BY <1>1, <1>2, <1>3, <1>4, <1>5, <1>6, <1>7, <1>8, <1>9, <1>10 DEF Vault

\* What the person at the device does.
LEMMA PersonTidy ==
  ASSUME TypeInv, NEW t \in Tabs, Person(t)
  PROVE  Tidy(t)
<1>p. TypeOK /\ Typed(tab) /\ store \in Stores /\ InPlace(tab[t], store.vault)
  BY DEF TypeInv, TypeOK, Typed
<1>q. Active(t) \in OptSession
  BY <1>p, ActiveTyped
<1>1. ASSUME Open(t) PROVE Tidy(t)
  <2>. DEFINE b == IF store.local = None THEN "load" ELSE "sso"
  <2>1. [Closed EXCEPT !.page = "boot", !.mem = store.local, !.work.at = b]
          = [page |-> "boot", mem |-> store.local, kc |-> None, key |-> None,
           work |-> [Idle EXCEPT !.at = b]]
    <3>. DEFINE c == [Closed EXCEPT !.page = "boot", !.mem = store.local]
    <3>1. c = [page |-> "boot", mem |-> store.local, kc |-> None, key |-> None, work |-> Idle]
      <4>. DEFINE d == [Closed EXCEPT !.page = "boot"]
      <4>1. d = [page |-> "boot", mem |-> None, kc |-> None, key |-> None, work |-> Idle]
        BY DEF Closed
      <4>. HIDE DEF d
      <4>2. [d EXCEPT !.mem = store.local]
              = [page |-> "boot", mem |-> store.local, kc |-> None, key |-> None, work |-> Idle]
        BY <4>1
      <4>. QED
        BY <4>2 DEF d
    <3>. HIDE DEF c, b
    <3>2. [c EXCEPT !.work.at = b]
            = [page |-> "boot", mem |-> store.local, kc |-> None, key |-> None,
             work |-> [Idle EXCEPT !.at = b]]
      BY <3>1
    <3>. QED
      BY <3>2 DEF c
  <2>2. b \in Where
    BY Places
  <2>3. [page |-> "boot", mem |-> store.local, kc |-> None, key |-> None,
         work |-> [Idle EXCEPT !.at = b]]
          \in TabStates
    BY <1>p, <2>2, StoreParts, Places, Nones, IdleWork, Shape
  <2>4. tab' = [tab EXCEPT ![t] = [page |-> "boot", mem |-> store.local, kc |-> None, key |-> None,
                                   work |-> [Idle EXCEPT !.at = b]]] /\ store' = store
    BY <1>1, <2>1 DEF Open
  <2>5. Typed(tab')
    BY <1>p, <2>3, <2>4, Fields
  <2>6. InPlace(tab'[t], store'.vault)
    BY <1>p, <2>4 DEF Typed, InPlace, Enabling, Idle
  <2>7. \A r \in Tabs : r # t => tab'[r] = tab[r]
    BY <1>p, <2>4 DEF Typed
  <2>. QED
    BY <1>p, <2>4, <2>5, <2>6, <2>7 DEF Tidy
<1>2. ASSUME Close(t) PROVE Tidy(t)
  BY <1>2, <1>p, ClosedTidy DEF Close
<1>3. ASSUME Found(t) PROVE Tidy(t)
  <2>1. Typed(tab')
    BY <1>3, <1>p, <1>q, Places, Fields, IdleWork DEF Found
  <2>2. InPlace(tab'[t], store'.vault)
    BY <1>3, <1>p DEF Found, InPlace, Typed, Enabling
  <2>3. \A r \in Tabs : r # t => tab'[r] = tab[r]
    BY <1>3, <1>p DEF Found, Typed
  <2>. QED
    BY <1>3, <1>p, <2>1, <2>2, <2>3 DEF Found, Tidy
<1>4. ASSUME Revisit(t) PROVE Tidy(t)
  <2>1. Typed(tab')
    BY <1>4, <1>p, TabParts, Places, Fields, IdleTyped DEF Revisit
  <2>2. InPlace(tab'[t], store'.vault)
    BY <1>4, <1>p, Shape DEF Revisit, InPlace, Typed
  <2>3. \A r \in Tabs : r # t => tab'[r] = tab[r]
    BY <1>4, <1>p DEF Revisit, Typed
  <2>. QED
    BY <1>4, <1>p, <2>1, <2>2, <2>3 DEF Revisit, Tidy
<1>5. ASSUME SignInAgain(t) PROVE Tidy(t)
  <2>1. Typed(tab')
    BY <1>5, <1>p, Places, Nones, Fields, IdleTyped DEF SignInAgain, SetSession
  <2>2. InPlace(tab'[t], store'.vault)
    BY <1>5, <1>p, Shape DEF SignInAgain, SetSession, Typed
  <2>3. \A r \in Tabs : r # t => tab'[r] = tab[r]
    BY <1>5, <1>p DEF SignInAgain, SetSession, Typed
  <2>4. store' \in Stores /\ store'.vault = store.vault
    BY <1>5, <1>p, Nones, TabParts, StoreFields DEF SignInAgain, SetSession
  <2>. QED
    BY <2>1, <2>2, <2>3, <2>4 DEF Tidy
<1>6. ASSUME SignOut(t) PROVE Tidy(t)
  <2>1. Typed(tab')
    BY <1>6, <1>p, Places, Fields, IdleWork DEF SignOut, Rest
  <2>2. InPlace(tab'[t], store'.vault)
    BY <1>6, <1>p DEF SignOut, Rest, InPlace, Enabling
  <2>3. \A r \in Tabs : r # t => tab'[r] = tab[r]
    BY <1>6, <1>p DEF SignOut, Rest, Typed
  <2>. QED
    BY <1>6, <1>p, <2>1, <2>2, <2>3 DEF SignOut, Rest, Tidy
<1>7. ASSUME Unlock(t) PROVE Tidy(t)
  <2>1. Typed(tab')
    BY <1>7, <1>p, Places, WorkFields DEF Unlock, GoTo
  <2>2. InPlace(tab'[t], store'.vault)
    BY <1>7, <1>p DEF Unlock, GoTo, InPlace, Enabling
  <2>3. \A r \in Tabs : r # t => tab'[r] = tab[r]
    BY <1>7, <1>p DEF Unlock, GoTo, Typed
  <2>. QED
    BY <1>7, <1>p, <2>1, <2>2, <2>3 DEF Unlock, GoTo, Tidy
<1>8. ASSUME Enable(t) PROVE Tidy(t)
  <2>1. Typed(tab')
    BY <1>8, <1>p, TabParts, Places, Nones, Fields, WorkFields DEF Enable
  <2>2. InPlace(tab'[t], store'.vault)
    BY <1>8, <1>p, Shape DEF Enable, InPlace, Typed, Enabling, At
  <2>3. \A r \in Tabs : r # t => tab'[r] = tab[r]
    BY <1>8, <1>p DEF Enable, Typed
  <2>. QED
    BY <1>8, <1>p, <2>1, <2>2, <2>3 DEF Enable, Tidy
<1>9. ASSUME Request(t) PROVE Tidy(t)
  <2>1. Typed(tab')
    BY <1>9, <1>p, <1>q, TabParts, Places, Nones, Fields DEF Request
  <2>2. InPlace(tab'[t], store'.vault)
    <3>1. tab'[t].kc = tab[t].kc /\ tab'[t].key = tab[t].key /\ tab'[t].work = tab[t].work
          /\ store' = store /\ tab[t].work.at = "ready"
      BY <1>9, <1>p, Shape DEF Request, At, Typed
    <3>. QED
      BY <1>p, <3>1 DEF InPlace
  <2>3. \A r \in Tabs : r # t => tab'[r] = tab[r]
    BY <1>9, <1>p DEF Request, Typed
  <2>. QED
    BY <1>9, <1>p, <2>1, <2>2, <2>3 DEF Request, Tidy
<1>10. ASSUME Refresh(t) PROVE Tidy(t)
  <2>1. PICK k \in Tokens : WithToken(t, k)
    BY <1>10, RefreshesToken
  <2>. DEFINE new == IF Active(t) = None THEN None ELSE [Active(t) EXCEPT !.token = k]
  <2>2. new \in OptSession
    <3>1. Active(t) # None => [Active(t) EXCEPT !.token = k] \in Sessions
      BY <1>q, NotNone DEF Sessions
    <3>. QED
      BY <3>1, Nones, Somes
  <2>3. tab' = [tab EXCEPT ![t].kc = k, ![t].mem = new]
        /\ (store' = store \/ store' = StoresWith(new))
    BY <2>1 DEF WithToken
  <2>. HIDE DEF new
  <2>4. k \in OptToken /\ k # None
    BY Somes
  <2>5. Typed(tab')
    BY <1>p, <2>2, <2>3, <2>4, Fields
  <2>6. store' \in Stores /\ store'.vault = store.vault
    <3>1. StoresWith(new) \in Stores /\ StoresWith(new).vault = store.vault
      BY <1>p, <2>2, StoreFields
    <3>. QED
      BY <1>p, <2>3, <3>1
  <2>7. InPlace(tab'[t], store'.vault)
    <3>1. tab'[t].kc = k /\ tab'[t].key = tab[t].key /\ tab'[t].work = tab[t].work
      BY <1>p, <2>3, Shape DEF Typed
    <3>2. tab[t].kc # None
      BY <1>10 DEF Refresh
    <3>. QED
      BY <1>p, <2>4, <2>6, <3>1, <3>2 DEF InPlace
  <2>8. \A r \in Tabs : r # t => tab'[r] = tab[r]
    BY <1>p, <2>3 DEF Typed
  <2>. QED
    BY <2>5, <2>6, <2>7, <2>8 DEF Tidy
<1>11. ASSUME RefreshRefused(t) PROVE Tidy(t)
  <2>1. tab' = [tab EXCEPT ![t].kc = None] /\ store' = store /\ tab[t].work.at \notin Booting
    BY <1>11 DEF RefreshRefused
  <2>2. Typed(tab')
    BY <1>p, <2>1, Nones, Fields
  <2>3. InPlace(tab'[t], store'.vault)
    <3>1. tab'[t].key = tab[t].key /\ tab'[t].work = tab[t].work
      BY <1>p, <2>1, Shape DEF Typed
    <3>. QED
      BY <1>p, <2>1, <3>1 DEF InPlace, Booting
  <2>4. \A r \in Tabs : r # t => tab'[r] = tab[r]
    BY <1>p, <2>1 DEF Typed
  <2>. QED
    BY <1>p, <2>1, <2>2, <2>3, <2>4 DEF Tidy
<1>12. ASSUME NEW v \in Users, Login(t, v) PROVE Tidy(t)
  BY <1>12, <1>p, ClosedTidy DEF Login
<1>13. ASSUME NEW reached \in BOOLEAN, Leave(t, reached) PROVE Tidy(t)
  <2>1. tab' = [tab EXCEPT ![t] = Closed] /\ store' = StoresWith(None)
    BY <1>13 DEF Leave
  <2>. QED
    BY <1>p, <2>1, Nones, StoreFields, ClosedTidy
<1>. QED
  BY <1>1, <1>2, <1>3, <1>4, <1>5, <1>6, <1>7, <1>8, <1>9, <1>10, <1>11, <1>12, <1>13 DEF Person

\* A 401 ends the session, or is stale.
LEMMA DeniedTidy ==
  ASSUME TypeInv, NEW f \in flight, Denied(f)
  PROVE  Tidy(f.tab)
<1>. DEFINE t == f.tab
<1>1. Typed(tab) /\ store \in Stores /\ InPlace(tab[t], store.vault) /\ t \in Tabs
  BY DEF TypeInv, TypeOK, Typed
<1>2. CASE UNCHANGED <<store, tab>>
  BY <1>1, <1>2 DEF Tidy
<1>3. CASE SetSession(t, None, LockedWork(t), LockedPage(t))
  <2>. HIDE DEF t
  <2>1. LockedPage(t) \in Pages /\ LockedWork(t) \in Works
    BY <1>1, TabParts, Places, IdleTyped DEF LockedPage, LockedWork
  <2>2. Typed(tab')
    BY <1>1, <1>3, <2>1, Nones, Fields DEF SetSession
  <2>3. InPlace(tab'[t], store'.vault)
    <3>1. tab'[t].kc = tab[t].kc /\ tab'[t].key = tab[t].key /\ tab'[t].work = LockedWork(t)
          /\ tab'[t].mem = None
      BY <1>1, <1>3, Shape DEF Typed, SetSession
    <3>2. store'.vault = store.vault
      BY <1>1, <1>3, Nones, StoreFields DEF SetSession
    <3>3. CASE LockedWork(t) = Idle
      BY <3>1, <3>3 DEF InPlace, Idle, Enabling
    <3>4. CASE LockedWork(t) = tab[t].work
      BY <1>1, <3>1, <3>2, <3>4 DEF InPlace
    <3>. QED
      BY <3>3, <3>4 DEF LockedWork
  <2>4. \A r \in Tabs : r # t => tab'[r] = tab[r]
    BY <1>1, <1>3 DEF Typed, SetSession
  <2>5. store' \in Stores /\ store'.vault = store.vault
    BY <1>1, <1>3, Nones, StoreFields DEF SetSession
  <2>. QED
    BY <2>2, <2>3, <2>4, <2>5 DEF Tidy, t
<1>. QED
  BY <1>2, <1>3 DEF Denied

-----------------------------------------------------------------------------
(* The rest of the state, and the theorem.                                 *)

\* The API, Keycloak, the clock and the requests.
OtherTyped ==
  /\ past \in [Users -> [Versions -> SUBSET Rights]]
  /\ version \in [Users -> Versions]
  /\ sso \in Users \cup {None}
  /\ live \in SUBSET Tokens
  /\ minted \in [token : 0..MaxToken, key : 0..MaxKey]
  /\ now \in 0..MaxTime
  /\ flight \in SUBSET [tab : Tabs, token : Tokens \cup {NoToken}]

\* The types in two parts.
LEMMA Parted == TypeOK <=> OtherTyped /\ Typed(tab) /\ store \in Stores
BY DEF TypeOK, OtherTyped, Typed

\* A tidy step keeps the invariant.
LEMMA TidyKeeps ==
  ASSUME TypeInv, NEW t \in Tabs, Tidy(t), OtherTyped'
  PROVE  TypeInv'
<1>1. TypeOK'
  BY Parted DEF Tidy, OtherTyped, Typed, TypeOK
<1>2. \A r \in Tabs : InPlace(tab'[r], store'.vault)
  BY DEF TypeInv, Tidy, InPlace
<1>. QED
  BY <1>1, <1>2 DEF TypeInv

\* A token that is made is a token.
LEMMA MintTyped ==
  ASSUME TypeOK, minted.token < MaxToken, sso \in Users
  PROVE  /\ [user |-> sso, id |-> minted.token + 1] \in Tokens
         /\ [minted EXCEPT !.token = @ + 1] \in [token : 0..MaxToken, key : 0..MaxKey]
BY DeviceAssumption DEF TypeOK, Tokens

\* Loading leaves the rest of the state typed,
LEMMA BootOthers ==
  ASSUME TypeInv, NEW t \in Tabs, Boot(t)
  PROVE  OtherTyped'
<1>1. TypeOK /\ OtherTyped
  BY Parted DEF TypeInv
<1>2. CASE CheckSso(t)
  <2>1. sso \in Users /\ minted.token < MaxToken
    BY <1>1, <1>2 DEF CheckSso, TypeOK
  <2>2. live' \in SUBSET Tokens /\ minted' \in [token : 0..MaxToken, key : 0..MaxKey]
    BY <1>1, <1>2, <2>1, MintTyped DEF CheckSso, TypeOK
  <2>. QED
    BY <1>1, <1>2, <2>2 DEF CheckSso, OtherTyped
<1>3. CASE ~CheckSso(t)
  <2>1. UNCHANGED <<server, minted, now, flight>>
    BY <1>3
       DEF Boot, Load, Keep, NoSso, BootFails, Identity, AskGrant, AnswerGrant, NoGrant, Created,
           Render
  <2>. QED
    BY <1>1, <2>1 DEF OtherTyped, server
<1>. QED
  BY <1>2, <1>3

\* hydration leaves it alone,
LEMMA HydrateOthers ==
  ASSUME TypeInv, NEW t \in Tabs, Hydrate(t)
  PROVE  OtherTyped'
<1>1. UNCHANGED <<server, minted, now, flight>>
  BY DEF Hydrate, Resume, NoSession, WithoutToken, SendTeam, AskTeam, TeamDenied, TeamFails, AnswerTeam, ReadSnapshot,
         DropSnapshot, CheckGrant, DropGrant, PutSnapshot, Retry
<1>. QED
  BY <1>1, Parted DEF TypeInv, OtherTyped, server

\* a vault takes a key,
LEMMA VaultOthers ==
  ASSUME TypeInv, NEW t \in Tabs, Vault(t)
  PROVE  OtherTyped'
<1>1. TypeOK /\ OtherTyped
  BY Parted DEF TypeInv
<1>2. CASE SetupVault(t)
  <2>1. minted' = minted \/ (minted.key < MaxKey /\ minted' = [minted EXCEPT !.key = NewKey])
    BY <1>2 DEF SetupVault
  <2>2. minted' \in [token : 0..MaxToken, key : 0..MaxKey]
    BY <1>1, <2>1, DeviceAssumption DEF TypeOK, NewKey
  <2>. QED
    BY <1>1, <1>2, <2>2 DEF SetupVault, OtherTyped, server
<1>3. CASE ~SetupVault(t)
  <2>1. UNCHANGED <<server, minted, now, flight>>
    BY <1>3
       DEF Vault, FindVault, SaveVault, SaveGrant, UnlockGrant, UnlockDropGrant, UnlockSnapshot,
           UnlockDropSnapshot, EnableUnlock, UnlockVault
  <2>. QED
    BY <1>1, <2>1 DEF OtherTyped, server
<1>. QED
  BY <1>2, <1>3

\* and the person may get tokens and send requests.
LEMMA PersonOthers ==
  ASSUME TypeInv, NEW t \in Tabs, Person(t)
  PROVE  OtherTyped'
<1>1. TypeOK /\ OtherTyped
  BY Parted DEF TypeInv
<1>2. CASE Refresh(t)
  <2>1. sso \in Users
    <3>1. tab[t].kc \in Tokens
      BY <1>1, <1>2, Parted, TabParts, NotNone DEF Refresh
    <3>. QED
      BY <1>2, <3>1, TokenParts DEF Refresh
  <2>2. live' \in SUBSET Tokens /\ minted' \in [token : 0..MaxToken, key : 0..MaxKey]
    <3>1. CASE tab[t].kc \in live
      BY <1>1, <1>2, <3>1 DEF Refresh, TypeOK
    <3>2. CASE tab[t].kc \notin live
      BY <1>1, <1>2, <2>1, <3>2, MintTyped DEF Refresh, TypeOK
    <3>. QED
      BY <3>1, <3>2
  <2>. QED
    BY <1>1, <1>2, <2>2 DEF Refresh, OtherTyped
<1>3. CASE Request(t)
  <2>1. Active(t).token \in Tokens \cup {NoToken}
    BY <1>1, <1>3, Parted, ActiveTyped, SessionParts DEF Request
  <2>. QED
    BY <1>1, <1>3, <2>1 DEF Request, OtherTyped, server
<1>4. ASSUME NEW u \in Users, Login(t, u) PROVE OtherTyped'
  BY <1>1, <1>4 DEF Login, OtherTyped
<1>5. ASSUME NEW reached \in BOOLEAN, Leave(t, reached) PROVE OtherTyped'
  BY <1>1, <1>5 DEF Leave, OtherTyped
<1>6. CASE Close(t)
  BY <1>1, <1>6 DEF Close, OtherTyped, server
<1>7. CASE Open(t) \/ Found(t) \/ Revisit(t) \/ SignInAgain(t) \/ SignOut(t) \/ Unlock(t)
           \/ Enable(t)
           \/ RefreshRefused(t)
  <2>1. UNCHANGED <<server, minted, now, flight>>
    BY <1>7 DEF Open, Found, Revisit, SignInAgain, SignOut, Unlock, Enable, RefreshRefused
  <2>. QED
    BY <1>1, <2>1 DEF OtherTyped, server
<1>. QED
  BY <1>2, <1>3, <1>4, <1>5, <1>6, <1>7 DEF Person

\* Every step keeps the types.
LEMMA TypeStep ==
  ASSUME TypeInv, [Next]_vars
  PROVE  TypeInv'
<1>1. TypeOK /\ OtherTyped
  BY Parted DEF TypeInv
<1>2. ASSUME NEW t \in Tabs, Boot(t) \/ Hydrate(t) \/ Vault(t) \/ Person(t) PROVE TypeInv'
  BY <1>2, BootTidy, HydrateTidy, VaultTidy, PersonTidy, BootOthers, HydrateOthers, VaultOthers,
     PersonOthers, TidyKeeps
<1>3. ASSUME NEW f \in flight, Denied(f) PROVE TypeInv'
  <2>1. OtherTyped' /\ f.tab \in Tabs
    BY <1>1, <1>3 DEF Denied, OtherTyped, server
  <2>. QED
    BY <1>3, <2>1, DeniedTidy, TidyKeeps
<1>4. ASSUME UNCHANGED <<store, tab>>, OtherTyped' PROVE TypeInv'
  <2>1. TypeOK'
    BY <1>1, <1>4 DEF OtherTyped, TypeOK
  <2>. QED
    BY <1>4, <2>1 DEF TypeInv, InPlace
<1>5. ASSUME NEW f \in flight, Answer(f) \/ Timeout(f) PROVE TypeInv'
  <2>1. OtherTyped'
    BY <1>1, <1>5 DEF Answer, Timeout, OtherTyped, server
  <2>. QED
    BY <1>4, <1>5, <2>1 DEF Answer, Timeout
<1>6. ASSUME NEW u \in Users, NEW r \in SUBSET Rights, ChangeRights(u, r) PROVE TypeInv'
  <2>1. version' \in [Users -> Versions]
    <3>1. version[u] \in Versions /\ version[u] < MaxVersion
          /\ version' = [version EXCEPT ![u] = version[u] + 1]
      BY <1>1, <1>6 DEF ChangeRights, OtherTyped
    <3>2. version[u] + 1 \in Versions
      BY <3>1, DeviceAssumption DEF Versions
    <3>. QED
      BY <1>1, <3>1, <3>2 DEF OtherTyped
  <2>2. past' \in [Users -> [Versions -> SUBSET Rights]]
    <3>. DEFINE h == [v \in Versions |-> IF v > version[u] THEN r ELSE past[u][v]]
    <3>1. h \in [Versions -> SUBSET Rights]
      BY <1>1 DEF OtherTyped
    <3>2. past' = [past EXCEPT ![u] = h]
      BY <1>6 DEF ChangeRights
    <3>. HIDE DEF h
    <3>. QED
      BY <1>1, <3>1, <3>2 DEF OtherTyped
  <2>3. OtherTyped'
    BY <1>1, <1>6, <2>1, <2>2 DEF ChangeRights, OtherTyped
  <2>. QED
    BY <1>4, <1>6, <2>3 DEF ChangeRights
<1>7. ASSUME NEW k \in live, Expire(k) PROVE TypeInv'
  <2>1. OtherTyped'
    BY <1>1, <1>7 DEF Expire, OtherTyped
  <2>. QED
    BY <1>4, <1>7, <2>1 DEF Expire
<1>8. CASE SsoEnds
  <2>1. OtherTyped'
    BY <1>1, <1>8 DEF SsoEnds, OtherTyped
  <2>. QED
    BY <1>4, <1>8, <2>1 DEF SsoEnds
<1>9. CASE Tick
  <2>1. OtherTyped'
    BY <1>1, <1>9, DeviceAssumption DEF Tick, OtherTyped, server
  <2>. QED
    BY <1>4, <1>9, <2>1 DEF Tick
<1>10. CASE UNCHANGED vars
  <2>1. OtherTyped'
    BY <1>1, <1>10 DEF vars, OtherTyped
  <2>. QED
    BY <1>4, <1>10, <2>1 DEF vars
<1>. QED
  BY <1>2, <1>3, <1>5, <1>6, <1>7, <1>8, <1>9, <1>10 DEF Next

\* A device with closed tabs.
LEMMA InitTyped ==
  ASSUME Init
  PROVE  TypeInv
<1>1. Typed(tab)
  BY IdleTyped DEF Init, Typed
<1>2. store \in Stores
  BY Nones DEF Init, Stores, OptSession, OptVault, OptRecord, OptSnapshot
<1>3. OtherTyped
  BY DeviceAssumption DEF Init, OtherTyped, Versions
<1>4. \A t \in Tabs : InPlace(tab[t], store.vault)
  BY DEF Init, InPlace, Closed, Idle, Enabling
<1>. QED
  BY <1>1, <1>2, <1>3, <1>4, Parted DEF TypeInv

\* The types hold, and every tab is ready for its next step.
LEMMA TypeInvariant == Spec => []TypeInv
<1>1. Init => TypeInv
  BY InitTyped
<1>2. TypeInv /\ [Next]_vars => TypeInv'
  BY TypeStep
<1>. QED
  BY <1>1, <1>2, PTL DEF Spec

\* Every store, tab and request holds what it is meant to, at whatever point a
\* request was answered, a session taken away or a tab closed (authSessionStore,
\* keycloakService, offlineVaultService and the hydration of workspaceService).
THEOREM DeviceTypes == Spec => []TypeOK
<1>1. TypeInv => TypeOK
  BY DEF TypeInv
<1>. QED
  BY <1>1, TypeInvariant, PTL

-----------------------------------------------------------------------------
(* Late denials.                                                           *)

\* A start keeps the session the tab has in memory,
LEMMA BootKeeps ==
  ASSUME TypeInv, NEW t \in Tabs, Boot(t), tab[t].mem # None
  PROVE  tab'[t].mem # None
<1>p. Typed(tab) /\ InPlace(tab[t], store.vault) /\ Active(t) = tab[t].mem
  BY DEF TypeInv, TypeOK, Typed, Active
<1>1. CASE Load(t) \/ Keep(t)
  BY <1>p, <1>1 DEF Load, Keep, At, InPlace
<1>2. CASE CheckSso(t) \/ BootFails(t) \/ Identity(t) \/ AskGrant(t) \/ AnswerGrant(t) \/ NoGrant(t)
  <2>1. tab'[t].mem = tab[t].mem
    BY <1>p, <1>2, Shape
       DEF CheckSso, BootFails, Identity, AskGrant, AnswerGrant, NoGrant, GoTo, Typed
  <2>. QED
    BY <2>1
<1>3. CASE NoSso(t)
  <2>1. tab' = [tab EXCEPT ![t].mem = Active(t), ![t].work = [Idle EXCEPT !.at = "render"]]
    BY <1>p, <1>3 DEF NoSso
  <2>. QED
    BY <1>p, <2>1, Shape DEF Typed
<1>4. CASE Created(t)
  <2>1. tab[t].work.session # None
    BY <1>p, <1>4 DEF Created, At, InPlace
  <2>. QED
    BY <1>p, <1>4, <2>1, Shape DEF Created, SetSession, Typed
<1>5. CASE Render(t)
  <2>1. PICK p \in {"access", "shell"} :
          tab' = [tab EXCEPT ![t].page = p, ![t].mem = Active(t),
                    ![t].work = [Idle EXCEPT !.at = "team", !.session = Active(t)]]
    BY <1>p, <1>5 DEF Render
  <2>. QED
    BY <1>p, <2>1, Shape DEF Typed
<1>. QED
  BY <1>1, <1>2, <1>3, <1>4, <1>5 DEF Boot

\* and so does the load of the authorization, unless it is denied,
LEMMA HydrateKeeps ==
  ASSUME TypeInv, NEW t \in Tabs, Hydrate(t), tab[t].mem # None
  PROVE  tab'[t].mem # None \/ TeamDenied(t)
<1>p. Typed(tab) /\ Active(t) = tab[t].mem
  BY DEF TypeInv, TypeOK, Typed, Active
<1>1. ASSUME Entered(t) PROVE tab'[t].mem # None
  BY <1>p, <1>1, Shape DEF Entered, Typed
<1>2. CASE WithoutToken(t) \/ SendTeam(t) \/ Retry(t)
  <2>1. tab'[t].mem = Active(t)
    BY <1>p, <1>2, Shape DEF WithoutToken, SendTeam, Retry, Typed
  <2>. QED
    BY <1>p, <2>1
<1>3. ASSUME NEW w, Rest(t, w) \/ GoTo(t, w) PROVE tab'[t].mem # None
  BY <1>p, <1>3, Shape DEF Rest, GoTo, Typed
<1>4. CASE NoSession(t) \/ TeamFails(t) \/ DropSnapshot(t)
  BY <1>3, <1>4 DEF NoSession, TeamFails, DropSnapshot
<1>5. CASE AskTeam(t)
  BY <1>p, <1>5, Shape DEF AskTeam, Typed
<1>6. CASE AnswerTeam(t)
  BY <1>p, <1>3, <1>6, Shape DEF AnswerTeam, Typed
<1>7. CASE ReadSnapshot(t)
  BY <1>p, <1>1, <1>3, <1>7, Shape DEF ReadSnapshot, Typed
<1>8. CASE CheckGrant(t)
  BY <1>p, <1>1, <1>3, <1>8, Shape DEF CheckGrant, Typed
<1>9. CASE DropGrant(t) \/ PutSnapshot(t)
  BY <1>1, <1>9 DEF DropGrant, PutSnapshot
<1>. QED
  BY <1>2, <1>4, <1>5, <1>6, <1>7, <1>8, <1>9 DEF Hydrate, Resume

\* the vault, which may put one there,
LEMMA VaultKeeps ==
  ASSUME TypeInv, NEW t \in Tabs, Vault(t), tab[t].mem # None
  PROVE  tab'[t].mem # None
<1>p. TypeOK /\ Typed(tab) /\ store \in Stores /\ InPlace(tab[t], store.vault)
  BY DEF TypeInv, TypeOK, Typed
<1>1. ASSUME tab'[t].mem = tab[t].mem PROVE tab'[t].mem # None
  BY <1>1
<1>2. CASE FindVault(t) \/ SetupVault(t) \/ SaveVault(t) \/ SaveGrant(t)
  BY <1>p, <1>1, <1>2, Shape DEF FindVault, SetupVault, SaveVault, SaveGrant, GoTo, Typed
<1>3. CASE UnlockGrant(t) \/ UnlockDropGrant(t) \/ UnlockDropSnapshot(t)
  BY <1>p, <1>1, <1>3, Shape
     DEF UnlockGrant, UnlockDropGrant, UnlockDropSnapshot, Relock, GoTo, Typed
<1>4. CASE UnlockSnapshot(t)
  <2>1. ASSUME Relock(t) \/ GoTo(t, "unlockDropSnap") PROVE tab'[t].mem # None
    BY <1>p, <2>1, Shape DEF Relock, GoTo, Typed
  <2>2. ASSUME store.snap # None,
               SetSession(t, [user |-> store.snap.user, token |-> NoToken,
                              grant |-> tab[t].work.grant],
                          [Idle EXCEPT !.at = "team",
                             !.session = [user |-> store.snap.user, token |-> NoToken,
                                          grant |-> tab[t].work.grant]], "access")
        PROVE  tab'[t].mem # None
    <3>1. store.snap.user \in Users /\ tab[t].work.grant \in OptGrant
      BY <1>p, <2>2, StoreParts, TabParts, NotNone, SnapshotParts
    <3>2. PICK s \in Sessions :
            SetSession(t, s, [Idle EXCEPT !.at = "team", !.session = s], "access")
      BY <2>2, <3>1, SessionMade
    <3>. QED
      BY <1>p, <3>2, Somes, Shape DEF SetSession, Typed
  <2>. QED
    BY <1>4, <2>1, <2>2 DEF UnlockSnapshot
<1>5. ASSUME NEW right \in BOOLEAN, EnableUnlock(t, right) \/ UnlockVault(t, right)
      PROVE  tab'[t].mem # None
  BY <1>p, <1>1, <1>5, Shape DEF EnableUnlock, UnlockVault, Typed
<1>. QED
  BY <1>2, <1>3, <1>4, <1>5 DEF Vault

\* and the person, who may close the tab or ask for the sign-in.
LEMMA PersonKeeps ==
  ASSUME TypeInv, NEW t \in Tabs, Person(t), tab[t].mem # None, tab[t].page # "closed"
  PROVE  tab'[t].mem # None \/ tab'[t].page = "closed" \/ SignInAgain(t)
<1>p. Typed(tab) /\ Active(t) = tab[t].mem
  BY DEF TypeInv, TypeOK, Typed, Active
<1>1. CASE Open(t)
  BY <1>1 DEF Open
<1>2. CASE Found(t) \/ Request(t)
  <2>1. tab'[t].mem = Active(t)
    BY <1>p, <1>2, Shape DEF Found, Request, Typed
  <2>. QED
    BY <1>p, <2>1
<1>3. CASE Revisit(t) \/ SignOut(t) \/ Unlock(t) \/ Enable(t) \/ RefreshRefused(t)
  <2>1. tab'[t].mem = tab[t].mem
    BY <1>p, <1>3, Shape DEF Revisit, SignOut, Unlock, Enable, RefreshRefused, Rest, GoTo, Typed
  <2>. QED
    BY <2>1
<1>4. CASE Refresh(t)
  <2>1. PICK k \in Tokens : WithToken(t, k)
    BY <1>4, RefreshesToken
  <2>2. PICK s : s = [Active(t) EXCEPT !.token = k]
    OBVIOUS
  <2>3. s \in Sessions
    BY <1>p, <2>2, TabParts, NotNone DEF Sessions
  <2>4. tab' = [tab EXCEPT ![t].kc = k, ![t].mem = s]
    BY <1>p, <2>1, <2>2 DEF WithToken
  <2>. QED
    BY <1>p, <2>3, <2>4, Somes, Shape DEF Typed
<1>5. CASE tab' = [tab EXCEPT ![t] = Closed]
  BY <1>p, <1>5 DEF Typed, Closed
<1>. QED
  BY <1>1, <1>2, <1>3, <1>4, <1>5 DEF Person, Close, Login, Leave

\* A 401 to a request with an older token than the session's ends no session, with
\* any number of tabs, whether the older token was good or not (lockOutOnAuthFailure
\* of apiClient.ts): a session goes for an answer to its own token, or for a sign-in.
THEOREM LateDenialsAreIgnored == Spec => LateDenialIsIgnored
<1>1. ASSUME TypeInv, Next, NEW t \in Tabs, tab[t].mem # None, tab[t].mem.token # NoToken,
             tab[t].page # "closed", tab'[t].mem = None, tab'[t].page # "closed"
      PROVE  \/ At(t, "error") /\ flight' = flight
             \/ tab[t].work.asked # None /\ tab[t].work.asked.token = tab[t].mem.token
             \/ \E f \in flight \ flight' :
                    f.tab = t /\ f.token \in {tab[t].mem.token, NoToken}
  <2>p. Typed(tab) /\ InPlace(tab[t], store.vault) /\ Active(t) = tab[t].mem
    BY <1>1 DEF TypeInv, TypeOK, Typed, Active
  <2>1. tab'[t] # tab[t]
    BY <1>1
  <2>2. ASSUME NEW r \in Tabs, Boot(r) \/ Hydrate(r) \/ Vault(r) \/ Person(r)
        PROVE  TeamDenied(t) \/ SignInAgain(t)
    <3>1. Tidy(r)
      BY <1>1, <2>2, BootTidy, HydrateTidy, VaultTidy, PersonTidy
    <3>2. r = t
      BY <2>1, <3>1 DEF Tidy
    <3>. QED
      BY <1>1, <2>2, <3>2, BootKeeps, HydrateKeeps, VaultKeeps, PersonKeeps
  <2>3. CASE TeamDenied(t)
    <3>1. tab[t].work.asked # None /\ tab[t].work.asked.token # NoToken
      BY <2>p, <2>3 DEF TeamDenied, InPlace
    <3>2. ~IsStale(tab[t].work.asked.token, tab[t].mem)
      BY <2>p, <2>3 DEF TeamDenied
    <3>. QED
      BY <1>1, <3>1, <3>2 DEF IsStale
  <2>4. CASE SignInAgain(t)
    BY <2>4 DEF SignInAgain
  <2>5. ASSUME NEW g \in flight, Denied(g)
        PROVE  g \in flight \ flight' /\ g.tab = t /\ g.token \in {tab[t].mem.token, NoToken}
    <3>1. g \in flight \ flight' /\ Tidy(g.tab)
      BY <1>1, <2>5, DeniedTidy DEF Denied
    <3>2. g.tab = t
      BY <2>1, <3>1 DEF Tidy
    <3>3. ~IsStale(g.token, tab[t].mem)
      BY <2>p, <2>1, <2>5, <3>2 DEF Denied
    <3>. QED
      BY <1>1, <3>1, <3>2, <3>3 DEF IsStale
  <2>6. ASSUME \/ \E g \in flight : Answer(g) \/ Timeout(g)
               \/ \E u \in Users, r \in SUBSET Rights : ChangeRights(u, r)
               \/ \E k \in live : Expire(k)
               \/ SsoEnds
               \/ Tick
        PROVE  FALSE
    BY <2>1, <2>6 DEF Answer, Timeout, ChangeRights, Expire, SsoEnds, Tick
  <2>7. CASE \E r \in Tabs : Boot(r) \/ Hydrate(r) \/ Vault(r) \/ Person(r)
    BY <2>2, <2>3, <2>4, <2>7
  <2>8. CASE \E g \in flight : Denied(g)
    BY <2>5, <2>8
  <2>. QED
    BY <1>1, <2>6, <2>7, <2>8 DEF Next
<1>2. TypeInv /\ [Next]_vars =>
        [\A t \in Tabs :
          /\ tab[t].mem # None /\ tab[t].mem.token # NoToken /\ tab[t].page # "closed"
          /\ tab'[t].mem = None /\ tab'[t].page # "closed"
          => \/ At(t, "error") /\ flight' = flight
             \/ tab[t].work.asked # None /\ tab[t].work.asked.token = tab[t].mem.token
             \/ \E f \in flight \ flight' :
                    f.tab = t /\ f.token \in {tab[t].mem.token, NoToken}]_vars
  BY <1>1
<1>3. Spec => []TypeInv
  BY TypeInvariant
<1>. QED
  BY <1>2, <1>3, PTL DEF Spec, LateDenialIsIgnored


-----------------------------------------------------------------------------
(* The versions of the rights.                                             *)

\* The device has one tab.
OneTab == \A s, t \in Tabs : s = t

\* A page works with a team.
InUse == {"ready"} \cup Enabling

\* The places of the session agree, once the tab has read it.
Shared(t) ==
  LET x == tab[t]  w == x.work IN
  /\ store.local = store.idb
  /\ x.page # "closed" /\ w.at \notin {"load", "keep"} => x.mem = store.local
  /\ w.at \in {"load", "keep"} => store.local = None /\ x.mem = None
  /\ w.at = "keep" => w.session = None
  /\ w.at = "event" => w.session # None /\ w.session.token \in Tokens
  /\ x.page = "closed" => w.at = "rest"

\* No version before the grant's.
NoOlder(t) ==
  LET x == tab[t]  w == x.work IN
  /\ w.at \in {"asked", "teamRights", "save", "dropGrant", "put"} /\ x.mem # None
       => x.mem.token \in Tokens
  /\ w.at = "offline" /\ FromVault(t) => w.asked.user = x.mem.user
  /\ w.at \in InUse /\ FromVault(t) => w.team.version >= x.mem.grant.version
  /\ store.local # None /\ store.local.token = NoToken /\ store.snap # None
       /\ store.snap.user = store.local.user => store.snap.version >= store.local.grant.version

\* The rights of w are those of its version or of a later one.
Vouches(w) == \E v \in w.version .. version[w.user] : w.rights = past[w.user][v]

\* The rights are of the version.
Vouched(t) ==
  LET x == tab[t]  w == x.work IN
  /\ w.at = "team" /\ x.mem # None => w.session.user = x.mem.user
  /\ w.at \in {"asked", "teamRights"} => w.asked.user = w.session.user
  /\ w.at = "teamRights" => w.team.version <= version[w.team.user]
  /\ w.at \in {"save", "put"} => w.session.user = w.team.user
  /\ w.at \in {"save", "dropGrant", "put"} \cup InUse => w.team # None /\ Vouches(w.team)
  /\ store.snap # None => Vouches(store.snap)

\* The invariant of a device with one tab.
OneInv == TypeInv /\ \A t \in Tabs : Shared(t) /\ NoOlder(t) /\ Vouched(t)

\* What it says of the tab.
TabInv(t) == Shared(t) /\ NoOlder(t) /\ Vouched(t)

\* Places at which the tab has no team yet, or none any more.
Calm == {"sso", "identity", "grantVersion", "grantRights", "render", "dropSnap", "vault",
"unlockGrant",
         "unlockDrop", "unlockSnap", "unlockDropSnap", "rest", "error", "stuck", "failed", "bye"}

\* What a step leaves of the stores when it brings nothing new into them.
Quiet ==
  /\ past' = past /\ version' = version
  /\ store'.local = store'.idb
  /\ store'.local = store.local \/ store'.local = None
  /\ store'.snap = store.snap \/ store'.snap = None

\* A quiet step to such a place.
LEMMA OneCalm ==
  ASSUME OneInv, NEW t \in Tabs, Quiet, tab'[t].work.at \in Calm,
         tab'[t].page # "closed" => tab'[t].mem = store'.local,
         tab'[t].page = "closed" => tab'[t].work.at = "rest"
  PROVE  TabInv(t)'
<1>p. Shared(t) /\ NoOlder(t) /\ Vouched(t)
  BY DEF OneInv
<1>1. Shared(t)'
  BY DEF Shared, Calm, Quiet
<1>2. NoOlder(t)'
  BY <1>p DEF NoOlder, Calm, Quiet, InUse, Enabling
<1>3. Vouched(t)'
  BY <1>p DEF Vouched, Vouches, Calm, Quiet, InUse, Enabling
<1>. QED
  BY <1>1, <1>2, <1>3 DEF TabInv

\* Hydration starts with the session in memory.
LEMMA OneTeam ==
  ASSUME OneInv, NEW t \in Tabs, Quiet, tab'[t].work.at = "team", tab'[t].mem = store'.local,
         tab'[t].page # "closed",
         tab'[t].work.session = tab'[t].mem
  PROVE  TabInv(t)'
<1>p. Shared(t) /\ NoOlder(t) /\ Vouched(t)
  BY DEF OneInv
<1>1. Shared(t)'
  BY DEF Shared, Quiet
<1>2. NoOlder(t)'
  BY <1>p DEF NoOlder, Quiet, InUse, Enabling
<1>3. Vouched(t)'
  BY <1>p DEF Vouched, Vouches, Quiet, InUse, Enabling
<1>. QED
  BY <1>1, <1>2, <1>3 DEF TabInv

\* The page goes on working with the same team.
LEMMA OneUse ==
  ASSUME OneInv, NEW t \in Tabs, Quiet, tab[t].work.at \in InUse, tab'[t].work.at \in InUse,
         tab'[t].mem = tab[t].mem, tab'[t].work.team = tab[t].work.team, tab'[t].page = tab[t].page,
         store'.local = store.local
  PROVE  TabInv(t)'
<1>p. Shared(t) /\ NoOlder(t) /\ Vouched(t)
  BY DEF OneInv
<1>1. Shared(t)'
  BY <1>p DEF Shared, Quiet, InUse, Enabling
<1>2. NoOlder(t)'
  BY <1>p DEF NoOlder, Quiet, InUse, Enabling, FromVault
<1>3. Vouched(t)'
  BY <1>p DEF Vouched, Vouches, Quiet, InUse, Enabling
<1>. QED
  BY <1>1, <1>2, <1>3 DEF TabInv

\* A page is entered.
LEMMA OneEntered ==
  ASSUME OneInv, NEW t \in Tabs, Entered(t), Quiet, store'.local = store.local,
         tab[t].work.at \notin {"load", "keep", "rest"}
  PROVE  TabInv(t)'
<1>p. Typed(tab) /\ Shared(t)
  BY DEF OneInv, TypeInv, TypeOK, Typed
<1>1. Active(t) = store.local /\ tab'[t].mem = store'.local
  BY <1>p, Shape DEF Shared, Active, Entered, Typed
<1>2. CASE Active(t) = None
  <2>1. tab'[t].work.at = "rest" /\ tab'[t].page = "auth"
    BY <1>p, <1>2, Shape DEF Entered, Typed, Idle
  <2>. QED
    BY <1>1, <2>1, OneCalm DEF Calm
<1>3. CASE Active(t) # None
  <2>1. tab'[t].work.at = "team" /\ tab'[t].work.session = tab'[t].mem /\ tab'[t].page = "shell"
    BY <1>p, <1>3, Shape DEF Entered, Typed, Idle
  <2>. QED
    BY <1>1, <2>1, OneTeam
<1>. QED
  BY <1>2, <1>3

\* The work is over and nothing else has changed.
LEMMA OneRests ==
  ASSUME OneInv, NEW t \in Tabs, NEW w \in {"stuck", "error", "failed", "bye"}, Rest(t, w), Quiet,
         store'.local = store.local, tab[t].work.at \notin {"load", "keep", "rest"}
  PROVE  TabInv(t)'
<1>1. Typed(tab) /\ Shared(t)
  BY DEF OneInv, TypeInv, TypeOK, Typed
<1>2. tab'[t].work.at = w /\ tab'[t].mem = tab[t].mem /\ tab'[t].page = tab[t].page
  BY <1>1, Shape DEF Rest, Typed, Idle
<1>3. tab[t].page # "closed" /\ tab[t].mem = store.local
  BY <1>1 DEF Shared
<1>. QED
  BY <1>2, <1>3, OneCalm DEF Calm

\* The tab goes on to a calm place.
LEMMA OneGoes ==
  ASSUME OneInv, NEW t \in Tabs, NEW w \in Calm, GoTo(t, w), Quiet,
         store'.local = store.local, tab[t].work.at \notin {"load", "keep"}, tab[t].page # "closed"
  PROVE  TabInv(t)'
<1>1. Typed(tab) /\ Shared(t)
  BY DEF OneInv, TypeInv, TypeOK, Typed
<1>2. tab'[t].work.at = w /\ tab'[t].mem = tab[t].mem /\ tab'[t].page = tab[t].page
  BY <1>1, Shape DEF GoTo, Typed
<1>. QED
  BY <1>1, <1>2, OneCalm DEF Shared

\* The vault is locked again.
LEMMA OneRelocks ==
  ASSUME OneInv, NEW t \in Tabs, Relock(t), Quiet, store'.local = store.local,
         tab[t].work.at \notin {"load", "keep", "rest"}
  PROVE  TabInv(t)'
<1>1. Typed(tab) /\ Shared(t)
  BY DEF OneInv, TypeInv, TypeOK, Typed
<1>2. tab'[t].work.at = "rest" /\ tab'[t].mem = tab[t].mem /\ tab'[t].page = tab[t].page
  BY <1>1, Shape DEF Relock, Typed, Idle
<1>. QED
  BY <1>1, <1>2, OneCalm DEF Shared, Calm

\* A tab is closed.
LEMMA OneCloses ==
  ASSUME OneInv, NEW t \in Tabs, tab' = [tab EXCEPT ![t] = Closed], Quiet
  PROVE  TabInv(t)'
<1>1. Typed(tab)
  BY DEF OneInv, TypeInv, TypeOK, Typed
<1>2. tab'[t].work.at = "rest" /\ tab'[t].page = "closed"
  BY <1>1 DEF Closed, Idle, Typed
<1>. QED
  BY <1>2, OneCalm DEF Calm

\* Enabling offline access is over.
LEMMA OneDone ==
  ASSUME OneInv, NEW t \in Tabs, tab'[t].work = Done(t), tab'[t].mem = tab[t].mem,
         tab'[t].page = tab[t].page, tab[t].work.at \in InUse, Quiet, store'.local = store.local
  PROVE  TabInv(t)'
<1>1. Typed(tab) /\ Shared(t)
  BY DEF OneInv, TypeInv, TypeOK, Typed
<1>2. tab[t].page # "closed" /\ tab[t].mem = store.local
  BY <1>1 DEF Shared, InUse, Enabling
<1>3. CASE tab[t].page = "shell"
  <2>1. Done(t).at = "ready" /\ Done(t).team = tab[t].work.team
    BY <1>1, <1>3, Shape DEF Done, Typed
  <2>. QED
    BY <1>2, <2>1, OneUse DEF InUse
<1>4. CASE tab[t].page # "shell"
  <2>1. Done(t).at = "rest"
    BY <1>4 DEF Done, Idle
  <2>. QED
    BY <1>2, <2>1, OneCalm DEF Calm
<1>. QED
  BY <1>3, <1>4

\* A session that the sign-in makes has the token of the adapter.
LEMMA OneSignsIn ==
  ASSUME OneInv, NEW t \in Tabs, NEW s \in Sessions, s.token \in Tokens, UNCHANGED <<past, version,
         store>>,
         tab' = [tab EXCEPT ![t].work = [Idle EXCEPT !.at = "event", !.session = s]],
         tab[t].work.at \notin {"load", "keep", "rest"}
  PROVE  TabInv(t)'
<1>1. Typed(tab) /\ Shared(t) /\ NoOlder(t) /\ Vouched(t)
  BY DEF OneInv, TypeInv, TypeOK, Typed
<1>2. tab'[t].work.at = "event" /\ tab'[t].work.session = s /\ tab'[t].mem = tab[t].mem
      /\ tab'[t].page = tab[t].page
  BY <1>1, Shape DEF Typed, Idle
<1>3. Shared(t)'
  BY <1>1, <1>2, Somes DEF Shared
<1>4. NoOlder(t)'
  BY <1>1, <1>2 DEF NoOlder, InUse, Enabling
<1>5. Vouched(t)'
  BY <1>1, <1>2 DEF Vouched, Vouches, InUse, Enabling
<1>. QED
  BY <1>3, <1>4, <1>5 DEF TabInv

\* The steps of loading and signing in: the only ones that bring a new session.
LEMMA BootOne ==
  ASSUME OneInv, NEW t \in Tabs, Boot(t)
  PROVE  TabInv(t)'
<1>p. /\ TypeOK /\ Typed(tab) /\ store \in Stores /\ InPlace(tab[t], store.vault)
      /\ Shared(t) /\ NoOlder(t) /\ Vouched(t)
  BY DEF OneInv, TypeInv, TypeOK, Typed
<1>1. ASSUME Load(t) PROVE TabInv(t)'
  <2>1. Shared(t)'
    BY <1>1, <1>p, Shape DEF Load, Shared, Typed, At
  <2>2. NoOlder(t)'
    BY <1>1, <1>p, Shape DEF Load, NoOlder, FromVault, Typed
  <2>3. Vouched(t)'
    BY <1>1, <1>p, Shape DEF Load, Typed, At
  <2>. QED
    BY <2>1, <2>2, <2>3 DEF TabInv
<1>2. ASSUME Keep(t) PROVE TabInv(t)'
  <2>1. Shared(t)'
    BY <1>2, <1>p, Shape DEF Keep, Shared, Typed, At, Idle
  <2>2. NoOlder(t)'
    BY <1>2, <1>p, Shape DEF Keep, Typed, At
  <2>3. Vouched(t)'
    BY <1>2, <1>p, Shape DEF Keep, Typed, At
  <2>. QED
    BY <2>1, <2>2, <2>3 DEF TabInv
<1>3. ASSUME CheckSso(t) PROVE TabInv(t)'
  <2>1. Shared(t)'
    BY <1>3, <1>p, Shape DEF CheckSso, Shared, Typed, At
  <2>2. NoOlder(t)'
    BY <1>3, <1>p, Shape DEF CheckSso, NoOlder, FromVault, Typed
  <2>3. Vouched(t)'
    BY <1>3, <1>p, Shape DEF CheckSso, Vouched, Vouches, Typed
  <2>. QED
    BY <2>1, <2>2, <2>3 DEF TabInv
<1>4. ASSUME NoSso(t) PROVE TabInv(t)'
  <2>1. Shared(t)'
    BY <1>4, <1>p, Shape DEF NoSso, SetSession, Typed, At
  <2>2. NoOlder(t)'
    BY <1>4, <1>p, Shape DEF NoSso, SetSession, Shared, Typed, At
  <2>3. Vouched(t)'
    BY <1>4, <1>p, Shape DEF NoSso, SetSession, Shared, Vouched, Typed, At
  <2>. QED
    BY <2>1, <2>2, <2>3 DEF TabInv
<1>5. ASSUME BootFails(t) PROVE TabInv(t)'
  <2>1. Shared(t)'
    BY <1>5, <1>p, Shape DEF BootFails, Shared, Typed, Idle
  <2>2. NoOlder(t)'
    BY <1>5, <1>p DEF BootFails, NoOlder, InUse, Enabling
  <2>3. Vouched(t)'
    BY <1>5, <1>p, Shape DEF BootFails, Vouched, Vouches, InUse, Enabling, server
  <2>. QED
    BY <2>1, <2>2, <2>3 DEF TabInv
<1>6. ASSUME Identity(t) PROVE TabInv(t)'
  <2>1. Shared(t)'
    BY <1>6, <1>p, Shape DEF Identity, GoTo, Shared, Typed, At
  <2>2. NoOlder(t)'
    BY <1>6, <1>p, Shape DEF Identity, GoTo, NoOlder, FromVault, InUse, Enabling
  <2>3. Vouched(t)'
    BY <1>6, <1>p, Shape DEF Identity, GoTo, Vouched, Vouches, InUse, Enabling, server
  <2>. QED
    BY <2>1, <2>2, <2>3 DEF TabInv
<1>7. ASSUME AskGrant(t) PROVE TabInv(t)'
  <2>1. Shared(t)'
    BY <1>7, <1>p, Shape DEF AskGrant, Shared, Typed, At
  <2>2. NoOlder(t)'
    BY <1>7, <1>p DEF AskGrant, NoOlder, InUse, Typed, Enabling
  <2>3. Vouched(t)'
    BY <1>7, <1>p, Shape DEF AskGrant, Vouched, Vouches, InUse, Typed, Enabling, server
  <2>. QED
    BY <2>1, <2>2, <2>3 DEF TabInv
<1>8. ASSUME AnswerGrant(t) PROVE TabInv(t)'
  <2>. DEFINE g == [user |-> tab[t].work.team.user, version |-> tab[t].work.team.version,
            rights |-> past[tab[t].work.team.user][version[tab[t].work.team.user]],
             until |-> now + GrantLife]
              s == NewSession(t, g)
  <2>1. tab' = [tab EXCEPT ![t].work = [Idle EXCEPT !.at = "event", !.session = s]]
        /\ tab[t].work.at = "grantRights" /\ UNCHANGED <<server, store>>
    BY <1>8 DEF AnswerGrant, At
  <2>2. tab[t].kc \in Tokens /\ tab[t].work.team \in Teams /\ tab[t].kc.user \in Users
    BY <1>p, <2>1, TabParts, NotNone, TokenParts DEF InPlace
  <2>3. now + GrantLife \in 0..(MaxTime + GrantLife)
    BY <1>p, ServerParts, DeviceAssumption
  <2>4. g \in OptGrant
    BY <1>p, <2>2, <2>3, TeamParts, ServerParts, GrantMade, Somes
  <2>. HIDE DEF g
  <2>5. s \in Sessions /\ s.token \in Tokens
    BY <2>2, <2>4, SessionMade DEF NewSession
  <2>. HIDE DEF s
  <2>. QED
    BY <1>p, <2>1, <2>5, OneSignsIn DEF server
<1>9. ASSUME NoGrant(t) PROVE TabInv(t)'
  <2>. DEFINE s == NewSession(t, None)
  <2>1. tab' = [tab EXCEPT ![t].work = [Idle EXCEPT !.at = "event", !.session = s]]
        /\ tab[t].work.at \in {"grantVersion", "grantRights"} /\ UNCHANGED <<server, store>>
    BY <1>9 DEF NoGrant
  <2>2. tab[t].kc \in Tokens /\ tab[t].kc.user \in Users
    BY <1>p, <2>1, TabParts, NotNone, TokenParts DEF InPlace
  <2>3. s \in Sessions /\ s.token \in Tokens
    BY <2>2, Nones, SessionMade DEF NewSession
  <2>. HIDE DEF s
  <2>. QED
    BY <1>p, <2>1, <2>3, OneSignsIn DEF server
<1>10. ASSUME Created(t) PROVE TabInv(t)'
  <2>1. Shared(t)'
    BY <1>10, <1>p, Shape DEF Created, SetSession, Typed, At
  <2>2. NoOlder(t)'
    BY <1>10, <1>p, Shape DEF Created, SetSession, Typed, At
  <2>3. Vouched(t)'
    BY <1>10, <1>p, Shape DEF Created, SetSession, Shared, Typed, At
  <2>. QED
    BY <2>1, <2>2, <2>3 DEF TabInv
<1>11. ASSUME Render(t) PROVE TabInv(t)'
  <2>1. UNCHANGED <<past, version, store>> /\ tab[t].page # "closed" /\ Active(t) = store.local
                  /\ Quiet
    BY <1>11, <1>p DEF Render, Shared, Active, server, Quiet, At
  <2>2. CASE Active(t) = None
    <3>1. tab'[t].work.at = "rest" /\ tab'[t].page = "auth" /\ tab'[t].mem = None
      BY <1>11, <1>p, <2>1, <2>2, Shape DEF Render, Typed, Idle, Shared
    <3>. QED
      BY <2>1, <2>2, <3>1, OneCalm DEF Calm
  <2>3. CASE Active(t) # None
    <3>1. PICK p \in {"access", "shell"} :
            tab' = [tab EXCEPT ![t].page = p, ![t].mem = Active(t),
                               ![t].work = [Idle EXCEPT !.at = "team", !.session = Active(t)]]
      BY <1>11, <2>3 DEF Render
    <3>2. tab'[t].work.at = "team" /\ tab'[t].page # "closed" /\ tab'[t].mem = Active(t)
          /\ tab'[t].work.session = Active(t)
      BY <1>p, <3>1, Shape DEF Typed, Idle
    <3>. QED
      BY <2>1, <3>2, OneTeam
  <2>. QED
    BY <2>2, <2>3
<1>. QED
  BY <1>1, <1>2, <1>3, <1>4, <1>5, <1>6, <1>7, <1>8, <1>9, <1>10, <1>11 DEF Boot

\* The steps of loading the authorization: the version is read before the rights, and

\* a snapshot replaces an older one or meets a grant that is no newer.
LEMMA HydrateOne ==
  ASSUME OneInv, NEW t \in Tabs, Hydrate(t)
  PROVE  TabInv(t)'
<1>p. /\ TypeOK /\ Typed(tab) /\ store \in Stores /\ InPlace(tab[t], store.vault)
      /\ Shared(t) /\ NoOlder(t) /\ Vouched(t)
  BY DEF OneInv, TypeInv, TypeOK, Typed
<1>1. ASSUME NoSession(t) PROVE TabInv(t)'
  <2>1. Quiet /\ store' = store /\ tab[t].work.at = "team"
    BY <1>1, <1>p DEF NoSession, At, Quiet, Shared, server
  <2>2. PICK w \in {"stuck", "error"} : Rest(t, w)
    BY <1>1 DEF NoSession, Undefined
  <2>. QED
    BY <2>1, <2>2, OneRests
<1>2. ASSUME WithoutToken(t) PROVE TabInv(t)'
  <2>1. Shared(t)'
    BY <1>2, <1>p, Shape DEF WithoutToken, Shared, Typed, At, Active
  <2>2. NoOlder(t)'
    BY <1>2, <1>p, Shape DEF WithoutToken, Typed, At
  <2>3. Vouched(t)'
    BY <1>2, <1>p, Shape DEF WithoutToken, Typed, At
  <2>. QED
    BY <2>1, <2>2, <2>3 DEF TabInv
<1>13. ASSUME SendTeam(t) PROVE TabInv(t)'
  <2>1. PICK s : s = Active(t)
    OBVIOUS
  <2>2. UNCHANGED <<past, version, store>> /\ tab[t].page # "closed" /\ s = store.local
        /\ tab[t].mem = s /\ tab[t].work.at = "team" /\ s # None /\ s.token \in Tokens
    BY <1>13, <1>p, <2>1, StoreParts, SessionParts DEF SendTeam, At, Shared, Active, server
  <2>3. tab' = [tab EXCEPT ![t].mem = s, ![t].work.at = "asked", ![t].work.asked = s]
    BY <1>13, <2>1 DEF SendTeam
  <2>4. tab'[t].mem = s /\ tab'[t].work.at = "asked" /\ tab'[t].work.asked = s
        /\ tab'[t].page = tab[t].page /\ tab'[t].work.session = tab[t].work.session
    BY <1>p, <2>3, Shape DEF Typed
  <2>5. Shared(t)'
    BY <1>p, <2>2, <2>4 DEF Shared
  <2>6. NoOlder(t)'
    BY <1>p, <2>2, <2>4 DEF NoOlder, InUse, Enabling
  <2>7. Vouched(t)'
    BY <1>p, <2>2, <2>4 DEF Vouched, Vouches, InUse, Enabling
  <2>. QED
    BY <2>5, <2>6, <2>7 DEF TabInv
<1>3. ASSUME AskTeam(t) PROVE TabInv(t)'
  <2>1. PICK k : k = tab[t].work.asked.token
    OBVIOUS
  <2>2. PICK n : n = [user |-> k.user, version |-> version[k.user], rights |-> {}]
    OBVIOUS
  <2>3. UNCHANGED <<past, version, store>> /\ tab[t].work.at = "asked" /\ k \in Tokens
    BY <1>3, <1>p, <2>1, ServerParts DEF AskTeam, At, server
  <2>4. tab' = [tab EXCEPT ![t].work.at = "teamRights", ![t].work.team = n]
    BY <1>3, <2>1, <2>2 DEF AskTeam
  <2>5. n.version <= version[n.user]
    BY <1>p, <2>2, <2>3, TokenParts, ServerParts DEF Versions
  <2>6. tab'[t].mem = tab[t].mem /\ tab'[t].work.at = "teamRights"
        /\ tab'[t].work.asked = tab[t].work.asked /\ tab'[t].work.team = n
        /\ tab'[t].page = tab[t].page /\ tab'[t].work.session = tab[t].work.session
    BY <1>p, <2>4, Shape DEF Typed
  <2>7. Shared(t)'
    BY <1>p, <2>3, <2>6 DEF Shared
  <2>8. NoOlder(t)'
    BY <1>p, <2>3, <2>6 DEF NoOlder, InUse, Enabling
  <2>9. Vouched(t)'
    BY <1>p, <2>3, <2>5, <2>6 DEF Vouched, Vouches, InUse, Enabling
  <2>. QED
    BY <2>7, <2>8, <2>9 DEF TabInv
<1>4. ASSUME TeamDenied(t) PROVE TabInv(t)'
  <2>1. Shared(t)'
    BY <1>4, <1>p, Shape DEF TeamDenied, SetSession, Typed, At, Idle
  <2>2. NoOlder(t)'
    BY <1>4, <1>p, Shape DEF TeamDenied, SetSession, Shared, Typed, At, Idle
  <2>3. Vouched(t)'
    BY <1>4, <1>p, Shape DEF TeamDenied, SetSession, Shared, Vouched, Typed, At, Idle
  <2>. QED
    BY <2>1, <2>2, <2>3 DEF TabInv
<1>5. ASSUME TeamFails(t) PROVE TabInv(t)'
  <2>1. Quiet /\ store' = store /\ tab[t].work.at \in {"asked", "teamRights"}
    BY <1>5, <1>p DEF TeamFails, At, Quiet, Shared, server
  <2>2. PICK w \in {"failed", "error"} : Rest(t, w)
    BY <1>5 DEF TeamFails, Rejected
  <2>. QED
    BY <2>1, <2>2, OneRests
<1>6. ASSUME AnswerTeam(t) PROVE TabInv(t)'
  <2>. DEFINE n == tab[t].work.team
              r == past[n.user][version[n.user]]
  <2>1. Quiet /\ UNCHANGED <<past, version, store>> /\ tab[t].work.at = "teamRights"
        /\ tab[t].page # "closed"
    BY <1>6, <1>p DEF AnswerTeam, At, Quiet, Shared, server
  <2>2. CASE n.user # tab[t].work.asked.user
    <3>1. PICK w \in {"failed", "error"} : Rest(t, w)
      BY <1>6, <2>2 DEF AnswerTeam, Rejected
    <3>. QED
      BY <2>1, <3>1, OneRests
  <2>3. CASE n.user = tab[t].work.asked.user
    <3>1. n \in Teams /\ n.user \in Users /\ n.version <= version[n.user]
          /\ version[n.user] \in Versions
          /\ n.version \in Versions
      BY <1>p, <2>1, TabParts, NotNone, TeamParts, ServerParts DEF InPlace, Vouched
    <3>2. tab'[t].mem = tab[t].mem /\ tab'[t].page = tab[t].page /\ tab'[t].work.at = Arrived(t)
          /\ (Arrived(t) # "ready" => tab'[t].work.session = tab[t].work.session)
          /\ tab'[t].work.team = [n EXCEPT !.rights = r]
      BY <1>6, <1>p, <2>3, Shape DEF AnswerTeam, Typed
    <3>3. [n EXCEPT !.rights = r].user = n.user /\ [n EXCEPT !.rights = r].version = n.version
          /\ [n EXCEPT !.rights = r].rights = r
      BY <3>1 DEF Teams
    <3>4. tab'[t].work.team # None
      <4>1. [n EXCEPT !.rights = r] \in Teams
        BY <1>p, <3>1, ServerParts DEF Teams
      <4>. QED
        BY <3>2, <4>1, Somes
    <3>5. version[n.user] \in n.version .. version[n.user]
      BY <3>1 DEF Versions
    <3>6. PICK m \in Teams : m = tab'[t].work.team /\ m.user = n.user /\ m.version = n.version
               /\ m.rights = r
      <4>1. [n EXCEPT !.rights = r] \in Teams
        BY <1>p, <3>1, ServerParts DEF Teams
      <4>. QED
        BY <3>2, <3>3, <4>1
    <3>7. Arrived(t) \in {"ready", "save"}
      BY DEF Arrived
    <3>8. Shared(t)'
      BY <1>p, <2>1, <3>2, <3>7 DEF Shared
    <3>9. NoOlder(t)'
      <4>1. NoToken \notin Tokens
        BY DEF NoToken, Tokens
      <4>. QED
        BY <1>p, <2>1, <3>2, <4>1 DEF NoOlder, FromVault
    <3>10. Vouched(t)'
      <4>1. Vouches(m)'
        BY <2>1, <3>5, <3>6 DEF Vouches
      <4>2. Vouched(t)
        BY <1>p
      <4>. QED
        BY <2>1, <2>3, <3>2, <3>4, <3>6, <3>7, <4>1, <4>2 DEF Vouched, Vouches
    <3>. QED
      BY <3>8, <3>9, <3>10 DEF TabInv
  <2>. QED
    BY <2>2, <2>3
<1>7. ASSUME ReadSnapshot(t) PROVE TabInv(t)'
  <2>1. Quiet /\ UNCHANGED <<past, version, store>> /\ tab[t].work.at = "offline"
        /\ tab[t].page # "closed"
        /\ tab[t].mem = store.local
    BY <1>7, <1>p DEF ReadSnapshot, At, Quiet, Shared, server
  <2>2. CASE tab[t].key = None \/ store.snap = None \/ ~UsesSnapshot(t)
    <3>1. PICK w \in {"stuck", "error", "failed"} : Rest(t, w)
      BY <1>7, <2>2 DEF ReadSnapshot, Undefined, Rejected
    <3>. QED
      BY <2>1, <3>1, OneRests
  <2>3. CASE ~(tab[t].key = None \/ store.snap = None \/ ~UsesSnapshot(t))
    <3>1. CASE store.snap.until <= now
      <4>1. GoTo(t, "dropSnap")
        BY <1>7, <2>3, <3>1 DEF ReadSnapshot
      <4>. QED
        BY <2>1, <4>1, OneGoes DEF Calm
    <3>2. CASE ~(store.snap.until <= now) /\ tab[t].page = "access"
      <4>1. Entered(t)
        BY <1>7, <2>3, <3>2 DEF ReadSnapshot
      <4>. QED
        BY <2>1, <4>1, OneEntered
    <3>3. CASE ~(store.snap.until <= now) /\ tab[t].page # "access"
      <4>. DEFINE n == [user |-> store.snap.user, version |-> store.snap.version,
            rights |-> store.snap.rights]
      <4>1. tab' = [tab EXCEPT ![t].work = [Idle EXCEPT !.at = "ready", !.team = n]]
        BY <1>7, <2>3, <3>3 DEF ReadSnapshot
      <4>2. store.snap # None /\ store.snap.user = tab[t].work.asked.user
        BY <2>3 DEF UsesSnapshot
      <4>3. n # None
        BY <1>p, <4>2, StoreParts, NotNone, SnapshotParts, TeamMade, Somes
      <4>4. PICK m : m = n /\ m.user = store.snap.user /\ m.version = store.snap.version
                     /\ m.rights = store.snap.rights
        <5>. WITNESS n
        <5>. QED
          OBVIOUS
      <4>. HIDE DEF n
      <4>5. tab'[t].mem = tab[t].mem /\ tab'[t].page = tab[t].page /\ tab'[t].work.at = "ready"
            /\ tab'[t].work.team = m
        BY <1>p, <4>1, <4>4, Shape DEF Typed, Idle
      <4>6. Shared(t)'
        BY <1>p, <2>1, <4>5 DEF Shared
      <4>7. NoOlder(t)'
        BY <1>p, <2>1, <4>2, <4>4, <4>5 DEF NoOlder, FromVault
      <4>8. Vouches(m)'
        BY <1>p, <2>1, <4>2, <4>4 DEF Vouched, Vouches
      <4>9. Vouched(t)'
        BY <1>p, <2>1, <4>3, <4>4, <4>5, <4>8 DEF Vouched, Vouches
      <4>. QED
        BY <4>6, <4>7, <4>9 DEF TabInv
    <3>. QED
      BY <3>1, <3>2, <3>3
  <2>. QED
    BY <2>2, <2>3
<1>8. ASSUME DropSnapshot(t) PROVE TabInv(t)'
  <2>1. Quiet /\ store'.local = store.local /\ tab[t].work.at = "dropSnap"
    BY <1>8, <1>p DEF DropSnapshot, At, Quiet, Shared, server, Stores
  <2>2. PICK w \in {"stuck", "error"} : Rest(t, w)
    BY <1>8 DEF DropSnapshot, Undefined
  <2>. QED
    BY <2>1, <2>2, OneRests
<1>9. ASSUME CheckGrant(t) PROVE TabInv(t)'
  <2>1. Quiet /\ UNCHANGED <<past, version, store>> /\ tab[t].work.at = "save"
    BY <1>9, <1>p DEF CheckGrant, At, Quiet, Shared, server
  <2>2. CASE Entered(t)
    BY <2>1, <2>2, OneEntered
  <2>3. ASSUME NEW w \in {"dropGrant", "put"}, tab'[t].work.at = w, tab'[t].mem = tab[t].mem,
               tab'[t].page = tab[t].page, tab'[t].work.session = tab[t].work.session,
               tab'[t].work.team = tab[t].work.team
        PROVE  TabInv(t)'
    <3>1. Shared(t)'
      BY <1>p, <2>1, <2>3 DEF Shared
    <3>2. NoOlder(t)'
      BY <1>p, <2>1, <2>3 DEF NoOlder, InUse, Enabling
    <3>3. Vouched(t)'
      BY <1>p, <2>1, <2>3 DEF Vouched, Vouches, InUse, Enabling
    <3>. QED
      BY <3>1, <3>2, <3>3 DEF TabInv
  <2>4. CASE GoTo(t, "dropGrant")
    BY <1>p, <2>3, <2>4, Shape DEF GoTo, Typed
  <2>5. CASE tab' = [tab EXCEPT ![t].work.at = "put", ![t].work.grant = store.grant.grant]
    BY <1>p, <2>3, <2>5, Shape DEF Typed
  <2>. QED
    BY <1>9, <2>2, <2>4, <2>5 DEF CheckGrant
<1>10. ASSUME DropGrant(t) PROVE TabInv(t)'
  <2>1. Quiet /\ store'.local = store.local /\ tab[t].work.at = "dropGrant" /\ Entered(t)
    BY <1>10, <1>p DEF DropGrant, At, Quiet, Shared, server, Stores
  <2>. QED
    BY <2>1, OneEntered
<1>11. ASSUME PutSnapshot(t) PROVE TabInv(t)'
  <2>. DEFINE r == [user |-> tab[t].work.session.user, version |-> tab[t].work.team.version,
                    rights |-> tab[t].work.team.rights, key |-> tab[t].key.key,
                    until |-> tab[t].work.grant.until]
  <2>1. tab[t].work.at = "put" /\ tab[t].page # "closed" /\ tab[t].mem = store.local /\ Entered(t)
        /\ UNCHANGED <<past, version>> /\ store' = [store EXCEPT !.snap = r]
    BY <1>11, <1>p DEF PutSnapshot, At, Shared, server
  <2>2. PICK q : q = r /\ q.user = tab[t].work.session.user /\ q.version = tab[t].work.team.version
                 /\ q.rights = tab[t].work.team.rights
    <3>. WITNESS r
    <3>. QED
      OBVIOUS
  <2>. HIDE DEF r
  <2>3. store'.snap = q /\ store'.local = store.local /\ store'.idb = store.idb
    BY <1>p, <2>1, <2>2 DEF Stores
  <2>4. tab[t].work.session.user = tab[t].work.team.user /\ Vouches(tab[t].work.team)
        /\ (store.local # None => store.local.token \in Tokens) /\ store.local = store.idb
    BY <1>p, <2>1 DEF Vouched, NoOlder, Shared
  <2>5. Vouches(q)'
    BY <2>1, <2>2, <2>4 DEF Vouches
  <2>6. NoToken \notin Tokens
    BY DEF NoToken, Tokens
  <2>7. Active(t) = store.local
    BY <2>1 DEF Active
  <2>8. tab'[t].mem = store'.local /\ tab'[t].page # "closed"
        /\ tab'[t].work.at \in {"rest", "team"}
        /\ (tab'[t].work.at = "team" => tab'[t].work.session = tab'[t].mem)
    <3>1. CASE Active(t) = None
      BY <1>p, <2>1, <2>7 DEF Entered, Typed, Idle
    <3>2. CASE Active(t) # None
      BY <1>p, <2>1, <2>7, <3>2 DEF Entered, Typed
    <3>. QED
      BY <3>1, <3>2
  <2>9. Shared(t)'
    BY <2>3, <2>4, <2>8 DEF Shared
  <2>10. NoOlder(t)'
    BY <2>3, <2>4, <2>6, <2>8 DEF NoOlder, InUse, Enabling
  <2>11. Vouched(t)'
    BY <2>3, <2>5, <2>8 DEF Vouched, Vouches, InUse, Enabling
  <2>. QED
    BY <2>9, <2>10, <2>11 DEF TabInv
<1>12. ASSUME Retry(t) PROVE TabInv(t)'
  <2>1. UNCHANGED <<past, version, store>> /\ tab[t].page # "closed" /\ Active(t) = store.local
                  /\ Quiet
    BY <1>12, <1>p DEF Retry, Shared, Active, server, Quiet, At
  <2>2. CASE Active(t) = None
    <3>1. tab'[t].work.at = "rest" /\ tab'[t].page = "auth" /\ tab'[t].mem = None
      BY <1>12, <1>p, <2>2 DEF Retry, Typed, Idle
    <3>. QED
      BY <2>1, <2>2, <3>1, OneCalm DEF Calm
  <2>3. CASE Active(t) # None
    <3>1. tab' = [tab EXCEPT ![t].page = "access", ![t].mem = Active(t),
                               ![t].work = [Idle EXCEPT !.at = "team", !.session = Active(t)]]
      BY <1>12, <2>3 DEF Retry
    <3>2. tab'[t].work.at = "team" /\ tab'[t].page # "closed" /\ tab'[t].mem = Active(t)
          /\ tab'[t].work.session = Active(t)
      BY <1>p, <3>1, Shape DEF Typed, Idle
    <3>. QED
      BY <2>1, <3>2, OneTeam
  <2>. QED
    BY <2>2, <2>3
<1>. QED
  BY <1>1, <1>2, <1>3, <1>4, <1>5, <1>6, <1>7, <1>8, <1>9, <1>10, <1>11, <1>12,
     <1>13 DEF Hydrate, Resume

\* The steps at the vault: the team in use stays, and unlocking brings a grant only

\* with the snapshot that was saved after it.
LEMMA VaultOne ==
  ASSUME OneInv, NEW t \in Tabs, Vault(t)
  PROVE  TabInv(t)'
<1>p. /\ TypeOK /\ Typed(tab) /\ store \in Stores /\ InPlace(tab[t], store.vault)
      /\ Shared(t) /\ NoOlder(t) /\ Vouched(t)
  BY DEF OneInv, TypeInv, TypeOK, Typed
<1>1. ASSUME FindVault(t) PROVE TabInv(t)'
  <2>1. Quiet /\ store'.local = store.local /\ tab[t].work.at \in InUse
        /\ UNCHANGED <<past, version>>
    BY <1>1, <1>p DEF FindVault, At, Quiet, Shared, server, InUse, Enabling
  <2>2. CASE tab' = [tab EXCEPT ![t].work = Done(t)]
    <3>1. tab'[t].work = Done(t) /\ tab'[t].mem = tab[t].mem /\ tab'[t].page = tab[t].page
      BY <1>p, <2>2, Shape DEF Typed
    <3>. QED
      BY <2>1, <3>1, OneDone
  <2>3. ASSUME NEW w \in Enabling, GoTo(t, w) PROVE TabInv(t)'
    <3>1. tab'[t].work.at = w /\ tab'[t].mem = tab[t].mem /\ tab'[t].page = tab[t].page
          /\ tab'[t].work.team = tab[t].work.team
      BY <1>p, <2>3, Shape DEF GoTo, Typed
    <3>. QED
      BY <2>1, <3>1, OneUse DEF InUse
  <2>. QED
    BY <1>1, <2>2, <2>3 DEF FindVault, Enabling
<1>2. ASSUME NEW right \in BOOLEAN, EnableUnlock(t, right) PROVE TabInv(t)'
  <2>1. Quiet /\ store'.local = store.local /\ tab[t].work.at \in InUse
        /\ UNCHANGED <<past, version>>
    BY <1>2, <1>p DEF EnableUnlock, At, Quiet, Shared, server, InUse, Enabling
  <2>2. CASE tab' = [tab EXCEPT ![t].key = None, ![t].work = Done(t)]
    <3>1. tab'[t].work = Done(t) /\ tab'[t].mem = tab[t].mem /\ tab'[t].page = tab[t].page
      BY <1>p, <2>2, Shape DEF Typed
    <3>. QED
      BY <2>1, <3>1, OneDone
  <2>3. CASE tab' = [tab EXCEPT ![t].key = store.vault, ![t].work.at = "saveGrant"]
    <3>1. tab'[t].work.at \in InUse /\ tab'[t].mem = tab[t].mem /\ tab'[t].page = tab[t].page
          /\ tab'[t].work.team = tab[t].work.team
      BY <1>p, <2>3, Shape DEF Typed, InUse, Enabling
    <3>. QED
      BY <2>1, <3>1, OneUse
  <2>. QED
    BY <1>2, <2>2, <2>3 DEF EnableUnlock
<1>3. ASSUME SetupVault(t) PROVE TabInv(t)'
  <2>1. Quiet /\ store'.local = store.local /\ tab[t].work.at \in InUse
        /\ UNCHANGED <<past, version>>
    BY <1>3, <1>p DEF SetupVault, At, Quiet, Shared, server, InUse, Enabling
  <2>2. CASE tab' = [tab EXCEPT ![t].work = Done(t)]
    <3>1. tab'[t].work = Done(t) /\ tab'[t].mem = tab[t].mem /\ tab'[t].page = tab[t].page
      BY <1>p, <2>2, Shape DEF Typed
    <3>. QED
      BY <2>1, <3>1, OneDone
  <2>3. CASE tab' = [tab EXCEPT ![t].work.at = "saveVault", ![t].work.key = NewKey]
    <3>1. tab'[t].work.at \in InUse /\ tab'[t].mem = tab[t].mem /\ tab'[t].page = tab[t].page
          /\ tab'[t].work.team = tab[t].work.team
      BY <1>p, <2>3, Shape DEF Typed, InUse, Enabling
    <3>. QED
      BY <2>1, <3>1, OneUse
  <2>. QED
    BY <1>3, <2>2, <2>3 DEF SetupVault
<1>4. ASSUME SaveVault(t) PROVE TabInv(t)'
  <2>1. Shared(t)'
    BY <1>4, <1>p, Shape DEF SaveVault, Shared, Typed, At
  <2>2. NoOlder(t)'
    BY <1>4, <1>p, Shape DEF SaveVault, NoOlder, FromVault, Typed
  <2>3. Vouched(t)'
    BY <1>4, <1>p, Shape DEF SaveVault, Typed, At
  <2>. QED
    BY <2>1, <2>2, <2>3 DEF TabInv
<1>5. ASSUME SaveGrant(t) PROVE TabInv(t)'
  <2>1. Quiet /\ store'.local = store.local /\ tab[t].work.at \in InUse
        /\ UNCHANGED <<past, version>>
    BY <1>5, <1>p DEF SaveGrant, At, Quiet, Shared, server, InUse, Enabling
  <2>2. CASE tab' = [tab EXCEPT ![t].work = Done(t)]
    <3>1. tab'[t].work = Done(t) /\ tab'[t].mem = tab[t].mem /\ tab'[t].page = tab[t].page
      BY <1>p, <2>2, Shape DEF Typed
    <3>. QED
      BY <2>1, <3>1, OneDone
  <2>. QED
    BY <1>5, <2>2 DEF SaveGrant
<1>6. ASSUME NEW right \in BOOLEAN, UnlockVault(t, right) PROVE TabInv(t)'
  <2>1. Shared(t)'
    BY <1>6, <1>p, Shape DEF UnlockVault, Shared, Typed, At, Idle
  <2>2. NoOlder(t)'
    BY <1>6, <1>p, Shape DEF UnlockVault, NoOlder, FromVault, Typed
  <2>3. Vouched(t)'
    BY <1>6, <1>p, Shape DEF UnlockVault, Typed, At, Idle
  <2>. QED
    BY <2>1, <2>2, <2>3 DEF TabInv
<1>7. ASSUME UnlockGrant(t) PROVE TabInv(t)'
  <2>1. Quiet /\ store'.local = store.local /\ tab[t].work.at \notin {"load", "keep", "rest"}
        /\ tab[t].page # "closed"
    BY <1>7, <1>p DEF UnlockGrant, At, Quiet, Shared, server, Stores
  <2>2. CASE Relock(t)
    BY <2>1, <2>2, OneRelocks
  <2>3. CASE GoTo(t, "unlockDrop")
    BY <2>1, <2>3, OneGoes DEF Calm
  <2>4. CASE tab' = [tab EXCEPT ![t].work.at = "unlockSnap", ![t].work.grant = store.grant.grant]
    <3>1. tab'[t].work.at = "unlockSnap" /\ tab'[t].mem = tab[t].mem /\ tab'[t].page = tab[t].page
      BY <1>p, <2>4, Shape DEF Typed
    <3>2. tab[t].mem = store.local
      BY <1>p, <2>1 DEF Shared
    <3>. QED
      BY <2>1, <3>1, <3>2, OneCalm DEF Calm
  <2>. QED
    BY <1>7, <2>2, <2>3, <2>4 DEF UnlockGrant
<1>8. ASSUME UnlockDropGrant(t) PROVE TabInv(t)'
  <2>1. Quiet /\ store'.local = store.local /\ tab[t].work.at \notin {"load", "keep", "rest"}
        /\ tab[t].page # "closed"
    BY <1>8, <1>p DEF UnlockDropGrant, At, Quiet, Shared, server, Stores
  <2>2. CASE Relock(t)
    BY <2>1, <2>2, OneRelocks
  <2>. QED
    BY <1>8, <2>2 DEF UnlockDropGrant
<1>9. ASSUME UnlockSnapshot(t) PROVE TabInv(t)'
  <2>1. UNCHANGED <<past, version>> /\ tab[t].work.at = "unlockSnap" /\ tab[t].page # "closed"
        /\ tab[t].mem = store.local /\ store.local = store.idb
    BY <1>9, <1>p DEF UnlockSnapshot, At, Shared, server
  <2>2. CASE Relock(t) /\ UNCHANGED store
    BY <2>1, <2>2, OneRelocks DEF Quiet
  <2>3. CASE GoTo(t, "unlockDropSnap") /\ UNCHANGED store
    BY <2>1, <2>3, OneGoes DEF Quiet, Calm
  <2>4. CASE /\ store.snap # None /\ store.snap.user = tab[t].work.grant.user
             /\ Agrees(store.snap, tab[t].work.grant)
             /\ LET s == [user |-> store.snap.user, token |-> NoToken, grant |-> tab[t].work.grant]
                IN SetSession(t, s, [Idle EXCEPT !.at = "team", !.session = s], "access")
    <3>. DEFINE s == [user |-> store.snap.user, token |-> NoToken, grant |-> tab[t].work.grant]
    <3>1. SetSession(t, s, [Idle EXCEPT !.at = "team", !.session = s], "access")
      BY <2>4
    <3>2. PICK q : q = s /\ q.user = store.snap.user /\ q.grant = tab[t].work.grant
      <4>. WITNESS s
      <4>. QED
        OBVIOUS
    <3>. HIDE DEF s
    <3>3. tab'[t].mem = q /\ tab'[t].page = "access" /\ tab'[t].work.at = "team"
          /\ tab'[t].work.session = q
      BY <1>p, <3>1, <3>2, Shape DEF SetSession, Typed, Idle
    <3>4. store'.local = q /\ store'.idb = q /\ store'.snap = store.snap
      BY <1>p, <3>1, <3>2 DEF SetSession, StoresWith, Stores
    <3>5. store.snap.version >= q.grant.version
      <4>1. store.snap \in Snapshots
        BY <1>p, <2>4, StoreParts, NotNone
      <4>. QED
        BY <2>4, <3>2, <4>1, SnapshotParts DEF Agrees, Versions
    <3>6. Shared(t)'
      BY <3>3, <3>4 DEF Shared
    <3>7. NoOlder(t)'
      BY <3>3, <3>4, <3>5 DEF NoOlder, InUse, Enabling
    <3>8. Vouched(t)'
      BY <1>p, <2>1, <3>3, <3>4 DEF Vouched, Vouches, InUse, Enabling
    <3>. QED
      BY <3>6, <3>7, <3>8 DEF TabInv
  <2>. QED
    BY <1>9, <2>2, <2>3, <2>4 DEF UnlockSnapshot
<1>10. ASSUME UnlockDropSnapshot(t) PROVE TabInv(t)'
  <2>1. Quiet /\ store'.local = store.local /\ tab[t].work.at \notin {"load", "keep", "rest"}
        /\ tab[t].page # "closed"
    BY <1>10, <1>p DEF UnlockDropSnapshot, At, Quiet, Shared, server, Stores
  <2>2. CASE Relock(t)
    BY <2>1, <2>2, OneRelocks
  <2>. QED
    BY <1>10, <2>2 DEF UnlockDropSnapshot
<1>. QED
  BY <1>1, <1>2, <1>3, <1>4, <1>5, <1>6, <1>7, <1>8, <1>9, <1>10 DEF Vault

\* What the person at the device does.
LEMMA PersonOne ==
  ASSUME OneInv, NEW t \in Tabs, Person(t)
  PROVE  TabInv(t)'
<1>p. /\ TypeOK /\ Typed(tab) /\ store \in Stores /\ InPlace(tab[t], store.vault)
      /\ Shared(t) /\ NoOlder(t) /\ Vouched(t)
  BY DEF OneInv, TypeInv, TypeOK, Typed
<1>1. ASSUME Open(t) PROVE TabInv(t)'
  <2>1. Shared(t)'
    BY <1>1, <1>p, Shape DEF Open, Shared, Typed
  <2>2. NoOlder(t)'
    BY <1>1, <1>p DEF Open, Shared, NoOlder, InUse, Enabling
  <2>3. Vouched(t)'
    BY <1>1, <1>p DEF Open, Vouched, Vouches, InUse, Enabling, server
  <2>. QED
    BY <2>1, <2>2, <2>3 DEF TabInv
<1>2. ASSUME Close(t) PROVE TabInv(t)'
  BY <1>2, <1>p, OneCloses DEF Close, Quiet, Shared, server
<1>3. ASSUME Found(t) PROVE TabInv(t)'
  <2>1. Shared(t)'
    BY <1>3, <1>p, Shape DEF Found, Shared, Typed
  <2>2. NoOlder(t)'
    BY <1>3, <1>p, Shape DEF Found, NoOlder, InUse, Typed, Enabling
  <2>3. Vouched(t)'
    BY <1>3, <1>p, Shape DEF Found, Shared, Vouched, Vouches, InUse, Typed, Enabling, server
  <2>. QED
    BY <2>1, <2>2, <2>3 DEF TabInv
<1>4. ASSUME Revisit(t) PROVE TabInv(t)'
  <2>1. Shared(t)'
    BY <1>4, <1>p, Shape DEF Revisit, Shared, Typed, At, Idle
  <2>2. NoOlder(t)'
    BY <1>4, <1>p, Shape DEF Revisit, NoOlder, FromVault, Typed
  <2>3. Vouched(t)'
    BY <1>4, <1>p, Shape DEF Revisit, Typed, At, Idle
  <2>. QED
    BY <2>1, <2>2, <2>3 DEF TabInv
<1>5. ASSUME SignInAgain(t) PROVE TabInv(t)'
  <2>1. Shared(t)'
    BY <1>5, <1>p, Shape DEF SignInAgain, SetSession, Typed
  <2>2. NoOlder(t)'
    BY <1>5, <1>p, Shape DEF SignInAgain, SetSession, Typed
  <2>3. Vouched(t)'
    BY <1>5, <1>p, Shape DEF SignInAgain, SetSession, Shared, Typed
  <2>. QED
    BY <2>1, <2>2, <2>3 DEF TabInv
<1>6. ASSUME SignOut(t) PROVE TabInv(t)'
  <2>1. Shared(t)'
    BY <1>6, <1>p DEF SignOut, Rest, Shared
  <2>2. NoOlder(t)'
    BY <1>6, <1>p, Shape DEF SignOut, Rest, NoOlder, FromVault, InUse, Enabling
  <2>3. Vouched(t)'
    BY <1>6, <1>p, Shape DEF SignOut, Rest, Vouched, Vouches, InUse, Enabling, server
  <2>. QED
    BY <2>1, <2>2, <2>3 DEF TabInv
<1>7. ASSUME Unlock(t) PROVE TabInv(t)'
  <2>1. Shared(t)'
    BY <1>7, <1>p DEF Unlock, GoTo, Shared
  <2>2. NoOlder(t)'
    BY <1>7, <1>p, Shape DEF Unlock, GoTo, NoOlder, FromVault, Active
  <2>3. Vouched(t)'
    BY <1>7, <1>p, Shape DEF Unlock, GoTo, Vouched, Vouches, InUse, Enabling, server
  <2>. QED
    BY <2>1, <2>2, <2>3 DEF TabInv
<1>8. ASSUME Enable(t) PROVE TabInv(t)'
  <2>1. Shared(t)'
    BY <1>8, <1>p, Shape DEF Enable, Shared, Typed, At
  <2>2. NoOlder(t)'
    BY <1>8, <1>p DEF Enable, NoOlder, FromVault, InUse, Typed, At
  <2>3. Vouched(t)'
    BY <1>8, <1>p, Shape DEF Enable, Vouched, Vouches, InUse, Typed, At, server
  <2>. QED
    BY <2>1, <2>2, <2>3 DEF TabInv
<1>9. ASSUME Request(t) PROVE TabInv(t)'
  <2>1. Shared(t)'
    BY <1>9, <1>p, Shape DEF Request, Shared, Typed, At, Active
  <2>2. NoOlder(t)'
    BY <1>9, <1>p, Shape DEF Request, Shared, NoOlder, FromVault, Active
  <2>3. Vouched(t)'
    BY <1>9, <1>p, Shape DEF Request, Vouched, Vouches, At, server
  <2>. QED
    BY <2>1, <2>2, <2>3 DEF TabInv
<1>10. ASSUME Refresh(t) PROVE TabInv(t)'
  <2>1. PICK k \in Tokens : WithToken(t, k)
    BY <1>10, RefreshesToken DEF OneInv
  <2>2. UNCHANGED <<past, version>>
    BY <1>10 DEF Refresh
  <2>3. NoToken \notin Tokens
    BY DEF NoToken, Tokens
  <2>4. CASE Active(t) = None
    <3>1. tab[t].mem = None /\ store' = store
      BY <2>1, <2>4 DEF Active, WithToken
    <3>2. tab'[t].mem = None /\ tab'[t].work = tab[t].work /\ tab'[t].page = tab[t].page
      BY <1>p, <2>1, <2>4, Shape DEF WithToken, Typed
    <3>3. Shared(t)' /\ NoOlder(t)'
      BY <1>p, <3>1, <3>2 DEF Shared, NoOlder, FromVault
    <3>4. Vouched(t)'
      BY <1>p, <2>2, <3>1, <3>2 DEF Vouched, Vouches
    <3>. QED
      BY <3>3, <3>4 DEF TabInv
  <2>5. CASE Active(t) # None
    <3>. DEFINE new == [Active(t) EXCEPT !.token = k]
    <3>1. Active(t) \in Sessions
      BY <1>p, <2>5, ActiveTyped, NotNone
    <3>2. new \in Sessions /\ new.token = k /\ new.user = Active(t).user
      BY <3>1 DEF Sessions
    <3>3. tab' = [tab EXCEPT ![t].kc = k, ![t].mem = new] /\ store' = StoresWith(new)
      BY <2>1, <2>5 DEF WithToken
    <3>. HIDE DEF new
    <3>4. tab'[t].mem = new /\ tab'[t].work = tab[t].work /\ tab'[t].page = tab[t].page
      BY <1>p, <3>3, Shape DEF Typed
    <3>5. store'.local = new /\ store'.idb = new /\ store'.snap = store.snap
      BY <1>p, <3>3 DEF StoresWith, Stores
    <3>6. tab[t].work.at \notin {"load", "keep"}
      BY <1>p, <2>5 DEF Shared, Active
    <3>7. new # None
      BY <3>2, Somes
    <3>8. Shared(t)'
      BY <1>p, <3>4, <3>5, <3>6 DEF Shared
    <3>9. NoOlder(t)'
      BY <2>3, <3>2, <3>4, <3>5 DEF NoOlder, FromVault
    <3>10. tab[t].work.at = "team" => tab[t].mem = Active(t)
      BY <1>p, <2>5 DEF Shared, Active
    <3>11. Vouched(t)'
      BY <1>p, <2>2, <2>5, <3>2, <3>4, <3>5, <3>10 DEF Vouched, Vouches
    <3>. QED
      BY <3>8, <3>9, <3>11 DEF TabInv
  <2>. QED
    BY <2>4, <2>5
<1>11. ASSUME RefreshRefused(t) PROVE TabInv(t)'
  <2>1. Shared(t)'
    BY <1>11, <1>p, Shape DEF RefreshRefused, Shared, Typed
  <2>2. NoOlder(t)'
    BY <1>11, <1>p DEF RefreshRefused, NoOlder, FromVault
  <2>3. Vouched(t)'
    BY <1>11, <1>p DEF RefreshRefused, Vouched, Vouches, server
  <2>. QED
    BY <2>1, <2>2, <2>3 DEF TabInv
<1>12. ASSUME NEW v \in Users, Login(t, v) PROVE TabInv(t)'
  BY <1>12, <1>p, OneCloses DEF Login, Quiet, Shared
<1>13. ASSUME NEW reached \in BOOLEAN, Leave(t, reached) PROVE TabInv(t)'
  <2>1. Quiet /\ tab' = [tab EXCEPT ![t] = Closed]
    BY <1>13, <1>p DEF Leave, Quiet, StoresWith, Stores
  <2>. QED
    BY <2>1, OneCloses
<1>. QED
  BY <1>1, <1>2, <1>3, <1>4, <1>5, <1>6, <1>7, <1>8, <1>9, <1>10, <1>11, <1>12, <1>13 DEF Person

\* A 401 ends the session, or is stale.
LEMMA DeniedOne ==
  ASSUME OneInv, NEW f \in flight, Denied(f)
  PROVE  TabInv(f.tab)'
<1>. DEFINE t == f.tab
<1>p. Typed(tab) /\ store \in Stores /\ t \in Tabs /\ Shared(t) /\ NoOlder(t) /\ Vouched(t)
  BY DEF OneInv, TypeInv, TypeOK, Typed
<1>. HIDE DEF t
<1>1. UNCHANGED <<past, version>>
  BY DEF Denied, server
<1>2. CASE UNCHANGED <<store, tab>>
  <2>1. Shared(t)' /\ NoOlder(t)'
    BY <1>p, <1>2 DEF Shared, NoOlder, FromVault
  <2>2. Vouched(t)'
    BY <1>p, <1>1, <1>2 DEF Vouched, Vouches
  <2>. QED
    BY <2>1, <2>2 DEF TabInv, t
<1>3. CASE SetSession(t, None, LockedWork(t), LockedPage(t))
  <2>1. tab'[t].mem = None /\ tab'[t].work = LockedWork(t) /\ tab'[t].page = LockedPage(t)
    BY <1>p, <1>3, Shape DEF SetSession, Typed
  <2>2. store'.local = None /\ store'.idb = None /\ store'.snap = store.snap
    BY <1>p, <1>3 DEF SetSession, StoresWith, Stores
  <2>3. CASE LockedWork(t) = Idle /\ tab[t].page = "shell"
    <3>1. tab'[t].work.at = "rest" /\ tab'[t].page = "auth"
      BY <2>1, <2>3 DEF Idle, LockedPage
    <3>. QED
      BY <1>p, <1>1, <2>1, <2>2, <3>1, OneCalm DEF Calm, Quiet, t
  <2>4. CASE LockedWork(t) = tab[t].work
    <3>1. LockedPage(t) # tab[t].page => LockedPage(t) # "closed"
      BY DEF LockedPage
    <3>2. Shared(t)'
      BY <1>p, <2>1, <2>2, <2>4, <3>1 DEF Shared
    <3>3. NoOlder(t)'
      BY <1>p, <2>1, <2>2, <2>4 DEF NoOlder, FromVault
    <3>4. Vouched(t)'
      BY <1>p, <1>1, <2>1, <2>2, <2>4 DEF Vouched, Vouches
    <3>. QED
      BY <3>2, <3>3, <3>4 DEF TabInv, t
  <2>. QED
    BY <2>3, <2>4 DEF LockedWork
<1>. QED
  BY <1>2, <1>3 DEF Denied, t

\* An administrator adds a version, and the older ones stay what they were.
LEMMA ChangeOne ==
  ASSUME OneInv, NEW u \in Users, NEW r \in SUBSET Rights, ChangeRights(u, r), NEW t \in Tabs
  PROVE  TabInv(t)'
<1>p. TypeOK /\ Typed(tab) /\ store \in Stores /\ InPlace(tab[t], store.vault)
      /\ Shared(t) /\ NoOlder(t) /\ Vouched(t)
  BY DEF OneInv, TypeInv, TypeOK, Typed
<1>1. UNCHANGED <<store, tab>>
  BY DEF ChangeRights
<1>2. ASSUME NEW w \in Users PROVE version[w] \in Nat /\ version'[w] \in Nat
             /\ version[w] <= version'[w]
  BY <1>p DEF ChangeRights, TypeOK, Versions
<1>3. ASSUME NEW w \in Users, NEW v \in Versions, v <= version[w] PROVE past'[w][v] = past[w][v]
  <2>. DEFINE h == [x \in Versions |-> IF x > version[u] THEN r ELSE past[u][x]]
  <2>1. past' = [past EXCEPT ![u] = h]
    BY DEF ChangeRights
  <2>2. CASE w = u
    <3>1. past'[w] = h
      BY <1>p, <2>1, <2>2 DEF TypeOK
    <3>2. ~(v > version[u])
      BY <1>2, <1>3, <2>2 DEF Versions
    <3>. QED
      BY <2>2, <3>1, <3>2
  <2>3. CASE w # u
    <3>. HIDE DEF h
    <3>. QED
      BY <1>p, <2>1, <2>3 DEF TypeOK
  <2>. QED
    BY <2>2, <2>3
<1>4. ASSUME NEW n, n.user \in Users, n.version \in Versions, Vouches(n) PROVE Vouches(n)'
  <2>1. PICK v \in n.version .. version[n.user] : n.rights = past[n.user][v]
    BY <1>4 DEF Vouches
  <2>2. version[n.user] \in Versions /\ version[n.user] <= version'[n.user]
        /\ version'[n.user] \in Nat
    BY <1>p, <1>2, <1>4, ServerParts
  <2>3. n.version \in Nat /\ version[n.user] \in Nat /\ version[n.user] <= MaxVersion
        /\ MaxVersion \in Nat
    BY <1>4, <2>2, DeviceAssumption DEF Versions
  <2>4. v \in Nat /\ v <= version[n.user] /\ n.version <= v
    BY <2>1, <2>3
  <2>5. v \in Versions /\ v \in n.version .. version'[n.user]
    BY <2>2, <2>3, <2>4 DEF Versions
  <2>6. past'[n.user][v] = past[n.user][v]
    BY <1>3, <1>4, <2>4, <2>5
  <2>. QED
    BY <2>1, <2>5, <2>6 DEF Vouches
<1>5. Shared(t)' /\ NoOlder(t)'
  BY <1>p, <1>1 DEF Shared, NoOlder, FromVault
<1>6. ASSUME tab[t].work.team # None
      PROVE  tab[t].work.team.user \in Users /\ tab[t].work.team.version \in Versions
  BY <1>p, <1>6, TabParts, NotNone, TeamParts
<1>7. Vouched(t)'
  <2>1. tab[t].work.at = "teamRights" => tab[t].work.team.version <= version'[tab[t].work.team.user]
    <3>. SUFFICES ASSUME tab[t].work.at = "teamRights"
                  PROVE  tab[t].work.team.version <= version'[tab[t].work.team.user]
      OBVIOUS
    <3>1. tab[t].work.team # None /\ tab[t].work.team.version <= version[tab[t].work.team.user]
      BY <1>p DEF InPlace, Vouched
    <3>. QED
      BY <1>2, <1>6, <3>1 DEF Versions
  <2>2. tab[t].work.at \in {"save", "dropGrant", "put"} \cup InUse =>
          tab[t].work.team # None /\ Vouches(tab[t].work.team)'
    BY <1>p, <1>1, <1>4, <1>6 DEF Vouched
  <2>3. store.snap # None => Vouches(store.snap)'
    BY <1>p, <1>1, <1>4, StoreParts, NotNone, SnapshotParts DEF Vouched
  <2>. QED
    BY <1>p, <1>1, <2>1, <2>2, <2>3 DEF Vouched, Vouches
<1>. QED
  BY <1>5, <1>7 DEF TabInv

\* Every step keeps the invariant.
LEMMA OneStep ==
  ASSUME OneTab, OneInv, [Next]_vars
  PROVE  OneInv'
<1>1. TypeInv'
  BY TypeStep DEF OneInv
<1>2. SUFFICES ASSUME NEW t \in Tabs PROVE TabInv(t)'
  BY <1>1 DEF OneInv, TabInv
<1>3. ASSUME NEW s \in Tabs, Boot(s) \/ Hydrate(s) \/ Vault(s) \/ Person(s) PROVE TabInv(t)'
  <2>1. s = t
    BY DEF OneTab
  <2>. QED
    BY <1>3, <2>1, BootOne, HydrateOne, VaultOne, PersonOne
<1>4. ASSUME NEW f \in flight, Denied(f) PROVE TabInv(t)'
  <2>1. f.tab = t
    BY DEF OneTab, OneInv, TypeInv, TypeOK
  <2>2. TabInv(f.tab)'
    BY <1>4, DeniedOne
  <2>3. f.tab \in Tabs
    BY DEF OneInv, TypeInv, TypeOK
  <2>. QED
    BY <2>1, <2>2 DEF TabInv, Shared, NoOlder, Vouched, FromVault
<1>5. ASSUME UNCHANGED <<past, version, store, tab>> PROVE TabInv(t)'
  <2>1. Shared(t) /\ NoOlder(t) /\ Vouched(t)
    BY DEF OneInv
  <2>2. Shared(t)' /\ NoOlder(t)'
    BY <1>5, <2>1 DEF Shared, NoOlder, FromVault
  <2>3. Vouched(t)'
    BY <1>5, <2>1 DEF Vouched, Vouches
  <2>. QED
    BY <2>2, <2>3 DEF TabInv
<1>6. ASSUME \/ \E f \in flight : Answer(f) \/ Timeout(f)
             \/ \E k \in live : Expire(k)
             \/ SsoEnds
             \/ Tick
             \/ UNCHANGED vars
      PROVE  UNCHANGED <<past, version, store, tab>>
  BY <1>6 DEF Answer, Timeout, Expire, SsoEnds, Tick, vars, server
<1>7. ASSUME NEW u \in Users, NEW r \in SUBSET Rights, ChangeRights(u, r) PROVE TabInv(t)'
  BY <1>7, ChangeOne
<1>. QED
  BY <1>3, <1>4, <1>5, <1>6, <1>7 DEF Next

\* The invariant of a device with one tab holds.
LEMMA OneInvariant == ASSUME OneTab PROVE Spec => []OneInv
<1>1. Init => OneInv
  <2>. SUFFICES ASSUME Init PROVE OneInv
    OBVIOUS
  <2>1. TypeInv
    BY InitTyped
  <2>2. ASSUME NEW t \in Tabs PROVE Shared(t) /\ NoOlder(t) /\ Vouched(t)
    <3>1. tab[t].page = "closed" /\ tab[t].work.at = "rest" /\ tab[t].mem = None
          /\ store.local = None /\ store.idb = None /\ store.snap = None
      BY DEF Init, Closed, Idle
    <3>. QED
      BY <3>1 DEF Shared, NoOlder, Vouched, FromVault, InUse, Enabling
  <2>. QED
    BY <2>1, <2>2 DEF OneInv
<1>2. OneInv /\ [Next]_vars => OneInv'
  BY OneStep
<1>. QED
  BY <1>1, <1>2, PTL DEF Spec

\* A tab that was unlocked from the vault works with rights no older than its grant,
\* although grant and snapshot are written at different moments and the tab may be closed
\* in between (saveOfflineGrant, saveOfflineAuthorizationSnapshot, unlockOfflineSession).
THEOREM NoOlderRights == ASSUME OneTab PROVE Spec => []OldRightsStayGone
<1>1. OneInv => OldRightsStayGone
  BY DEF OneInv, OldRightsStayGone, NoOlder, At, InUse
<1>. QED
  BY <1>1, OneInvariant, PTL

\* The rights a page works with were the user's under their version or a later one,
\* online and from the snapshot, although the API reads the version before the rights
\* (authorize of auth/mod.rs, hydrateAuthorizationWorkspace, saveOfflineAuthorizationSnapshot).
THEOREM RightsMatchVersions == ASSUME OneTab PROVE Spec => []RightsAreOfTheirVersion
<1>1. OneInv => RightsAreOfTheirVersion
  BY DEF OneInv, RightsAreOfTheirVersion, Vouched, Vouches, At, InUse
<1>. QED
  BY <1>1, OneInvariant, PTL
=============================================================================
