# A TLA+ verification of mbam

mbam is business management software for small shops: a Rust API (`src/mbam-api`, axum and
sqlx on Postgres) and a React application (`src/mbam-web`) that keeps working without a
network and synchronises when it is back. This directory models the parts where several
actors, failures and retries meet, checks them with TLC on small instances, and proves the
main results with TLAPS for every instance.

All paths below are relative to `src/`. `PROJECT.json` maps every definition to the lines it
models, and lists runs, hazards, findings, theorems, and for every property a mutation of the
model, like a dropped lock or a missing check, that violates it.

## 1. Inventory

### API (`mbam-api`)

| Component | State | Operations | What is hard, and what makes it correct |
|---|---|---|---|
| Sales, `modules/transactions` | `transactions`, `transaction_lines`, `products.available_quantity`, `stock_movements` | create (with an idempotency key), drafts, lists | Concurrent sales of the same products, retries while the first attempt is open, a reply lost after the commit. No update is lost, a sale is all or nothing and happens once, no deadlock. |
| Stock movements, `modules/stock` | the same product rows and ledger | create (with a movement id), list | As above, and a product disabled between two reads. |
| Products, `modules/products` | `products` with a `version` | create, bulk create, update, disable | A save that replaces what others changed since the form was opened; the version check of an offline update; uniqueness. |
| Keycloak roles, `modules/keycloak_sync` | `keycloak_role_outbox`, role mappings in Keycloak | enqueue, claim, reconcile over HTTP, succeed, fail | Two stores without a common transaction, requests that fail after they took effect, several workers, crashes, back-off. One baseline role per user, no time without a role, the last change wins. |
| Team, `modules/team` | memberships, invitations, custom roles | update, disable, invite, accept, cancel | Writes the role outbox in the transaction of the change; concurrent changes of two memberships of one user. |
| Sync, `modules/sync` | `sync_runs` (a log) | pull (a snapshot), push (a batch) | Each operation of a batch commits alone; the client may give up before the answer. |
| Authorization, `auth/*`, `modules/authorization` | grants, `authorization_version` (triggers of migration 0010) | building the context of a request, bootstrap, offline grant | Grants and version are separate reads. The version a client is given never vouches for older rights. |
| Legacy sessions, `auth/legacy` | users, refresh tokens, reset tokens | sign-up, login, refresh, logout, password reset | Tokens are read, revoked and replaced by separate statements. |
| Businesses, business units | their tables | create, update, list | Single transactions. |
| Reports, audit, observability, start-up, fixtures | none, or logs | reads, appends | Not protocols. |

### Web application (`mbam-web`)

| Component | State | Operations | What is hard, and what makes it correct |
|---|---|---|---|
| Offline outbox, `services/offlineSyncService.ts`, `offlineDatabase.ts` | IndexedDB: outbox records, conflicts, metadata | queue, synchronise | Every store access is its own transaction; tabs and "online" events start passes that overlap; a tab is closed anywhere; requests and replies are lost. No write is lost, everything is settled while passes come to an end, revoked operations are not pushed. |
| Local repositories, `services/products`, `stock`, `transactions`, `receiptImport`, `customers`, `localSync` | entities in IndexedDB and their base versions | save locally and queue; list together with the cloud; refresh the customers | Entities and outbox are written by separate transactions; a form, a pull and a refresh change the same records. A recorded sale is kept and shown, a customer of a stored sale is listed. |
| Sessions and offline access, `auth/*`, `services/apiClient.ts`, `workspaceService.ts`, `AppShell`, `AuthPage`, `AccessBootstrapPage` | access token, session copies in localStorage and IndexedDB, vault key, grant, authorization snapshot | start, sign-in, bootstrap, enable and unlock the vault, refresh, lock-out, sign-out | A device that was offline while its rights changed, that several people use; answers that come after the session has changed. Old rights do not come back, a late 401 to an old token does not end a session, loading the authorization comes to an end. |
| Sale form and drafts, `TransactionRecordPage`, `TransactionDraftsPage` | inputs, lines, the draft being loaded | edit, itemize, choose payment, save and load drafts, submit | Effects that derive one input from others. What is sent agrees with itself. |
| Stock page, `StockPage`, `CsvImportPanel` | ledger filters and lists; table drafts, columns of new products, an imported file | filter, record, edit rows, add and import products | Late answers to an earlier filter; a bulk creation whose answer is lost. |
| Team pages, `TeamAccessPage`, `InviteAcceptancePage` | workspace, selected member, editor, file of invitations | select, edit, save, remove, invite, accept | An editor that is set again by each load. What was not edited is not changed by a save. |
| Business page, `BusinessStructurePage` | tree, caches, forms | load, create, select | Loads that overlap with each other and with a creation. |
| Report pages, `pages/reports`, `EntityMultiSelect` | dimension, view, period, picked entities, panels | choose, poll, sort, drill down | Polls and answers that outlive the choice they were made for. |
| Rest of the user interface | - | - | Layout, translations, dashboards. |

### How they interact

The web application calls the API over HTTP; a sale or a movement arrives either directly or as
an operation of a push, and in both ways ends in the same repository functions. Team changes
write the role outbox, a background worker of the API empties it into Keycloak, and Keycloak's
role is what the next request is authorized with. A push is authorized with the scopes of the
moment it arrives; the client has reconciled its outbox with those of its last pull. A session
decides whether a tab has a token, the vault whether it has a key: recording a sale offline, a
pass and the local lists all need the key. The pages share the workspace that the bootstrap
fills, and nothing else.

## 2. Modules

| Module | What it is |
|---|---|
| `AtomicInventory` | Abstract specification of stock: a request takes effect in one step, once, on all its products, never below zero; a product save replaces a quantity. |
| `StockLedger` | The code of sales, movements and product saves as concurrent Postgres transactions. |
| `MCStockLedger` | Instances for TLC. |
| `StockLedgerProofs` | Its theorems, with the refinement of `AtomicInventory`. |
| `KeycloakRoleSync`, `MCKeycloakRoleSync`, `KeycloakRoleSyncProofs` | Membership changes, the role outbox and the worker; instances; theorems. |
| `OfflineSync`, `MCOfflineSync`, `OfflineSyncProofs` | The outbox of the client, passes of synchronisation and pushes at the API; instances; theorems. |
| `SaleRecords`, `MCSaleRecords`, `SaleRecordsProofs` | The sales and customers of a device from the submitted form to the list and the invoice; instances; theorems. |
| `DeviceAccess`, `MCDeviceAccess`, `DeviceAccessProofs` | Sessions, vault, grant and snapshot of the tabs of a device; instances; theorems. |
| `SaleForm`, `StockForm`, `ProductCatalogue`, `TeamAccess`, `BusinessStructure`, `ReportPages` | A page or two each, with the requests it makes. |
| `WebPages`, `MCWebPages` | The six page modules composed, one page open at a time; instances. |
| `ShopPagesProofs`, `BusinessPagesProofs`, `WebPagesProofs` | Theorems of the composition: the sale form, the ledger and the new products; the team and the business tree; the reports and the types of all six. |

### StockLedger

A *handler* is one request in flight at the API; `pc`, `req`, `todo`, `staged`, `value`,
`outcome` are its local variables and the uncommitted part of its transaction. `qty`, `policy`,
`active`, `recorded`, `rows`, `ledger` are committed tables; `rowOwner` and `keyOwner` are row
locks. Transactions run at READ COMMITTED: a lock makes others wait, a read sees what is
committed.

- `SubmitSale`, `InsertSale`, `DeductRow`/`SkipRow`/`RefuseRow`, `Commit`, `Fetch`, `Reply` are
  `transactions::service::create` and `repository::create`: the upsert on the idempotency key
  (waiting for an open transaction on the same key), the check for existing lines, one
  `for update` per product in the order of a BTreeMap, the commit, and `find_by_id` afterwards.
- `SubmitMovement`, `MoveRow`/`ReplayMove`/`RefuseMove` are `stock::repository::create`.
- `OpenForm`, `SaveForm`, `Disable` are the product form and `products::repository::update` and
  `disable`. `drift` accounts for what saves did to a quantity.
- `Crash` ends a handler anywhere; `Refuse` is validation or permission. Any request may be
  submitted again at any time.

Abstractions: quantities are integers, in units of the last place of `numeric(14,3)` (the
rounding of the f64 in between is not modelled); prices, customers, texts and audit rows are
left out; `idempotency_key` is always present (a sale without one is a sale never submitted
again).

### KeycloakRoleSync

An *editor* is a request that changes a membership, in one transaction: `Begin`, `Change` (the
row, and by the trigger of migration 0010 the row of its user, whose lock keeps two changes for
one user apart), `Queue` (reads the role codes, supersedes open jobs of the membership, inserts
a job), `Commit`. A *worker* is the loop of `keycloak_sync::service`: `Claim` (`for update skip
locked`), `Lookup`, `Post`, `Delete` (one HTTP exchange each; `RequestFails` with or without an
effect), `Succeed` or `Fail`, `Crash`. `Due` ends a back-off. A job is named by `created_at`,
which is the time its transaction began, and claims are made in that order.

Abstractions: role codes are model values that each stand for a baseline role; the number of
attempts only sets the delay, so only "the delay is over" is kept.

### OfflineSync

A *pass* is one run of `synchronizeOfflineChanges`, in a tab or from an "online" event; nothing
keeps passes apart. `outbox` is the IndexedDB store; `seen`, `denied`, `batch`, `copy`, `todo`
and `answer` are a pass's local variables: the scopes of its pull, the records it found outside
of them, the records it pushes, what it read of them, and the results. One step is one IndexedDB
transaction or one network event: `Pull`, `ReadRecords`, `Reconcile`, `ReadPending`, `Mark`
(per record), `Send`, `GiveUp` and `PutBack` (per record), or `Receive`, then `LookUp`, `Skip`
and `Settle` per result; then the final pull, which ends in `ReconcileLast`. Each put writes back the copy
that was read, as `{...record, status}` does in the code, whatever the store holds by then.
`Stop` is a closed tab, a locked vault or an exception. At the API a *run* is a push:
`Arrive` fixes the scopes, `Deny`, `Apply` and `Refuse` treat one operation each, `Drop` loses
it. The client may hang up while the run goes on. `ChangeScope` is an administrator.

Abstractions: the effect of an operation at the server is one step that may be repeated without
harm, which is what `StockLedger` shows for sales and movements; whether a refused operation is a
conflict is left open (the versions of products are not modelled); encrypted copies of
entities (see `SaleRecords`), conflict records and the cursor are left out; `retryCount` is not counted beyond
its limit, because the code only compares it with that.

### SaleRecords

One device. `form` is `handleSubmit` of the sale form (`Submit`, then the cloud's answer, or its
failure and the accesses to the device: `FormFindsCustomer`, `FormPutsCustomer`, `CheckScope`,
`SaveSale`, `QueueSale`), `pull` a pull being applied (`PullAnswered`, `Reconcile`,
`ApplyChange` per row), `refresh` the refresh of the customers (find, put, sweep, delete, list),
`page` the list or an invoice being loaded. `sales` and `customers` are the records of the entities
store, `outbox` and `refused` what is queued and what was rejected, `cloud` the rows of the server
(a sale that was sent by the form and later from the device has two rows, since it is sent under
two idempotency keys). `Push` and `PushRefused` shorten a pass of `OfflineSync` to its effect;
`ChangeRole`, `Reload` and `Unlock` come at any time. `told` is a history variable.

Abstractions: all sales have the same customer name, the case in which records are merged; amounts,
lines and contacts are left out.

### DeviceAccess

`store` is what the tabs of a device share (localStorage and IndexedDB: session, vault, grant,
snapshot), `tab[t]` what a tab has in memory (session, Keycloak adapter, vault key, page and
`work`, the asynchronous function it is in, with a step per await), `flight` its requests;
`past`, `version`, `sso`, `live` are the API and Keycloak. `getActiveSession` copies what it finds in
localStorage into memory, so that entering a page, a retry and a request all set `mem` to `Active`. `Boot` is `main.tsx` with
`hydrateActiveSession` and `initializeKeycloak`; `Hydrate` the bootstrap of `AppShell` and
`AccessBootstrapPage`, from the API or from the snapshot, which the API may answer 401 for any token, good
or not (introspection fails, the user is inactive, a membership is missing, a role does not fit);
`Vault` enabling and unlocking; `Person` what the user does. `AskTeam`/`AnswerTeam` and `AskGrant`/`AnswerGrant` read the version before
the rights, with `ChangeRights` in between.

Abstractions: encryption and signatures are modelled by who can open what (`Opens`); the device key
that a grant is bound to is left out; a user's rights are a set.

### The pages

An action is an event handler with the render and the effects React runs for it; an answer is an
action of its own, so that it may come at any later time.

- `SaleForm`: the inputs, the derived inputs (`FollowLines` is the effect that sets the total from
  the lines) and drafts; `request` is what was sent. Amounts are counted in parts of a cent (`Cent`): the
  form rounds the total to cents (`Rounded`) and sends the lines as they are.
- `StockForm`: filters, the two lists, the requests for earlier filters (`OlderArrives`), the form.
- `ProductCatalogue`: table drafts, columns of new products, the import of a file, and the bulk
  creation with each of its outcomes; `Queued` is what is put into the outbox then and `Push` its
  later creation.
- `TeamAccess`: `Select` and the loads set the role inputs, and `SavedAccess` is what the API makes
  of them; invitations, from a file too, and their acceptance.
- `BusinessStructure`: loads in two steps, `Made` and `Created` for a creation at the server and the
  answer to it. `news` is a history variable: what was created here, and whether the list shown is that
  of a load asked before.
- `ReportPages`: three panels that ask when what they depend on changes (`Render`, `CleanUp`), poll,
  and show answers.

`WebPages` composes them: a page keeps nothing after it is left, so a behaviour stays with one of
the six modules and visits its pages any number of times.

## 3. What is checked

The abbreviation P is a run that passes; V a run that shows a disagreement.

| Run | Instance | Properties and what they show |
|---|---|---|
| `stock_ledger` P | 2 handlers, 2 sales, 2 movements, 3 products (one untracked), one unit each, a product form | Nothing is lost (`LedgerAccountsForStock`), retries apply once (`AppliedOnce`), sales are atomic (`SaleIsAllOrNothing`), lock order and absence of deadlock (`LocksInOrder`, `NoDeadlock`), a success reported is true (`AcceptedHasEffect`), nothing for disabled products (`NoMovementOnDisabled`), a replay is not refused for stock (`ReplayIsNotRefused`), refinement (`ImplementsInventory`), and every attempt ends, with saves of the form in between (`EveryAttemptEnds`). |
| `stock_negative` V | 1 handler, 2 sales of a product whose policy is `allow_negative`, one unit | `AllowNegativePermits`: the second sale is refused by the CHECK on the quantity. |
| `role_sync` P | 1 editor, 1 worker, 2 memberships of a user, 2 changes, crashes | `NewestJobIsCurrent`, `SuccessMeansMapped`, `NoGapInRoles`, `EveryJobSettles`. |
| `role_sync_pair` P | 2 editors, 2 workers | `OneBaselinePerUser`, `JobHasOneWorker`. |
| `role_sync_stale` V | 1 editor, 1 worker, no crashes | `SettledIsInStep`: the old role is applied last. |
| `offline_sync` P | 2 tabs, 1 operation, 2 pushes at the API, scope lost and regained | `NothingLost`, `SyncingHasOwner`. |
| `offline_one_tab` P | 1 tab, 1 operation, 2 pushes | `DeniedIsNotPushed`, `SettledIsFinal`; and as long as passes come to an end again and again, every operation is settled, however many pushes are lost (`EveryOperationSettles`). |
| `offline_stuck` V | 1 tab | `EveryChangeIsPushed`: a closed tab leaves a record marked for ever. |
| `sales` P | 1 own sale and one of a colleague, 2 customer records, 1 reload | A sale the user was told of is kept (`RecordedSaleIsKept`), one recorded here is listed whatever is pushed or pulled (`OfflineSaleIsListed`), a refresh lists the customer of each sale it read (`OwnCustomersAreListed`). |
| `sale_twice` V | 1 own sale, no reload | `ShownOnce`: a sale that was recorded offline and pushed is listed twice. |
| `device_access` P | 1 tab, 2 users, 1 right, 1 change of rights per user, 2 tokens, 1 vault, 1 tick | Rights from before the grant do not come back offline (`OldRightsStayGone`), a version vouches for its rights (`RightsAreOfTheirVersion`), a 401 to an older token ends no session (`LateDenialIsIgnored`), loading the authorization ends while the session has a token, and unlocking ends (`EntryEnds`). |
| `web_pages` P | at most 2 businesses, units, products, members, dimensions, loads or requests per page; amounts of half a cent | `SentAmountsAgree` (sale form), `LedgerFollowsFilter` (ledger), `SavedOnce` (new products), `UntouchedSaveKeepsAccess` (team), `ListSettles` (business tree), `ReportFollowsChoice` (reports). |

Each module's `TypeOK` is checked in its first run.

### Bounds, and why they are enough to be of interest

- Stock: two sales compete for the last unit of two products, so that every order of locks, a refusal
  after a first deduction, and two attempts of one key in parallel all occur, each with a form open on one
  of the products. The proofs remove the bound for everything but liveness.
- Roles: two changes are one superseded job; two editors and two workers are one race each.
  `MaxChanges` bounds the number of transactions. `CHECK_DEADLOCK FALSE` because the system comes to
  rest when the changes are used up. `role_sync_stale` switches crashes off, so that the
  disagreement is not due to one.
- Sales: one sale has every path on its own (cloud, device, both, refused); the colleague's sale is
  the one that a change of role takes from view; two customer records let the form and the refresh
  create one each. The proofs remove the bound.
- Device: two users share one vault and one store, the second signing in where the first has left;
  two tokens are the one a late answer belongs to and the one that replaced it; one tick lets a
  grant expire. One tab is a real restriction, for the run and for the two theorems about rights: with a
  second tab they fail (section 4), which takes more states than a run can search.
- Pages: two requests at a time are one that is late and one that is not; two members, products or
  dimensions are the one chosen before and the one chosen now. Half a cent is the smallest amount that
  is rounded; one employee has a custom role without the screen of its baseline.
- Offline: `RetryLimit` is 2 instead of 5: a record is put back once and given up once. Two tabs
  and two pushes give a pass that writes over another and a push that outlives its client. One
  operation suffices for what is stated per record; the proofs cover batches of any size.

### Fairness

- `StockLedger`: strong fairness of `Work(h)`. Handlers keep running and Postgres grants a
  lock in the order of arrival, so a transaction that waits is not overtaken for ever. Crashes,
  new requests and saves are not forced.
- `KeycloakRoleSync`: strong fairness of an editor's transaction and of each kind of worker
  step (Keycloak may fail again and again, but not for ever: the retries have no limit), weak fairness of
  `Due`. Nothing is assumed against crashes: `EveryJobSettles` excepts the jobs a stopped
  worker leaves behind, because the code never takes a 'processing' job again.
- `OfflineSync`: weak fairness of `Proceed`: a pass whose first pull was answered goes on until it ends
  or is stopped, since its steps are the browser's own, and `apiFetch` ends the push and the last pull
  after its time-out. Nothing is assumed of `Pull`: with the API out of reach the first pull throws
  before the pending records are read, no attempt is counted and they stay pending. That passes come
  to an end again and again is therefore a premise of the property (`KeepsSyncing`), not an assumption.
- `DeviceAccess`: weak fairness of `Render`, `Resume` and `Vault` of each tab: the code of a page runs
  on while it is open, and what waits for `apiFetch` ends with its time-out. Nothing is assumed of the
  start (`Boot`), since `keycloak.init` and the raw fetch of `createSession` have no time-out, nor of
  `SendTeam`, which waits for the adapter to renew its token: `EntryEnds` has a premise for that.
  Nothing is assumed of the user, the administrator or the clock either.
- `SaleRecords` and the pages state no liveness and need no fairness.

## 4. What is proved

All theorems hold for every value of the constants that satisfies the assumptions of the
module, which TLC evaluates in every run; `PROJECT.json` lists them. With them every invariant and
every action property of the runs that pass is proved. The argument is always an inductive invariant;
where a hypothesis is added (one worker, one editor, one pass, one tab), the property fails without it.

**StockLedger** (`StockLedgerProofs`). Assumptions: `ProductsAssumption`, `RequestsAssumption`,
`NoneAssumption` (product ids are ordered, opening stock is natural, a sale only takes, a movement
names one product). Conservation alone is not inductive: that the quantity written at
commit is still the right one follows from the lock (`RowsInv`: a staged product is locked, and its
value is the committed quantity plus the delta). That a retry finds the rows of the
first attempt follows from `KeyInv` (an open sale owns its key) and `SaleInv`/`MoveInv` (how far
an open request has come). `LocksInOrder` needs only `TypeOK` and the order in which `todo` is emptied.
`NoDeadlock` says that some transaction waits for nobody. `WaitInv` adds that the owner of a key
is at its rows and that the locked rows have an upper bound; the owner of the greatest locked row then waits
for no row, since it locks in ascending order, and for no key, since it is at its rows. The
greatest one exists by well-founded induction on the distance to the bound.
`LedgerRefinesInventory` maps `Commit` to `Apply` or a stutter, `SaveForm` to `Replace`
and everything else to a stutter.

**KeycloakRoleSync** (`KeycloakRoleSyncProofs`). `IInv` adds to `TypeOK` that stamps of open
transactions differ and are unused (`StampInv`), that a transaction past `Change` owns its user
(`OwnerInv`), that the roles of each user and those an open change will leave agree (`RolesInv`)
and that a job somebody works on is claimed (`JobInv`). `OneBaselinePerUser` follows for any number of editors and
`JobHasOneWorker` for any number of workers. `SuccessMeansMapped` and `NoGapInRoles` are proved
under the assumption of one worker, with `WorkInv`: what it read of Keycloak stays true, since nobody else
writes there. `NewestJobIsCurrent` is proved for one editor at a time (`OneEditor`), with `EditInv`: the
open transaction has the newest stamp, and the role it found is the one its change leaves. With two
editors it fails: the transaction that began first may commit last, and its job is not the newest by
`created_at`.

**OfflineSync** (`OfflineSyncProofs`). `NothingLost` needs `EffectInv`: an answer "accepted",
in the hands of a pass or still at the API, is about an operation that has taken effect; it survives
lost and repeated pushes since effects are never undone. `SyncingHasOwner` needs `PassInv`: what a pass
has still to come to is part of its batch. Both hold for any number of overlapping passes.
`DeniedIsNotPushed` and `SettledIsFinal` are proved for a pass that is alone (`OnePass`): `AloneInv`
says that what it has read is still so when it writes. With two passes they fail: one may write back what
it read before the other settled it.

**SaleRecords** (`SaleRecordsProofs`), for any number of sales, customers and reloads (`SaleAssumption`:
the bounds are numbers). `RecordedSaleIsKept` needs that a form about to queue
its sale has stored it (`QueuedIsStored`) and that nothing takes a record of this device out of the store
(`StoreStep`: a reconciliation drops copies of rows only). `OfflineSaleIsListed` needs
`ExpectedIsStored`: what the list has to show stays in the store until it is read, and nothing is expected
while the vault is locked. `OwnCustomersAreListed` needs `RefreshInv`: a sale the refresh is done with has
its customer, allowed and not among those about to be deleted, until the refresh ends.

**DeviceAccess** (`DeviceAccessProofs`). Assumptions: the bounds are numbers, and `None` is none of the
things a store or a page can hold (`NoneAssumption`). `TypeOK` is inductive with `InPlace`: a tab that is
about to use a vault, a key, a grant, a session or a team has one, wherever it was interrupted.
`LateDenialIsIgnored` follows from it for any number of tabs: a session with a token goes only for a 401 to
this token or to none, or because the person signs in again. `OldRightsStayGone` and
`RightsAreOfTheirVersion` are proved for a device with one tab (`OneTab`) and any users, versions and
times. `Shared` says that memory and the two stores agree once they were read, `NoOlder` that whatever
comes from the vault has a snapshot no older than its grant, `Vouched` where a team of a version comes from.
With two tabs both fail, as TLC shows when it is led there:

- Tab A loads the authorization of version 0 and is about to store the snapshot. The rights change; tab B
  gets a grant and a snapshot of version 1, loses its session and unlocks offline. The late write of A
  puts the snapshot of version 0 back, and the next reload of B shows the old rights.
- Two users, whose versions are equal numbers: a 401 clears the session while A is on the bootstrap page
  and about to ask. Tab B signs in as the other user, A asks with the session it finds in localStorage,
  and stores the rights of the other user under its own.

**The pages** (`ShopPagesProofs`, `BusinessPagesProofs`, `WebPagesProofs`). A step of `WebPages` is a
step of one page and leaves the others alone, so each property has the invariant of its page.
`PagesAssumption` collects what the constants stand for: `Shop` (the home unit and its business exist, a
sale has room for two lines, and a cent has at least one part), `Grid` (room for one column), `Roster`
(members and baselines have names), `TreeBounds` (room for one load),
`Reported` (there is a "daily" timeframe and the tab every role has).

- `SentAmountsAgree`: the total of an itemized form is the sum of its lines after every render. The model
  writes the sum as a fold; that it is the sum, the only one, and within the bounds is proved by looking at a
  smallest set of lines for which it would fail (`MinimalSet`, from the well-founded order of finite
  subsets). What is owed is that sum in whole cents; `RoundedAmount` says what rounding leaves.
  The same argument shows that the columns kept at an import are columns.
- `LedgerFollowsFilter` is inductive with `TypeOK`: only an answer to the filter of now makes a list ready.
- `SavedOnce` follows from the ids: whatever is on the server, in the queue or under way carries the id
  made for its column and save.
- `UntouchedSaveKeepsAccess`: `RequestInPlace` and `PageInPlace` say that no answer arrives at another
  page, and `RoundTrip` that filling in a role and saving it gives it back, with the screens of its
  baseline that it lacked (`WithBaseline`), as roles stored before migration 0014 do.
- `ListSettles`: `TreeInv` says that an answer has the businesses of its units, and that a list in which
  something may be twice is going to be replaced: a load is under way, or the last one has failed.
  `TreeNews` says that a load asked since the last creation will have what was created, whether the API or
  the device answers it, and that the list has it unless an older load is shown.
- `ReportFollowsChoice` needs that a request that is not ignored asks what its panel asks now
  (`RequestsAreCurrent`), and that a typed query means a directory of the dimension of now
  (`QueryIsCurrent`), since the suggestions come from it.
- `TypeOK` of all six (`PageTypes`) puts these invariants together with the values they do not mention
  (`TableTypes`, `TeamTypes`, `ReportTypes`).

**Only model-checked**: the liveness properties (`EveryAttemptEnds`, `EveryJobSettles`,
`EveryOperationSettles`, `EntryEnds`), since the prover does not reason about fairness and ENABLED. What a
recursive operator or `SelectSeq` computes cannot be proved either, which is why filters are written
as folds and set operations where a theorem depends on them; folds over finite data can, by minimal counterexample.

## 5. Disagreements found

1. The policy `allow_negative` permits stock below zero according to `docs/future-stock-management.md`;
   the CHECK on the quantity permits it to nobody (`stock_negative`).
2. `fail()` of the role outbox overwrites 'superseded', so an outdated role can be applied after the
   current one (`role_sync_stale`).
3. A record marked 'syncing' is not read again once its pass has stopped (`offline_stuck`).
4. A sale recorded offline has an id that is no UUID, so the server makes another and the list shows
   the sale twice once it is pushed (`sale_twice`); a comment in `modules/sync/service.rs` says the id
   is reused.

Met on the way, without a run of their own: a product save replaces the quantity and writes no
movement, though `docs/future-stock-management.md:122` and `modules/stock/model.rs:5` want every change to
be one (`SaveForm`, `drift`), so that it undoes what was sold since its form was opened; a total rounded to
cents may exceed its lines by up to half a cent, and the API refuses such a sale when nothing is paid
(`Rounded`); an untouched save of a custom role from before migration 0014 adds the screen its baseline
was given (`WithBaseline`); a business just created is lost from the list to a load that was asked before
and is answered after all others (`late`); a shell without a session, or with an offline one whose
snapshot it cannot read, stays at "Loading your validated role" (`Undefined`); two passes
that overlap may try a record again that was given up; a 401 to a request without a token ends
whatever session there is by then; an emptied scope of a member is not saved; a second save of
products after a time-out makes new ones; a late write of one tab puts an old snapshot back under
another (section 4). The hazards in `PROJECT.json` name the lines.

## 6. Order of work

Stock first, since it is the system's money, then roles, the outbox, sales on the device, sessions
and offline access, and the pages. What would come next:

1. `products.version` and the conflict check of a push against a concurrent update, base versions
   that the client puts on its changes, and the order of a creation and an update in a batch. Abstract
   specification: a product register in which an update that was told "accepted" was based on the
   version it replaced. To be composed with `OfflineSync`.
2. The legacy sessions: refresh-token rotation and password reset as two concurrent requests.
3. Proofs: refinement of an abstract outbox by `OfflineSync`; what still holds of a device with
   two tabs (every snapshot vouches for the rights of some user's version).

## 7. Not modelled

- The API's reports (floating-point sums), audit and logging, configuration and start-up,
  fixtures, translations, dashboards and layout: no state machine of their own.
- The cryptography of the vault and of grants, and the verification of tokens: taken to work.
- Legacy sessions, mounted only with `AUTH_PROVIDER=legacy`.
- Permission checks of the API beyond scopes; how rights are computed from memberships.
- Versions of products; the local records of stock and receipt imports.

## 8. How to run

    tlc -workers 2 -config MCStockLedger.cfg MCStockLedger.tla
    tlapm StockLedgerProofs.tla

and likewise for the other configurations and proof modules.
