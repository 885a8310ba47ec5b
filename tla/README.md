# DataTiles: specifications, model checking and proofs

DataTiles is a SQLite container for N-dimensional tiled data (an MBTiles file whose
tiles are addressed by zoom, column, row *and* a set of named coordinates), a Python
library around it, an online server that renders and caches portrayals, a store that
sells and delivers containers, importers, and tools for integrity and protected
distribution. This directory holds TLA+ specifications of the parts in which several
processes, threads or half-finished operations meet, TLC configurations that check them
on small instances, and TLAPS proofs. `PROJECT.json` maps every definition to the lines
it models. Paths below are relative to the repository's root (`src/` in the map), so
`store.py` is `src/datatiles/store.py` and `app.py` is `server/app.py` unless a
directory is named.

## 1. Inventory

| Component | Code | State it keeps | Operations | Hard behaviour | Correct means |
|---|---|---|---|---|---|
| Container | `src/datatiles/store.py`, `schema.sql` | SQLite tables: metadata, dimensions, variables, values, coordinate sets, contents (profiles), tiles, selected slice | `add_dimension`, `add_variable`, `set_variable_semantics`, `set_metadata`, `put`, `get`, `select`, `validate`, descriptive inserts | reads made before the write transaction; two writers on one new key; failures half way | set, profile and tile appear together; profiles immutable and respected; the MBTiles interface describes one slice; writers look atomic |
| Creation and migration | `store.py` constructor, `migration_*.sql` | `user_version`, schema objects, profile rows | create, open, open read-only, six migrations | scripts run in autocommit; two openers; kills between statements | a file has what its revision says; nobody works on an old one; the revision never goes back |
| Export | `store.py` `export_mbtiles` | temporary file, target | export (an existing target is refused) | two statements while writers go on; two exports to one name | an export that is there stays; its zoom levels are those of its tiles |
| Integrity | `integrity.py` | manifests and signatures, in the container and detached | build, sign, store, verify | one SELECT per table without a transaction | a signed manifest describes a state the container was in |
| DRM | `drm.py` | package, key file, licences | protect, issue, decrypt | two files written in turn; plaintext before the tag check | the key file opens the package; what is decrypted is what the licence names |
| Portrayal endpoint | `server/app.py`, `gunicorn.conf.py` | cache directory (shared), semaphore, executor queue and lock table (per worker) | request, admit or refuse, render, publish the file | event loop, threads, several workers, kills, releases published while requests run | slots conserved, misses coalesced, whole files only, the key names the release of the pixels, every admitted request is answered |
| Discovery, scientific and NetCDF endpoints | `server/app.py`, `server/netcdf.py` | none | reads | none of its own | exposure rules, header limits |
| Store catalogue | `store/datatiles_store/app.py`, `catalog.py`, `agreements.py`, `models.py` | items, acceptances, downloads, files on disk | scan, upload, replace, delete, accept, preview, download | check then send; file and row changed in two steps; row ids used again | what is recorded was accepted and bought; the index tells when it is out of date; a scan repairs it |
| Store commerce | `commerce.py`, `payments.py` | transactions, purchases, notifications; the provider's orders | checkout, capture, cancel, notify | remote capture against local commit; repeated and racing returns | money taken once, items given once, for money taken |
| Store security | `security.py`, `auth_ext.py`, `db.py`, `app.py` | users, groups, roles, tokens, sessions, identities, links in mailboxes | login, registration, verification, external identity, token issue and revoke, administration, bootstrap | authorized first, committed later; ids given again; rows that outlive their user | credentials speak for their holder; administrators were appointed; addresses were confirmed; revoked means revoked |
| Importers | `utils/*.py` | staging and target files | convert | replacement, failure half way, two imports | what finished imports brought stays; nothing half done is delivered |
| Library facade, command lines, demonstrations, plugins, presentation | `server.py`, `cli.py`, `demo.py`, `plugins/`, templates | none of their own | - | - | - |

Components meet in four ways. They *call*: everything above the container opens it
through `DataTiles`, whose constructor migrates. They share the *file*: SQLite's locks
are the only synchronisation between writers, and readers of the server and the store
open the same files read-only. They share the *cache directory*: server workers see each
other's files through `os.replace` only. They exchange *redirects and remote calls*: the
store and the payment provider.

`PROJECT.json` lists every hazard at its line, with the properties that would notice it,
or why none does yet.

## 2. Modules

```
ContentProfile            rules of store.py that need no state
  |- TileStore            what a container promises: atomic Store and SelectSlice
  `- Container            put, select and configuration by several processes
       |- MCContainer     small instance
       `- ContainerProofs safety, refinement of TileStore
SchemaRevision            creation and migration, statement by statement
  |- MCSchemaRevision
  `- SchemaRevisionProofs safety
RenderCache               portrayal endpoint: event loops, thread pools, cache, releases
  |- RenderCacheMutable   the same under a layer whose bytes change and release does not
  |    `- MCRenderCache
  `- RenderCacheProofs    safety
StoreCatalog              files, index, agreements, downloads of the store
  |- StoreCommerce        payments, composed with the catalogue they sell from
  |    |- MCStore
  |    `- StoreCommerceProofs (with StoreCatalogProofs)  safety, refinement of PaymentLedger
  `- PaymentLedger        what payments promise (instantiated by StoreCommerce)
StoreAccounts             users, groups, tokens, sessions, identities, bootstrap
  |- MCAccounts
  `- StoreAccountsProofs  safety
Workfiles                 the files the command line tools share, and their processes
  |- Importers, Signing, Exporting, Protection    one module per tool
  |    `- Workbench       all of them at work on one container
  |         |- MCFiles
  |         `- WorkbenchProofs  safety: types, signatures, packages, exports
  |              `- ToolProofs  safety: what imports, exports and decryption leave
```

### Container (`Container.tla`, `ContentProfile.tla`, `TileStore.tla`)

Python's `sqlite3` opens a transaction at the first INSERT, UPDATE or DELETE. The reads
of `_coordinate_set` and `_ensure_content` therefore run in autocommit even inside
`with self.db:`, and other processes may commit between any two of them. The module
follows this grain: a `put` is `BeginPut` (reads `datatiles_dimensions`), `CheckVariable`
(policy and registry), `FindSet` (key lookup and, when it exists, comparison of the
profile), then one transaction: `ReuseSet` or `CreateSet`. From its first write to its
commit a transaction holds SQLite's write lock, so it is one step; a new set's
coordinate rows, its profile and its tile are in that step. The UNIQUE key on
`canonical_key` is the guard of `CreateSet`: the loser of a race raises, which is
`Abandon`, as are every other exception, a kill and "database is locked". `select` is
the same reads followed by `CommitSelect`.

| TLA+ variable | Code |
|---|---|
| `dimensions`, `variables`, `policy` | `datatiles_dimensions` (name, required), `datatiles_variables`, metadata `datatiles:variable_semantics` |
| `sets`, `contents`, `tiles` | `datatiles_coordinate_sets` with coordinates and values, `datatiles_contents`, `datatiles_tiles` |
| `selected`, `format`, `json` | `datatiles_selected_slice`, metadata `format` and `json` |
| `op` | the Python frame of a process between two steps |

A tile's value is what its writer declared about the bytes (the profile arguments of
`put`), which is what a conflict is about. A canonical key is the map from dimensions to
canonical values; the hash over its sorted JSON is injective here. `Canonical` is the
constant function that `_canonical` computes on the spellings of an instance.

`TileStore` is the promise: `Store` adds a tile and, when the key is new, the set with
its profile, in one step, and `SelectSlice` changes selection and format in one step.
`KeepsPromise` says that `Container` implements it, with `profiles <- contents`,
`stored <- tiles`, `slice <- [selected, format]`.

### Creation and migration (`SchemaRevision.tla`)

`executescript` commits what is open and runs each statement in autocommit, and a CREATE
through `execute` is autocommit too; only an INSERT opens a transaction. A script is a
sequence of commits. `SchemaScript` is `schema.sql` (which sets `user_version` *first*)
and the constructor's INSERT; `MigrationScript` has one sequence per migration, with the
two real transactions (`ProfilesTransaction`, `SemanticsTransaction`) as one commit each.
`Run` makes the next commit or, when what it creates exists, raises. `Crash` kills a
process between two commits. A file starts absent or at any revision from 2 to 8, with
what an earlier release put there (`LegacyObjects`, `LegacyRows`).

### Portrayal endpoint (`RenderCache.tla`, `RenderCacheMutable.tla`)

A request runs `rendered_tile` on the event loop of one worker up to its `await`s
(`Arrive`, `Admit` or `Refuse`, `Resume`, `Reply`), and `_load_render_and_cache` in a
thread (`Start`, `AcquireLock`, `Recheck`, `Render`, `Replace`, `Fail`). `slots` is
`render_slots`, `queue` the executor's queue, `lock` the per-key lock table, each per
worker; `cache` is the directory all workers share, each file with the worker that wrote
it. `layer` is `layers.json`, read when the request arrives; `content` is the bytes of a
dataset, read in the thread. A body is the release its pixels come from. `Render` writes
a temporary file nobody reads, `Replace` is `os.replace`. `Publish` publishes a release as a new
dataset, as `docs/online-delivery.md` asks; in `RenderCacheMutable` the operator
replaces the bytes under a release identifier that stays the same.

### Store catalogue and commerce (`StoreCatalog.tla`, `StoreCommerce.tla`, `PaymentLedger.tla`)

Each request has a SQLAlchemy session on SQLite. Its reads run in autocommit and their
rows are kept in the session (`request[w].row`); the first INSERT, UPDATE or DELETE takes
the database's write lock (`writer`), which is held until the commit; files are moved,
renamed and unlinked at once. That is the grain: a download is `ReadItem`, `Gate`,
`RecordDownload`, `SendFile`; a replacement is `StartReplace` (the upload is on disk,
checked, beside the target), `UnlinkOld`, `MoveIn` (`os.replace`), `StatFile`, `ReadFile`,
`CommitIndex`; a scan hides all rows and then stats and reads each file it finds. An
UPDATE writes the columns that differ from what was *loaded* (`Flush`), so two requests
that loaded the same row mix their columns, and a scan or an upload that read one file
after it took the stamp of another describes neither; rows that were written on such a
stale reading are remembered in `clashed`. Deleting a row leaves purchases, downloads and notifications, because foreign
keys are not enforced, and gives its id to the next row when it was the last (`NewId`).
`Kill` ends a request between two steps: the transaction is rolled back and the files
stay as they are. "database is locked" has the same outcome.

| TLA+ variable | Code |
|---|---|
| `files` | `CATALOG_DIR`: name -> content and stamp (size and mtime) |
| `rows`, `acceptances`, `downloads`, `purchases`, `notifications` | the tables of the same names in `models.py` |
| `safety` | the setting `agreement.safety.version` |
| `orders`, `provider` | `payment_transactions`; the provider's side of an order |
| `request`, `payment`, `writer` | the handlers' frames and sessions; who holds the lock |
| `clashed`, `accepted`, `sent` | history, for the properties |

A checkout inserts its transaction, *then* calls the provider, then commits; a capture
calls the provider first and then sets the status, looks for a purchase and inserts one.
What the provider did is not undone when the store fails. `PaymentLedger` is the promise:
an order's money goes from due to taken once, and a user is given an item once, for money
taken from that user for that item. `KeepsLedger` says that `StoreCommerce` implements
it, with `ledger` made of `orders` and `provider`, and `granted` of `purchases`.

### Store accounts (`StoreAccounts.tla`)

A request reads in autocommit and commits later, so the two are actions of their own,
and what was read is in the request's frame. `CheckPassword` reads the account of a login
or of a token request (`app.py:163`, `340`); `Login` and `LoginToken` issue the credential
for that id when the password has been hashed. `OpenLink` compares a link's address with
the row (`auth_ext.py:75-76`), `Verify` writes the row of that id; `Callback` looks for
the user of an identity (`118-119`), `External` writes. What the row has become by the
time of the `UPDATE ... WHERE id` shows in `Flush`: only the columns that differ from what
was read are written, and a row that is gone raises.

`Authorize` keeps the user, whether it manages users, and the token's row. A token that
is used has its `last_used_at` changed, which the next SELECT flushes, so that from there
to the commit nobody else writes: `UsersRead` and `GroupsRead` are then of the present
state. Two things are read before that flush: the request's own account with its groups,
and everything a request reads that was authorized by its session. A write to the API
needs the `Bearer` prefix only (`security.py:68`) and falls back to the session
(`security.py:58`), so that both ways lead to every action. For these `LoadUser` and `LoadGroup` read in a step
of their own. Memberships and roles are written as SQLAlchemy writes a secondary table,
by the difference between the rows that were read and those that are wanted (`Replaced`);
inserting a row that is there, or deleting one that is not, raises (`Replaces`). `GiveUp`
is what raising, being refused and merely reading have in common.

A user that is deleted takes along the memberships that the request had read; tokens,
identities, sessions and mailed links stay, and ids are given again. Two histories tell
what is told apart by nobody else. `regiven` has the ids that were given while a
credential, or a request under way, named them. `crossed` has the memberships and
verifications that an overtaken request wrote for, or left with, an id that was no longer
what it had read.

| TLA+ variable | Code |
|---|---|
| `users`, `groups`, `members`, `grants` | `users`, `groups`, `user_groups`, `group_roles` |
| `tokens`, `identities` | `api_tokens`, `external_identities` |
| `sessions`, `mails` | signed cookies in browsers; links in mailboxes |
| `request` | the handlers' frames and sessions |
| `holder`, `confirmed`, `appointed`, `regiven`, `crossed` | history, for the properties |

`Register`, `CreateUser` and `CreateGroup` are one step each: what they decide by is
decided again by the UNIQUE columns, and groups are read after the INSERT has begun the
transaction. `Restart` is `bootstrap_security`.

### Files and tools (`Workfiles.tla` and the modules that extend it)

One container has the name everything is about, `target`; processes hold inodes
(`containers`), which survive unlinking and replacement. Each commit to a container and
each write to another file is a step.

- `Importers`: the three ways of writing a target. `convert_dataset` refuses a target that
  exists and leaves its half when it fails; the feature importers unlink before they parse
  and after a failure; `meteouniparthenope2datatiles` works on a copy and moves it over.
  Each import puts and links tiles, selects, describes, validates (`Deliver`), fails
  (`FailImport`) or is killed at any commit.
- `Signing`: `build_manifest` reads one table after the other, `store_envelope` looks for
  the manifest before its transaction begins, and inserts. A digest stands for what it is
  of; `version` counts the commits that change what manifests are about.
- `Exporting`: the existence test, the two SELECTs, and `os.link`.
- `Protection`: package, key file, licence and output as four files written in turn by
  `protect`, `issue-license` and `decrypt`, several at once. Cryptography is who can open
  what; a package that two processes wrote has no tag that fits.
- `Workbench` is all of them, with kills.

## 3. Runs

| Run | Checks | Instance, and why it is enough |
|---|---|---|
| `container` | the safety properties and the refinement | two processes, one to lose each race; the dimension `variable` and one other, so that a key may lack or have a required one; two spellings of one time, so that two coordinate maps meet in one key; three argument lists (nothing, PNG, gzip MVT) of which two conflict and the first agrees with whatever is stored; one address, because tiles at two addresses do not interact. 1.2 million states |
| `container_policy` | **violated** `RegisteredBeforeWrite` | finding 1 |
| `container_stale_json` | **violated** `NoStaleJson` | finding 2 |
| `container_validator` | **violated** `ValidSetsHaveRequiredDimensions` | finding 3 |
| `migration` | completeness, exactness, revision, liveness of migrations | two processes, every starting revision, one kill |
| `migration_crash` | **violated** `MigrationIsTransactional` | finding 4 |
| `render_cache` | slots, coalescing, what clients are sent, cache identity, liveness | two workers (they share only the directory); three requests and two slots, so that one is refused or waits; two threads per worker, so that one key's lock is contended; two releases, one kill. 270 thousand states |
| `render_mutable` | **violated** `MutableTilesAreRefreshed` | finding 5: one worker, two requests, no kill is enough |
| `store` | index, records, repair by scanning, the write lock, payments, refinement of the ledger | two threads for the catalogue and one for payments, which make every pair of requests overlap; two names (a rename needs them) and two rows; a draft and a release, since releases are immutable and drafts are not; one buyer; three requests, which is the shortest chain in which a request undoes what another two did; one kill. 777 thousand states |
| `store_sent` | **violated** `SentWasAccepted` | finding 6, in the same instance |
| `accounts` | who is an administrator, whose address is verified, for whom credentials speak, revocation | the administrator and two others, two ids, so that one is given again, two tokens, two requests at once, five requests and restarts: a registration, the administrator's login, a change or a verification, the deletion that overtakes it, and the registration that is given the id. 1.8 million states |
| `files` | imports, signatures, exports, packages | two processes, two inputs, two zoom levels; two tools of any kind, a third and a fourth only of those that protect, issue and decrypt and only on an unchanged container, since a licence that opens needs three tools in a row; imports of at most two tiles; one kill. 597 thousand states |

Bounds: `MaxCrashes`, `MaxFaults` and `MaxKills` limit kills, `MaxRelease` publications,
`MaxRequests`, `MaxCommands` and `MaxImports` what is begun, `MaxId`, `MaxTokens` and
`MaxSafety` rows; the sets of processes give the concurrency. Three instances cut more,
in their MC module and with the reason beside the definition: `MCInit` starts the store
with a draft whose user accepted it, `MCEarlyFaults` kills only when another request is to
come that could notice, `MCLateTools` keeps the third and fourth tool to packages.
Symmetry is used in `container`, `store` and `files`, of processes, and of names or inputs
where nothing tells them apart; no run with a liveness property uses it. Deadlock is
checked where a program goes on for ever. `store`, `store_sent`, `accounts` and `files`
turn it off: when the bounded number of requests or tools is used up, everything is idle
and may stop.

What the passing runs show: a conflict that is checked before the transaction is still
respected, because a profile never changes once it exists and a new one is created in
the same transaction as the tile (`TilesMatchTheirProfile`, `ProfilesNeverChange`,
`SetsAreComplete`); the selected slice stays described by `format` and `json` whatever is
put and selected by others (`SelectionAgrees`); a migration that two processes run at
once, or that is killed, leaves a file that has all its revision claims, the revision
never decreases although each process sets it from its own idea of the version, and
unless something is killed one of the two finishes and the file is exactly what its
revision is (`MigratedIsComplete`, `RevisionNeverDecreases`, `MigrationCompletes`,
`UnkilledMigrationsAreWhole`); admission slots come back exactly once, a burst of misses
renders once per worker, a client gets an error or the whole tile of the dataset that was
named when it asked (`RepliesAreTheirRelease`), and a tile is cached under the release it
was rendered from even when a release is published between the request's arrival and its
rendering.

In the store, a row whose stamp is its file's describes that file, whoever was killed
between moving a file and committing its row, so that what is out of date is noticed
(`StampIdentifiesContent`), except for rows that were written on a stale reading; and a
scan that overlaps no other request repairs the index, those rows included, as long as
none of them is wrong under the right stamp (`QuietScanRepairs`); a download is
recorded for contents its user accepted, and paid ones are buyers', although rows change
and ids are used again under the request (`DownloadsWereAccepted`,
`PaidDownloadsAreBuyers`); a return from the provider that is repeated, races another or
comes with a cancellation gives one purchase, and none without the money
(`CompletedIsPurchased`, `OnePurchasePerItem`, `KeepsLedger`); whichever way a request
ends, the database's write lock is with the one thread that has written and not committed
(`TheLockIsReturned`). For accounts, links,
tokens and cookies that outlive their user, and requests that commit what they read before
it was deleted, neither make an administrator nor verify an address, except in the cases
`crossed` remembers, which are described below; who acts for an account is its person
unless the id was given again (`CredentialsSpeakForTheirHolder`, which is about requests on
their way to a credential as well); and a stale UPDATE of a token's last use does not undo
its revocation. Of the
tools, a failed or killed import leaves what earlier imports brought
(`FinishedImportsStay`), and only importers that work under the name show or leave a half
(`TargetIsWhatWasImported`); what one decryption wrote and ended is the container the
licence names (`OutputIsLicensed`), and exports have the zoom levels they announce
(`ExportHasItsZooms`).

Each property of a passing run has a mutant: a "Fault" operator next to the definition
it would replace, which changes it the way a plausible edit of the code would and breaks
the property.

### Findings

1. `RegisteredBeforeWrite`: the `required` policy is checked before the transaction; a
   tile of an unregistered variable is written after another process has committed the
   policy (`store.py:319`, against `docs/semantic-variables.md:60`).
2. `NoStaleJson`: `set_metadata` guards three managed rows and not `json`, which `select`
   manages and `validate` checks (`store.py:254`).
3. `ValidSetsHaveRequiredDimensions`: adding a required dimension after the first tile
   makes the older sets unaddressable, and `validate` does not notice
   (`store.py:812`, against `docs/specification.md:399`).
4. `MigrationIsTransactional`: a killed migration leaves tables behind, and every later
   open raises "table already exists" (`store.py:240`, against `docs/specification.md:440`).
5. `MutableTilesAreRefreshed`: the "short-lived portrayal caching" of mutable layers
   exists in the `Cache-Control` header only; the server's own cache never expires and
   the ETag does not change (`app.py:380`, against `docs/online-delivery.md:84`).
6. `SentWasAccepted`: the gate compares the digest of the row it loaded; the file that is
   then opened by that row's path may be another release, moved there meanwhile
   (`store/datatiles_store/app.py:227`, against `docs/store-api.md:26`).

### Described, not stated as properties

The models have these behaviours, and the properties above are formulated around them.
They are what a reader of the code should know.

Catalogue:
- Two replacements of one draft that loaded the same row mix their columns, and the row
  describes neither (`clashed`; `docs/store-api.md:77` calls replacement atomic).
- `index_file` takes the stamp before it reads the file. When another file is moved to
  the name in between, the row has the stamp of one and the content of the other. As a
  rule its stamp tells; when renames bring the first file back, the row is wrong under the
  right stamp, and no scan notices. (It takes more overlapping requests than
  the run's instance has; the attempt at a proof showed it.)
- A replacement that loaded a draft may move its file over a release that another put there.
- A kill between a rename and its commit leaves the old row without a file; the next scan
  makes a new row, which has no price. A replacement sends no update notifications.
- Since a row's id is given again, purchases and notifications of a deleted item are of
  the next one.

Payments:
- A checkout holds the write lock of the whole database during the provider's HTTP call.
- The provider captures before the store commits: a kill in between, or an item deleted
  in between (`complete_purchase` then raises), leaves money taken and nothing given, and
  a second capture is refused by the provider.
- `paypal_cancel` overwrites any status, also "completed"; the purchase stays.

Accounts:
- Tokens, cookies and identities of a deleted user act for the user who is given the id;
  so does one that is issued after the deletion to a request that had read the account
  before (`regiven`).
- A verification whose account is deleted between the comparison and the UPDATE, and an
  external login whose account is, mark whoever was given the id as active and verified
  (`crossed`).
- An update of a user's groups that a deletion overtakes inserts memberships for nobody,
  and a deletion that an appointment overtakes leaves the new membership; the next user
  who is given the id has it (`crossed`). Both need a request that read before it had the
  lock: one that its session authorized, or one about the own account of a token.
- A verification link or an external login reactivates a user an administrator
  deactivated (`docs/store-api.md:22` says deactivation stops authorization).
- Two administrators may delete each other at once.
- `EMAIL_RE` (`auth_ext.py:15`) is a raw string with doubled backslashes and refuses
  ordinary addresses; the model is of what follows when an address is accepted.

Files:
- A feature import with `--force` unlinks the target before it has looked at its input,
  and a failing one unlinks whatever has the name by then, also another's output.
- Of two forecast imports that copied one target the last wins, and the frames in the
  metadata are those of the last import only. A dead conversion's half container is taken
  for a target and extended.
- A signature stored while an import replaces the file goes to the inode that has lost its
  name.
- `issue-license` between the package's header and the key file of a new edition wraps the
  old key; two decryptions to one output mix or unlink each other's plaintext.
- `encode_numeric_tile` accepts shapes of no and of more than eight dimensions, which
  decoding refuses (not modelled).

## 4. Fairness

- `SchemaRevision`: weak fairness of each constructor's next statement. A constructor is
  sequential code; it stops only when its process does, and that is `Crash`. Opening and
  closing a file are choices of a user and have no fairness.
- `RenderCache`: weak fairness of each handler's and each job's next step: the event loop
  runs ready callbacks, the executor's threads take jobs in order. Acquiring a
  `threading.Lock` has strong fairness: other threads may take the lock again and again,
  each time it is free. Arrivals, kills and publications have none.
- `RenderCacheMutable` adds weak fairness of arrivals: the property is about clients that
  keep asking, and its violation is one in which they do.
- `Container` has none: its properties are safety properties, and writers may give up.
- The store's modules and `Workbench` have none either: nothing in them must happen. A
  request may be the last one, a user may not return from the provider, a tool may be
  killed, and no daemon retries. `QuietScanRepairs` states what a scan has done when it
  *has* run.

## 5. Proofs

### Container (`ContainerProofs.tla`)

The theorems hold for every set of processes, dimensions, values, spellings, coordinate
maps, addresses and argument lists, under `DefaultMediaAssumption`,
`RequestAssumption` and `ContainerAssumption`, which say that the constants have their
types and that the sentinels are not keys or schemas.

The properties of `container` are not inductive: a process that is about to commit acts
on what it read steps ago. `OperationsSound` says what it may still rely on: a process
in `reuse_set` has found a set that exists and whose profile does not conflict with its
arguments, and one in `select` a set that exists. This is preserved because sets are
never removed and profiles never change (`SlicesOnlyGrow`), and it is just what
`ReuseSet` and `CommitSelect` need; `CreateSet` needs nothing but its UNIQUE guard. The
inductive invariant `IInv` is `TypeOK`, `SetsAreComplete`, `TilesMatchTheirProfile`,
`SelectionAgrees` and `OperationsSound`; there is one lemma per conjunct, with one step
per action that can disturb it.

That a stored set can be addressed (`SetsAreAddressable`) again needs what a process has
in its frame: its key was accepted with the dimensions there were, and dimensions are
never undeclared (`KeysAreAddressable`, `DimensionsStay`). What `validate` may report
follows from `IInv`: whatever processes do at once, only what a caller brought in, that is
a schema it declared, a policy it made stricter or a `json` it wrote by hand (findings 1
and 2 are how the last two come about).

| Theorem | States |
|---|---|
| `TypeCorrect`, `Invariant` | `Spec => []TypeOK`, `Spec => []IInv` |
| `PutIsAtomic` | `Spec => []SetsAreComplete` |
| `ProfilesAreRespected` | `Spec => []TilesMatchTheirProfile` |
| `SelectionIsCoherent` | `Spec => []SelectionAgrees` |
| `ProfilesAreImmutable` | `Spec => ProfilesNeverChange` |
| `Refinement` | `Spec => KeepsPromise`: `ReuseSet` and `CreateSet` are `Store`, `CommitSelect` is `SelectSlice`, everything else stutters |
| `AddressableSets` | `Spec => []SetsAreAddressable`: every set has the key of some caller's coordinates, of declared dimensions |
| `SingleTiles` | `Spec => OneTileAtATime`: a step stores at most one tile, that of the put that takes it, and removes none |
| `ValidContainers` | `Spec => []ReportsAreOfCallers` |

### Portrayal endpoint (`RenderCacheProofs.tla`)

The theorems hold for any number of workers, threads, tiles, releases and kills and any
finite number of requests in flight, under `RenderCacheAssumption`: the limits are
natural numbers, and the sentinels are neither releases, requests nor cached files.

Three facts that no property states make the invariant inductive. `LocksAreHeld`: a job
between its second look at the cache and its `os.replace` is the holder of its key's lock
in its worker. Therefore two jobs of one worker that render have different keys, and only
a job of *another* worker can create the file meanwhile (`MissesAreCoalesced`).
`ReleasesAgree`: the layer names the dataset of the release it names, a request has read
both names at once, and what a job has rendered is its dataset. Therefore what `Replace`
writes is the release in the key (`CachedTilesAreTheirRelease`), although the layer may
have moved on since. `BodiesAgree`: a request has been given nothing, or the tile of the
dataset it asked for, because what it found in the cache is the release in its key
(`RepliesAreTheirRelease`).
`SlotsAreConserved` is inductive with the types: only `Admit` and `Resume` change who is
admitted, by one request each, and a kill gives back all of a worker's slots.

That nobody waits on somebody who does not run is a second invariant, `Pools`: a held lock
has a holder that is past it, with that key (the converse of `LocksAreHeld`); the queue
has the queued jobs, each once; no more jobs are in threads than the pool has. A job that
waits at a lock therefore waits for one in a thread that does not wait, and a queued job
for the head of its queue or for a thread, which by the first case has somebody who can
go on (`SomebodyIsReady`). There is no cycle of waiting, for any number of threads, slots
and keys; that those who can go on do so is fairness, and stays with TLC
(`AdmittedIsAnswered`). That a cached tile keeps its pixels needs more than its type:
`os.replace` does overwrite what another worker has put there, but with the same release.

| Theorem | States |
|---|---|
| `TypeCorrect`, `Invariant` | `Spec => []TypeOK`, `Spec => []IInv` |
| `BackPressure` | `Spec => []SlotsAreConserved` |
| `Coalescing` | `Spec => []MissesAreCoalesced` |
| `HonestReplies`, `WholeTiles` | `Spec => []RepliesAreTheirRelease`, and hence no part of a file |
| `Accounting`, `NoDeadlock` | `Spec => []Pools`, `Spec => []SomebodyIsReady` |
| `StablePixels` | `Spec => PixelsStay`: a key that answers goes on answering the same |
| `CacheIdentity` | `Spec => []CachedTilesAreTheirRelease` |

### Creation and migration (`SchemaRevisionProofs.tla`)

For any number of processes and kills, under `MaxCrashesAssumption`. The scripts are data, and a first part establishes what is needed of
them: what each migration creates and removes, and that together they are the schema
(`Migration2` to `Migration7`, `MigrationsAddTheSchema`, `Creation`). The argument:
the first statement of each migration creates an object of its own (`First`), and a second
CREATE of it raises. So of all processes that begin a migration one gets past it, and this
one alone is at the file's revision until it commits the next (`OneAtATime`); when it is
killed, the object stays and nobody gets past it again. A file that was
not there has the current revision as soon as it has one (`Creating`).

`Exact` says what a migrated file *is*, not only what it has at least: its revision,
or its revision and what the one process that is past its first statement has added so
far (`Halfway`), or an earlier revision and what a kill has left. It is inductive with
`IInv`, because a process at its first statement that raises has added nothing, and one
that is past it never raises: what the rest of its script creates is neither in the file's
revision nor in what it has added (`PastDoesNotRaise`). From it follow that without a kill
no interleaving leaves part of a migration, that an open file has every table, index, view
and metadata row of the schema although the constructor looks for a few of the tables
only, and that a migration that got past its first statement ends early by a kill alone.

| Theorem | States |
|---|---|
| `TypeCorrect`, `Invariance` | `Spec => []TypeOK`, `Spec => []IInv` |
| `CompleteMigrations` | `Spec => []MigratedIsComplete` |
| `CurrentFiles` | `Spec => []OpenedIsCurrent` |
| `ForwardRevisions` | `Spec => RevisionNeverDecreases` |
| `ExactMigrations`, `WholeMigrations` | `Spec => []Exact`, `Spec => []UnkilledMigrationsAreWhole` |
| `WholeFiles` | `Spec => []OpenedIsWhole` |
| `SafeToBegin` | `Spec => BegunMigrationsGoOn` |

### Store catalogue and commerce (`StoreCatalogProofs.tla`, `StoreCommerceProofs.tla`)

For any number of users, threads, names, contents, rows, orders and kills, under
`SequenceAssumption`, `BoundAssumption`, `RowAssumption` and `NoneAssumption`. The catalogue module proves
that every step of the catalogue keeps the catalogue's part of the invariant, the commerce
module the rest, and that neither disturbs the other's part. A download is gated by a row
that its request read and that others change; what holds is that the user accepted what
*that* row said (`GatedWereAccepted`), because acceptances are kept with what they were
of. For payments: the number of a request is its order's, so that no two checkouts
open one order (`CheckoutsAreApart`), and who captures an order knows whose it is and that
its money was taken (`CapturesKnowTheirOrder`). That no purchase is made twice needs the
write lock: the transaction that looks for one and finds none inserts it.

The lock itself is a theorem (`ReturnedLocks`): each step of a request or a payment passes
without the lock, takes it when it is free, or returns it when it is its own
(`KeepsToTheLock`, `PaymentKeepsToTheLock`), so that a holder is exactly a thread between
its first write and its commit. Therefore a table changes only by the commit of whoever
holds the lock, or when nobody does (`IsolatedTransactions`). That a purchase was paid
needs `MoneyIsKnown`, that only orders the store has are captured, and `OrdersStay`. Who is
notified is chosen among those who have an older release; that a user has one notice of an
item is the look before each insertion, under the lock of the announcing transaction.

That stamps tell contents apart is a statement about all files, rows and requests at
once: there is one map from stamps to contents that every one of them agrees with
(`StampsAreApart`). Stamps are numbers of requests, so a request that brings a file adds
to the map what nobody knows yet; every other step hands pairs around, and a step that
would break one puts its row in `clashed`.

That a scan repairs is a statement about a scan from its beginning (`QuietScans`). A scan
that was alone when it began and has the last number has been alone since; it has loaded
the rows as they were, what it has not come to is still as in the table (`HiddenIsRow`),
and what it has come to is as the files are (`AvailableIsFile`, `FileIsAvailable`). The id
of a row it adds is new because the numbers above all ids have a least one
(`LeastNumber`, by well-foundedness).

| Theorem | States |
|---|---|
| `TypeCorrect`, `Invariance` | `Spec => []TypeOK`, `Spec => []IInv` |
| `AcceptedDownloads`, `BoughtDownloads` | `Spec => []DownloadsWereAccepted`, `Spec => []PaidDownloadsAreBuyers` |
| `SoundIndex`, `RepairingScans` | `Spec => []StampIdentifiesContent`, `Spec => QuietScanRepairs` |
| `CompletedPurchases`, `SinglePurchases` | `Spec => []CompletedIsPurchased`, `Spec => []OnePurchasePerItem` |
| `Refinement` | `Spec => KeepsLedger`: `CommitCheckout` is `Open`, `Capture` is `Take`, `CommitCapture` is `Grant`, everything else stutters |
| `ReturnedLocks`, `IsolatedTransactions` | `Spec => []TheLockIsReturned`, `Spec => TransactionsAreIsolated` |
| `PaidPurchases` | `Spec => []PurchasesWerePaid`: an order of this user for this item was captured |
| `UpdateNotices` | `Spec => []NoticesAreUpdates`: a notice is of a release later than one the user has, and one per item |
| `KeptRecords` | `Spec => RecordsStay`: no request, failure or kill takes back what was downloaded, bought, announced, ordered or paid |

### Store accounts (`StoreAccountsProofs.tla`)

For any number of persons, ids, tokens, threads and requests, under `RootAssumption`,
`BoundAssumption` and `NoneAssumption`. Everything rests on when an id is given: `NewId`
is of no user that exists (`NewIdIsFree`), and whoever still has a credential of that id,
or serves a request for it, is in `regiven`. What a request read may be wrong by the time
it commits, so the invariant `IInv` says nothing of it except what went along: each kind of
request has its fields, its token exists (`UsedTokensExist`), an opened link fitted the row
that was read with it (`LinksMatched`), and the request speaks for whom it acts for, which
is what a credential issued later inherits.

The users are reduced to four changes: none, one added, one updated, one deleted
(`UsersStep`). From it follow whom a credential goes on speaking for (`SpeaksForStays`),
that a verified address was confirmed or its id crossed (`VerifiedStep`), and that accounts
are told apart by name and address (`AccountsAreApart`). A membership that is not crossed
is of a user and a group that exist (`MembershipsResolve`), in the administrators' group of
one who was appointed (`MembersStep`): an id that is given again has no other memberships
than those an overtaken request left, which is what makes giving ids again harmless for
groups, as it is not for credentials.

| Theorem | States |
|---|---|
| `TypeCorrect`, `Invariance` | `Spec => []TypeOK`, `Spec => []IInv` |
| `AppointedAdministrators` | `Spec => []AdministratorsWereAppointed` |
| `ConfirmedAddresses` | `Spec => []VerifiedWasConfirmed` |
| `HeldCredentials` | `Spec => []CredentialsSpeakForTheirHolder` |
| `PermanentRevocation` | `Spec => RevocationIsPermanent` |
| `AccountsApart` | `Spec => []AccountsAreApart` |
| `ResolvedMemberships` | `Spec => []MembershipsResolve` |

### Tools (`WorkbenchProofs.tla`, `ToolProofs.tla`)

For any number of processes, inputs, keys, recipients, tools and kills, under
`BoundAssumption` and `NoneAssumption`. An import works on an inode of its own
(`ImportOk`), and a signer holds an inode that no import has yet to make (`SignOk`).
Therefore whatever changes a container that a signer reads raises its version, what a
signer has read is right while the version is that of its start, and a signature is of a
version that was or of the one that is (`SignatureOk`); a staging copy takes version and
signatures along together. Of protections that do not overlap, the one at work made what
is in the package (`KeyOk`). The lemmas are in two layers: what a step of one tool leaves
of the others (`ContainersFrame`, `KeyFrame`, `ImportFrame`), and one per action.

`ToolProofs` adds four invariants to that one. `ImportsOk`: while no two imports
overlap, the container of the one at work has what was kept and as much of its plan as it
has done (`Progress`, `Exact`), and what is under the name, unless a leftover, is what
finished imports made (`Whole`). `ExportsOk`: an exporter holds an inode that no import
has yet to make (`Held`), where tiles are only added, each with a new version (`Grows`);
the zoom levels it read are therefore not more than its rows have. `Grows` is a
theorem of its own, of every tool (`GrowingContainers`): nothing takes a tile, a link or a
signature from a container, or changes what its manifest is about without raising its
version. `SlicesOk` adds that an exporter has read its rows of one slice of the inode it
holds, which had tiles when it began, so that the export is neither empty nor mixed
(`ExportedSlices`). `DecryptsOk`: whoever truncated the output knows what was promised for
it and, while nobody else wrote, what is in it; that two decryptions never have one number
says who it was.

| Theorem | States |
|---|---|
| `TypeCorrect`, `Invariance` | `Spec => []TypeOK`, `Spec => []IInv` |
| `SignaturesHold` | `Spec => []SignaturesSurviveSigning` |
| `PackagesOpen` | `Spec => []KeyOpensPackage` |
| `ExportsStay` | `Spec => ExportsNeverChange` |
| `ImportsStay`, `TargetIsImported` | `Spec => []FinishedImportsStay`, `Spec => []TargetIsWhatWasImported` |
| `ExportsHaveTheirZooms` | `Spec => []ExportHasItsZooms` |
| `GrowingContainers` | `Spec => ContainersGrow` |
| `ExportedSlices` | `Spec => []ExportIsASlice` |
| `OutputsAreLicensed` | `Spec => []OutputIsLicensed` |

Model-checked only: the liveness properties (`AdmittedIsAnswered`, `MigrationCompletes`),
which the prover does not reach. Every other property of a passing run is a theorem.

## 6. Not modelled

Tile bytes, payload framing and rendering arithmetic; the descriptive tables
(provenance, FAIR, rights, releases, products, policies), which are single INSERTs that
nothing above reads back; interval coordinates, which are one more kind of canonical
value; spatial addressing. The discovery, scientific and NetCDF endpoints and the
library's server read one container per request and keep nothing. Of the store: permissions other than those to manage users, passwords and expiry,
amounts and wire formats of payments, presentation and mail. Of the importers: resampling,
source resolution, units and rights, and `--frame-storage separate`, where each frame is a
target of its own. Of integrity: detached envelopes and key generation. Database integrity
under power loss is SQLite's.

Steps that are coarser, or states that are fewer, than the code's, where no property tells
the difference: a scan takes the write lock with its first row hidden, also when no row
was available (`HideRows`; the code then takes it with its first insertion); the stat and
the SELECT of `index_file` are one step (`StatFile`); "pbf" is one more name of the media
type of vector tiles and is not told from it, and the data type of a profile goes with its
media type (`DefaultEncoding`); a conditional request that is answered with 304 asks for
nothing, and the dataset in the cache key is a function of the release
(`RenderCache.Arrive`); the forecast importer selects a slice with each source and the
model once after all (`Importers.Select`).

Two things the models leave open on purpose: a creation killed half way leaves a file of
revision 8 without its tables (`SchemaRevision` has those states, and its properties are
about migrated files, because no document promises more); and cancellation of a handler
whose job is still running, which would return the slot too early, depends on the web
framework.

## 7. What is left

1. Pure operators: spatial addressing at its boundaries, DNT1 lengths, dimension exposure,
   each against a reference definition over bounded inputs.
2. `--frame-storage separate`.
3. Several products and permissions in the store; expiry in its accounts.
4. Proofs: an abstract cache (a map from keys to pixels, filled once) that `RenderCache`
   implements, and an abstract migration (one step from revision to revision, as the
   specification asks) that `SchemaRevision` implements when nothing is killed, which
   `PixelsStay` and `Exact` are the greater part of.
