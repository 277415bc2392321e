# A TLA+ model of the Boot Script Service

BSS tells nodes what to boot.  An administrator stores boot parameters for hosts
(`/boot/v1/bootparameters`); a node that boots asks for a script
(`/boot/v1/bootscript`), and BSS builds it from the stored parameters and from what the
Hardware State Manager (HSM) knows of the node.  This directory holds TLA+ modules for
the parts of BSS that keep state, TLC configurations that check them on small instances,
and proofs that TLAPS checks for every instance.

## 1. Inventory

State that is shared by all requests is in **bold**.  Every HTTP handler runs in a
goroutine of its own; nothing but the mutexes named here orders them.

| Part | Code | State | Operations | What must hold |
|---|---|---|---|---|
| HSM cache | `sm.go` | **`smData`, `smDataMap`, `smTimeStamp`** under `smMutex` | `protectedGetState`, called by `FindSMCompBy...`, `refreshState`, `FindXnameByIP`, `HostsPost` | the stamp does not claim more than the data holds; callers get data as fresh as they ask for; nothing goes back |
| Change notifications | `scn.go` | **`UpdateTimestampKey`** in the KV store | `stateChangeNotification`, `checkState` | what HSM announces reaches the cache; a waiting node is answered |
| Boot parameters, KV | `boot_data.go` | **`/params/...`, `/kernel/...`, `/initrd/...`** in etcd, **`kvMutex`** | `StoreNew`, `Store`, `Update`, `Remove`, `lookup`, `imageStore`, `imageFind`, `removeImage` | references resolve; requests do what they are answered to have done; images keep their parameters |
| Boot parameters, SQL | `internal/postgres/bootparams.go` | **tables `nodes`, `boot_groups`, `boot_configs`, `boot_group_assignments`** | `Add`, `Set`, `Update`, `Delete`, `GetBootParamsBy...` | assignments resolve; one row per node; nodes that are not named are left alone |
| Boot script generation | `default_api.go` 577-806 | none | `buildBootScript`, `buildParams`, `paramSubstitute` | parameters are substituted once and none is lost |
| S3 access | `default_api.go` 103-176 | **`s3Client`**, made on first use | `checkURL`, `replaceS3Params` | a URL is signed in its own bucket |
| Cloud-init | `cloudInitAPI.go` | the KV records, the HSM cache | meta-data, user-data, phone-home | a node is served its own data over its role's; phone-home changes nothing else |
| Endpoint history | `boot_data.go` 806-928, `endpoints.go` | **`/endpoint-access/...`** or a table | `updateEndpointAccessed` and searches | an access is found by every search that asks for it; the last one is reported |
| Service status | `serviceAPI.go` | **`/bss/etcdTest`** | store, read back, compare | a healthy store is reported healthy |
| SCN subscription | `scn.go` 84-183 | **`notifier.Components`** under `smMutex` | `subscribe`: POST, or PATCH if it is refused | hmnfd has the list that BSS believes it has, and the one that was read |
| Start-up | `main.go`, `routers.go` | flags, **`tokenAuth`** | fetch keys, open HSM and the store, with retries | it ends, connected or not, and succeeds when what it needs answers |
| OAuth2, JWT | `oauth.go` | **`accessToken`** | fetch, refresh, check | a token in use is valid |
| Join tokens | `join_token.go` | none | one request to Spire | - |
| Migrations | `cmd/bss-init`, `migrations/` | **the tables, `schema_migrations`** | `Down`, `Force`, `Up`, `Migrate`, after a connection with retries | a clean version has its tables, wherever a run was stopped; rows are kept |

How they interact.  `BootscriptGet` looks the node up in the HSM cache and its parameters
in one of the two stores (`useSQL` selects it at start-up); if the node is unknown or the
cache is out of date it starts a goroutine that refreshes the cache and sends the node a
script that sleeps and asks again.  hmnfd posts notifications, whose timestamp goes through the
KV store because several instances of BSS share it.  The stores ask the HSM cache which
host a MAC or NID belongs to.  Cloud-init asks the cache which host an IP address is.

What is hard about this code, and where, is the list `hazards` of `PROJECT.json`.  In
short: the cache's stamp is set before the data it stands for is read, and is compared
in whole seconds; the KV handlers read, decide and write in separate accesses to a store
without transactions; the SQL handlers do so in separate statements over four tables
with no constraint between them; and any of these may fail, after the ones before it
have taken effect.  An S3 client that all handlers share is set to a bucket and used in
two calls; the subscription believes what it last sent; and bss-init may be stopped at
any statement and started again.

## 2. Modules

| Module | What it is | Lines of code it stands for |
|---|---|---|
| `HsmCache` | the cache, the notifications and the nodes that wait | `sm.go`, `scn.go`, `BootscriptGet`, `HostsPost` |
| `HsmCacheProofs` | theorems about it | |
| `BootRequests` | requests on `/bootparameters`, their names and records | `pkg/bssTypes`, shared by both stores |
| `BootStore` | abstract: what the KV store promises a lone administrator | the API description |
| `KvBoot` | the handlers on the KV store, access by access | `boot_data.go` |
| `KvBootProofs`, `KvStoreProofs` | theorems about it: types and references; what lookups serve, what a lone client is told, and that `BootStore` is implemented | |
| `NodeTable` | abstract: what the SQL store promises a lone administrator | the API description |
| `SqlBoot` | the handlers on Postgres, statement by statement | `bootparams.go` |
| `SqlBootProofs` | theorems about it: types, nodes and their assignments, that `NodeTable` is implemented, and what a lone client is told | |
| `EndpointHistory` | the records of accesses on both backends | `boot_data.go`, `endpoints.go` |
| `CloudInit` | cloud-init's requests, the changes of its data, and the accesses they record; extends `EndpointHistory` | `cloudInitAPI.go`, `boot_data.go` |
| `CloudInitProofs` | theorems about it | |
| `HsmSession` | start-up, a read's token and GETs, and the subscription it makes, beside services that go down | `main.go`, `sm.go`, `oauth.go`, `scn.go` |
| `HsmSessionProofs` | theorems about it | |
| `BootScript` | what `GET /bootscript` answers, with the S3 client | `default_api.go`, `join_token.go` |
| `BootScriptProofs` | theorems about it | |
| `Migrations` | bss-init and the steps of golang-migrate | `cmd/bss-init`, `migrations/postgres` |
| `MigrationsProofs` | theorems about it | |
| `MCHsmCache`, `MCKvBoot`, `MCSqlBoot`, `MCCloudInit`, `MCHsmSession`, `MCBootScript`, `MCMigrations` | instances for TLC | |

`HsmCache`, `KvBoot` and `CloudInit` have the steps of looking something up; `HsmSession`
goes into the read of HSM that `HsmCache` takes for three GETs that are answered well or
fail, and `BootScript` into what becomes of a lookup that is done.

`map` in `PROJECT.json` names the lines behind every definition.

### HsmCache

HSM's contents are a version number; a fetch reads three collections with three GETs, so a
snapshot (`smData`) is three versions, which need not agree.  `clock` is
`time.Now().Unix()`: seconds, because stamps and notifications are compared in seconds.
A process is a node with a script request (`NodeStep`), a client of `POST /hosts` or of
cloud-init (`CallerStep`), or a goroutine of `go refreshState(ts)` (`Worker`; a node can
only be delayed while one is free, which bounds them).  All of them enter
`protectedGetState` at `pc = "lock"` with an argument `arg`: `AcquireHit` returns what is
cached; `AcquireMiss` stamps the cache and takes the mutex; `GetComponents`,
`GetEndpoints` and `GetEthernet` are the GETs, the last of which publishes; `FetchFails`
is any of them failing.  The actions of a node follow `BootscriptGet`: `StartBoot`,
the lookup (`Acquire`, `Fetch`), then `Answer`, `Delay` (checkState's goroutine and the
chain script, whose next request is `Retry`) or `BootPanic` (no data at all: the lookup
dereferences nil, which net/http recovers).  `Notify` and `StoreNotification` are the two
halves of `stateChangeNotification`; between them another notification may pass.
`okTs`, `fetchedAt`, `told`, `visible` and `changedAt` are history the code does not have;
no guard reads them.

The chain protocol is that of the KV backend.  With Postgres `BootscriptGet` skips the
second `checkState`; notifications are not subscribed to there.

### BootRequests, BootStore and KvBoot

A record's image key, the hash of a path, is the path itself; cloud-init data and
referral tokens are left out.  A handler (`cl[c]`) is at one access to the store at a
time: `pc` says which, `todo` the names left, `chain` the names it still tries for the
current one (`Tries` has the orders of `StoreNew`, `Update`, `Remove` and `lookup`),
`held` its copies of records (`hostMap`, or what `getTags` returned), `ids` its image
keys.  `Resolve`, `ReadFound` and `ReadNothing` read records; `FindImage`, `ImageKnown`,
`ImageUnknown`, `AddImage` are `imageFind` and `imageStore`, which hold `kvMutex`
across their two accesses; `WriteName`, `ApplyPatch`, `DeleteRecord`, `SetImage` write;
`FindDropped`, `DeleteImage`, `ReadReferrers`, `Sweep` are `removeImage`; `FetchImage`
is `bdConvert`.  Each access may fail, `MaxFaults` times; the alternatives say what the
code then does, which is often to take a failed read for no entry (`ReadsAbsent`).  The
lists of a request are sets taken in any order, because the order of a Go map or of the
client is no promise.  `DistTimedLock` is left out: it excludes other instances of BSS,
and one instance is modelled.  `Discover` is HSM learning which host a MAC or NID is.

`BootStore` is the table the API describes, in which a request changes one name or image
at a time.  `KvBoot!Table` maps to it: `ask` is the handler's request, and `View` reads a
reference to an image that is gone as no reference, which makes the deletion of an image
one step and the sweep after it invisible: what a lookup serves does not change by it.

### NodeTable and SqlBoot

Each table is a function (`node`, `assign`, `config`) or a set (`group`).  The group and
the config that BSS makes together share an id.  BSS makes a group for each
configuration and names it by the configuration; the comparison of names is therefore
that of the configurations.  Each action is one statement, or a computation between two
of them: `CheckSet`, `ListSet` (Set); `FindNodes`, `FindSimilar`, `InsertConfig`,
`InsertGroup`, `InsertNode`, `InsertLink` (Add); `CheckUpdate`, `ReadOld`, `ReadGroups`,
`ReadMembers`, `PlanUpdate`, `Purge`, `Point` (Update); `DeleteNodes`, `DeleteLinks`,
`CountMembers`, `DropGroups`, `DropConfigs` (Delete by nodes); `DeleteConfigs`,
`DeleteGroups`, `DeleteGroupLinks`, `DeleteMembers` (Delete by configuration).
`StatementFails` ends a handler at any of them.  `Purge` is two DELETEs sent in one
Exec, which Postgres runs as one transaction.  Rows are inserted one by one.

`NodeTable` is the table of configurations by node; `conf` in `SqlBoot!Table` is what
`GetBootParamsBy...` serve by their joins of all four tables.

### EndpointHistory and CloudInit

`useSQL` chooses the backend once.  On etcd an access overwrites the second stored for
the name and the endpoint (`epochs`); on Postgres it adds a row (`rows`, where equal
rows count once).  `EndpointHistoryGet` is `GET /endpoint-history` with its three ways of
asking.  `Record` is one store; when it happens, and with which second, is up to
`CloudInit`'s `Stamp` and `StoreAccess`, the two halves of `updateEndpointAccessed`.

`CloudInit` has what `KvBoot` leaves out of the records under `/params/`: meta-data, user-data
and phone-home data.  A node's request (`META`, `USER`, `PHONE`) finds its xname and
reads records in the order of `lookup` (`Lookup`, `Try`); meta-data reads the global
record (`ReadGlobal`); `Generate` fills in what HSM knows; `ReadRole` reads the record the
`shasta-role` names; `Merged` is what is answered.  `BOOT` is `BootscriptGet` reduced
to the access it records.  An administrator's `PUT`, `PATCH` and `DELETE`, and phone-home
at its end, go through `ReadRecord`, `Write` and `Delete`; `Given` is what Update is
handed, which for phone-home is everything that was looked up, even if it is the role's
or the default's.  `MergePatch` is the JSON merge patch Update applies, with the code's
shortcut if one side is empty.  `located` and `known` are what the HSM cache has learned.

With Postgres there is no cloud-init data, and `LookupGlobalData` and `LookupByRole` still
go to the KV store, which is nil: meta-data always panics, and user-data does for a known
node (`Panic`).  net/http recovers the panic; the node gets no answer.

### HsmSession

`up` has the services that answer: HSM, the token server (opaal), hmnfd, the server of the keys
(JWKS) and the store.  Connections to one that is down fail; one in `silent` takes requests and
never answers them, and as no client of BSS has a timeout, a step that asks it (`Awaited`) is
not taken until that ends (`Hangs`).  `GoesDown`, `GoesSilent` and `ComesBack` may come between
any two steps. `pc` is where BSS is: in `main` (`FetchKeys`, `TestAuth` and `RefreshToken` of
`SmOpen`, `OpenStore`), or in a read (`StartRead`, `TestAuth`, `RefreshToken`, `GetComponents`,
`GetEndpoints`, `GetEthernet`, and `Post` and `Patch` of `subscribe`).  `tries` counts the
attempts of the loop it is in; `GivenUp` says whether the last one ends the process
(`log.Fatalf`) or the read.  `smMutex` is held for a whole read, which is why there is one
`pc`. A read's data (`read`) is the list of nodes that HSM had and whether the endpoints named
their BMCs; the code looks at no status, so an error document is read as an empty list by the
first two GETs and as a failure by the third, whose list has another shape (`Refused`).  `sub`
is what hmnfd has, `components` what BSS believes it has (`notifier.Components`); hmnfd takes a
POST of a subscriber it does not know and a PATCH of one it knows.  The order of the list is
not modelled: `subscribe` sorts it first.  `Restart` forgets what is in memory, and hmnfd does
not; `HmnfdForgets` is the converse.  The bases `mem:` and `file:` for HSM, which are for
tests, are left out.

### BootScript

A configuration is a sequence of parameters that are told apart by what the code looks for: the
five that `buildParams` may add (`Special`), roots in S3, uses of the join token's variable,
one that begins with `initrd` or has it inside, and others.  The sequence is `bd.Params` with
the kernel's and the initrd's.  A handler (`st[h]`) has looked the node up at once (`Ask`) and
goes through `CheckState`, `LookupUnknown` (the record behind a discovery script), `Build`,
`JoinToken` and, for each root, the kernel and the initrd, through `checkURL`: `KeepUrl`, or
`SetBucket` (`NoClient` and `NewS3Client` for the first) and then `GetURL`.  `s3Client` is the
bucket of the client that all handlers share.  `Failed` is the error path: for a discovery
script of a component `BootscriptGet` then tries a script of the node's own, from `CheckState`
on. `CutInitrd` and `CutPanics` are the cut of an old `initrd`.  `blockedRoles` is never
assigned, so `blacklist` blocks nobody; a request without an architecture always forces the
check of the state, so it is always chained and the branch with `unknownKeys` is not reached.

### Migrations

`db` is golang-migrate's version and dirty flag, `tables` the tables there are, `data` those
with rows of BSS.  The SQL files are what `Creates` and `Drops` say: step 1 is empty, 2 has the
four tables of the boot parameters, 3 `endpoint_access`.  A run of bss-init (`job[j]`) is
started with options (`Launch`), connects (`Connect`, `PingFails`), makes the driver, which
waits for the advisory lock without a timeout (`LockDriver`) and makes `schema_migrations`
under it (`CreateVersions`), and goes through `Down` if it is to start afresh, `Force` if a
step is forced, `ReadVersion`, `AutoForce` if the version is dirty, and `Up` or `Migrate`.
golang-migrate's `Down`, `Up` and `Migrate` are `StartMigration` (lock, and refuse what is
dirty or unknown) and `MarkDirty`, `RunFile`, `MarkClean` for each file, up to
`MigrationDone`.  `Stop` is a signal or a failing statement at any point: what is committed
stays, and the lock goes with the connection.  `alone` and `forced` are history.

## 3. Runs

Deadlock is checked in all of them but `migrations`, where the runs may be used up.

| Run | Instance | Shows |
|---|---|---|
| `hsm_safety` | a node, a caller, a goroutine, 2 versions, 4 seconds, 1 failure (3.8 M states) | `StampCovered`, `BoundedStaleness`, `DataNeverRegresses`, types |
| `hsm_live` | a node that HSM lists in version 2 of 3 only, a goroutine, 2 notifications, 1 failure (0.3 M states) | `AskedIsAnswered`, `SeenNotificationIsFetched` |
| `kv_table` | 1 client, 12 kinds of request, no failure (1 M states) | `ImplementsBootStore`, types |
| `kv_race` | 2 clients, 6 kinds of request without DELETE of images, 1 failure | `RefsExist`, `ServedWhole`, `ImageParamsKept`, `RequestsEnd` |
| `kv_faulty` | 1 client, 2 failures | `SuccessIsComplete` |
| `sql_table` | 1 client, 12 kinds of request, 1 failure (1.3 M states) | `ImplementsNodeTable`, `OkMeansDone`, types |
| `sql_faulty` | 1 client that deletes by node, 1 failure (0.8 M states) | `LinksResolve`, `NoDuplicateNodes` |
| `sql_mixed` | a client that adds and one that adds and updates | `OthersUntouched` |
| `cloud_safety` | a node and an administrator, a role tag, the default and the global record, 2 seconds, 1 failure, both backends (2.9 M states) | `ServedIsMerged`, `PhoneHomeOnlyPhone`, `PhoneIsOwn`, `AccessIsFound`, types |
| `session` | 2 lists, 2 services that go down or silent, a restart, hmnfd forgets once, 2 attempts, tokens that outlast a read (1 M states) | `SubscriptionHeld`, `NeverHollow`, `ReadSubscribes`, `StartsWhenReachable`, `AttemptEnds`, types |
| `script` | 1 handler, 5 configurations, 2 buckets, 2 failures, 1 change (0.3 M states) | `ParamsAsConfigured`, `SignedWhereNamed`, `EveryoneAnswered`, types |
| `migrations` | 3 runs of bss-init, 2 at a time, 8 ways to call it, 1 stop (0.5 M states) | `CleanMeansBuilt`, `SuccessReachesTarget`, `DataKept`, `ForceOneRebuilds`, `RunsEnd`, types |

What they say together:

- The cache's stamp is honest, although it is set before the data is read (`StampCovered`), so
  a caller that asks for data as of a second gets it (`BoundedStaleness`), and whichever
  goroutine is late, nobody sees older data afterwards.  A failed fetch keeps the old data
  under a new stamp, which is why `BoundedStaleness` and `SeenNotificationIsFetched` say
  "unless something failed", and what is lost then is `NotificationSurvivesFailure`, below.  A
  notification is lost, too, if a handler that took its second earlier stores it later
  (`NewestIsFetched`, below), or if it comes in the very second of a fetch (`hsm_notified`).
  `AskedIsAnswered` says that one notification keeps no node waiting for ever; newer ones may,
  if one comes before every retry.
- The KV store is exact for a lone administrator none of whose accesses fails (one that
  fails breaks the table: `StoredImageIsReturned` and `FallbackIsForAbsent`, below); of one
  whose accesses fail, success of a PUT or DELETE still means that every name was done
  (`SuccessIsComplete`).  `kvMutex` suffices for images that
  are not deleted.  With a DELETE of the image under way a PUT may write a reference to
  it (`kv_dangling`): this is why `RefsExist` is proved for requests that delete none.
- A lone client of Postgres sees one table.  If it is told "ok" (`OkMeansDone`), each name that
  is owed a node has a row, which is served unless a statement failed; a POST's configuration
  is served; and no row is left that a PUT or PATCH should have changed or a DELETE removed,
  whatever failed before.  A PATCH owes every name a node, a
  PUT or POST what `Add` takes of it: its hosts if it has any, else its MACs, else its NIDs.
  The rest of a PUT or POST is left out without a word
  (`SetAddsAll` with the constants of `sql_table`, below), and a node whose assignment failed
  stays half added (`sql_half_added`).
- The SQL handlers order their statements so that no assignment is ever left without its
  group and config, wherever they stop, and touch no other node.  That ends when two
  clients update at a time (`sql_patch_race`), because `Update` compares lists of nodes
  read by three statements, or when one deletes by configuration, which starts with the
  configs; the requests of `sql_faulty` leave this out.  `Update` never deletes a
  group it has emptied, because it looks for groups *none* of whose nodes it updates
  (`NoDanglingConfig`, below).
- Phone-home hands Update whatever boot data the lookup found, and this is harmless only because
  Update fails for a node without a record of its own, which is looked up first
  (`PhoneHomeOnlyPhone`), and because the phone-home data of a role or
  of the default is always overwritten before (`PhoneIsOwn`, which holds with
  interleavings and failures as well).  What a node is served is its own data over its
  role's as of one moment (`ServedIsMerged`), and the history finds what was answered
  (`AccessIsFound`).  All but `PhoneIsOwn` speak of
  handlers around which nothing else changed or failed (`Alone`; other handlers may
  run): the code holds no lock, so a PATCH during a lookup may show in one half of an
  answer.
- BSS's belief about its subscription is right, over restarts and outages (`SubscriptionHeld`),
  because it is noted only after hmnfd has agreed, and a POST that is refused is followed by a
  PATCH.  Both need that hmnfd's answers arrive: if the answer to a PATCH is lost, hmnfd has a
  list that BSS does not know of, and a list that comes back is not sent (`ReadSubscribes` with
  `LostAnswers`, below).  Every attempt ends (`AttemptEnds`) unless a service that it asks
  falls silent, which holds `smMutex`, and with it every request that needs the cache, until
  the connection breaks (`PollEnds`, below).  A subscription that hmnfd forgets is not renewed
  before HSM's list changes.
- A token is checked before the first GET of a read and carried by all three; if it expires in
  between, the error documents become an empty HSM (`NeverHollow` without `LongTokens`, below).
- A script has its configuration's parameters, each with its value, its token, and URLs in the
  buckets they name (the cut of an old `initrd` may damage another parameter, `OnlyInitrdsCut`
  below, which `ParamsAsConfigured` says where and how), as long as one handler at a time uses
  the S3 client (`script_bucket`).  A request is always answered, with the failures of the
  services behind it; what makes the handler panic is an `initrd` parameter at the end
  (`script_panic`) and, with Postgres, any node that is not known or not enabled
  (`EveryoneAnswered` with `UseSQL`, below).
- Wherever runs of bss-init are stopped, a version that is not dirty has its tables
  (`CleanMeansBuilt`), and forcing step 1 repairs a dirty one (`ForceOneRebuilds`).
  bss-init does not ask for that: the next run clears the flag by itself and reports
  success over a file that was not run (`migrations_dirty`), so that success stands for
  the tables only as long as no version was ever forced (`SuccessReachesTarget`).  Nor does it
  stand for the step asked for on a first install, which always goes to the last
  (`StepIsObeyed`, below).

### Disagreements with the documents

The following configurations are kept beside the runs, or are those of a run with other
constants and the property in place of its own (`+` names the constants that differ). In each
TLC refutes one property, which quotes what the API description or a comment says; the
property's comment has the sentence.

| Configuration | Property | What the code does |
|---|---|---|
| `hsm_notified` | `NotificationIsFetched` | a notification stored in the second of the last fetch is never acted upon |
| `hsm_live` | `NotificationSurvivesFailure` | the refresh that a notification asked for fails, the stamp stays, and nobody asks again |
| `hsm_live` | `NewestIsFetched` | a notification handler that is late stores an older second over a newer one, whose change is not fetched |
| `hsm_stale` | `NoStaleScript` | while one node's refresh is reading HSM, the stamp says up to date and another node gets a script from the old data |
| `hsm_evict` | `EvictionInterval` | `FindXnameByIP` stamps new data with a time one interval ago, so it is refreshed again a second later |
| `kv_post_race` | `PostStoresNew` | two POSTs of a host both succeed |
| `kv_post_race` + `Client = {c1}`, `Mac = {m1}`, `Requests <- PostMacRequests` | `PostStoresNew` | so does a second POST for a MAC that HSM does not know |
| `kv_patch_race` | `PatchRetains` | a PATCH undoes a PUT that came between its read and its write |
| `kv_patch_null` | `NotNulledOut` | a PATCH whose image cannot be stored empties the reference |
| `kv_faulty` | `PatchSuccessIsComplete` | a PATCH reports the error of its last write only |
| `kv_sweep` | `SweepRemovesOnlyReference` | the DELETE of an image stores a host again that was deleted meanwhile |
| `kv_faulty` | `ImageIsRemoved` | a DELETE that cannot read the images reports success |
| `kv_table` + `MaxFaults = 1` | `StoredImageIsReturned` | a PUT that cannot read the images resets one's parameters |
| `kv_faulty` | `FallbackIsForAbsent` | a record that cannot be read counts as none |
| `sql_post_race` | `NoDuplicateNodes` | two POSTs of a node insert two rows |
| `sql_post_race` + `Client = {c1}`, `Nid = {zero}`, `Requests <- ZeroRequests` | `OthersUntouched` | DELETE of NID 0 deletes all nodes without NID |
| `sql_delete_race` | `AddedIsServed` | a POST's config is deleted with the last node that used it |
| `sql_half_added` | `ExistingIsConfigured` | a POST that fails halfway leaves a node that no POST can complete |
| `sql_duplicate` | `NoDuplicateConfig` | a PATCH of nodes of two groups makes the same config twice |
| `sql_set_params` | `SetReplacesParams` | a PUT without params keeps the old ones |
| `sql_set_tag` | `SetAddsAll` | a PUT for a role tag succeeds and stores nothing |
| `sql_table` | `SetAddsAll` | a PUT of a host and a MAC adds the host, leaves the MAC out and succeeds |
| `sql_nameless` | `NamelessChangesNoNode` | a PUT of an image alone changes every node |
| `kv_dangling` | `NoDanglingReference` | a DELETE of an image beside a PUT that uses it leaves a host that refers to no image |
| `sql_patch_race` | `OthersUntouched` | of two PATCHes of a node the second deletes the group that it has left, with another node in it |
| `sql_set_params` | `NoDanglingConfig` | a PUT that moves the last node of a group leaves the group and its configuration |
| `session` + `UseJWKS = FALSE`, `LongTokens = FALSE` | `NeverHollow` | a token expires during a read, and an error document becomes an empty list |
| `session` + `UseJWKS = FALSE`, `LostAnswers = TRUE` | `ReadSubscribes` | after a lost answer a list that was sent earlier is not sent again, though hmnfd has another |
| `session` | `ServesWithKeys` | the server of the keys is down at start-up, and BSS serves without them until it is restarted |
| `session` | `PollEnds` | a token server that takes the request and never answers is waited for without end, whatever the number of attempts |
| `script` | `OnlyInitrdsCut` | the cut of an old `initrd` takes the first that has the word in it, and cuts a part of another parameter |
| `script_bucket` | `SignedWhereNamed` | two handlers use the S3 client, and one's URL is signed in the other's bucket |
| `script_panic` + `Config <- TwoBuckets`, `ClientFails = TRUE`, `MaxFaults = 1` | `ScriptHasKernel` | the S3 client cannot be made, its error is lost, and the script loads an empty URL |
| `script_panic` + `Config <- TwoInitrds` | `OneInitrd` | the first of two `initrd` parameters is deleted, the other is not |
| `script_panic` | `EveryoneAnswered` | an `initrd` parameter is the last one, and the cut runs past the end |
| `script_panic` + `Config <- TwoBuckets`, `UseSQL = TRUE` | `EveryoneAnswered` | with Postgres an unknown node's request reads the KV store, which is nil |
| `migrations_dirty` | `SuccessMeansBuilt` | a run that follows a stopped one reports a version whose tables are not there |
| `migrations` | `StepIsObeyed` | a first install ignores `-step` and goes to the last migration |
| `migrations_rerun` | `DefaultKeepsData` | `SCHEMA_STEPS` is 2 and there are 3 migrations: a second run with the same options drops `endpoint_access` |
| `cloud_safety` + `May <- Everyone`, `MaxFaults = 0` | `PatchIsByKey` | a PATCH of one key of the meta-data undoes another's PATCH of another |
| `cloud_safety` + `May <- Everyone`, `MaxFaults = 0` | `LastEpochIsLast` | the second of a node's last request goes back when an earlier request is stored late |
| `cloud_safety` | `OneLastAccess` | with Postgres the history lists every request of a node, not its last |

### Bounds

`MaxClock` (4), `MaxVersion` (2), `Worker` (1) in `hsm_safety`: a fetch that spans a change and
a notification, a stale refresh behind a newer one and an interval's expiry all fit, which the
refuted properties and the mutants show.  `hsm_live` has three versions and hence two
notifications, whose handlers may overtake each other, within two seconds (`MaxClock`), so that
the second may come in the second of the first or in the next one.  `MaxFaults` says how many
accesses fail; they may be any. In the stores the names are a host, the default tag and, where
it matters, a role tag, a MAC and a NID; images are one kernel and one initrd, two kernels
where two configurations must differ; records outlive requests, and requests repeat without
bound.  `NodeId` and `GroupId` bound the rows in use at one time; a request begins only when
there are ids for what it may make (`Room`), and a statement that makes ids waits for them
(`Enough`); with as many rows as the instances have names this never keeps a lone client from
an interesting request.  In `cloud_safety` one client is the administrator and one the node
(`SplitMay`), so that a change may fall between any two reads of a node; the store begins with
a default and a global record, with or without the role's (`StoredBefore`), and the HSM cache
begins without the node's address but with its component (`KnownBefore`).  In `session` the
lists may change three times, so that one comes back after another was sent; two outages (a
service that goes down, or silent) let one be down at start-up and another during a read, or
one go down twice; two attempts tell a last one from those before.  In `script` the
configurations have two roots in different buckets, two uses of the token, parameters BSS would
add, an `initrd` and parameters with the word inside, which the cut damages, none whose
`initrd` is last (`script_panic` has that).  Three runs of bss-init are one that is stopped,
one that finds what it left, and one beside either; every step may be asked for, and a step
forced inside or outside the range; one of the two at a time waits for the lock, at the driver
or at a migration, while the other migrates. Every property of the passing runs is refuted when
the definition it rests on is changed as a plausible bug would change it; the mutants are
beside the definitions.

### Fairness

`HsmCache`: handlers run on, `sync.Mutex` hands the lock to a waiter in the end (strong
fairness of `Acquire`), and a goroutine is there in the end for a node to be delayed by.  Nodes
run the chain script (weak fairness of `Retry`) and boot again.  Nothing is assumed of the
clock, of what HSM lists, or of hmnfd: notifications may never stop, which `AskedIsAnswered`
allows for. `KvBoot`: handlers run on, the mutex starves nobody.  `HsmSession`, `BootScript`
and `Migrations`: the goroutine or the process that has begun goes on; services that are down
need not come back, and nobody need ask anything.

No HTTP client of BSS has a timeout (`sm.go:210`, `scn.go:96`, `oauth.go:68`,
`join_token.go:74`), and `middleware.Timeout` (`routers.go:82`) answers for a handler without
ending it. `HsmSession` says what comes of it: a service may be silent for ever, and
`AttemptEnds` is stated for attempts that do not meet one again and again (`~[]<>Hangs`).
Elsewhere "each call is answered or fails" is an assumption about the services that the code
does not enforce: of the GETs to HSM in `HsmCache` (weak fairness of `Fetch`), the store in
`KvBoot`, the store and the token service in `BootScript`, and Postgres in `Migrations`.  A
lock is another matter.  A run of bss-init waits for it without a timeout when it makes the
driver; strong fairness of `LockDriver` stands for Postgres' queue of waiters, which is first
come, first served, and for each run that holds the lock there is a last file.  Where
golang-migrate takes it for a migration it gives up after a timeout (`LockTimeout`), so there
it need not become free.  Failures are never assumed to come or to stay away.

## 4. Theorems

TLAPS proves the following for every value of the constants that satisfies the `ASSUME`s of
the modules (types of the constants, and names that differ) and, where one is named, the
assumption of the theorem.  The instances of the runs satisfy them.

| Component | Theorem | Property | Assumed |
|---|---|---|---|
| `HsmCacheProofs` | `TypeCorrect`, `StampIsHonest`, `StalenessIsBounded`, `NoRegression` | `TypeOK`, `StampCovered`, `BoundedStaleness`, `DataNeverRegresses` | - |
| `KvBootProofs` | `TypeCorrect` | `TypeOK` | - |
| | `ReferencesExist` | `RefsExist` | `NoImageDelete` |
| `KvStoreProofs` | `ParamsKept`, `LookupsWhole` | `ImageParamsKept`, `ServedWhole` | `NoImageDelete` |
| | `SuccessHolds` | `SuccessIsComplete` | `LoneClient` |
| | `TableImplemented` | `ImplementsBootStore` | `LoneClient`, `NoFailures` |
| `SqlBootProofs` | `TypeCorrect` | `TypeOK` | - |
| | `NodesDistinct` | `NoDuplicateNodes` | `LoneAdder` |
| | `LinksWhole` | `LinksResolve` | `LoneWriter`, `ByName` |
| | `OthersKept` | `OthersUntouched` | `LoneWriter`, `ByName`, `NoZero` |
| | `TableImplemented`, `SuccessMeansDone` | `ImplementsNodeTable`, `OkMeansDone` | one client, NID 0 is no node's name |
| `CloudInitProofs` | `TypeCorrect`, `PhonesOwn`, `AccessFound`, `ServedMerged`, `PhoneHomeKeeps` | `TypeOK`, `PhoneIsOwn`, `AccessIsFound`, `ServedIsMerged`, `PhoneHomeOnlyPhone` | - |
| `HsmSessionProofs` | `TypeCorrect`, `StartSucceeds` | `TypeOK`, `StartsWhenReachable` | - |
| | `SubscriptionTrue` | `SubscriptionHeld` | no `LostAnswers` |
| | `NothingHollow` | `NeverHollow` | `LongTokens` |
| | `ReadsSubscribe` | `ReadSubscribes` | both |
| `BootScriptProofs` | `TypeCorrect`, `ServedAsConfigured` | `TypeOK`, `ParamsAsConfigured` | - |
| | `SignedRightly` | `SignedWhereNamed` | `Undisturbed`, no `ClientFails` |
| `MigrationsProofs` | `TypeCorrect`, `CleanIsBuilt`, `SuccessTarget`, `ForceOneBuilds`, `RowsKept`, `OneAtATime` | `TypeOK`, `CleanMeansBuilt`, `SuccessReachesTarget`, `ForceOneRebuilds`, `DataKept`, - | - |

The assumptions are mostly about what clients send, and they are needed: without each of
them TLC refutes the property on a small instance.  `NoImageDelete`: no request deletes an
image (`kv_dangling`; likewise a lookup loses an image between its reads - `ServedWhole` with
`kv_race` + `Nid = {d1}`, `Requests <- TableRequests`, `MaxFaults = 0` - and with three
clients the parameters of an image are lost that is deleted and stored again between
another's two accesses).  `LoneClient`: there is one client (the properties with the
constants of `kv_race`).  `NoFailures`: no access fails (`kv_table` + `MaxFaults = 1`).
`LoneAdder`: one client at most sends POSTs and PUTs (`sql_post_race`).  `LoneWriter`: a
client that deletes is alone, and one at most updates (`sql_delete_race` and
`sql_patch_race`, which refute `LinksResolve` too); others may add.  `ByName`: who deletes
names the nodes, because a DELETE by configuration takes the configs first (`sql_table`).
`NoZero`: nobody names NID 0 (the `ZeroRequests` above).  `TableImplemented` needs both of
its assumptions, too (`sql_post_race`, and with the `ZeroRequests` above), but nothing of
failures, and so does `SuccessMeansDone` (`sql_set_params` with two clients; and with NID 0 a
PUT of it leaves the node that was stored under it as it is).
`Undisturbed`: there is one handler, or one bucket (`script_bucket`).

The arguments, by component:

- `HsmCache`.  `StampCovered` is not inductive: the data is published by the last GET, so one
  must know that the data read so far covers the stamp that was set by the miss.  `IInv`
  adds that no recorded time is in the future (`ClockInv`: else a change could still come
  before a stamp), that only the mutex's holder fetches, under a stamp no older than its
  argument (`LockInv`), that what was read so far is no older than the cache and covers the
  stamp (`VersionInv`), and that without failures the stamp is that of the last good fetch
  (`FaultFreeInv`, for `BoundedStaleness`).
- `KvBoot`, types and references.  Types need that a handler's program counter agrees with
  its fields (`Coherent`: there is a name to read, an image to look for, a key to set).
  `RefsExist` needs in addition that what a handler *holds* resolves: its keys and its
  copies of records (`Knows` in `RefsInv`), because it writes them some steps later;
  `ImagesStay` shows that they go on resolving.  Both follow from a description of how
  any step moves a handler (`Moves`), proved action by action.
- `KvBoot`, the course of a request.  `Flow` says what a handler has at each of its steps:
  which keys it has and for which method, that Update has the record of each host or will
  read it, that a lookup holds at most one record.  `FlowInv` is inductive by `Leads`, which
  says where the helpers lead, and by `Entered`, which says what step comes before each inner
  one.  On it rest the others.  `MutexInv`: between `imageStore`'s look and its `Store` the
  handler holds `kvMutex` and the image is still not there, so nothing is overwritten
  (`ImageParamsKept`).  `ServedInv`: a lookup that went on to the initrd has the kernel its
  record names (`ServedWhole`).  `HeldIsStored`, `PutInv` and `DeleteInv`: a lone handler's
  copies are what is stored, and every name is stored, gone, or still to come; an error
  that was noted is never forgotten by the step that answers (`SuccessIsComplete`).
- `KvBoot` implements `BootStore`.  The mapping shows a record without its references to an
  image that is gone; that this is the state of a table needs that references are good but
  for those to the image being taken out, and that the sweep after it holds every
  record that has one (`LoneRefs`).  `Seen` is the table through the handler's eyes; each action is
  shown to be a step of the table on one name or image, or to leave `Seen` as it is.
- `SqlBoot`.  Types come with `Phased`, what a handler has planned by its phase.
  `NoDuplicateNodes` is extended to the names of rows that are yet to be inserted
  (`NamesInv`, `Waiting`).  `LinksResolve` is extended by what each statement relies on of
  the ones before it (`Facts`): the group that a handler aims at is whole or is one it
  makes itself, and is whole before a node is assigned; the nodes read to update are there; the
  groups to drop are empty.  `Tame` is what a statement that takes nothing away leaves
  of other handlers' facts.  `OthersUntouched` needs that the rows a handler reads, plans
  and writes are all of names it was asked for (`ScopeInv`), and that the ids of the groups
  that it makes are nobody else's (`Pending`).  A consequence is worth knowing: with such
  clients the two DELETEs of `Purge` never find anything to delete (`PurgeQuiet`), because
  every group that `Update` has read has a node to be changed in it.
- `SqlBoot` implements `NodeTable`.  A row is what the readers' joins make of a node, its name
  and its configuration (`Row`); if no two nodes have one name, what is served of a name is its
  row (`ConfIs`), so that each statement is judged by the rows it changes: none (`QuietRows`),
  one that appears (`AddRows`), those of the nodes that move from one group (`ChangeRows`),
  those that go (`RemoveRows`).  `Plot` says where a lone handler is by what it was asked, and
  `Rests` what it relies on in the tables: the configs and groups that it inserts have no node,
  the nodes that it moves are in the group it read them from, and their new group has what the
  request makes of the old one's config, and what it deletes after the first DELETE is read by
  nobody.  `Rests` says nothing of a handler that is done, which is why one may give up
  anywhere.
- `SqlBoot`, what a client is told.  `NodeTable` lets a request stop short; that "ok" means it
  did not is `OkMeansDone`.  Its strengthening (`ThoroughInv`) says of every row that awaits
  the request (`Awaits`: it is not as the request asks) that it is still ahead (`Left`): any
  row before the handler has read anything, then the rows of the names it will update, those it
  has read, those whose group it will read, those planned to move, those whose group has not
  been visited.  Each statement hands these rows on to the next list or makes them as asked; at
  "ok" nothing is ahead.  That what is owed is there needs two more: `GrantedInv`, that a name
  that `Add` takes has a row or one that is still to come, and that a POST that inserts does so
  for such a name; and `HalvesInv`, that as long as nothing failed a node that is there is in a
  group with a config, or between the statements that add or delete it.
- `CloudInit`.  `PhoneIsOwn` is extended to what handlers are about to write (`PhoneInv`),
  `AccessIsFound` to seconds that are taken but not stored (`AccessInv`).  `ServedIsMerged`
  and `PhoneHomeOnlyPhone` follow the course of a handler around which nothing else
  changes (`CourseInv`): what it has found so far is what the names that are behind it
  hold, those that are not ahead (`Ahead`) being absent; and with Postgres there are no
  records (`NoRecords`).  The additions to `CloudAssumption` (the keys `shasta-role` and
  `local-hostname` differ, `null` is no host) are what this showed to be needed.
- `HsmSession`.  `SubscriptionInv`: a PATCH is sent only if hmnfd knows the subscriber, unless
  it has forgotten.  `HollowInv`: as long as HSM does not refuse the read, what it has read
  so far is HSM's.  `ReachInv`: without an outage the services at start-up answer.
- `BootScript`.  What holds of each parameter is membership in a set that the steps of
  `buildParams` stay in (`Closed`): `Param` for the types, `SignedRight` for the signatures, so
  that each step is gone through once for both.  Types need that a handler between its use of
  `s3Client` and its URL is at a stage with a URL in S3 (`Signing`).  `SignInv` adds that the
  client has the bucket of a handler that is about to sign, and that a kernel that was signed
  is the configuration's.  `ParamsAsConfigured` follows the list from stage to stage
  (`Serving`): while it is built it is the configuration's with names of `Special` appended,
  each once and only where the configuration has none (`Grown`); the join token and the
  signatures change a value or its signature, never a name or a place; the cut takes away what
  is named `initrd`, which moves each later one down by one (`Shifted`), or shortens the one
  that has the word inside (`CutShort`), and the new one goes first.  What is in order, by name
  and by value, is said by a map between the places that are kept (`InOrder`), so that nothing
  is counted along the list.  The additions to `ScriptAssumption` (no bucket is called as one
  of the model's values is, and configurations hold no join tokens yet) are what this showed to
  be needed.
- `Migrations`.  A clean version has its tables only because a dirty one has those of the file
  before or after it, depending on how far the holder of the lock is (`Half` in `FileInv`), and
  because the version cannot change under the holder (`LockInv`, which has the run that makes
  the driver as a holder, too).  That the files fit each other, so that going up and down
  through one comes back to the same tables, is the lemma `FileSteps`.  A run that is alone
  (`LoneInv`) in addition is on the course from the version it saw to the one it was told
  (`Course`, `Errand`), and after forcing step 1 builds table after table (`Rebuild`).

Only model-checked: liveness (TLAPS has no ENABLED), which is `AskedIsAnswered`,
`SeenNotificationIsFetched`, `RequestsEnd`, `AttemptEnds`, `EveryoneAnswered` and
`RunsEnd`.  Every safety property that a passing run checks is a theorem.

## 5. Not modelled

- Service status (`serviceAPI.go`): it reads and reports.  Its one write is etcdTest's
  key `/bss/etcdTest`, which all checks share, so two at a time may read each other's value
  and report an error; nothing else reads the key or the report.
- Boot groups that BSS does not make itself, with `addBootConfigByGroup` and
  `deleteBootConfigByGroup`: no request makes one.
- The list form of `GET /bootparameters`, `DumpState`, `HostsGet`: they read one collection
  after another and answer it.
- `CreateOAuthClient` and `PerformTokenGrant`, which nothing calls; JWT parsing and validation, a
  library's; flags, environment variables, routes, logging, HTTP and TLS.
- Reading HSM's state from `mem:` or `file:`, which is for tests.
- Nested maps of cloud-init data, the `key` query, and random instance ids.
- Several instances of BSS on one KV store (`DistTimedLock`): one instance is modelled,
  and the others are in `HsmCache` only as notifications that come through the store.

What could be added: the liveness properties as theorems, with a prover that has `ENABLED`, and
what a failed access may leave in the KV store, as a weaker table than `BootStore`.
