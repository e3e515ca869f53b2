# A TLA+ model of the multi-upstream AI gateway's control plane

The repository is the control plane of an AI gateway: it keeps a registry of
upstream sites ("channels"), accounts and Keys in PostgreSQL, collects balances,
groups, Keys, prices and models from the sites, imports and provisions Keys, and
follows the backups of a browser extension. What is hard in it is not the data
but the coordination: several processes, one database, foreign sites that limit
rates, rotate tokens and ban those who ignore it. This directory models that
coordination.

## 1. The system

### Processes and what they share

| process | runs | state in memory | shared state |
|---|---|---|---|
| `sla-core` (any number of instances) | the HTTP admin API, the background Key import queue, the hub sync loop | the queue and its batches, the manual sync guard, confirmation tokens, the configuration snapshot, a connection pool | PostgreSQL: registry, credentials, catalog, configuration, host rate limits, advisory locks |
| `collector` (or `sla-core` with `-collector`) | the periodic collection loop | the schedule, a connection pool | the same |
| `migrate`, `registry-dump` | one-shot commands | nothing | the same |

Processes never call each other. They meet in rows, in transactions, and above
all in **advisory locks**: `key-automation` (one Key batch or provisioning in the
whole system), `sync:<channel>` (one reader of a channel), the refresh lock of a
credential, `hub-sync`, and the migration lock. All but the refresh lock are bound
to a database *session*, so whoever holds one also holds a connection of a
bounded pool; the refresh lock is bound to a transaction.

### Components

| component | state | operations | what is hard | what makes it correct | modules |
|---|---|---|---|---|---|
| Key import queue (`admin/key_import_queue.go`, `key_automation.go`) | batches, history, running slot, per-site budget, retry queue | begin, take, sleep, run, retry, record, finish, poll | several instances, shutdown in any step, retries against budget, lock given back after finish | one automation in the system; accounts never lost; budget kept; batches end; lock freed | `KeyImportQueue`, `KeyImportLedger` |
| Collection schedule (`collection/service.go`) | per (channel, capability): next instant, failures | Due, Mark\*, Prune, NextDelay, RunOnce, Run | outcomes applied at the end of a round with older instants, jitter, floors imposed by upstreams, enabling and disabling | never early, never asleep past an entry, nobody starves | `CollectorSchedule` |
| Channel sessions (`service.go`, `upstream_api.go`, `runner.go`, `pool.go`, `host_rate_limit.go`) | channel locks, sync guard, pool | lock, load credentials, renew, reserve a slot, fetch, save, unlock, answer | three kinds of sessions and other processes, timeouts, dropped clients, crashes, holding connections while waiting for more | one session per channel; minimum interval kept; no permanent standstill | `ChannelSessions` |
| Credential refresh (`collector/auth.go`, `store/credentials.go`) | rows of tokens, refresh lock keys | check, lock, reload, renew, save for every row of a key | refresh tokens rotate: a second renewal voids the first; a renewal can be lost between the upstream and the commit | invariant S-1: decide, renew and persist under one lock | `CredentialRefresh` |
| Sync and sink (`collector/sync.go`, `store/sink.go`, `upstream_write.go`) | snapshots, groups, catalog rounds | authenticate, then the capabilities in a fixed order, each saved on its own | some accounts rejected or failing, a process that dies half-way, rounds that do not count | nothing is called delisted or complete that is not | `CatalogRounds` |
| Catalog of models (`store/model_catalog.go`) | none; queries over rows | filter, facets, list, pages, details | counts and lists come from different queries | what a facet announces is what the list shows | `ModelCatalog`, `CatalogBrowser` |
| Runner and registry of Keys (`collection/runner.go`, `admin/key_automation.go`, `store/key_crud.go`) | rows of Keys, remote Keys, batch budgets | import a list, create a remote Key and register it, register and delete by hand | partial failure between the upstream and the database; an index of known Keys that gets old | no second created Key in a group, orphans bounded, counts that can be believed | `KeyRegistry` |
| Cookie access (`collection/cookie_access.go`, `cookie_identity.go`, `store/cookie_credentials.go`) | Cookie, state, revision, account's user | ask who it is, confirm or bind, read, mark | replaced, switched off or moved while a request is under way | an answer marks, binds and reads only the Cookie it was given for | `CookieAccess` |
| Hub sync and import (`admin/hubsync.go`, `import_api.go`, `import_cookie.go`, `store/hubsync.go`) | channels and their origin, configuration, runs, flag, lock | tick, run, import one item, repair, disable, record, upload | two replicas, an upload under no lock, stops, a lost lock session, a mode changed during a run | an item is all or nothing; only absence disables; the record does not lie | `HubImport` |
| Migrations, bootstrap (`store/migrate.go`, `credential_migration.go`, `bootstrap/`) | ledger of files, plain and encrypted credentials | elect, apply file by file, encrypt, seed | processes of different builds that start, stop and crash together | each up process has its schema; no credential is lost | `Migrations` |
| Configuration (`admin/config_api.go`, `confirm.go`, `store/config_write.go`, `cmd/sla-core/main.go`) | versions of keys, tokens, snapshots | preview, confirm, apply, rebuild | changes that overlap or are delivered again; rebuilds that overlap | a chain of versions, each applied once, critical ones confirmed | `ConfigVersions` |
| Upstream protocols, encryption, reports, web | none | parse, build, seal, list | - | unit tests' ground | none |

`PROJECT.json` lists every component with its sources and status, and every
hazard with its line and the properties that watch it.

## 2. The modules

| module | models |
|---|---|
| `KeyImportQueue`, `MCKeyImportQueue`, `KeyImportQueueProofs` | the import queue of several instances, the automation lock, provisioning as the other user of it; its instance for TLC; its proofs |
| `KeyImportLedger` | what the queue promises its client: a batch's accounts are partitioned into done, pending and deferred, and a finished batch does not change. `KeyImportQueue` implements it: `Polled` maps its job records to the ledger, and the refinement is proved |
| `CollectorSchedule` with `MC…`, `…Proofs` | the schedule and the rounds of the periodic collector |
| `ChannelSessions` with `MC…`, `…Proofs` | the sessions that work on a channel, the guard of manual syncs, the connection pool |
| `CredentialRefresh` with `MC…`, `…Proofs` | the renewal of tokens under the refresh lock |
| `CatalogRounds` | one channel's syncs and what the registry concludes from them |
| `ModelCatalog` | the queries of the catalog, as operators on rows |
| `CatalogBrowser`, `MCCatalogBrowser`, `CatalogRoundsProofs` | `CatalogRounds` and `ModelCatalog` together: what the catalog lists of what the syncs left; the proofs about all three |
| `KeyRegistry`, `MCKeyRegistry` | an importer, a provisioner and people on the Keys of the same accounts |
| `CookieAccess` with `MC…`, `…Proofs` | a reader with a Cookie and the changes of the stored one |
| `HubImport`, `MCHubImport` | synchronisations of replicas, uploads, and edits of channels |
| `RegistryProofs` | the proofs about `KeyRegistry` and `HubImport`; where both have a definition of a kind, that of `HubImport` has `Hub` in its name |
| `Migrations` | the start of a process on the database |
| `ConfigVersions` with `MC…`, `…Proofs` | `Migrations`, seeds, and the configuration of the processes that are up |

How they compose: `ConfigVersions` extends `Migrations`, so a process that
changes the configuration is one that started in the model. `CatalogBrowser`
extends `CatalogRounds` and `ModelCatalog`. `CatalogRounds`, `CookieAccess` and
the importer of `KeyRegistry` run inside a session of `ChannelSessions`, from
which they take that one of them at a time works on a channel. Provisioning is in no
such session: it takes the automation lock only, and `KeyRegistry` and `CatalogRounds`
have it next to the others. The batch of
`KeyImportQueue` is the caller of that importer, and its lock is why `KeyRegistry`
has one provisioner.

Operators named "Mutant:" in a comment are wrong variants of the definition
that follows. `PROJECT.json` pairs them with the property each one breaks.

### KeyImportQueue

Per instance: `jobs`, `order`, `nextID`, `running` are the fields of
`keyImportQueue`; `workers[i][j]` holds the local variables of the goroutine
that `importKeys` starts for batch `j`: its queue, the task in its hand, the
budget map, and a step counter between the statements where another goroutine
can be seen (lock, loop, sleep, wake, run, settle, unlock). `holders` is the set
of database sessions that own the `key-automation` lock; it is a *set* so that
two owners can be expressed and refuted. One action per statement group:
`Begin` is `begin` with its trim loop; `TakeLock`, `LockBusy`, `LockError` are
the three results of `keyImportAcquireLock`; `TakeTask`, `SleepOver`,
`SleepCanceled`, `Wake`, `RunTask`, `SettleCanceled`, `SettleRetry`,
`SettleRecord`, `QueueEmpty` are `runKeyImportJob`; `Unlock` is the deferred
unlock, after `finish` has already freed the running slot. What an import does
upstream is a member of `Outcomes`. Instants are abstracted to whether a task's
`notBefore` is unset, ahead or past. `EntryOf` is what a poll of a job shows, and
`Polled` all that can be polled: the ledger of the refinement.

### CollectorSchedule

`states` is `Schedule.states`; instants are relative (ticks left, ticks passed)
and a `Tick` moves them all. `tasks` is the round: a channel is queued, at the
lock, in `Sync`, or has an outcome whose `completedAt` ages until the whole round
ends (`RoundEnds` applies all outcomes at once, as `RunOnce` does). Jitter is any
integer up to a fifth of the delay, either way. `hold` is a history variable: how
long the upstream has to be left alone, by the period after a success and by
`Retry-After` or the five minutes of a 401/403/429 after a failure. It is
independent of what the program remembers, and is cleared only where the program
forgets on purpose (a pruned channel, a restart).

### ChannelSessions

`Held` gives the connections a session holds at each step, read off the calls of
`Pool.Acquire` and their releases: the lock's connection for the whole session, a
second one while credentials are loaded or renewed or results saved, a third one
while `HostRequestLimiter.Wait` reserves a slot inside either. A step that waits
for a connection is followed by the step that has it (`Granted`). `Connections` is the
set of those that are held, `InUse` its size. Workers,
manual syncs and Key imports differ in how they start (`WorkerTakes`,
`ManualStart` with the guard, `ImportStart`), in whether they load credentials
under the lock, and in how they end (`Release` starts the interval of a manual
sync that is answered as having reached the upstream). `Timeout` is the deadline
of the session or its client going away, at any step of the work. Connections
that are held outside a session - the automation lock of a batch, other admin
requests - are not counted: `PoolSize` is what is left for the sessions.

### CredentialRefresh

A token stands for an access token and the refresh token issued with it; tokens
never come back. `row` is the committed table, `cred[s]` what a session has read,
so that the read of `ListByChannel` (`Load`), the check before the lock
(`CheckFresh`, `CheckDue`), the read under the lock (`Reload`, `FOR UPDATE`) and
the second check (`NothingToDo`, `Decide`) are distinct. `Answer` is the upstream:
it issues a token and, as a rule, stops accepting the old one. `Commit` writes every
row with the key. `Abort` is any failure from the lock on, a dead process
included; `stale` remembers the rows whose token such a failure lost, or a person
saved void. `HandSave` waits for the row locks of `SELECT … FOR UPDATE` only: it
takes no refresh lock, which is the interesting part.

### CatalogRounds, ModelCatalog, CatalogBrowser

A sync goes through `Order`; `pc` is the capability it is at. `full` and `bare`
are the accounts that answered with and without models, `listed` those the sync was
given, `authed` those that passed `authenticate`. `SyncCatalog` stamps the models
with the channel's round, which moves only if the collection was reliable
(`PresenceReliable`), and `Stale` is what the catalog derives. `GroupAfter` is the
replace-or-extend of `upsertGroups`. `Provision` is the other writer of the list:
`Runner.ProvisionKeys` saves what one account is shown, under the automation lock and
not the channel's, so at any moment of a sync. Each capability may also fail to be saved, and
`End` may come at any step. `gone` is a history variable: how many collections to
which every account contributed did not have a model.

`ModelCatalog` has `catalogWhere`, the facets, the ordered and paged list and its
details as operators on rows. `Precedes` is the `ORDER BY` by the number of channels
(the orders by name and by price are left out); a row may be without a vendor. The
statements of a request run on one state, while in the code they are separate and a sync
may commit between two of them. `Listing` puts each model
at the place that the number of those before it gives. `CatalogBrowser` evaluates them on the rows of the
synced channel and those of another one.

### KeyRegistry

`remote` is the upstream, `rows` the table, `known` the index `KeyRefIndex` read
once at the start of a list. The loop of `importFetchedKeys` is one action per
result of a Key (`KeyFails`, `KeyUpdated`, `KeyRegistered`, `KeyRefused`,
`OutOfBudget`, `TooManyRequests`), shared by both parties. The provisioner then goes
on to `Discovered`, `CreateRemoteKey`, `Verified`, `Created`, `AccountDone`;
an error anywhere is `BatchEnds`, which is also the crash. An answer of the upstream
that is lost leaves a Key behind like a failure of the registration does.
`dropped` remembers rows deleted by hand, so that an orphan is a Key the *program*
lost.

### CookieAccess

`row` is the stored Cookie with its state and revision. `Send` loads it after the
wait for a slot, as the code does; `cred` is what was sent, `mark` what is about to
be written, so that a save, a switch, a clear, another user, status or site fits
between any two. `Current` is the `WHERE` of `MarkState`; `Confirm` and
`BindIdentity` are the two branches of `confirmIdentity`; `Invalidated` and
`SetSite` are the triggers of migration 033. `proven` and `refused` are histories
of the site's answers.

### HubImport

A synchronisation is a record `run[r]`: loading the configuration, fetching,
importing, recording. `Look` is the reads of an item's transaction, `Commit` its
writes, `ItemFails` its rollback; only an item with a Cookie locks the channel's row
between the two (`Locks`), which everybody who writes that row waits for
(`Free`). `Missing` is `incompleteParts`; `CreatedWhole`, `Adopted`, `Repaired` the three
outcomes. `HubRemoved` is the `WHERE` of `DisableHubRemovedChannels`. `Drop` ends
the session that owns the lock, which the run does not notice.

### Migrations, ConfigVersions

`proc[p]` is a process: its phase, its build, and the list of applied files it read
under the lock. `Migrate` is one file's transaction; that of 035 encrypts first
(`Encrypted`) and rolls back with it. `Stop` is every way to end, `ReadOnly` a
process started with `-read-only`. Once up, `Begin`, `CheckIdempotency`,
`SelectCurrent`, `Insert`, `LoadAgain`, `StoreSnapshot` are the statements of
`applyConfig`, `ApplyConfig` and `rebuild` between which another request can come.
`SelectCurrent` is the row that the query picked *before* it waited for its lock;
that is why the two `UNIQUE` constraints are needed and modelled.

## 3. What the runs check

| run | instance | states | question |
|---|---|---|---|
| `key_import_queue` | two instances, three accounts on two sites, one of them disabled, budget 1, three attempts, two batches (one on the second instance), one restart | 69,196 | one automation, accounting, budget, retry rounds, refinement of the ledger, batches end, the lock is freed |
| `collector_rounds` | two channels, one worker, one capability of period 6, floors of 5, 6 and 7, one restart | 261,776 | never early, never oversleeping, nobody starves |
| `channel_sessions` | two channels, a worker, two manual syncs, an import, three connections, a crash, other processes | 997,992 | one session per channel, the interval kept, a standstill needs a crowd |
| `session_ends` | two channels, a worker, a manual sync, three connections | 16,384 | every session ends |
| `credential_refresh` | two rows of one upstream account, two sessions, three tokens, one save by hand | 53,194 | S-1, nothing is voided by another renewal, what is presented is current |
| `catalog_rounds` | two accounts, two models, three rounds of the catalog, a second channel, six filters, pages of one | 726,400 | delisting, completeness, lists of groups, facets against lists |
| `key_registry` | two accounts, two groups, two Keys, budgets of two, two batches | 1,488,801 | one created Key in a group, one orphan, imports that report nothing wrong |
| `cookie_access` | Cookies of two users, one of them unreadable, two headers, two sites, four revisions | 1,149,948 | an answer is about the Cookie it was given for |
| `hub_import` | two replicas, an upload, two sites with an account each, one outside event of any kind | 977,032 | channels whole, disabled only when absent, history true |
| `config_versions` | two processes of two builds, one key, critical or not, two overlapping requests, one credential | 298,632 | schema, credentials, chain, once, confirmed |
| `config_snapshot` (refuted) | the same | - | a change makes the new value effective, as a comment says |
| `manual_window` (refuted) | one channel, a worker, a manual sync | - | a manual sync that reached the upstream starts the interval, as comments say |

### The properties

**Queue.** `OneAutomation`: one owner of the automation lock, and only an owner runs
accounts. `BatchAccounted`: done, pending and deferred add up to the total at
every moment a client may poll, cancellation in hand included. `SiteBudget`: no
site is read more often in a batch than the limit, over all accounts and
retries. `RetryRounds`: a retry never overtakes an account that had fewer
attempts. `ImplementsLedger`: the queue refines `KeyImportLedger`, by the
mapping of its job records. `BatchEnds`, `LockFreed`: liveness.

**Schedule.** `AskedOnlyWhenDue` compares what is asked for with `hold`.
`NoOversleep`: the timer of `Run` never passes an entry by more than the idle
delay. `EveryCapabilityServed`: liveness for every enabled channel.

**Sessions.** `ChannelExclusive`: whoever works on a channel owns its lock.
`IntervalKept`: no manual sync is in flight while the interval of its channel runs,
although the interval starts *after* the lock was given back. `StallNeedsCrowd`: all
connections are held by sessions that wait for more only if at least half as many
sessions as connections are inside. `SessionEnds`: even then the deadlines dissolve
it.

**Credentials.** `OneRenewalPerAccount` is invariant S-1 of the code: of the
sessions of one upstream account one at a time is between the read under the lock
and the commit. `RowsRenewable`: a row whose refresh token the upstream no longer
accepts lost it before a commit or was saved that way by a person - never because
another session renewed. `PresentsCurrent`: what a session presents is what the row
holds at that moment.

**Catalog.** `NeverWronglyDelisted`: a model is called delisted only after
`MissingRounds` collections to which every account contributed and none of which
had it. `OkIsComplete`: a catalog item that ends "ok" leaves each account's models,
stamped with this round. `GroupShrinksKnowingly`: a group loses a model only by a
sync to which every account answered without it, or by a provisioning whose account
answered with other models; an account that failed or left the models out takes nothing
away. `FacetsAnnounceTotals`: choosing a
value of a facet gives a list with as many models as the facet announced, each of
them once, page by page.

**Keys.** `OneAutoKeyPerGroup`: the gateway never has two Keys of its own in one
group of an account. `AtMostOneOrphan`: an account never has two created Keys that
are not registered, since an orphan stops the next creation. `CleanMeansRegistered`:
an import that reports nothing failed or deferred has registered its list, and
nothing is created in an account with an orphan.

**Cookies.** `ReadyIsProven`: a stored Cookie is "ready" only if the site confirmed
it for the user the account has now. `ExpiredIsRefused`: it is "expired" only if the
site refused that very Cookie. `DataIsOwn`: Keys and prices are read only with a
Cookie confirmed to be the account's. `BindsOwner`: an account is bound only to the
user of the Cookie it has at that moment.

**Hub.** `OnlyAbsenceDisables`: a synchronisation disables a channel only if it came
from a backup and the whole backup of that run does not list its site; it never
touches one disabled by hand. `RecordTellsTruth`: a row of the history that says
nothing was applied is right, even if the mode changed during the run. `OneRun`: two
synchronisations overlap only if a lock's session was lost. `OneRowPerCookieAccount`:
overlapping imports give an account with a Cookie one row. `HubIsCollectable`: a
channel that follows the backup has its detection snapshot and an account.

**Configuration and start.** `UpIsMigrated`: a process that serves found or made
every file of its own build. `SecretsSurvive`: no credential is lost between plain
and encrypted columns. `VersionsChain`: what a version says it replaced is what the
version before it held. `AppliedOnce`: a repeated delivery takes effect once.
`CriticalIsConfirmed`: each version of a critical key was previewed as that value, on
the version it replaced, with a token nobody else used.

The type invariant is checked by two runs and proved for every module (section 4).

### The refuted comments

1. `manual_window`. A manual sync whose only request was the failed detection of
   `quota_per_unit` (`runner_credentials.go:33`) is wrapped as a precondition
   (`runner.go:41`) and does not start the interval, against
   `upstream_api.go:353` and `:480`.
2. `config_snapshot`. Two changes whose rebuilds overlap: the first loads, the
   second is written, rebuilt and stored, the first stores what it had loaded
   (`main.go:140`). The process goes on with the older value until the next change or
   a restart, against `main.go:119`.

### Other places where text and code part

Seen while modelling; the models follow the code.

* Accounts a batch did not reach get no item, only a count
  (`key_import_queue.go:133` against `:278`).
* The queue waits for its head although a task behind it is due (`:293` against
  `:309`).
* A worker peaks at three connections, not two (`runner_credentials.go:33` against
  `service.go:77`); with four workers the default of twelve is exactly used up.
* `Prune` says a channel that is enabled again runs immediately; that is so only if a
  round lay between, otherwise its waits are kept (`service.go:181`).
* Provisioning replaces a group's list by what its one account is shown
  (`runner.go:169`): `SaveGroups` is given no mark that other accounts were not asked.
  The rule at `upstream_write.go:101`, that the answer of some accounts must not delete
  what it does not contain, is kept by syncs only. A model that only another account is
  shown is missing from the group, and from what its Keys are said to reach, until the
  next sync of the groups.
* The catalog's total is 0 on a page past the end, since it is read off the page's
  rows (`model_catalog.go:126` and after).

### A limit of two properties

`NeverWronglyDelisted` and `OkIsComplete` hold for `EmptyIsError = TRUE`, the rule of
New API: an answer without models is an error. Under Sub2API's rule an answer that
leaves the models out counts as an account that was reached, and with
`EmptyIsError = FALSE` TLC finds `NeverWronglyDelisted` violated. `CatalogRounds` has
the rule as a constant; the runs and the two theorems are about the first value.

### Bounds and why they are enough

* Queue: two accounts of one site are what budget sharing and retry order need;
  three attempts is the code's own limit; a second instance with one batch is
  what contention for the lock needs; one restart forgets everything there is to
  forget. `MaxJobs`, `JobBound`, `MaxRestarts` only stop behaviours that repeat.
* Schedule: two channels with one worker is the smallest round with an outcome
  that ages; a period of 6, a base of 5 (so that a jitter of one tick exists),
  floors of 6 and 7 put each of period, backoff and floor first at some time.
  `FailureCap` 1 stands for 63: base and maximum are equal here, so that more
  failures do not lengthen a delay; the proof has any cap, base and maximum.
* Sessions: three connections are the fewest that two sessions can bring to a
  halt; two manual syncs on a channel are what the guard separates; an interval
  of one tick is running or over. `MaxCrashes` is a bound.
* Credentials: two rows of one account are what "all rows of the key" is about; two
  sessions are what the lock separates; three tokens allow two rotations.
* Catalog: one account's absence and the whole channel's differ with two; three
  rounds let a model be missing, back, and missing for `MissingRounds` = 2; the second
  channel sells one model in another unit, so that counts of models and of rows differ.
* Keys: two Keys of a group are a duplicate and two unregistered ones two orphans;
  a second batch meets what the first one left. The import's budget of one is used up
  by the first of two Keys.
* Cookies: a Cookie of another user, and one from which no user can be read; a second
  header and a second site are what detection and moving need; four revisions are
  three changes during one request.
* Hub: two replicas for the lock, an upload that takes none; one account with a Cookie
  (which locks its channel's row) and one without; `MaxEvents` allows one
  outside event (an edit, a changed mode, a lost session), of any kind and at any
  moment, in a behaviour.
* Configuration: two processes and two requests are the smallest overlap; two
  previews, two applies and one stop are bounds. The builds differ in an early file,
  so that one of them finds a changed file.

Deadlock is checked in the runs of the first three modules. The others state safety only
and their bounded counters stop, so `CHECK_DEADLOCK` is off there. Symmetry is used only in
runs without liveness.

### Fairness

* Queue: weak fairness of each goroutine step and of time and of upstream
  answers (every wait in the code has a timeout), none of requests, shutdown or
  restart.
* Schedule: weak fairness of time, of waking, of the end of a round and of each
  task (`TryLock` returns and `Sync` has a deadline of two minutes), strong
  fairness of `List`: the database answers now and then.
* Sessions: weak fairness of the lock query, of the deadline, of the deferred
  calls; strong fairness of `Connect`, because pgxpool serves waiters in the
  order they came. No fairness of any upstream: `SessionEnds` rests on deadlines
  alone.
* The other modules assume none: what they promise is safety.

## 4. What is proved

The eight proof modules hold for **all** values of the constants that satisfy the
named assumptions (`QueueAssumption`, `ScheduleAssumption`, `SessionsAssumption`,
`RefreshAssumption`, `CatalogAssumption`, `RegistryAssumption`, `CookieAssumption`,
`HubAssumption`, `BrowserAssumption`, `MigrationAssumption`, `ConfigAssumption`, and
`NoneAssumption` and `NothingAssumption` where a value has to differ from a record),
which TLC also evaluates. Every safety property that a passing run checks is a theorem.
Each module proves an inductive invariant (`IInv`; `HubInv` for `HubImport`), sometimes
a second one on top of the first (`BatchInv`, `Counted`, `PoolKept`), and derives the
properties from them:

| theorem | property | argument |
|---|---|---|
| `KeyImportQueueProofs!TypeCorrect` | `TypeOK` | each action preserves each variable's type |
| `…!MutualExclusion` | `OneAutomation` | a session is in `holders` exactly while its goroutine is between taking and giving back the lock; taking needs `holders = {}` |
| `…!BudgetKeptPerSite` | `SiteBudget` | what was spent and what is left of a site's budget add up to the limit and the rest never goes below zero |
| `…!EveryAccountCounted` | `BatchAccounted` | for each step of a batch's goroutine, what the queue and the hand hold and what is counted in the job add up to the total (`Pairs`), and only the batch the queue names is running (`Slots`) |
| `…!RetriesInRounds` | `RetryRounds` | in the same invariant: the task in the hand and the queue behind it are ordered by attempts, the last at most one above the first (`InRounds`) |
| `…!LedgerImplemented` | `ImplementsLedger` | below |
| `CollectorScheduleProofs!TypeCorrect` | `TypeOK` | includes that a delay stays a natural number under any jitter |
| `…!NeverEarly` | `AskedOnlyWhenDue` | `hold` is covered by the entry's wait while a capability is not in the round, is zero while it is asked for, and is covered by the outcome less its age until the round ends |
| `…!NeverLate` | `NoOversleep` | the pause is the least wait of all entries, and both count down together |
| `ChannelSessionsProofs!TypeCorrect` | `TypeOK` | most steps move one step counter only (`WorkMoves`) |
| `…!OneSessionPerChannel` | `ChannelExclusive` | entering the work takes a free lock, and no step moves into it otherwise |
| `…!IntervalsKept` | `IntervalKept` | one manual sync per channel in flight (`OneManual`), so the one that ends and starts the interval is alone |
| `…!StallsNeedCrowds` | `StallNeedsCrowd` | who holds a connection and waits for one holds two at most, so that the connections fit into the crowd twice |
| `…!PoolNeverOverdrawn` | | `InUse` never exceeds `PoolSize`: only `Connect` takes one, and only if one is free |
| `…!RoomyPoolNeverStalls` | | more than two connections for each session, three being the peak, are enough for no standstill ever |
| `CredentialRefreshProofs!TypeCorrect` | `TypeOK` | |
| `…!OneRenewal` | `OneRenewalPerAccount` | a session between reload and commit owns its key's lock (`SessionsHold`, `LockOwned`) |
| `…!StaysRenewable` | `RowsRenewable` | a token belongs to one renewal until it is committed or lost (`TokensOwn`) |
| `…!CurrentPresented` | `PresentsCurrent` | only the lock's owner writes a renewed row, and a save by hand waits for the row |
| `CatalogRoundsProofs!TypeCorrect` | `TypeOK` | with `Resting`: what a sync that is over leaves |
| `…!NoFalseDelisting` | `NeverWronglyDelisted` | a model is gone for as many rounds as its row is behind (`Behind`) |
| `…!OkComplete` | `OkIsComplete` | |
| `…!ShrinksKnowingly` | `GroupShrinksKnowingly` | of all steps only the two writers of the list can shorten it, and a sync that is done with the groups is not at them (`GroupsDone`) |
| `…!FacetsTrue` | `FacetsAnnounceTotals` | true of any rows: see below |
| `RegistryProofs!TypeCorrect` | `TypeOK` | no budget goes below zero |
| `…!OneAutoKey` | `OneAutoKeyPerGroup` | a group that a batch found without a Key stays without until it creates one (`MissingFree`) |
| `…!OneOrphan` | `AtMostOneOrphan` | an account with an orphan is seen and left (`OrphansSeen`) |
| `…!CleanImport` | `CleanMeansRegistered` | what the import has passed is registered, counted as failed or deferred, or was deleted by hand (`ImportCovers`) |
| `…!HubTypeCorrect` | `HubTypeOK` | the rows of an account and those about to add one are no more than the parties (`AddsBounded`) |
| `…!HistoryTrue` | `RecordTellsTruth` | a run writes from its first item on, a dry run never, and one that failed did so before any item (`RunShape`) |
| `…!RunsExclude` | `OneRun` | whoever holds the lock runs, and every other run is one of a lost session (`LockHeld`) |
| `…!OneCookieRow` | `OneRowPerCookieAccount` | what an item has read still holds when it writes, because it locked the channel (`ItemKnows`) |
| `…!HubCollectable` | `HubIsCollectable` | the same, without the lock: of what is there nothing goes away (`ItemKnows`, `RowsHaveChannel`) |
| `…!AbsenceDisables` | `OnlyAbsenceDisables` | from the types and the shape of a run alone |
| `CookieAccessProofs!TypeCorrect` | `TypeOK` | |
| `…!ReadyProven`, `…!DataOwn`, `…!BoundToOwner` | `ReadyIsProven`, `DataIsOwn`, `BindsOwner` | a Cookie of the stored revision is the stored one (`HeldIsStored`); what a session knows of it the site said (`KnownIsProven`, `ConfirmedIsProven`) |
| `…!ExpiredRefused` | `ExpiredIsRefused` | a reader of an unknown revision has every header before it, behind it or refused (`TriesAll`); what it is about to mark was refused if it is still stored (`MarkIsRefused`) |
| `ConfigVersionsProofs!TypeCorrect` | `TypeOK` | each version but the first took an apply, and each waiting request still has its own (`Counted`); nobody saw a version that is not there (`SeenIsWritten`) |
| `ConfigVersionsProofs!ServesItsSchema` | `UpIsMigrated` | who migrates owns the lock and knows the ledger as it is (`Phases`); recorded files never change |
| `…!NoSecretLost` | `SecretsSurvive` | inductive as it stands |
| `…!HistoryIsAChain` | `VersionsChain` | the row that was picked exists (`PickedRow`), and the constraint lets only the last one be followed |
| `…!EffectOnce` | `AppliedOnce` | the constraint, and not the check before it |
| `…!ConfirmedFirst` | `CriticalIsConfirmed` | a token is held by one process, one request or one version (`TokensOnce`) |

The invariants are stronger than the properties: the properties say nothing of
sessions that are between two protected places, and a step out of such a place
would break them. `NoFalseDelisting` and `OkComplete` have `EmptyIsError` as a
hypothesis.

**The refinement.** `LedgerImplemented` goes action by action: `Begin` opens a batch in
the ledger (its trim loop takes finished ones away), `SettleRecord` is a result, the
three ends of a batch close it, `Restart` forgets all, and every other action leaves
`Polled` as it was. `BatchInv` is what a result needs: that there is a pending account
left to count.

**The list of the catalog.** `FacetsTrue` needs no invariant of the syncs, since it is
about what any rows are shown as. `Precedes` is a strict total order, so that the number
of models before a model is its place and every place is taken (`Places`, `Listed`);
the pages cut the list without gap or overlap (`PageIs`, `EntriesAre`); the condition of
a facet's value is the condition its choice adds (`ChosenRows`). That counts decrease and
names break ties is thus what makes pages disjoint, as a comment of the code says.

**The pool.** `RoomyPoolNeverStalls` is sharper than the constant expression of
`service.go:81`, which also accepts exactly two connections for each worker: with as
many, workers that all hold two and wait for a third stand still until a deadline. The
twelve of `pool.go:73` are enough for four workers and one more session, as long as
others leave them eleven.

**Only model-checked.** `BatchEnds`, `LockFreed`, `EveryCapabilityServed` and
`SessionEnds`: liveness under fairness needs `ENABLED`, which is out of the prover's
reach. `WindowArmed` and `SnapshotFollows`, which are false.

## 5. Plan

1. The loss of a database session in the middle of a channel session, which takes
   its advisory lock away, as `HubImport` has it for the hub's lock.
2. The slots of the host rate limit with a wait that is canceled after it
   reserved one.
3. Amounts: what the three ways to the unit of a channel's quota make of each
   other's results (`SaveDetected`).
4. Proofs: the safety halves of the liveness properties - that a goroutine which has
   to go on always has an enabled step, stated without `ENABLED`.

Twelve runs is the size at which the whole set is still rerun on each change.

## 6. What is not modelled, and why

* Parsing of upstream answers, request building, encryption, UUIDs, the web
  console, reports and the generated parameter registry are stateless: tests reach
  them. The models take any answer an upstream may give.
* SQL is modelled by what its statements do to the rows that matter; queries that
  only report (coverage of models, collectability) are left out.
* Dry runs of provisioning and imports, labels and names, deletion of channels and
  accounts, and the trimming of histories change nothing that a property is about.
* The reserved instants of the host rate limit are one SQL statement; only the
  connection that a reservation needs is modelled.
* Amounts - balances, prices, quotas - are data: no two actors read and write them.
* `docs/`, `web/`, `deploy/`, `verify/` and the CI configuration carry no program
  logic of their own.

The notes of the hazards in `PROJECT.json` say why a hazard has no property yet.

## 7. Running it

    tlc -config KeyImportQueue.cfg MCKeyImportQueue
    tlc -config CollectorSchedule.cfg MCCollectorSchedule
    tlc -config ChannelSessions.cfg MCChannelSessions
    tlc -config config_versions.cfg MCConfigVersions
    tlapm KeyImportQueueProofs.tla
    tlapm ConfigVersionsProofs.tla

and likewise for the other configurations and proof modules.
