# A TLA+ model of open-ip-lookup

open-ip-lookup answers questions about IP addresses from some twenty public
data sources. It downloads the sources itself, keeps them fresh for months
without supervision, reloads its in-memory dataset while it serves requests,
and stores shared queries in SQLite. What can go wrong lives where time,
failures, the disk and restarts meet, and the modules here are about that.

Paths below are relative to `src/`.

## 1. Inventory

| Part | State it keeps | Operations | Interacts with |
|---|---|---|---|
| **Updater** (`internal/update/update.go`, `startup.go`, `sync.go`, `state*.go`) | `state` in memory, `.update/state.json`, the artifacts of the data directory | `Run`: load, startup sync, then wait and sync for ever | reads the clock; runs the refresh pool; commits through the storage transaction; sends `SyncEvent`s to the manager |
| **Sync schedule** (`schedule.go`) | last and next full sync, last and next retry, rung of the retry ladder | `newSchedule`, `newStartupSchedule`, `scheduleFirstRetryAfter`, `needsFullSync`, `needsRetrySync`, `nextSyncAt` | part of `state` |
| **Source state** (`source_state.go`, `consecutive_error.go`) | per source: artifact, times of the last check, success and download, outdated mark, error list, freshness headers | one constructor per outcome of a refresh | part of `state` |
| **Refresh pool** (`refresh.go`, `http.go`) | job and result channels | a producer and up to four workers, each one HTTP refresh at a time with short retries | results go to the updater; downloads to `.update`; conditional requests rest on the ETag in `state` |
| **Storage transaction** (`artifact_txn.go`, `storage.go`) | undo and finalize lists, files in the data directory and `.update` | `promoteArtifact`, `removeArtifact`, `rollback`, `finalize` | around `saveStateJSON` |
| **Download** (`temp.go`, `archive.go`, `maxmind.go`, `content.go`, `timestamp.go`) | temporary files | write with limits, extract a directory or the one matching file of a tar.gz, verify checksum, validate | the refresh pool |
| **Dataset** (`internal/dataset`) | prefix tables, ASN names, flags, MMDB readers | `Load`, `Lookup`, `Close`; `RequiresSource` | opened by the manager from the updater's files; its source groups guard the expiry of sources |
| **Manager** (`internal/app`) | current dataset, share store, server, lock | `Run` (select over events, errors, signal), `switchDataset`, `Close` | everything |
| **Share store** (`internal/share`) | SQLite table of shared inputs | `Create`, `Resolve` (sliding expiry), `DeleteExpired` | HTTP handlers and the clean-up goroutine of the manager |
| **Server** (`internal/server`) | rate-limit records | handlers, `allow` | the manager's methods |
| **Lookup page** (`internal/server/static/app.js`) | the form, the report shown, the last lookup, the link remembered for it, two flags | submit, share, follow a link, the client's own address at the start | the server's handlers, by requests whose answers come in any order |
| **Notifier** (`internal/notify`) | bounded queue, pending count | `Notify`, worker, `Close` | Telegram; logger handler |
| **OFAC watcher** (`internal/ofacwatch`) | snapshot and failure count in a file | daily `check`, which fetches its lists and searches one by one | notifier |
| **Report and input** (`internal/report`, `internal/ipinput`) | none | `Parse`, `Get` | the lookup handler and the dataset |
| **Catalogue, configuration, program** (`internal/source`, `internal/config`, `cmd`) | tables | validation at load | constants of all the others |

Hard behaviour, by part, and what makes each part correct:

* **Updater.** Any order of refresh outcomes over weeks, the clock moving
  between any two statements, configuration changes between restarts, a process
  that ends anywhere, errors in the middle of a commit. Correct: what it saved it
  can load; state and data directory agree; a required copy is never lost; an
  optional stale one is dropped, exactly when it should be, and for good; the
  next sync always lies ahead and always comes.
* **Storage transaction.** Any call may fail, including those of the rollback.
  Correct: before the commit point nothing old is lost; after an error all is as
  before; after success all is as asked; nothing is left in `.update`.
* **Refresh pool.** Workers, a producer and a context that may be done at any moment;
  a file made at one stage of a download is removed at another; the server changes between
  checksum, request and retry. Correct: a commit gets one result for every source or does
  not happen; the disk has what state.json says the server had; every sync ends.
* **Archives.** A stream that may break anywhere, read under three limits. Correct:
  accepted is whole and within the limits.
* **Manager.** Three sources of wake-up in one `select`, a dataset swapped under
  readers, a share store that is not under the lock, shutdown with a timeout.
  Correct: no reader uses a closed dataset or store; a served dataset is the
  latest that loads; every way to end closes what was opened once.
* **Share store.** Resolve, clean-up and expiry race on one row. Correct: a share
  that was visited in time is there for another period; an expired one is never
  shown.
* **Rate limiter, notifier, watcher.** Clock read outside the lock, a full
  queue, a crash between an alert and its record, a search that returns only the newest
  documents. Correct: never more than the limit per window; `Close` never waits for a
  dropped message; no change goes unnoticed.

* **Lookup page.** One thread, but every handler waits for answers, and what it
  reads afterwards may have changed. Correct: the link that is copied leads to the
  lookup on the page; a late answer about the client replaces no report; no flag
  stays set.

The full list of hazards, each at its line and with the properties that cover
it, is the `hazards` list of `PROJECT.json`.

## 2. Plan

Done (sections 3 to 6):

1. `Times`, `SyncSchedule`, `SourceState`: the pure part of the updater.
2. `Updater`: its state machine over restarts; `CopyLedger`: the abstract
   specification it implements; `DatasetStart`: what the dataset needs of it.
3. `UpdaterInvariant` and the proofs.
4. `StorageTxn`: the commit, file by file; `StorageTxnInvariant` and the proofs.
5. `Manager`: `Run`'s select loop, the dataset switch under readers, the share store
   and its clean-up, shutdown; `Serving`: the abstract specification it implements;
   `ManagerInvariant` and the proofs.

6. `Notifier` and `OfacWatch`, which uses it; `RateLimiter`; `ShareStore`; each with its
   proofs.
7. `Dataset`: the build of the tables and `Lookup`, against what the sources say.
8. `LookupPage`: the handlers of the page and the answers they wait for; its proofs.

9. `RefreshPool`: workers, short retries, cancellation, the stages of a download;
   `Archive`: what is extracted; `SourceSync`: pool and commit over several syncs, with
   the versions on the servers, on the disk and in state.json; the proofs.
10. `OfacWatch` with its lists fetched one by one; `Report`: what a text becomes.

Next, in this order:

11. `AppSystem`: `Manager` composed with `Updater`, so that the versions of the data
    directory become its files; the sanctions notice over restarts.
12. The saved error list; the source groups of `dataset.Load`.
13. Theorems: the refinement of 11.

## 3. Modules

| Module | Models |
|---|---|
| `Times` | time as natural numbers with Go's zero time as 0 |
| `SyncSchedule` | `schedule.go`, `updateSyncSchedule`, `validateSyncSchedule` as operators |
| `SourceState` | `sourceState`, its constructors, expiry and validation as operators |
| `Updater` | the updater's state machine |
| `CopyLedger` | abstract: per source *no copy -> held -> outdated*, one step per commit |
| `DatasetStart` | `Updater` with the any-of groups of `dataset/validate.go` |
| `StorageTxn` | one commit, call by call |
| `Archive` | the extraction of a tar.gz archive, entry by entry, as operators |
| `RefreshPool` | the workers of one sync, up to the commit; it uses both |
| `SourceSync` | refresh and commit, sync after sync, over errors, crashes and restarts |
| `Manager` | the manager's goroutine with those it works beside |
| `Serving` | abstract: a dataset is served until the end, and never an older one |
| `Notifier` | the alert queue, its worker and `Close` |
| `OfacWatch` | `Notifier` with the OFAC watcher and other goroutines as its callers |
| `ShareStore` | `Create`, `Resolve` and `DeleteExpired` over one connection |
| `RateLimiter` | `allow`, with handlers that reach the lock late |
| `LookupPage` | the handlers of the page, each from one await to the next |
| `Dataset` | the build of the tables, line by line, and `Lookup` |
| `Report` | what a text becomes, on top of `Dataset` |
| `UpdaterInvariant`, `StorageTxnInvariant`, `SourceSyncInvariant`, `ManagerInvariant`, `DatasetInvariant` | the inductive invariants of the larger modules |
| `UpdaterProofs`, `SourceSyncProofs` (with those of `StorageTxn`), `ManagerProofs`, `DatasetProofs`, `OfacWatchProofs`, `ShareStoreProofs`, `RateLimiterProofs`, `LookupPageProofs` | theorems and proofs; the last four hold their inductive invariants too |
| `MCUpdater`, `MCUpdaterInvariant`, `MCDatasetStart`, `MCStorageTxn`, `MCSourceSync`, `MCManager`, `MCOfacWatch`, `MCShareStore`, `MCRateLimiter`, `MCDataset`, `MCLookupPage` | instances for TLC |

Operators whose comment calls them *a faulty variant* are deliberate bugs: each
replaces the definition after it to show that the properties notice. No
specification uses them.

### Updater

State: `now` (wall clock), `pc`, `enabled` (configuration of the running process),
`mem` (the `state` value `Run` works on), `stateFile`/`saved` (state.json),
`files` (artifacts in the data directory), `sync` (locals of `updateSources`), and
one history variable, `tornCommit`.

| Action | Code |
|---|---|
| `Start` / `Refuse` | `Run` up to the choice of `runStartup`; `loadStateForSync` succeeds or fails |
| `BeginSync` | `updateSources` reads `startedAt` and starts the workers |
| `RefreshSource` | a worker delivers the result of `refreshWithRetries` |
| `Promote` | the loop over the results: promote, record, expire, remove; then the new schedule |
| `SaveState` | `saveStateJSON` and `finalize` |
| `SaveFails` | an error before the rename of state.json, and a rollback that works |
| `SaveFailsLate` | an error after that rename |
| `Cut` | the process ends inside the commit, or the rollback fails too |
| `Publish` | `sendSyncEvent` |
| `RunScheduled` | `waitForNextSync`, `runScheduled` up to `updateSources` |
| `Exit` | the process ends elsewhere: signal, fatal refresh error, crash |
| `Tick` | time passes |

Each action is what the code does between two readings of the clock or two
effects on the disk. The code reads the clock four times in a sync (`now` of `Run`
or `runScheduled`, `startedAt`, each attempt's completion, `syncedAt`), and `Tick`
may come between any two. A source's workers do
not touch shared state before their result is received, so one action per result
covers the pool. `recorded` in an entry stands for being a key of `state.Sources`:
Go's zero value for a missing key is `ZeroSourceState`.

Abstractions: the error list is the time of its first entry, which is all that
is read back; ETag and Last-Modified are left to `SourceSync`; servers answer 304 only to
conditional requests; a clock that is set back is not modelled.

### StorageTxn

State: `data` and `spare` (what the data directory and `.update` hold of each
artifact), `temps` (downloads), `state` (which state.json), `todo`, `logged` (sources
with an undo), the step in the code, and the history variable `broken`. Each
action is one call with an effect, or its failure. `Crash` may come anywhere. The
undos touch different files, so the model takes them in any order. Writes lost
with the machine, and not only the process, are outside the model: what the
fsyncs guarantee is not claimed.

`Updater` uses the outcome: a commit that fails restores the directory
(`RollbackIsExact` justifies `SaveFails`), one that succeeds is complete
(`CommitIsComplete`, and over several syncs `SyncIsComplete`, justify `Promote` and
`SaveState` as a pair), and a cut leaves each touched source with or without its artifact
(`Cut`, `SaveFailsLate`).

### RefreshPool and SourceSync

State of `RefreshPool`, which extends `StorageTxn`: `server` (the version each server has),
`etag` (the version whose ETag state.json holds), `copy` (the version of the artifact),
`wanted` (the sources of this sync), `job` (the stage of each, its attempt, the versions of
its checksum and of its answer), `archives` (MaxMind archives under `.update`; the other
downloads are `temps` of `StorageTxn`), `cancelled` (the context). `SourceSync` adds
`syncs`, a counter, and the history variable `doubtful`.

| Action | Code |
|---|---|
| `Deliver`, `StopProducer` | `refreshSources`: the select of the producer, and the worker that takes the job |
| `FetchChecksum`, `RequestFails`, `NotModified`, `OK` | `refreshHTTPSource`: `fetchExpectedChecksum`, the request, its errors and statuses |
| `BodyRead`, `BodyFails` | `writeTempHTTPArtifact`, `writeTempHashedSource`; the checksum compared |
| `Unpack` | the rest of `writeTempMaxMindArtifact`, with the archive removed |
| `Accept`, `Reject` | the rest of `handleOKResponse`: `validateHTTPArtifact` and the freshness headers |
| `Retry` | `refreshWithRetries` after `sleepOrCancel` |
| `HandOver`, `GiveUp` | the end of `refreshSources` and the loop over the results; the downloads removed on an error |
| `Cancel` | the context is done, in any stage |
| `Publish` | a server has a newer version |
| `Commit` | any action of `StorageTxn` |
| `Continue` | the next sync of the same process |
| `SyncCrash`, `Restart`, `Refuse` | the process ends, and the next one checks the data directory against state.json (`loadStateForSync`) |

A body is a version, or, for a source that is an archive, also any of `Archives`. What comes
of an archive is computed (`Archive`); whether other contents are refused, how a request
fails and whether the local disk does is a choice. Which sources a sync wants is the
schedule's business, `Updater`'s: here it may be any that are not given up, and any optional
source that failed may be given up. Files whose removal failed have no name left in the
program, and their sync ends with them on the disk: they stay in `broken` until the next
sync, and are not followed further. A crash leaves all its files; a start looks at none.

### Archive

No state: `ExtractTarGzDir` and `ExtractTarGzFile` are loops over the entries of an archive
(`Iterate`). The record that goes round says which files and directories were made, how many bytes were
written, and with what error it ended, if any: `invalid` (content: the next sync), `cut`
(the network: a short retry), `broken` (no handler knows it: the program ends). An entry is
its type, its path, its size and how its body ends; only a file has a body, as in Go's
`archive/tar` (`ArchivesAssumption`), and a type no handler knows is a `link`. `cleanTarPath` is reduced to its three
outcomes: a path, the directory itself, a path outside.

### Manager

State, by goroutine: `pc`, `verdict` (`Run`: where it is, and whether it has an error
to return), `signalled` (the context); `events`, `errCh` (the two channels); `dataset`,
`next`, `open`, `loads` (`m.dataset`, the one loaded to replace it, those whose readers
are open); `store`, `cleanup`; `server`; `updater`, `syncs`, `disk`, `outgoing`; `handler`,
`reads` (the requests). `seen` and `loadFailed` say what the dataset served was made
from; `timedOut` and `late` are history.

| Action | Code |
|---|---|
| `OpenShares`, `ReadNotice` | `Run` up to its loop |
| `TakeEvent`, `TakeError`, `TakeSignal` | the three cases of the select |
| `LoadDataset`, `LoadFails`, `SwitchDataset`, `NewServer` | the rest of the event's case |
| `BeginShutdown`, `EndShutdown`, `ShutdownTimesOut` | `shutdownServer` |
| `LockForClose`, `Close` | `Close` with `stopShareCleanup` |
| `BeginSync`, `CommitSync`, `SendSyncEvent`, `UpdaterEnds` | the updater as the manager sees it |
| `ServerListens`, `ServerFails` | the goroutine of `startServer` |
| `Arrive`, `Lookup`, `FinishLookup`, `UseShares` | a request and the methods of the manager it calls |
| `CleanupDone`, `CleanupTick`, `CleanupEnds` | the goroutine of `startShareCleanup` |
| `Signal` | SIGINT, SIGTERM |

The data directory is a version, which grows with each commit that changed
something, in one step: that files are promoted one by one is the subject of `SourceSync`
and `Updater`, and a load that overlaps a commit has both versions anyway. A dataset is the
set of versions its load has overlapped. Requests come on new connections and on those
that are open, so also while `Shutdown` waits, once it gave up, and after `ListenAndServe`
failed by itself (`server` is `connected`); none comes once `Shutdown` returned in time. The `RWMutex` is
in the guards: the writer (`SwitchDataset`, `LockForClose`) waits until no request is
*reading*, and a waiting writer keeps new readers out, as Go's does. The select takes
any ready case. Left out: notifications, the log level of skipped sources, the MaxMind
flag, which changes with the dataset. `UseShares` is one step: an SQLite call that is
under way when the store is closed ends with an error of its own.

### Notifier and OfacWatch

State of `Notifier`: `queue` and `inHand` (the channel, the worker's message), `pending`
(the `WaitGroup`), `calling` (messages counted and not yet queued), `closing` (how far
`Close` is). `OfacWatch` adds `latest` (the last document of the Federal Register), `file`
(ofacwatch.json), `at`, `st`, `next` and `got` (where `check` is, its state in memory, the
list it fetches next, and what it has fetched). The rest is history.

| Action | Code |
|---|---|
| `Count`, then `Enqueue` or `Drop` | `send`: `Add`, and the two cases of the select |
| `Receive`, `Handle` | the worker |
| `BeginClose`, `Wait`, `WaitReturns`, `Close` | `Close`: the goroutine it starts, `Wait`, and the select with `closeTimeout` |
| `LoadState`, `LoadFails` | the start of `check` |
| `FetchList` | one list or search of `fetch` |
| `FetchFails`, `FetchSucceeds` | the two branches of `check`, up to the alert |
| `Publish` | a document appears, between any two requests |
| `SaveState`, `SaveFails` | `saveState` |
| `Cancelled` | `Run` and `check` on a cancelled context |
| `EndProcess` | the process ends, anywhere, and is started again |

Telegram is configured; without it nothing is queued. A message has no text. What Telegram
answers changes nothing: a failed message is not sent again. A program stands for an SDN
program or a part of 31 CFR; a list of programs may have other contents each time it is
asked. A document is a number, in the order of publication, and a search returns the newest
`FederalRegisterMax` of those it finds. An error logged by the watcher is a message too,
which the model sends before the watcher goes on.

### ShareStore

State: `now` (seconds, as the store truncates times), `rows` (the table as committed),
`conn` (who holds the one connection of the pool), `op` (what each goroutine is doing);
`promised`, `visited` and `begun` are history.

| Action | Code |
|---|---|
| `BeginCreate`, `Insert` | `Create`: the clock, then the statement |
| `BeginDelete`, `DeleteExpired` | `DeleteExpired`: the clock, then the statement |
| `BeginResolve`, `BeginTx`, `Select` or `NotFound`, `CheckExpiry`, `Commit` | `Resolve` with `touchOrDelete` |
| `Fails` | an error of any statement, or a cancelled request: the deferred rollback |
| `Restart` | the process ends |

SQLite is taken to be transactional, and a generated bearer to be new. Closing the store
is in `Manager`.

### RateLimiter

State: `now`, `records`, `calls` (those that have read the clock and wait for the lock);
`started` and `admitted` are history about one client, `Watched`: when its windows began, and
how many of its calls had been admitted before each time. `ReadClock` is the first
line of `allow`; `Open`, `Count` and `Refuse` are the rest, under the lock, with
`pruneExpired` in each. `MaxWait` is how long a handler may be kept between the two: the
code has no such bound, and the properties say what each unit of it costs.

### Dataset

State: `input` and `rest` (the sources' lines, and those not inserted yet) and the tables.
One action per kind of table inserts one line; a source is finished before the next of
`build`, but within a source any line may come next, since several are Go maps. `Lookup` is
an operator, in the stages of the code: the nearest bogon, the flags of all covering
prefixes (`Listed`), the ASN of the nearest one (`Announced`), GeoLite2 (`RecordedASN`,
`AsnOf`), what is known of the address by then (`Known`), suppression, sanctions. A prefix
is the set of its addresses, and "nearest" is inclusion, which is what longest-prefix match
means; an address has finitely many prefixes, since it has one of each length. Left out: names, countries as such, the location, the VPN provider and the parsing
of files; `country` in a city record says which of the three lists a country is on.

`Report` is two more operators: `Parse` keeps the addresses of a text, `Get` makes the
entries. A text is the sequence of pieces `Parse` cuts it into. The loops of `Parse` and
`dedup` both keep some of the pieces in their order: `Subsequence`.

### LookupPage

State: the fields of `state` in `app.js` that requests read or write (`mode`, `busy`,
`sharing`, `report`, `last`, `shareFor`, `sharePath`, `sharedInput`), the text area
(`field`), the address (`hash`), what the results show (`shown`), `shares` on the server, and
`calls`: what each handler that is suspended waits for, and the locals it kept. `copied` is
history.

| Action | Code |
|---|---|
| `Submit`, then `LookupAnswers` or `LookupFails` | `handleLookupSubmit` before and after its `await` |
| `FollowLink`, `ShareResolves`, `SharedLookupAnswers` or `SharedLookupFails` | `handleHashChange`, `loadSharedLookup` |
| `LeaveLink` | `handleHashChange` without a bearer |
| `ShareClick`, `ShareCreated`, `ShareEnds` | `handleShareClick` |
| `ClientAnswers` | `loadClientIPReport` |
| `Type` | the user edits the text |

An input stands for its encoded body, which depends on nothing else, and for its report.
`Call` bounds how many handlers wait at a time. Left out: the size limit, sorting, filters,
details, timers and rendering.

## 4. Runs

| Run | Question | Bounds |
|---|---|---|
| `updater` | all safety properties and the refinement of `CopyLedger` | a required and an optional source; expiry after 1 unit; full sync every 2; ladder <<1,2>>; clock 2..5 |
| `updater_deep` | long schedules: top rung repeated, full syncs missed; is a due sync carried out | one source; full sync every 4; clock 1..7 |
| `source_sync` | what the disk and state.json have after syncs that fail, crash or are cancelled anywhere; what is left under `.update`; are archives whole; does every sync end | a MaxMind source that is required and an optional directory; two workers, two attempts, two versions, two syncs; archives of up to three entries, two files, two bytes each, three bytes in all |
| `manager` | safety, the refinement of `Serving`; does the program end, is the updater never stuck | two requests, two syncs |
| `alerts` | the wait group and `Close`; what the snapshot and the reports say of each other over failures and restarts | queue of 1; the watcher and one more caller; a list of an anchor and another program, two searches, two documents, a search returns one; threshold 2, at most 3 failures in a row |
| `shares` | races of visits, expiry and clean-up; does every call end | one share, three goroutines, two visits; TTL 2; clock 0..4 |
| `rate_limiter` | late calls around the end of a window; a full table | three clients, table of 2, limit 2, two handlers; window 3, wait 1; clock 0..6 |
| `lookup` | is what a lookup answers what the sources say; does a report tell all of a text | two addresses, three prefixes, two operators, three city records, any four lines or fewer, in any order; a third address in no source; ten texts of three pieces, a limit of two |
| `shared_link` | a disagreement, section 7 | three inputs, one without an address; two shares; three handlers at a time |
| `future_start`, `dataset_start`, `storage_txn_late` | disagreements, section 7 | as `updater`, and a commit of three sources, changed as each needs |

The inductive invariants and types, which are proved, were checked with TLC on these
instances first; the runs leave them out, as they do `RequiredCopyKept`,
`PendingIsOutstanding`, `CommitIsComplete` and `NothingLeftBehind`, which are proved. So
were `QuietIsReady`, `ReportIsLast` and `ReportStays` of `LookupPage` (6.4 million states,
every action taken), and `CopiedLinkIsCurrent` with `shareFor` set to the input of the
request, where it holds.

Why the bounds are enough. The actions treat sources alike except for `Required`, and they
meet in three places only: the set of a sync, the schedule's "is a retry needed", and the
commit. Two sources, one of each kind, show every combination of these. The clock range lets
a copy be downloaded, fail twice, expire and be carried through a restart and a further
sync, with full slots missed on the way; `updater_deep` stretches it so that the second rung
is reached, repeated and cut off by a full sync. `MaxClock` bounds only `Tick`. In
`source_sync` the commit may replace, add and remove, each kind of job and of archive is
there, and two sources share two workers and the commit; the second sync starts from
whatever the first left, an ETag over older bytes included, and the second version is
published between any two steps. An archive of three entries may have a file too many, two
that clash, a file at each limit and one beyond it, and a broken stream in each place. In
`Manager` two syncs let the second commit during the load of the first, fill the channel,
and block the updater behind it; two requests can be on either side of a switch and of a
shutdown. In `OfacWatch` the queue is full as soon as it holds a message the worker has not
taken, the third failure is one beyond the threshold, and two documents between two checks
are one more than a search returns. Shares do not meet except in the connection, so one is
enough, and three goroutines are two visits and a clean-up. Two windows fit in the clock of
`RateLimiter`, with a wait at each end. In `Dataset` a fact depends on at most two prefixes
of an address and the sources that mention it: four lines are two sources for a wide and a
narrow prefix, or a prefix, its operator and the two databases. Three pieces of a text can
repeat an address, apart or together, and pass the limit.

`CHECK_DEADLOCK FALSE` everywhere: the clock is bounded, a refused program stops,
a commit ends, `Run` returns.

Fairness (`updater_deep`). While the process is up its goroutine runs, every refresh ends
since `newSourceHTTPClient` sets a timeout, and the manager, whose loop never blocks on the
updater, takes the event (`UpdaterNeverStuck` of `Manager`). So weak fairness of the
updater's goroutine: whichever of `BeginSync`, `RefreshSource`, `Promote`, `SaveState`,
`Publish` and `RunScheduled` comes next. None on `Tick`, `Start`, `Exit` or the failures.

Fairness (`source_sync`). One assumption, weak fairness of all steps of pool and commit
together: something goes on while anything can. It holds since a request ends
(`client.Timeout` and `ResponseHeaderTimeout` of `newSourceHTTPClient`), timers fire, and
calls on the file system return. None on `Cancel`, crashes, restarts, further syncs or the
servers.

Fairness (`manager`). Between two selects `Run` calls functions that return (`Shutdown` has
a timeout), a lookup is a finite computation, the clean-up is one SQL statement: weak
fairness. Strong fairness for the cases that end the program (and the clean-up), since a
select picks among the ready ones at random: a case that is ready again and again is taken
some time. None on requests, syncs, the ticker, the signal or the failures.

Fairness (`shares`). A statement returns: weak fairness of the statements of a
transaction. `database/sql` serves the goroutines that wait for the connection in turn:
strong fairness of taking it. None on the beginning of calls, the clock or the failures.

## 5. Properties

*Updater.* `SavedStateLoads`: every state.json ever written passes the loader.
`RefusedOnlyAfterTornCommit`: a start is refused only after a cut commit.
`AvailableMatchesFiles`: events name exactly the sources on disk. `OutdatedIsJustified`,
`ExpiredCopyIsDropped`: a copy is dropped not too early and not too late.
`RetryMatchesFailures`: a retry is scheduled for a failure that it can help, and only then.
`NextSyncIsLater`: the loop does not spin. `RequiredCopyKept` and `OutdatedIsFinal`, what no
step may do, are proved and in no run, since `KeepsLedger` says nearly as much.
`KeepsLedger`: the refinement. `DueSyncRuns`: liveness.

*StorageTxn and SourceSync.* `OldCopyKept`: until state.json is replaced the old bytes are
on the disk, whatever fails or crashes. `RollbackIsExact`: after an error all whose undo
worked is as before. `CommitIsComplete` and `NothingLeftBehind` say the rest of one commit;
they are proved and in no run, since these two say it of whole syncs: `SyncIsComplete`, the
disk has what each server had when it answered, 304 included, and state.json agrees;
`UpdateDirTidy`, no way out of the pool or the commit forgets a file. `PoolHandsOver`: a
commit starts with every result, none of them an effect of the end of the program.
`SyncEnds`: liveness. The exception in `SyncIsComplete`, `doubtful`, is a source whose
rollback came after state.json was replaced: its ETag is newer than its bytes, 304 confirms
them, and the next version of the server ends it.

*Archive.* `ArchivesExtractWhole`: what is accepted was sound, is there whole and
within the limits, and no sound archive is refused, against a definition that counts the
places of the files and their bytes, without the order of reading. Two exceptions, in the
code as in the model: when the total is exactly reached any further file is refused, an empty
one too; and an entry for the directory itself may be of any type, a link too, since it is
passed over before its type is looked at.

*Manager.* `ReadersSeeOpenDataset`, `CleanupSeesOpenStore`: what is in use is not closed.
`LateOnlyAfterTimeout`: `CreateShare` and `ResolveShare`, which take no lock, meet a store
that is gone only when `Shutdown` gave up on the request. `NothingLeftOpen`: each of the
ways out of `Run` closes every dataset and the store, and ends the clean-up first. The
updater and the watcher of OFAC are not waited for; they end with the process. `LastWordsFit`, proved and in no run: no goroutine is
left on a send to `errCh`. `ServesLatest`: no change is passed over, whatever was committed
during a load; the exception is a failed reload, which waits for the next change.
`NoQuietEnd`: only a signal ends the program with status 0. The converse does not hold:
after a signal the select may take the updater's `context canceled` from `errCh` first, and
the status is 1; nothing promises otherwise. `KeepsServing`: the refinement.
`EndsWhenItMust`, `UpdaterNeverStuck`: liveness.

*Notifier.* `PendingIsOutstanding`, proved and in no run: the wait group counts what is
outstanding, a dropped message not. `CloseWaits`: a `Close` that returns in time leaves
nothing that was accepted before it. `Wait` may panic when an error is logged between its
last `Done` and its return; the model has that outcome (`WaitReturns`), in a process that is
ending.

*OfacWatch.* Reported means handed to `Notify`: a full queue or a late `Close` may still
drop the message. `AlertedBeforeSaved`: a snapshot never hides an unreported change.
`DocumentsTold`: a document is reported by the next check that succeeds, though a search
returns few and others come between two searches, unless more of a term came between two
checks than a search returns.
`NewsMatchesSnapshot`: the reports, in order, tell which anchors exist, as long as every
check could save; after a lost save an anchor that came back meanwhile may have been
reported as gone. `FailureStreakTold`: a run of failures is told once.

*ShareStore.* `KeptUntilExpiry`: a share is there until the latest time anyone was told.
`VisitsCounted`, `ShownInTime`: no visit is lost, and a failed one extends nothing.
`CallsEnd`: no way out of a call keeps the connection.

*RateLimiter.* `WindowsSpaced`: a late call cuts a window short by at most its wait.
`TwiceTheLimit`: so any stretch shorter than a window, less the wait, admits at most twice
the limit. `RefusedForAReason`: nobody is refused unless the limit is used up or the table
is full, by windows that have not been over for longer than the call waited.

*LookupPage.* `CopiedLinkIsCurrent`: the link leads to the lookup of the click, or to that
of the moment of copying; it fails (section 7). `QuietIsReady`, `ReportIsLast`,
`ReportStays`, proved and in no run: without a request under way no flag is set; the report
shown is the one that counts as the last; the client's address never replaces it.

*Dataset.* `FactsAreNearest`, `FlagsAreRight`: what a lookup answers (the kind, the operator
and the clouds; the flags and the strongest sanction), said again by quantifiers over the
lines of the sources, whatever the order they were inserted in. Where two operators announce
one prefix the answer does depend on that order (Go's map order): `FactsAreNearest` allows
either, and with it the flags of either.

*Report.* `ReportTellsAll`: every address once, in the order of first mention, with its
exact count; the limit leaves out the last; and an address on a list of special or unallocated
prefixes shows no fact of any other source.

## 6. Proofs

### Updater

`UpdaterProofs` proves, for every catalogue, set of required sources, expiry
intervals, configuration, ladder and interval:

* `TypeCorrect`;
* `InvariantHolds`, the inductive invariant `IInv` of `UpdaterInvariant`, and from it
  `SavedStateAlwaysLoads`, `RefusalMeansTornCommit`, `AvailableSourcesOnDisk`,
  `OutdatedNeedsReason`, `NoCopyBeyondInterval`, `RunDoesNotSpin`, `RetriesMatchFailures`;
* the action properties `OutdatedStaysOutdated` and `RequiredCopyStays`;
* `ImplementsLedger`, that every step maps to a step of `CopyLedger` or a stutter.

Assumptions: those on the constants in `SyncSchedule`, `SourceState` and `Updater`,
and two on the configuration in `UpdaterInvariant`: no `start_at_utc` ahead of the
first clock reading, and some source enabled. Both are needed: `future_start` shows what
happens without the first; an empty `sources.enabled` saves a file without `sources`, which
the loader refuses as a nil map.

Why the invariant is what it is. `SavedStateLoads` is not inductive: it needs that
memory loads as well, that results under way build on loadable entries
(`ResultsInv`), that times are in order and none is ahead of the clock (`ClockInv`,
`EntryInOrder`), and that a state about to be saved has recorded a full sync
(`ScheduleInv`). That last part rests on the startup sync being a full one while
none is recorded, which is where `start_at_utc` enters. `RefusedOnlyAfterTornCommit`
needs that `files` follow memory inside a commit and the saved state outside it
(`FilesInv`), and that only a cut breaks it. `OutdatedIsFinal` needs that no sync
chooses an outdated source (`ChosenInv`) and that memory is what is saved
(`MemoryInv`). `KeepsLedger` needs all three.

It begins with what `updateSyncSchedule` returns for every schedule:
`UpdateSyncScheduleFacts` is the lemma behind `ScheduleInv` and `RunDoesNotSpin`.

`RetryMatchesFailures` is about the loop of `nextRetryAfter`, which climbs the ladder from
the rung it stopped at and repeats the last one. `FirstCandidateAfterNow` says what it
returns without a loop: the first of the ladder's times that is later than now, if that is
before the next full sync; so the turns `NextRetries` bounds are enough. It is an induction
over the turns. The prover cannot instantiate the library's induction principles, so they
are proved here about sets (`LeastNatural`, `SetInduction`: a set of numbers that has 0 and
is closed under successor has them all), and `IteratedFunction` shows that the recursive
function `Candidate` exists. `RetryInv` adds that a full sync is still due when its commit
computes the schedule, so that its retries begin at the foot of the ladder, and that from
the commit to the event the schedule fits the failures.

### StorageTxn

The first half of `SourceSyncProofs` proves, for any set of sources and any plan over it,
`TypeCorrect`; `InvariantHolds`, the inductive invariant `IInv` of
`StorageTxnInvariant`; and from it `OldBytesSurvive`, `RollbackRestores`,
`CommitCompletes` and `NoLeftovers`. The only assumption is that `NoSource` is not
a source.

None of the four is inductive. `OldCopyKept` has to survive an undo, which deletes
the promoted artifact first: it needs that a source with an undo has its old copy
aside whenever it had one (`LoggedInv`). `RollbackIsExact` needs to know, at every
point of a rollback, which sources are already as they were: those without an
undo, except the one in hand and those whose undo failed (`BackwardInv`,
`CurrentInv`), which in turn needs that on the way forward every handled source
has its undo (`ForwardInv`). `NothingLeftBehind` needs that every kept copy has a
finalizer or a failure (`FinalizeInv`).

### SourceSync

`SourceSyncProofs` proves, for any sources of any kinds, archives, limits and numbers of
workers, attempts, versions and syncs: `SyncInvariantHolds`, the inductive invariant
`SyncInv` of `SourceSyncInvariant` with the types, and from it `CommitStartsWhole`,
`SyncCompletes`, `SyncLeavesTidy`, `OldBytesSurviveSyncs` and `SyncErrorsRestore`; and
`ArchivesAreExtractedWhole`. The assumptions are those on the constants in `RefreshPool`, `Archive` and `SourceSync`, and
that `NoSource` is not a source.

The proof is put together from that of `StorageTxn`. While the pool runs the variables of
the commit are as a commit finds them (`RefreshInv`), and which files are under `.update`
follows from the stages of the jobs (`FilesInv`), so `HandOver` ends in a state of
`StorageTxn`'s `Init`, for which its proofs hold. From there its lemmas about one step carry
its types and its `IInv` along (`CommitInv`); `SourceSync` proves only what is new, that the
results do not change (`ResultsInv`) and where the bytes of the data directory come from
(`DataInv`, `StaleInv`). A restart passes the loader only when state.json and the disk
agree, which gives the start of the next sync. `SyncIsComplete` needs, for 304, that a copy
which is not `doubtful` is at least as new as its ETag, and no version is ahead of the
server's (`VersionInv`).

`ArchivesAreExtractedWhole` is about archives with any number of entries and any limits, an
induction over the turns of `readTarGz` (`Successors`, from the library's theorem that the
naturals are well-founded; `ReadTurns` shows that the loop comes to its end). For a directory
`DirInv` says what is so after n entries: unless an error has ended it, they are readable, no
two clash, the counters are the cardinalities that `Sound` speaks of, the files are those of
the entries, and a directory is there for the sake of one of them; and an error has a reason
in the archive (`Fits`). `ClashFacts` is the heart of it: what the file system refuses, a
file below a file or where a directory is, is what `Clash` calls so, in either order of the
two entries. `FileInv` is the same for the one file that matches. The induction needed one
thing no bounded run had shown, the link in the place of the directory (section 5): `Sound`
excluded it, and `MCSourceSync` had no such entry; it has one now.

### Manager

`ManagerProofs` proves, for any set of requests and any number of syncs, `TypeCorrect`;
`InvariantHolds`, the inductive invariant `IInv` of `ManagerInvariant`; and from it
`NoReaderOnClosedDataset`, `CleanupOnOpenStore`, `LateNeedsTimeout`, `RunClosesAll`,
`ErrorsNeverBlock`, `ServedIsLatest`, `EndIsReported` and `ImplementsServing`. The only assumption is that the
number of syncs is a natural number.

The invariant says at each point of `Run` what is open (`SharesInv`, `OpenInv`), that
readers read the current dataset and none is left once `Close` has the lock
(`ReadersInv`), and that `Close` begins with the server down, its connections closed and no
request in progress, or after a timeout (`ShutdownInv`). The last needs a fact that the code does not show:
the case of `http.ErrServerClosed`, which closes everything without a shutdown, is
never taken, since `ListenAndServe` returns it only when `Run` has left its select.
`ServesLatest` is inductive only with the changes that are still on their way: an event
in the channel, an event about to be sent, or an updater that is gone (`Pending` in
`FreshInv`).

`ImplementsServing` is the refinement of `Serving`. The mapping takes the newest version a
dataset is made of, by a `CHOOSE`: `VersionsInv` keeps these sets among the versions the
directory has had, so that a newest exists, and says that what is being loaded is no older
than what it replaces (`NoneOlder`).

### Notifier and OfacWatch

`NotifierInvariantHolds` is about `Notifier` alone, for any callers, messages and queue.
`PendingIsOutstanding` is inductive and keeps `pending` from going below zero, which type
correctness needs. `CloseWaits` needs that what `Close` waits for is still among the
queued and the message in hand (`OwedInv`): then a counter of zero means that nothing is
owed. `KeepsNotifier` shows that every step of the watcher is a step of the notifier or leaves
it alone, over restarts too, and so `CounterIsExact` and `CloseHandlesAccepted` hold of the
whole.

For the watcher, with any programs, anchors and threshold, `InvariantHolds` says what
the file and the outcome in memory owe to the reports between the alert and the save
(`WInv`); `ChangesAreTold`, `ReportsMatchSnapshot` and `StreakToldOnce` follow.
`NoDocumentMissed` needs to know of each search what the lists fetched so far, the outcome in
memory and the file have of its documents, and that `since`, `asked` and `asking` come in
this order (`SearchesInv`): a search that missed none reaches back to the last one, and
what it finds is either in the snapshot it is compared with or new to it. The
assumptions: anchors are programs, the searches are among the lists, documents are natural
numbers, the watcher is a caller, callers are finite in number, the threshold is positive.

### ShareStore

For any goroutines, bearers and TTL: `TypeCorrect`, `InvariantHolds`, `ShareKept`,
`NoVisitLost`, `NeverShownLate`. The invariant says what a row holds of what was promised and
counted (`RowsInv`), that a new bearer is nobody else's (`InsertInv`), that no clock reading
is ahead (`ClockInv`), and what a visit that holds the connection has read and is about to
write (`VisitInv`).

### RateLimiter

For any clients, limit, window, table and wait: `TypeCorrect`, `InvariantHolds`,
`TableStaysBounded`, `WindowsKeepApart`, `RefusalsHaveReasons`, `NoMoreThanTwice`. `WindowsSpaced` needs that a
waiting call is at most `MaxWait` old (`CallsInv`), and that until the window last opened
is over, less that wait, its record is there and lasts as long (`WindowInv`). `RecordsInv`:
no record's window begins ahead of the clock. Two windows of a client may overlap by the wait.

`NoMoreThanTwice` counts. `TwiceTheLimit` is not inductive: what may still be admitted
depends on the window that stands. `AdmittedInv` says that since it was opened no more was
admitted than its record counts (a whole limit once the record is gone), and since any time
closer than a window to its end, less the wait, a limit more, from the window before;
`HistoryInv` says that the history grows and stops at the present. When the next window
opens, `WindowsSpaced` has put it so far on that the one before the last is out of reach.

### Dataset

For any addresses, prefixes, operators, city records and sources: `TablesHoldInserted`, and
from it `LookupIsNearest` and `LookupFlagsAreRight`. The assumptions are those of `Dataset`:
two prefixes are disjoint or nested and an address has finitely many, which gives a nonempty
set of them a narrowest (`NarrowestExists`); flagged operators are ASNs; a loader refuses a
line that occurs twice. The invariant says of each table what the lines inserted so far have
left in it, whatever their order within a source, and rests on the order between sources
(`InOrder`): IANA's prefixes are all there before Cymru's are compared with them
(`BogonsInv`), rezmoss's clouds before tobilg's (`EntryInv`), the full list of Tor before its
exits (`IpsInv`). That none of the three pairs can be swapped is what `InOrder` is there for.
From a complete build the theorems follow stage by stage of `Lookup`.

`ReportsTellAll` is about any text and limit. Its induction is over the turns of a loop:
`SubsequencePicks` says that what a loop keeps is what is at its places, in their order.
Applied to `Parse` and then to `Dedup` it gives the places of the first mentions
(`TextFacts`); their order is that of the report, and counting them counts its entries.
What an address shows comes from the facts about `Lookup` above. The prover has no induction
over naturals that takes a formula, so sets stand for them (`SetInduction`).

### LookupPage

For any inputs, shares and number of handlers: `TypeCorrect`, `InvariantHolds`,
`QuietPageIsReady`, `ReportAgreesWithLast`, `ClientYieldsToReport`. `QuietIsReady` needs
that a set flag has a request that will reset it, and for `sharing` exactly one
(`FlagsInv`); `busy` may be reset while a second lookup is still under way, so the converse
does not hold. `ReportStays` needs that a report, or a lookup on its way, has taken the mode
from `client` (`ReportInv`).

### Only model-checked

The liveness properties `DueSyncRuns`, `SyncEnds`, `EndsWhenItMust`, `UpdaterNeverStuck` and
`CallsEnd`, which rest on fairness and `ENABLED`, beyond this prover. Every safety invariant
and action property of a passing run has its theorem.

## 7. Disagreements between the code and what it says

* `future_start`: with `start_at_utc` ahead of the first start, a failed startup sync
  saves a retry without a recorded full sync; the loader refuses the file.
* `dataset_start`: both sources of the any-of group `asn` may expire; the dataset
  cannot start any more, though a comment says it always can.
* `storage_txn_late`: an error of `saveStateJSON` after its rename rolls the artifacts
  back under the new state.
* `shared_link`: a lookup that is answered while the share of an earlier one is being
  created takes over its link; the next click copies it for the later lookup.

## 8. Not modelled

* What files contain: the parsing of the sources (`scan.go` and the loaders), the checks of
  `content.go`, whose verdict is a choice in `RefreshPool`; `timestamp.go`, which only its
  test calls.
* The source catalogue and the configuration: tables and field checks, which appear as
  constants and their assumptions.
* Names, labels, the spelling of addresses, countries and locations, log texts, templates,
  what the page renders: no property here tells them apart.
* Writes lost with the machine; a clock that is set back; `.update` after a crash, which no
  start looks at.
* The saved error list beyond its first entry, and the sanctions notice over restarts
  (section 2).

What was seen on the way and is no disagreement with anything written:

* An error of a source's own data that is not `errInvalidArchive`, such as a path that occurs
  twice or a tar member that ends with an unknown error, is fatal in `http.go` and ends
  the program (`broken` in `Archive`). A network error between two members is taken for
  content, and waits for the next sync without short retries.
* A late failure of `saveStateJSON` leaves an ETag over older bytes (`doubtful`).
* More documents of a term between two checks of the watcher than a search returns are never
  reported.

## Running

    tlc -workers 4 -config MCUpdater.cfg MCUpdaterInvariant
    tlc -workers 4 -config MCUpdaterDeep.cfg MCUpdater
    tlc -workers 4 -config MCSourceSync.cfg MCSourceSync
    tlc -workers 4 -config MCManager.cfg MCManager
    tlc -workers 4 -config MCOfacWatch.cfg MCOfacWatch
    tlc -workers 4 -config MCShareStore.cfg MCShareStore
    tlc -workers 4 -config MCRateLimiter.cfg MCRateLimiter
    tlc -workers 4 -config MCDataset.cfg MCDataset
    tlc -workers 4 -config MCLookupPage.cfg MCLookupPage
    tlapm UpdaterProofs.tla

and `tlapm` likewise for each of the other modules that end in `Proofs`.
