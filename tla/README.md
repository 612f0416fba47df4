# LitePan in TLA+

LitePan is a Go server that puts many cloud drives behind one interface: it lists,
moves, uploads and plays their files, keeps their accounts signed in, generates
STRM libraries, organizes media, and serves an admin page, WebDAV and FUSE. This
directory is its verification project: TLA+ modules of the parts whose
correctness depends on the order in which goroutines, requests, events and
restarts meet, TLC runs of them on small instances, and TLAPS proofs for every
instance.

    tlc -config UploadQueue_plain.cfg UploadQueue     # one run; its module and cfg are below
    tlapm UploadQueue_proofs.tla                      # one module of proofs

Paths are relative to `src/`. `PROJECT.json` maps every definition that models
code to its lines, and lists the runs, the mutants (a plausible bug per checked
property, defined next to the definition it changes), the hazards and the
theorems.

## 1. Inventory

### The parts with an order to get wrong

| part | state it keeps | operations | talks to | what is hard | correct when |
|---|---|---|---|---|---|
| **upload queue** `internal/upload` | task map under `Manager.mu`; two slot counters; per task a status, a phase, a queue position, a cancel function and mode, a `runDone` channel | create, pause, resume, delete, stop, change of limit; one goroutine per run | file service (the transfer), SQLite, SSE, start-up gate | a mutex, a condition variable, contexts and channels together; cancel after unlock; late callbacks | limits hold, one run per task, statuses are true, nothing is stranded, Stop and Resume end |
| **upload table** `internal/upload/persist.go` | a row per task | upsert, delete, restore at start | SQLite | snapshot under the lock, write outside it; crash between clean-up and success | a restart finds each task once, as it was |
| **upload events** `internal/upload/sse.go` | dirty sets, subscribers' channels | subscribe, broadcast, flush | HTTP streams | coalescing windows, slow subscribers | a subscriber that keeps reading converges on the tasks as they are |
| **refresh scheduler** `internal/auth/scheduler.go` | running flag, stop and done channels, start-up gate | start, stop, loop | settings page, shutdown, every module behind the gate | the channels are fields that a restart replaces | one loop, a stop takes, the gate opens |
| **refresh state machine** `internal/auth` | auth row per account, per-account lock | active, passive, inline and manual refresh, recover | drivers, bus, account service | re-use window, cool-down, status and event in two steps, account update from an old snapshot | no token lost, no refresh too early, events follow statuses |
| **directory cache** `internal/cache`, `internal/file`, `pkg/singleflight` | lists with TTL, cooling fence, calls under way | list, mutations, replay of events, eviction | drivers, bus | a load racing a mutation; every mutation applied twice | one load per directory, no list older than a mutation survives |
| **event bus** `internal/eventbus` | bounded queue, one goroutine that dispatches | publish, subscribe, close | almost everything | full queue, a close beside events that wait, the publisher's context used in another goroutine | what is accepted before the close is handled, publishers do not hang |
| **notification retry** `internal/notifychannel` | outbox rows with status, attempts and due time | dispatch, file, rounds of retries, re-drive, clear | bus, webhooks, SQLite, admin page, shutdown | two rounds at once, a confirmed delivery not yet written, an exhausted table of waits | what fails is filed, retried when due and given up late; what is confirmed is not sent again |
| **guardrail breaker** `internal/guardrail` | call window, work clock, pause, row | check, begin, finish, record a call, save | drivers' delay gate, media organizer, SQLite | unlocked saves, shared clock, restart | pauses bounded and stored, bursts bounded, long runs noticed |
| **task coordinators** `internal/taskauth` | none | pause and resume the tasks of an account on auth events | bus, upload, offline download, cross transfer | events older than the state | tasks of a dead account rest, those of a live one do not |
| **driver executor** `internal/core/driverexec` | failure counts and back-off per account | run | drivers, auth gate | late answers | back-off is kept |
| **offline download, cross transfer, STRM, media-server refresh, automation** | tables and in-memory queues | pollers, debounced workers, retries | bus, upload, drivers | timers racing events, restarts | each job once, none lost |

They meet in a few places. Requests reach the file service, which calls a driver
through the executor and the auth gate, applies its mutation to the cache and
publishes it on the bus, where the cache's Cleaner and the STRM, index and
automation subscribers get it. Notices go the same way to the Dispatcher, which
sends them out and leaves what fails to the outbox. The upload queue and the other business modules
wait for the start-up gate that the refresh scheduler opens. A refresh that fails
or recovers publishes an event on which the coordinators pause or resume tasks.
Every driver call passes the delay gate, where the breaker counts it; the media
organizer asks the breaker before each run.

### The other parts

Account and profile rows, API handlers, sign-in and roles, settings, SQLite
repositories, backup and restore, cache retention, space clean-up, inspection,
CAS manifests, classification and renaming rules, scraping, subtitles, discovery,
playback and its proxies, FUSE, shares, bots, MCP, drivers, the Vue pages and the
support packages. `PROJECT.json` lists each with the reason it is not modelled:
mostly they are I/O, protocol or data transformation. The stateful ones that are
left for later are in the plan.

## 2. Plan

| order | module | what | status |
|---|---|---|---|
| 1 | `UploadQueue`, `SlotPool` | run queue and its abstract slot pool | done; proved, ownership for callers that take turns |
| 2 | `AuthScheduler` | refresh loop, start-up gate | done, proved |
| 3 | `DirListCache` | cache, singleflight, bus and Cleaner | done, proved |
| 4 | `GuardrailBreaker` | breaker, organizer runs, stored pause | done, proved |
| 5 | `AuthRefresh` | one account's credentials: lock, refreshes, saved form, cached instance, events and tasks | done, proved |
| 6 | `UploadPersist` | table, local source, crash and restart of upload tasks | done, proved |
| 7 | `EmbyRefresh` | refresh queue of the media servers and its table | done, safety proved |
| 8 | `EventBus`, `Mailbox`, `NotifyRetry`, `Notifications` | bus with Close and drain and what it promises, outbox of the external notifications, and both from publisher to delivery through shutdown and restart | done, safety proved |
| 9 | `TaskAuth` | `EventBus` under the Cleaner and the coordinators, with several subscribers to an event; composition with `AuthRefresh` | open |
| 10 | `UploadBroadcast`, `UploadHandoff`, `DriverExec` | SSE windows and slow subscribers; completion of offline groups; network back-off | open |
| 11 | offline download, cross transfer, STRM coordinator | one module each, as far as they differ in kind | open |

Every invariant and action property that a passing run checks is proved; what is left to TLC is
named at the end of section 6.

Abstract specifications. `SlotPool` is what the upload queue promises for each
kind of slot, and `UploadQueue` implements it twice. `Mailbox` is what the event bus
promises publishers and subscribers; `Notifications` and `DirListCache`, which use
the bus with different subscribers, both implement it. The other modules state what
they promise as invariants, over history variables where a promise is about what
has been (`owed`, `acked`, `finished`, `since`).

## 3. Modules

| module | its proofs | models | of |
|---|---|---|---|
| `UploadQueue`, `SlotPool` | `UploadQueue_proofs` | run queue, workers, calls | `internal/upload` |
| `UploadPersist` | `UploadPersist_proofs` | rows, sources, crash, restart | `internal/upload/persist.go`, `resume.go`, `worker.go`, `delete.go` |
| `AuthScheduler` | `AuthScheduler_proofs` | refresh loop, gate | `internal/auth/scheduler.go` |
| `AuthRefresh` (`MCAuthRefresh`) | `AuthRefresh_proofs` | credentials of an account | `internal/auth`, `internal/driver`, `internal/account`, `internal/taskauth` |
| `DirListCache` (`MCDirListCache`) | `DirListCache_proofs` | lists, fence, bus, Cleaner | `internal/cache`, `internal/file`, `pkg/singleflight`, `internal/eventbus` |
| `GuardrailBreaker` (`MCGuardrailBreaker`) | `GuardrailBreaker_proofs` | windows, clocks, pauses | `internal/guardrail` |
| `EmbyRefresh` (`MCEmbyRefresh`) | `EmbyRefresh_proofs` | refresh tasks and their scanner | `internal/embyrefresh`, `internal/store` |
| `Notifications` (`MCNotifications`), over `EventBus` and `NotifyRetry`, with `Mailbox` | `Notifications_proofs` | notices from publisher to delivery | `internal/eventbus`, `internal/notifychannel`, `internal/notification`, `internal/app` |

The MC modules only add symmetry sets, state constraints and values that a cfg
cannot write. Every other constant is given in the cfg.

### UploadQueue, with SlotPool

One action is one critical section of `Manager.mu`, or one step outside it: a
`cancel()` after the unlock, the driver's return, a closed channel. A run has one
number for its queue position, its `runDone` channel and its goroutine, since
`createBatch` and `Resume` make all three together.

* `status, phase, prio, run, mode, cancel` are the fields of `taskState` the
  control depends on; `uploads, downloads, limit` the slot counters; `pc, wtask,
  wrun, slot` each goroutine of `runTask`; `canceled, closed` the contexts and
  channels. A context ends by its own cancel function or by `stopping`.
* `Start … Exit` follow `runTask`, `acquireRunSlot`, `executeUpload` and
  `executeCrossTransferDownload`; `wait` is `sync.Cond.Wait`, left only by a
  broadcast (`Wake`). `UploadProgress` may come at any time of a transfer.
* `Create … StopTimeout` are the calls. A call that unlocks half-way is two or
  three actions joined by `call`.
* `held` is history: the tasks a `Pause` has returned for.

Abstractions: batches of one task; `success` also stands for skipped; progress
values, results and messages are dropped; the table is `UploadPersist`'s (here a
row that cannot be stored is `CreateRollback`); restored tasks are not there.

`SlotPool` is what `acquireSlotLocked` and `releaseSlot` promise: a pool of slots
where none is handed out unless fewer than the limit of the moment are held.

### UploadPersist

What a crash makes of an upload task. `persistTask` makes the row under the lock
and writes it after the unlock, so a write is three steps: it becomes *due*, it
is *made* (`Snapshot`), it reaches the table (`Upsert`, or `UpsertFails`, which
is only logged). Its writers are the task's run, the call that is at it, and the
two-second timer of `applyResumeState`.

* `present, status, mode` are the map; `row` the table; `source` the local file,
  which is one of the temp directory, of an offline download, or the user's own;
  `run` and `call` the goroutines, as far as the table depends on them.
* `Crash` may come at any step, and after `Stop`. `RestoreTasks` reads the table,
  sets what was running to paused and what has lost its file to failed, and
  `RestoreEnds` starts what is pending and removes the temp files of no task.
  `RestoreFails` is a table that cannot be read.
* `acked, deleted, finished, repeated, held, spoiled, forgotten` are history.
  A task is *spoiled* when two writes of it have overlapped or one has failed,
  *forgotten* when a restart could not read it.

Abstractions: one call of a task at a time (two callers are `UploadQueue`'s) and
one flush of a task at a time; upload tasks only; reading the cancel mode and the
patch after it are one step; the clean-up at start and the start of the restored
runs are one step; a statement that fails has written nothing; task ids are new;
`deleteUploadedFile` is left out; `success` stands for skipped. Tasks share only
the process and the table, so that one of them shows all.

### AuthScheduler

The loop's goroutine, `startLoop`, `stopLoop`, the settings handler's two steps
(store, then switch by the value that is stored by then) and the shutdown. A stop
and a done channel are made together, so a loop's number names both; the fields
hold the last pair only and *every* goroutine goes through the fields, which is
where its races come from. `locked` is set by a panic between `Lock` and `Unlock`
(`stopLoop` uses no defer), `crashed` by a panic in the loop. What a check does
is `Active` of `AuthRefresh`.

### AuthRefresh

One account. The drive's refresh tokens rotate: an exchange accepts a token once
and answers with the next. One action is one statement on the table, one call of
the drive, or what is done between two of them.

* `row` is the account's row with its status, failures, retry time, re-use window
  and token; `token` the token each driver instance holds and `cached` the
  Manager's; `lock` the account's lock; `bus` the events on their way to `tasks`.
  `valid` and `minted` are the drive's, external.
* `Request … Active` are the ways into a refresh: building an instance
  (`GetDriver`), an API call answered with 401 (`inline`), a passive one reported
  by a driver, and the scheduler's. `Lock … Cancel` are the refresh itself: the
  check under the lock, the exchange, `Persist`, `Store`, `Finish`, `Write` and
  `Publish`. `Cancel` is a request abandoned at any of these steps.
* `OpenForm … Drop` are `account.Update`: it reads the row, tests the connection
  with the credentials read, and writes them back. `Toggle … Lifecycle` disable
  and enable the account, with what that does to its tasks.
* `since, apart, switched, spoilt` are history: the true age of the last success,
  and what the properties except.

Abstractions: times are what is left of them; `Init` of a driver exchanges
nothing when there is a token; the network back-off of the executor and an
exchange whose answer is lost are left out; an access token outlives the re-use
window; the stepped cool-downs are one constant; a row without a retry time
(legacy) does not occur; the bus is never full; a handler is one step; the
scheduler makes one refresh of the account at a time (`OneLoop` of
`AuthScheduler`); statements succeed unless the request is abandoned.

### DirListCache

One account's lists. `pc` follows `List` through the fence, `GetOrLoad`, the
singleflight group and the driver, and a mutation through the driver,
`ApplyMutation` step by step and `Publish`; the bus's goroutine replays each event
through the same `ApplyMutation`. A list is the set of items in it. `Evict`
stands for expiry, limits and every handler that clears lists, among them the
invalidation `DeleteFiles` makes first; `CoolingEnds` for the fence's three
seconds.

Abstractions: the drive is changed by this process only, so a stale list is the
cache's doing; a positive TTL; one key per directory (the aliases of the root are
one); an upload lands in the directory it was sent to. At first all items are in
the root.

### GuardrailBreaker

A runner is a request for an organizer run and the goroutine it becomes:
`Allow` (with the running test before it), `BeginRun`, `BeginWork`,
`StartRunner`, `FinishRun`, `Trip`, `SaveState`. A caller is a goroutine in a
driver call together with the saver `persistAsync` leaves behind. Time is a
number of ticks. `Restart` loses everything but `stored`.

Abstractions: both limits are set, and the settings do not change (they are read
once); the reason texts are dropped; a row that cannot be decoded is no pause.

### EmbyRefresh

Events leave a row per item or library; a debounce window holds it back; one
scanner gives up what has waited too long, merges items into their library,
claims what is due and refreshes it.

* `status, after, deadline` are the row of each key. `report` is a goroutine
  between `UpsertEvent`'s read on one connection and its write on the other.
* The scanner goes through `BeginScan` (CancelExpired), `ListItems …
  AbsorbItems` (aggregateItems), `List`, `Claim`, `BeginCall … CallFails` (an
  item falls back on its library once), `Complete`, `EndScan`. `StartCancels` is
  Start's own clean-up beside it.
* `CompleteFails` is a result that cannot be written; `Restart` a crash and the
  next start, or a shutdown, whose context ends every statement.
* `owed` is history: the keys with an event no refresh has answered; `busy` those
  whose event came during their own refresh.

Abstractions: statements succeed, except for the unique conflict of two first
events and for `Complete`; the item ids merged into a library's row are never
read; the ticker and a wake are a scan at any moment; the rows of a list come in
any order, and never reach its limit of 50; `CheckReady` and `EarliestDebounce`
have no caller.

### Notifications, over EventBus and NotifyRetry

`EventBus` is the bounded channel and the goroutine that empties it; `NotifyRetry`
the outbox and its rounds. `Notifications` puts publishers in front of the one,
the Dispatcher between the two, and Shutdown, crashes and restarts around both.

* `queue, closed, draining, gone, current` are the bus. `Accept` and `Refuse` are
  the two cases of Publish's `select`, `SeeClosed` and `Take` those of run's;
  where both are open Go chooses either, and so does the model.
* `Mailbox` hides how the bus does it: `pending` is the event at hand and the queue
  behind it (`Pending` in both modules that implement it), so that taking an event
  from the channel is no step of it, while `Handle` is the return of the subscriber.
  In `DirListCache` the event at hand is the Cleaner's job, and nothing closes.
* `status, attempts, wait` are the row of a notice; `todo, seen, cur, result` a
  round, which works from what `QueryDue` has read. A runner is the worker's loop
  or a request that re-drives a row and runs a round itself, beside the loop's.
  `Retry` is the call of the receiver and `Save` the UPDATE after it.
* `over` and `ended` are contexts that have ended: a publisher's (its request is
  over, or HTTP is shut down) and a runner's. Under one nothing is delivered and no
  statement succeeds.
* An `Outcome` is what becomes of one call: "ok", "temporary", "refused", or "lost",
  when the receiver has taken the notice and the answer is a timeout (15 s), a broken
  connection or a 5xx. The sender cannot tell "lost" from "temporary" (`Learned`), so
  that what has been taken is filed and sent again: delivery is at least once.
* `phase` is how far `Shutdown` has come: `CancelHTTP`, `StopLoop`, `CloseBus`,
  which waits for the loop's goroutine, `CloseReturns`. `ProcessEnds` comes after it
  or at any moment before, and leaves only the rows; `Starts` follows.
* `confirmed` (the receiver has answered that it took the notice), `repeated` (it has
  taken it again after that), `failures, clash, unsaved, kept, handled, filed` are
  history.

Abstractions: one channel, an enabled webhook that no filter holds back, and no
other subscriber at work for a notice; statements succeed unless their context has
ended or the database is closed; a round takes its rows in any order and has no
limit of 20 rows; the clock does not stand still while the process is down; a notice
is published once; the list of notifications is not kept; a receiver that answers with
a 4xx has not taken the notice.

## 4. Runs

Each takes a minute at most on two cores. "V" is a run that ends in a
counterexample. What the code breaks has one where a comment of the code says
otherwise, but for `DeletedIsIdle`, which section 5 gives with its constants.

| run | instance | properties | states |
|---|---|---|---|
| `upload_plain` | 2 uploads, 1 caller, limit 1..2, 2 runs, fairness | `OneRunPerTask`, `ActiveIsServed`, `PauseHolds`, `StopDrains`, `SuccessStays`, `PendingLeavesQueue`, `WaitsEnd` | 0.4 million |
| `upload_cross` | 2 cross-drive tasks, 1 caller, limit 1..2, 2 runs | `SlotsReturned`, `SlotsPooled`, `DownloadOnce` | 1.8 million |
| `upload_persist` | 1 task, 2 kinds of source, 1 crash, 1 failed statement, 1 resume | `NothingLost`, `RowFollows`, `UploadedOnce`, `PauseSurvives` | 4.1 million |
| `sched` | 2 settings requests, 3 loops, fairness | `OneLoop`, `GateOpens`, `StopTakes` | 62 thousand |
| `dircache` | 2 directories, 2 items, 2 callers, bus of 1, 2 mutations | `LoadOnce`, `FollowersLed`, `ApartFresh` | 0.5 million |
| `dircache_fresh` V | the same | `FreshAtRest` | until found |
| `breaker` | 2 runners, 2 tasks, 2 callers, 4 ticks, 1 restart | `PauseBounded`, `BurstBounded`, `PauseStored`, `LongRunTrips` | 0.9 million |
| `emby` | 1 item and its library, 2 sources of events, 1 fault, fairness | `OwedIsShown`, `RefreshingIsExecuted`, `OneClaimPerEvent`, `PendingResolves` | 0.3 million |
| `emby_again` V | 2 items and their library, 1 source, no fault | `ReactivationLasts` | until found |
| `auth` | 2 callers, 2 failures make an account failed, 2 instances, 2 tokens, 1 form or switch | `LockReturned`, `TokenKept`, `TasksFollow`, `ReuseWindow`, `BackoffHolds` | 2.3 million |
| `notify` | 1 notice, 1 other event, bus of 1, 1 re-driving request, 1 wait, restarts without number, fairness | `Accounted`, `ConfirmedIsFinal`, `RetriedInFull`, `BusIsMailbox`, `RetriedWhenDue`, `RowResolves`, `PublishReturns` | 0.4 million |
| `notify_lost` V | the same without the other event | `FailureFiled` | until found |

`PROJECT.json` says of each run what it shows. The type invariants are not among
their properties: they are proved (section 6), for these instances and all
others. Nor are the invariants that are the safety side of a liveness property a run
already checks (`SleeperServed`, `WaitServed`, `GateOwed`, `StopReaches`), nor
`CloseDrains` and the `BusIsMailbox` of `DirListCache`: they have been
checked on the instances of `upload_plain` (also with three runs and, where no `Plain`
is needed, on that of `upload_cross`), `sched`, `notify` and `dircache`, and are proved.

**Bounds, and why they are enough.** In `upload_plain` and `upload_cross` two
tasks give every order of two in the queue, the one behind the other and the one
in the slot; two runs let both be at work, or one task be resumed. Limits 1
and 2 include a limit lowered below what is held. The two queues differ only in
which tasks use them, and `upload_cross` uses both. Two runs and one slot are
enough for a waiter to miss a wake-up. In `sched` a third loop meets
a pair of channels that has been replaced while the first loop is on its way out.
In `dircache` two directories let a move touch both; a bus of one makes `Publish`
wait; the second mutation meets the replay of the first. In `breaker` four ticks
hold two windows of two; two pauses of different length (`CallPause` 2,
`WorkPause` 3, which is also the cap) tell which one is in force. In `auth` two
tokens are one rotation, two instances the one in use and its successor. In
`emby` two sources make the two first events of one key that collide, and one
item with a threshold of 1 is merged into its library at every scan. In
`upload_persist` one crash comes at any step of the task, and after a failed
statement or before; kind "temp" is removed by the program and kind "own" is not.
In `notify` a bus of one makes the notice and the other event wait for each other;
one request and the loop are the two rounds that may meet; one wait makes a row
go through two retries, of which the second is its last.

Larger instances have passed once and are not runs, for their length:
`upload_plain` with three runs, without its liveness (1.7 million states);
`upload_persist` with `MaxCrashes = 2`, `MaxFaults = 1` and all three kinds
(13,753,644 states), and with two crashes and a resume but no fault, or one of
each, and three kinds (about 5 million each); `auth` with `MaxToken = 3`
(17,956,829) and with `MaxEdits = 2` (13.9 million).

Two runs bound what they follow by a CONSTRAINT. `OneOverlap` of `dircache`: once
a mutation has overlapped something and the last one is made, nothing is listed
any more; `ApartFresh` claims nothing of such a behaviour, and all the properties
of the run are proved. `Claimed` of `auth`: a behaviour is followed
until a changed form overlaps a refresh, or a token has been lost and the switch
been thrown; then neither `TasksFollow` nor `TokenKept` claims anything, and all
the properties of the run are proved.

Symmetry is used for sets whose members no `CHOOSE` in the specification tells
apart (callers and items of `DirListCache`; runners, tasks and callers of
`GuardrailBreaker`; callers of `AuthRefresh`), and in no run with liveness.

`CHECK_DEADLOCK FALSE` is in the cfgs of a system that may really come to rest:
the budget of runs, loops, mutations, crashes or ticks is used up, the manager is
stopped, or the process stays down; in `Notifications` a restart is always
possible, and the check would say nothing. In `AuthRefresh` and `EmbyRefresh` time
always passes, and deadlock is checked (a step of the clock is then always
there, so that this check says little).

**Fairness**, and why the code justifies it.

* `UploadQueue`: weak fairness of each goroutine. A worker that can go on does
  (`WorkerGoesOn`), a driver returns once it is done or its context has ended, a
  call that waits for nobody goes on (`CallGoesOn`), and the application opens its
  gate (`OpenGate`), which `AuthScheduler` shows (`GateOpens`). No call is ever
  owed, no progress callback, and no timeout: `WaitsEnd` says that the deadlines
  are not needed.
* `AuthScheduler`: the application initialises it, goroutines run, a check ends
  (each refresh has a deadline). The one strong fairness is for a `select` between
  a timer that has fired and a closed channel: Go chooses at random, so the
  channel is chosen in the end.
* `EmbyRefresh`: time passes and the scanner runs, since the ticker never stops
  and the client of the media server has a timeout. No event is ever owed.

* `Notifications`: the bus's goroutine and the rounds run, each call of a receiver
  ends (its context has a timeout of 15 seconds), the loop's ticker ticks and time
  passes. Publish is a `select`, of which one case stays open or opens again. No
  event, request, re-drive or shutdown is owed.

## 5. What the runs show, and the findings

With callers that take turns the upload queue keeps one worker per task, its
runs give back every slot they take, its statuses are true, and no wake-up is lost for
good. Its table follows the map, nothing confirmed is lost in a crash, and a
restart repeats no upload and ends no pause, unless two writes overlap or one
fails. The scheduler never has two loops at work and opens the gate whatever
happens to the first loop. An account's lock always comes back, its drive is asked
neither twice for one refresh nor during a pause, its token is kept and its tasks
follow its row, but for the races below. The cache loads a directory once and is
right about everything that does not overlap. The breaker bounds what it promises
to bound. The refresh queue shows every event it owes an answer to and never waits
for ever. A webhook that fails while its publisher's context lasts is filed,
retried when due and given up only when its attempts are used up, and once its receiver
has answered that it took it, it is not sent again, unless two rounds meet at its row
or a result is not written. A receiver whose answer is lost gets it again.

### With a run

1. **A stale list outlives its mutation** (`dircache_fresh`, `FreshAtRest`,
   `internal/cache/service.go:172`). The fence only guards reads that begin after it;
   `fence.go:89` says that it keeps stale lists from staying for their TTL. Late
   replays by the Cleaner do the same with a single caller, given three mutations
   and a bus of two.
2. **A re-activated refresh is given up at once** (`emby_again`,
   `ReactivationLasts`, `internal/store/emby_refresh_repo.go:57`). The deadline is
   that of the row's first event ever, where the comment of line 17 says that the
   window is reset.
3. **A failed webhook leaves no row** (`notify_lost`, `FailureFiled`,
   `internal/notifychannel/dispatcher.go:140`). The Dispatcher runs in the bus's
   goroutine under the publisher's context. A notice published by a request that
   has ended by then (`api/emby_webhook.go:55` passes `r.Context()`, through
   `notification/service.go:195`) is not sent, and its INSERT into the outbox fails
   as well. `taskauth/coordinator.go:104` gives its own handler a context of its own
   for this very reason.

### Without a run

Properties that the modules state or state in part and the code breaks. No comment
promises them, except the first; the constants reproduce them.

* `DeletedIsIdle` with two callers (`upload/delete.go:26-29`). `upload/state.go:53` says
  of Delete's wait: "删除前等待任务退出，避免后台仍在传输。" (wait for the task to exit
  before deleting, so that nothing is still transferring in the background). Delete
  waits for the run it has seen, lets go of the lock and takes the task away in
  another critical section, `popTask`, which does not look again: a request that
  resumes the task in between starts a run that goes on transferring for a task
  that is no longer in the map. `Task = {t1}`, `CrossTask = {}`, `Caller = {c1, c2}`,
  `Limits = {1}`, `MaxRuns = 2` and `INVARIANT DeletedIsIdle` under `Spec` give the
  counterexample. With one caller, as in `upload_plain`, the case does not arise,
  and the property is not among those that run checks.

* `QueueHeadAwake` (limit 2, 2 runs; `upload/queue.go:152`): a worker that finds
  another task ahead sleeps; that one takes its slot without a broadcast, and the
  sleeper misses the second slot until something is released. Not starvation:
  whoever holds the first slot broadcasts when it gives it back (`HeadsWoken`).
* `SleeperServed` and `WaitServed` with two callers (`upload/manager.go:187`): a create
  that is rolled back takes its tasks out of the map with no broadcast and leaves
  their channels open. A worker that has gone to sleep behind one of them sleeps
  until the next broadcast, and a Stop, Resume or Delete that already waits for its
  channel waits until its deadline.
* `SleeperServed` with a cross-drive task: the pause of the entry on
  `upload/worker.go:198` below leaves a task that is pending without a goroutine, and
  those behind it in the queue wait for it.
* `OneRunPerTask` and `ActiveIsServed` with two callers and three runs
  (`upload/lifecycle.go:89`): two Resumes wait for one finished run, and a Pause
  between them lets both start; the two close one channel twice. `SuccessStays` goes
  with it: the second run's reports and failures overwrite the first one's success.
* `ActiveIsServed` with a cross-drive task (`upload/worker.go:198`): a pause, a
  progress report and the end of the download leave a task that reads "running"
  without a goroutine, where line 210 means to say that it waits for its upload.
  `PauseHolds` with one: the same patch turns a task paused a moment ago back to
  pending, and it uploads.
* `DeletedStays` of `UploadPersist` (no fault needed): the flush timer's late
  Upsert lands after the row was deleted, and the task is back after a restart.
* `StopOnce`, `DoneOnce` and `EnabledRuns` of `AuthScheduler`
  (`auth/scheduler.go:151`, `123`, `106`): a second stop during a check panics with
  the mutex held; the loop closes the done channel of the *field*, which a new
  loop may have replaced; switched off and on again during a check, the refresh
  stays off.
* `ExpiredIsTrue` of `AuthRefresh` (`MaxEdits = 0`; `driver/manager.go:159`): a
  network error drops the instance another request is refreshing; the next one
  starts from the old token, whose exchange is refused for good, and the account is
  filed as expired though its stored token is valid.
* `PauseKept` of `GuardrailBreaker` (`guardrail/breaker.go:205`): the first Check
  reads an older stored pause over a newer one.

What the properties except by name, since the code loses it:

* A table that cannot be read at the start (`upload/persist.go:49`) leaves an empty
  map, and the clean-up that follows removes the temp sources of every task; the
  next start files them as failed for want of their file (`forgotten`).
* A second create with the same client task id (`upload/manager.go:168-193`) is
  answered with a task that may still be rolled back.
* An account saved while a refresh is under way gets the old token back
  (`account/service.go:186`), and its stale row can erase a failure so that no
  recovered event follows and the tasks stay paused, which the comment of line 325
  forbids (`apart`).
* A connection test with an access token that is out of date rotates the refresh
  token in an instance nobody stores from, though `auth/state_machine.go:77` takes
  a passed test to say that the credentials can be used; a request abandoned while
  its new token is being stored keeps it in the instance only (`spoilt`).
* A recovered event decided before the account was disabled resumes its tasks
  (`auth/state_machine.go:52`; `switched`).
* `Complete` overwrites the status of a row that was re-activated during its
  refresh, so that this event is lost (`busy`); a shutdown or crash leaves rows
  "refreshing" until their next event; a task of a library that carries items is
  not refreshed item by item, as the comment of `executeLibrary` has it.

* Two rounds at once, the loop's and that of a re-drive, retry a row twice and write
  both results, so that a `sent` row may be `pending` again and delivered a second
  time, although `notifychannel/retry_worker.go:184` calls both `sent` and `failed`
  final (`clash`; `ConfirmedIsFinal` excepts such rows). A result that a crash or an
  ended context has kept from the table leaves the row to be retried (`unsaved`).
* An event accepted after the bus's goroutine has gone is lost without a word
  (`kept` counts those accepted before the close).

And what was met while reading these parts, outside what the modules cover: `Notify`
stores a notice and publishes it, and its own subscriber stores it again
(`notification/service.go:189`, `234`), so that it is listed twice; failed and
recovered accounts are stored but not published (`service.go:206-223`), so that no
external channel hears of them, which `dispatcher.go:129` expects; a row makes six
retries where its maximum of attempts says five (`retry_worker.go:31`, `53`); a
re-driven row is last in order and is not in its own request's round when twenty
others are due.

## 6. Proofs

Checked by TLAPS, for every value of the constants that satisfies the named
assumptions. Each invariant rests on a strengthening that is inductive; the
temporal theorem combines its three facts by PTL.

* **`UploadQueue_proofs`**, under `ConstantsAssumption`: `TypeCorrect`,
  `SlotsComeBack`, `SlotsArePooled`. `SlotsReturned` alone is not inductive: a
  release must know that the worker has a slot, and an acquire that it has none.
  `IInv` has that each counter is the number of workers whose `slotKind` is set
  (`SlotAccounting`, which says nothing of where they are), that it is set exactly
  at the program points of `Holding` (`SlotDiscipline`), and that the number a
  create is about to spawn has no worker yet (`SpawnFresh`), which would otherwise
  start over with a slot in hand; the counters are then cardinalities of finite sets that grow or shrink by
  one. The refinement follows step by step: `TakeSlot` maps to an acquire below
  the limit, `ReleaseSlot` to a release, `SetLimit` to a change of the limit, the
  rest stutters.
* **`UploadQueue_proofs`**, its second part, under `OneCaller` as well, because two
  callers break what it proves (section 5). `OneRunAtATime` rests on
  `Ownership`: a task's `run` is the only run alive for it and a run with a slot
  has its task in the map with its own cancel function (`RunsOwn`); a call waits
  for the run the task still has, and Delete passes the wait only if nobody holds
  a slot (`CallOwns`). `DownloadsOnce` and `StopsDrain` add `PhaseInv`: whoever
  holds a download slot downloads, and Stop waits for every run with a slot.
  `ActiveServed` and `PausesHold` add `Truth`, which relates a task's status to
  the program point of its run and to the call that is at it, under `Plain` (no
  cross-drive task), without which both are false. Both are hypotheses of the
  theorems; the instance of `upload_plain` satisfies them, that of `upload_cross`
  the first.
* **`UploadQueue_proofs`**, its third part: what the liveness properties rest on.
  `SleepersServed` (`OneCaller`, `Plain`): a worker asleep in the queue has a broadcast
  coming, from whoever holds a slot or from a pause or delete half-way, or somebody
  ahead of it awake. A worker sleeps because no slot is free, so that a holder
  exists, or because a pending task precedes its own; that task's run is alive by
  `Truth`, and either awake or asleep with somebody further ahead to serve it. A new
  task comes in last (`CreateLast`) and overtakes nobody. `HeadsWoken` follows for the
  head of the queue, which has nobody ahead. `WaitsServed` (`OneCaller`): whoever waits
  for a channel waits for one that is closed or that a run at work will close. The
  run of a task in the map is alive, closed, or about to be spawned by its create
  (`RunCloses`), and what a Stop has collected was of that kind when it did
  (`StopAwaits`). `SuccessesStay` (`SuccessStays`, `OneCaller`): whoever holds a slot for a task that
  has succeeded is on its way to give it back (`DoneInv`).
* **`UploadPersist_proofs`**, under `KindsAssumption` and `BoundAssumption`:
  `PersistTypeCorrect`, `NothingIsLost`, `TableFollows`, `UploadsOnce`,
  `PausesSurvive`. Nothing relates two tasks, so the invariant is one of each task
  (`TaskInv`): new tasks have nothing (`Fresh`), a process that is down or
  restoring works at no task (`Away`), run, call and status agree (`Placed`), a
  task on its way to its first row is in nobody else's hands (`Creating`), row and
  source are kept (`Kept`), and the row, or the write on its way to it, is what
  the map says (`Followed`). `UploadedOnce` and `PauseSurvives`
  add that what is finished, or held, is not pending in the row or on its way
  there (`NotAgain`).
* **`AuthScheduler_proofs`**, under `LoopsAssumption`: `SchedulerTypeCorrect`,
  `LoopsExclusive`, `GateIsOwed`, `StopsReach`. The strengthening says that a loop that
  has not yet given up its flag is the last one made and the flag is up (`FlagIsUp`),
  and that the fields hold a pair once a loop has been made (`Made`). While the gate is
  shut after the boot, a loop is still before the step that opens it (`GateOwed`, with
  `BootFirst`: nothing is made before the boot is over). A stop reaches the loop it
  was meant for (`StopReaches`): every number up to the fields' has been launched
  (`Launched`), and of those only the last can still have its flag.
* **`AuthRefresh_proofs`**, under `ConstantsAssumption`: `AuthTypeCorrect`,
  `LockGivenBack`, `CredentialsKept`, `ExchangesSpaced`, `FailuresPause`,
  `TasksFollowRow`. The
  invariant has a part about what is shared (the token is kept; the row remembers
  a success for as long as its window lasts: `SinceCovered`) and a part about each
  caller (`CallerOK`): it has the lock just where it should, the row it has read
  is still the row where it writes, and its instance's token is valid where it is
  about to be stored. `TokenKept` needs both, since a token moves from the drive
  to an instance and to the row. `TasksFollowRow` adds `FollowInv`: for an account
  that is enabled, what the tasks have heard or will hear last from the bus agrees
  with the row, unless the holder of the lock is about to publish the change
  (`Live`); for one that is disabled throughout nobody gets as far as an attempt
  (`Dead`); and a save that throws no switch ends with the account as it was
  (`SaveOK`).
* **`DirListCache_proofs`**, under `ThreadAssumption`, `NoneAssumption`,
  `BoundAssumption`: `CacheTypeCorrect`, `OneLoader`, `NoOrphanFollower`,
  `ApartIsFresh`, `MutationsInOrder`. Typing an upsert needs to know that its event names an item
  (`UpsertNamed`); the next two rest on `FlightInv`: whoever is inside singleflight
  as a leader is the entry of its directory, every entry is such a leader, and a
  follower's leader has not closed. `ApartIsFresh` rests on `ApartInv`: a caller
  that applies its mutation is alone (`MutationAlone`), the lists that differ from
  the drive are those it has yet to put right (`OthersFresh`, over `Behind`), a
  list about to be upserted lacks the named item and no other (`LacksOne`,
  `UpsertsTrue`), and the item an event names is still on the drive when the Cleaner
  replays it (`EventsTrue`). `MutationsInOrder` maps the step of `Publish` to a `Put`, the
  Cleaner's return to a `Handle`, and all else, `Dispatch` among it, to a stutter of
  `Mailbox`.
* **`GuardrailBreaker_proofs`**, under `GuardAssumption`, `BoundAssumption`,
  `ThreadAssumption`: `BreakerTypeCorrect`, `PausesCapped`, `LongRunsTrip`,
  `PausesStored`, `BurstsBounded`. `PauseBounded` is inductive with the types because the pause in
  memory, the one on its way and the stored one are bounded together;
  `LongRunTrips` needs that the clock still shows a solo run's beginning
  (`SoloHasClock`) and that time runs forward; `PauseStored` that while a pause is
  on its way there is one thread that carries it (`StoredInv`). `BurstsBounded`
  needs to know which calls lie in which window (`WindowInv`): those of the window
  of the moment are the last `inWindow` ones, those of the window before are fewer
  than the limit, and all others came a window's length or more before it began.
* **`EmbyRefresh_proofs`**, under `ConstantsAssumption`: `TypeCorrect`,
  `OwedShown`, `RefreshingExecuted`, `OneClaim`. What is pending is owed an
  answer (`PendingIsOwed`), and a row that is pending or owed again while it is
  being executed has had an event meanwhile (`ExecutedIsBusy`); together with the
  types and the two invariants these are inductive.

* **`Notifications_proofs`**, under `BusAssumption`, `OutboxAssumption` and
  `NotificationsAssumption`: `TypesKept`, `NoticesInOrder`, `ClosingDrains`, `FailuresAccounted`,
  `ConfirmationsFinal`, `GivenUpLate`, `RetriesWhenDue`. An event is in one place of its
  way and there once (`FlowInv`), and what is not accepted yet has left nothing
  anywhere (`FreshInv`), so that a notice is filed before any round can hold its
  row (`RoundInv`, `FiledInv`). A row that no two rounds have held at once is in
  at most one round's hands; while it is there it is pending and due or has been
  cleared, and the round counts its attempts as the row does (`OutboxInv`).
  `ConfirmedIsFinal` adds that a confirmed notice is `sent`, cleared, or about to be
  saved as such (`DeliveryInv`). `CloseDrains` follows from `BusInv`: whoever was
  accepted before the close is queued, at hand or handled, and the goroutine goes
  with an empty queue. `NoticesInOrder` is the refinement of `Mailbox` through every
  restart: a step of the Dispatcher is a `Handle` when it is its last for the event and
  a stutter before, and the goroutine's `Exit` is a `Leave` because it has seen the
  close and an empty queue (`BusInv`).

Only model-checked: everything under fairness (`PendingLeavesQueue`, `WaitsEnd`,
`GateOpens`, `StopTakes`, `PendingResolves`, `RowResolves`, `PublishReturns`), which is
out of the prover's reach, as are ENABLED and induction over data. Of the first four
the safety side is proved (`SleepersServed`, `WaitsServed`, `GateIsOwed`, `StopsReach`):
there is always somebody whose step leads on, and fairness makes them take it. No module declares a RECURSIVE operator.

## 7. Not modelled

In the modelled parts: progress numbers and messages, settings other than the
limit, the refresh switch and an account's own, file infos and download links in
the cache, panics of drivers, batches of several upload tasks. Which accounts the
refresh loop chooses and when its next check is due. Subscribers of the bus other
than the Cleaner, the Dispatcher and the task coordinators. Tables other than the
upload tasks', the breaker's state, the account's row, the refresh tasks and the
outbox.

Left for later because they have state and an order to get wrong: the rows marked
open in the plan; the pending restore of a backup; the de-duplication of the CAS
intake; the FUSE block cache.

Left out for good: what is I/O, protocol or conversion without an order of its
own (drivers, proxies, bots, scraping, classification, the pages). `PROJECT.json`
lists each part with its reason. This is most of the program by size: the drivers,
proxies, external catalogues and pages are long and sequential, and a model of
them would restate request and response formats.
