# TLA+ models of js-lib

TLA+ modules, TLC configurations and TLAPS proofs for the stateful, asynchronous parts of
the NaturalCycles `js-lib` monorepo (`src/packages/`: js-lib, db-lib, nodejs-lib,
backend-lib, dev-lib). Everything here runs on one JavaScript event loop, so the unit of
interleaving is not the instruction but the stretch of code between two awaits. That is
the convention of every module: **one action is one uninterrupted run of JavaScript**, and
two actions may have anything in between that the event loop can put there.

    tlc -workers 2 -config MCPQueue.cfg MCPQueue      # any other .cfg the same way
    tlapm PQueueProofs.tla

## Inventory

The first block of the table is modelled, the second is not. Paths are relative to
`src/packages/`.

| component | state | operations | what is hard | what makes it correct |
|---|---|---|---|---|
| **PQueue** `js-lib/src/promise/pQueue.ts`, `pDefer.ts` | `inFlight`, `queue`, `onIdleListeners`, a defer on each function | `push`, `onIdle`, then/catch/finally handlers of a job | a job's answer and the return of its slot are two microtasks; the finally handler calls `push` again; a function can be pushed twice; a function may throw | exact slot count, no free slot beside a queued function, FIFO, each push answered by its job, idle listeners told at idleness and then only |
| **pMap** `js-lib/src/promise/pMap.ts` | `ret`, `errors`, `currentIndex`, `resolvingCount`, `isSettled` | one call: serial, all at once, or `concurrency` at a time | continuations of the mappers share the counters; SKIP, END, three error modes, mappers that throw | bounded concurrency, results complete and in input order, errors as the mode says, nothing started after the answer, an answer |
| **InMemoryDB** `db-lib/src/adapter/inmemory/inMemory.db.ts` | tables; per transaction `ops`, `writeOperationHappened`; the directory | batch writes, deletes, patches; transactions: begin, read, write, commit, rollback; flush and restore | `commit()` awaits between operations and restores a copy of the whole db on error; a flush empties the directory first; crashes | writes buffered, readOnly, read-after-write, all or nothing, commit ends; a restore gives back what was flushed |
| **Fetcher** `js-lib/src/http/fetcher.ts`, `promise/pTimeout.ts` | one `res` for all tries, `retryStatus` | `doFetch`: request, body, error body, retry, hooks | two timeouts; `pTimeout` cannot stop what it gives up on, so a late body writes to `res` during later tries | no unwanted repeat, no early surrender, outcome of one try, an answer |
| **CommonDao** `db-lib/src/commondao/common.dao.ts` | the object a caller holds, the rows a transaction read, its buffered writes | getById, save, saveAsDBM, patchById, patch, delete, patchByIds, increment, `runInTransaction` | read-merge-write and check-then-insert with awaits in between; whether the database isolates | no lost patch where transactions isolate, ids that are new, nothing left of what was rejected, protected rows stay |
| **CacheDB** `db-lib/src/adapter/cachedb/cache.db.ts` | downstream and cache | reads and writes through both, with three options | cache writes after an await, and unawaited; failures after the execution | coherent but for overlaps and failures; a read finds what was there |
| **FileDB** `db-lib/src/adapter/file` | one file per table | load all, change, save all | whole-file saves that overlap, a crash in one | an atomic store, as long as neither happens |
| **memoizing helpers** `js-lib/src/decorators/asyncMemo`, `swarmSafe`, `memoFnAsync` | cache, promise cache | call, `clear()` | `clear()` while a call is in flight, caches that fail | one execution at a time per key, no value from before a clear |
| **debounce, throttle** `js-lib/src/decorators/debounce.ts` | two instants, the last arguments, `timerId` | call, cancel, flush, timer | a timer that was replaced still fires; maxWait, flush and cancel leave timers running | every call followed by an invocation within wait and maxWait |
| **worker threads** `nodejs-lib/src/stream/transform/worker` | defers per message and worker, two message queues per worker | take a chunk, messages both ways, the end, exit | results overtake each other; a worker dies with messages | each chunk called back with its result, the end comes last |
| **LocalDate** `js-lib/src/datetime/localDate.ts` | a year, a month, a day | plus, diff, compare, startOf, range | leap days, centuries, months of different lengths | agrees with the calendar |
| **pRetry, pTimeout** `js-lib/src/promise` | `attempt`, the timer of each attempt | one call | an attempt that timed out runs on beside the next one | the answer is the last attempt's, no attempt after one that succeeded |
| **server** `backend-lib/src/server` | a timer per request, the responses, a timer per call of `stop` | request timeouts, error handler, `stop()` | timer against handler, stop against open requests and against another stop | a waiting client has a timer, stop ends, and cuts off nothing unless forced |
| streams `nodejs-lib/src/stream` | buffers, pauses | `transformMap`, `pipelineClose`, `transformThrottle` | END with mappers under way, closing upstream | each row once, the pipeline ends |
| health check `backend-lib/src/deploy` | counters | requests in a loop | thresholds | ends as they say |
| the rest | little or none | files, CSV, JWT, hashes, arrays, strings, times, schemas, linters, scripts | pure functions or I/O | unit tests |

How they meet: CommonDao calls a `CommonDB` (InMemoryDB, CacheDB, FileDB or a remote one) and
decides about its rollbacks; CacheDB composes two databases; `pMap` is used by the databases,
pipelines and scripts for concurrent work; Fetcher races its work against `pTimeout` and
calls user hooks in between; pRetry runs its attempts through `pTimeout`; the server's
middlewares share `req.requestTimeout`; PQueue and the decorators are used by callers directly.
All of it shares state only through objects of one process and continuations on one event loop;
worker threads share nothing with it but messages. Only InMemoryDB (flush) and FileDB
persist anything.

`PROJECT.json` lists every component, and under `hazards` the places where each of them
can go wrong in a way that a test would hardly reach. The properties follow that list.

## Modules

| module | models |
|---|---|
| `JobPool` | abstract specification: a work-conserving FIFO pool with `bound` places |
| `PQueue` | the promise queue; `PQueue!Pool` is its refinement mapping to `JobPool` |
| `PMap` | one call of `pMap` |
| `InMemoryDB` | transactions and direct writes on one table |
| `InMemoryDBDisk` | its flush and restore, with crashes |
| `Fetcher` | one call of `doFetch` |
| `CommonDao` | calls of a dao, over a database known by its interface |
| `StoreClients` | clients, ids and bounds, shared by `CacheDB`, `FileDB` and `InMemoryDBDisk` |
| `CacheDB`, `FileDB` | the two adapters |
| `Memo` | three memoizing helpers, one instance |
| `Debounce` | a debounced or throttled function and its timers |
| `WorkerPool` | a multi-threaded transform and its workers |
| `Retry` | one call of `pRetry`, or of `pTimeout` alone |
| `BackendServer` | requests with their timeouts and the error handler, and `stop()` |
| `LocalDate` | the arithmetic of dates, and a walk over them |
| `PQueueProofs`, `PMapProofs`, `InMemoryDBProofs`, `FetcherProofs`, `CommonDaoProofs`, `StorageProofs`, `AsyncProofs`, `TimeProofs` | theorems |
| `MC...` | the small instances for TLC; `MCStorage`, `MCAsync` and `MCTime` put components that share nothing into one run, where the variable `focus` says which of them a behaviour is of |

Operators named `X_Something` under a "Mutant:" comment are plausible bugs of `X`. They are
not part of any specification: putting one in the place of `X` breaks the property that
`PROJECT.json` names for it, which shows that the property depends on that code.

**PQueue.** `PushJob` is `push` called by a user, `Settle` the then or catch handler of a
job, `ReleaseAndRefill`/`ReleaseOnly` its finally handler, `OnIdle` the call of `onIdle`.
`Admit` is the body of `push`, which both `PushJob` and `ReleaseAndRefill` run (the code's
`void this.push(nextFn)`). A push stands for one execution of the function it passes; the
defer belongs to the function (`fn.defer`), so a function pushed twice has one defer for two
executions, as in the code. `fnOf`, `voided`, `pushed` and the `by` of a defer are history.
A function that throws instead of returning a promise leaves `inFlight` incremented and its
slot taken for ever (`"threw"`). It also rejects the promise of the very call of `push` it threw
in, in every errorMode: the caller's (`returned`), or, when the queue started it, the voided one
that nobody has (`voided`).

**PMap.** `CallGeneral`, `CallOne` and `CallAll` are the synchronous part of a call in its
three modes; `GeneralValue`, `GeneralEnd`, `GeneralError`, `OneDone`, `AllDone` and
`BeforeEnd` the continuation of one mapper, including the `next()` it runs, which takes the
next item. In the general mode an item is taken in one step and its mapper called in another,
`StartMapper`, since `Promise.resolve(nextItem).then(...)` puts a microtask, or the wait for an item
that is a promise, between them: the mapper is called even if pMap was settled meanwhile. Items are
indices. A mapper comes to a value, SKIP, END or an error, and may
throw synchronously.

**InMemoryDB.** A row is the name of its last writer, which is all that atomicity needs.
`Commit` is `commit()` up to its first await (it copies the data, then applies the first
operation), `CommitNext` each further operation, `Restore` the catch. A batch that throws on
one row leaves the rows before it written. `Rollback` is `rollback()`, `Abandon` a function
that rejects; `FnRejects` is the graceful rollback of `CommonDao.runInTransaction`. `missed`
and `disturbed` are history.

**Fetcher.** `pc` is what `doFetch` awaits. `Call` and `DelayOver` start a try; `AnswerTaken`,
`AnswerNotOk`, `FetchFails`, `RequestTimeout` end the request; `BodyArrives`, `BodyBreaks`,
`BodyTimeout` the body; `ErrBodyArrives` the body of an error response; `BeforeRetry`,
`Return`, `HookThrows` are the hooks. `LateBody(k)` is the `onOkResponse` of try k going on
after its timeout. A body is the number of the try it came from, which is what the
properties about stale state have to tell apart. Which answers may be repeated is
`ShouldRetry`; 408 and 429 form a status class of their own, because the code excepts them
from `retry4xx`.

**CommonDao.** `Begin` opens a transaction of the caller's (or none); `StartLoading`,
`StartPatching`, `StartCreate` and `StartWriting` are the first stretch of a call, up to its
first await; `Load` the continuation after `getByIds`, `Convert` after `bmToDBM`, `Check` after
`ensureUniqueId` has read, `Send` the database's execution of the write, `ChangeInPlace` of
`patchByIds` and `increment`, `Commit` and `Abandon` the end of a transaction. A call comes with
its options, `allowMutability` and `saveMethod` among them, which `Allowed` and `SaveMethod` look
at as the code does. A row is who created it and whose changes it holds, which is what lost
updates are about. The database is external: `"fake"` writes at once, `"buffered"` and `"isolated"`
keep the writes until a commit, which in the latter also checks the reads. `lost`, `clobbered`,
`present` and the `why` and `overrides` of a buffered write are history.

**CacheDB.** `GetByIds`, `RunQuery` and `Change` are a call up to its request downstream;
`ExecuteRead` and `ExecuteWrite` are the downstream's, `Answer` the rest of the call with what it
does to the cache; `Fail` a downstream that refuses or fails, before, in the middle of or after
executing. Each of the two databases runs a query on the rows it has (`Selected`); with a limit or
an offset, any of them may be what it comes to (`Picks`), since which rows those are depends on
what else there is. A saveMethod goes to both, and each may refuse a batch because of it, with
the rows before the one that throws written (`Obstacles`, `Reached`); a cache that does so rejects
the call if it is awaited. `tainted` and `contested` record the rows about which the cache may be
wrong; `there` the rows a read could not have missed.

**FileDB.** `FileMake` begins a call, `LoadFile` reads the file, `SaveInMemory`, or `OpenFile`
(which truncates) and `CloseFile` (which has streamed all rows), save it. `Crash` leaves what
is on disk: a file open for writing is not whole any more. `expected` is what an atomic store
would hold, `upset` says that writes overlapped or a crash fell into one.

**InMemoryDBDisk.** Any number of flushes and restores may be under way at once, as nothing in the
code keeps them apart. `Flush`, `RemoveFile`, `OpenFiles`, `FileWritten`, `FlushDone` are the
steps of a flush, `Restore`, `ListFiles`, `FileRead`, `RestoreDone` those of a restore.
A flush that removes a file another is streaming leaves that one writing to nothing; two that
write one file leave it in any state; what a restore finds in a file a flush is at, or was at
while it read, is left open (`Readable`). `ChangeTable` replaces rows, `ChangeInPlace` changes row
objects a flush may be streaming. `DiskCrash` loses the data and leaves the files as they are.
`flushed`, `valid`, `quiet` and `marred` are history, from which the property takes its exceptions.

**Memo.** A call is `Join` or `Start`; the task it starts goes through `Hit`, `Run` or
`GetFails`, then `FnResolves` or `FnRejects`, then `Over`; `Answer` is the caller's await. A
`clear()` is `Clear`, `ClearExecuted`, `ClearEnds`, or `ClearFails`. A value is the number of
clears executed before the function began, so a stale one can be told from its number. Any
access to a cache may fail (`healthy`); a cache may be persistent, and then have old values.

**Debounce.** Instants are kept as ages, cut off where nothing tells them apart. `Debounced`
is a call, `TimerExpired` a timer (also one that is not `timerId` any more), `Flush`,
`Cancel`, `Tick`. `waits` is history.

**WorkerPool.** `Take` is a chunk of the transform, `Receive` and `Processed` the worker's
side, `OnMessage` and `OnExit` the main thread's, `CallBack` the continuation of the message's
promise, `Final`, `FinalDone` the end, `Exit` and `Die` the end of a worker, ordered or not.

**Retry.** `Try` begins an attempt, `TimesOut` is the timer of `pTimeout`, `Resolves(a)` and
`Rejects(a)` the function of attempt a, which may have timed out before; `Failed` is the
catch of `pRetry`. `pTimeout` alone is a `pRetry` of one attempt, with `onTimeout`. The
predicate is asked after the first attempt too, against its comment "since 2nd attempt"
(pRetry.ts:38, 165): one that says no ends the call without a retry.

**BackendServer.** `Arrive` is `requestTimeoutMiddleware`, `Parse` the body parsers, `Route` the
resource with or without `customRequestTimeoutMiddleware`, `HandlerAnswers`, `Begin` and `End` the
handler with `genericErrorMiddleware`, `TimeOut` a timer of the request, `OnFinished` the
listener that clears `req.requestTimeout`, `Leave` the client. `Stop`, `Complete`, `HookRejects` and
`ForceExit` are `stop()` up to its await and its three ends. A request comes with a
connection of its own, which stays open when it was answered, as with keep-alive.

**LocalDate.** `Plus`, `Diff`, `Compare`, `StartOf` and `RangeOf` follow the code's loops as
recursive functions; `Move` goes from date to date by one `Plus`. The reference is the number
of a day since the year 1, from the Gregorian rule and a table of the days before each month,
which uses none of the code's functions. The number of elements of a range is checked
for months and years only, with `[)` and a step of 1.

## Runs

| run | instance | asks |
|---|---|---|
| `pqueue` | MCPQueue.cfg, 351,120 states | `SlotsAccounted`, `QueueIsUnstarted`, `NoListenerLeftAtIdle`, `ListenersWakeOnlyAtIdle`, `AnsweredByItsJob`, `EveryPushAnswered`, and that PQueue implements JobPool (`ImplementsPool`) |
| `pmap` | MCPMap.cfg, 27,182 states | `BoundedConcurrency`, `ResultComplete`, `ErrorsComplete`, `NothingTakenAfterAnswer`, `EventuallySettled` |
| `inmemorydb` | MCInMemoryDB.cfg, 123,001 states | `BufferedUntilCommit`, `NoReadMissesOwnWrite`, `AloneAllOrNone`, `CommitEnds` |
| `fetcher` | MCFetcher.cfg, 877,266 states | `NoUnwantedRepeat`, `GivesUpOnlyWithReason`, `OutcomeConsistent`, `OkBodyIsNoErrorBody`, `StoppedSendsNothing`, `EventuallyAnswered` |
| `commondao` | MCCommonDao.cfg, 4,310,212 states | `PatchesKept`, `FreshIds`, `FailedLeavesNothing`, `ProtectedRowsStay` |
| `storage` | MCStorage.cfg, 2,063,024 states | `CacheCoherent`, `CachedReadsFindRows`, `FileIsAtomicStore`, `RestoresTheFlushed` |
| `async` | MCAsync.cfg, 5,975,392 states | `ComputedOnce`, `AnswersAreCurrent`, `OwnResults` |
| `time` | MCTime.cfg, 802,728 states | `PlusIsByCalendar`, `DiffCountsFullUnits`, `InvokedInTime`, `AnswerIsOfLastAttempt`, `AnswerIsTimed`, `StopsInTime`, `CompletedLosesNothing` |

All of them pass. The runs check no type invariants: those are part of the inductive
invariants, which are proved for every module.
What some of the properties say about the code by what they leave out:

- `PatchesKept` holds only where the database isolates transactions. InMemoryDB does not (its
  commit checks no reads), so two `patchById` in transactions of an InMemoryDB may lose one.
- `AnsweredByItsJob` says of a function that throws synchronously that it rejects the push it
  was called in, in every errorMode; one that throws when the queue starts it rejects no promise
  a caller has, and its push may stay unanswered, as `EveryPushAnswered` states.
- `NothingTakenAfterAnswer` does not say that no mapper is called after the answer: `isSettled` is
  looked at when an item is taken, and its mapper is called later (pMap.ts:94, 117).
- `ProtectedRowsStay` lets through what a call with `allowMutability` or a saveMethod of its own
  does to an immutable dao's rows, as documented (common.dao.model.ts:163), and the commit of a
  transaction with such a call.
- `CacheCoherent` excludes rows that two calls, one of them a write, were about at the same
  time; writes that failed downstream, or that left one of the two out; deletes and patches by a
  query with a limit or an offset, which the cache runs on fewer rows (cache.db.ts:258, 288);
  and inserts and updates that the downstream took and the cache refused. With only row B in the
  cache an update of A and B, awaited and overlapped by nothing, leaves B stale: the cache throws
  at A (inMemory.db.ts:197). Such a row stays wrong until a call saves or deletes it in the cache.
- `CachedReadsFindRows` excludes queries with a limit, and `getByIds` with `skipCache`: it asks neither the cache nor
  the downstream and finds nothing (cache.db.ts:94, 120), although the class comment says
  that CacheDB "proxies requests to downstream CommonDB" (cache.db.ts:24).
- `RestoresTheFlushed` holds once no restore is at work, also when several ran at once. It
  excludes restores that a write or a flush followed, that fell into a flush, or that ran beside one into
  which a flush fell (`quiet`); and flushes that overlapped another, that streamed rows while
  `patchByQuery` or `incrementBatch` changed them in place, or that did not get to the end of a file
  (`marred`, so not `valid`). A flush that falls into a restore saves what was restored by then.
- `FileIsAtomicStore` excludes overlapping writes (the later save wins as a whole) and a
  crash while a file is streamed (it was truncated first).
- `AnswersAreCurrent` lets through a value from before a `clear()` in two cases: the call
  joined one in flight since before; or the cache survives the clear and a computation was
  under way during it, whose `cache.set` comes afterwards. A `clear()` of `@_AsyncMemo` before
  the first call of the instance clears nothing, also of a persistent cache
  (asyncMemo.decorator.ts:152): the model's `Clear` needs an instance cache.
- `OwnResults` promises that no chunk waits in vain only while no worker has died: the code
  does not settle the messages of a worker that has.
- `AnswerIsTimed` is about clients that have nothing yet: a response that has begun is not
  ended by a timeout (genericErrorMiddleware.ts:76), nor one whose custom `onTimeout` neither
  answers nor throws.
- `CompletedLosesNothing` lets an `onShutdown` be cut off by a second `stop()`: `@_Memo()` makes
  calls with the same reason one call, but SIGINT and SIGTERM are two reasons, so `onShutdown`
  runs twice and the first to be through exits the process.

Four more runs check one sentence of the code's own documentation each, and find it violated:

- `pqueue_unhandled` (`HandledOutsideIsHandled`): "Should be handled on the outside,
  otherwise it'll cause UnhandledRejection" (pQueue.ts:134). A job taken from the queue is
  started by `void this.push(nextFn)`; if it rejects, that promise rejects too and nobody can
  handle it, whatever the caller does with its own.
- `pmap_suppress` (`SuppressNeverRejects`): "When set to SUPPRESS - will ignore errors"
  (pMap.ts:17). If all items fit the concurrency, a mapper that throws synchronously makes
  `items.map()` throw, and pMap rejects. Serial and general mode catch the same error.
- `inmemorydb_rollback` (`NoneIfRolledBack`): "either ALL or NONE of the operations should be
  applied" (common.db.ts:143-144). Of two overlapping commits that fail, the second restores
  a copy that holds writes of the first, which was rolled back before.
- `fetcher_silence` (`TimeoutCoversTheBody`): "Timeout applies to both get the response and
  retrieve the body" (fetcher.model.ts:186-187). The body of an error response is awaited
  after the request timer was cleared and outside of `pTimeout`.

### Bounds

- *pqueue*: concurrency 0, 1 and 2, three pushes of two functions, two `onIdle` calls, any
  error mode and resolveOn. Three pushes are one more than the slots and a queue of two
  behind one slot (order matters); two functions for three pushes make one shared defer
  unavoidable when all are used; a listener can come before and after another is resolved.
- *pmap*: one to four items, concurrency 0 to 5. Four items give the general mode with two
  and three slots and at least one item that only a continuation starts, and every ordering
  of values, SKIP, END and errors; 5 is more than there are items, like Infinity.
- *inmemorydb*: two transactions of at most two operations (`MaxOps`), one direct write, two
  rows. Two operations make an await inside `commit()`; an operation on both rows can fail
  after its first row. Three overlapping commits are not covered.
- *fetcher*: `MaxCount` = 2, so a call has one or up to three tries: a late body of the first
  try can meet the second or the third. The options for 3xx, 4xx and 5xx are the defaults or
  their opposites; POST is tried with the defaults.
- *commondao*: two clients, up to two calls each, one id that has a row or none, every kind of
  database and every setting of the dao. All the races are between two clients on one row; two
  calls allow load-then-patch, and an object held while the other client changes its row. A delete
  with `allowMutability` and a save with saveMethod `update` are among the calls.
- *storage*: two clients of up to two calls, two rows, one crash. One write overlaps another, then
  a read shows the outcome; a row that a save did not touch is the second one. The calls of
  CacheDB cover each kind of call and each option once: reads of both rows, a projected query, a
  delete of the rows as they were at first, with and without a limit, a patch of one row, also
  of the cache only, a save and an insert of one row and an update of both; `skipCache` comes
  from the cfg. One row is there at first, the other may be. Of the disk there are two tables, `MaxVersion` = 2 and three calls, each a flush or a restore: two of
  a kind can overlap each other and a third, a second flush can find files of the first, and a
  crash can fall anywhere into any of them.
- *async*: three calls of two callers on two keys with two clears, so that a call from
  before, during and after a clear meet; four chunks
  for two workers with three under way, so that one worker has two messages and the index
  wraps around, and one death.
- *time*: every day of 1896 to 1904 and 1999 to 2001: a year divisible by 4, by 100 and
  by 400, with moves that cross ends of months, years and of a century; waits of up to three
  ticks with timers one tick late and three timers, so that two abandoned ones can fire beside
  the current one; up to four attempts, so that three that timed out can run beside the last;
  two requests and two reasons to stop, limits of one and two ticks, so that a timer of either
  middleware can be the first and a request can outlive a stop.

`CHECK_DEADLOCK FALSE` everywhere: each model is of finitely many calls, and is done when
they are. Clients, callers, keys, requests and reasons are symmetric in the runs that use symmetry; those have
no liveness property.

### Fairness

- PQueue: weak fairness of each job's settling and of each finally handler. The event loop
  runs every handler that is queued; that jobs settle is an assumption on the caller, without
  which no queue can answer. Nobody has to push or to call `onIdle`. `EveryPushAnswered` leaves out a
  push whose function throws when the queue starts it, and those that wait once throwing functions
  have taken every slot (as they all do with a concurrency of 0): the code then waits for ever.
- PMap: every mapper that was scheduled is called, and every mapper under way settles.
- InMemoryDB: the continuations of a `commit()` that was started run. No transaction has to
  commit.
- Fetcher: timers fire, hooks return. The server owes nothing (`SilentServerSpec`), except
  in `FairSpec` that the body of an error response comes or its connection breaks: without
  that `EventuallyAnswered` fails, which is what `fetcher_silence` shows.
- The other modules state none: their properties are about what is never wrong. That a
  debounced call is invoked in time and that a server stops are safety properties, since time
  passes in ticks and a timer cannot be later than `MaxLate` and `MaxDelay`.

## Proofs

Every theorem holds for all values of the constants that the module's named assumption allows
(sets of clients, pushes or rows of any size, finite or not; bounds that are natural
numbers); nothing else is assumed. The bounds on calls that TLC needs are in the guards, as
constants of any value.

| module | theorem | establishes |
|---|---|---|
| `PQueueProofs` | `TypeCorrect` | `[]TypeOK` |
| | `SlotsAlwaysAccounted` | `[]SlotsAccounted` |
| | `QueueAlwaysUnstarted` | `[]QueueIsUnstarted` |
| | `PQueueImplementsPool` | `ImplementsPool` |
| | `NoListenerLeft` | `[]NoListenerLeftAtIdle` |
| | `ListenersWakeAtIdle` | `ListenersWakeOnlyAtIdle` |
| | `AlwaysAnsweredByItsJob` | `[]AnsweredByItsJob` |
| `PMapProofs` | `AlwaysBoundedConcurrency` | `[]BoundedConcurrency` |
| | `AlwaysNothingTakenAfterAnswer` | `NothingTakenAfterAnswer` |
| | `AlwaysResultComplete` | `[]ResultComplete` |
| | `AlwaysErrorsComplete` | `[]ErrorsComplete` |
| `InMemoryDBProofs` | `AlwaysTypeOK` | `[]TypeOK` |
| | `AlwaysBufferedUntilCommit` | `[]BufferedUntilCommit` |
| | `AlwaysReadsOwnWrites` | `[]NoReadMissesOwnWrite` |
| | `AlwaysAloneAllOrNone` | `AloneAllOrNone` |
| `FetcherProofs` | `AlwaysTypeOK` | `[]TypeOK` |
| | `AlwaysNoUnwantedRepeat` | `[]NoUnwantedRepeat` |
| | `AlwaysGivesUpOnlyWithReason` | `[]GivesUpOnlyWithReason` |
| | `AlwaysOutcomeConsistent` | `[]OutcomeConsistent` |
| | `AlwaysOkBodyIsNoErrorBody` | `[]OkBodyIsNoErrorBody` |
| | `AlwaysStoppedSendsNothing` | `StoppedSendsNothing` |
| `CommonDaoProofs` | `AlwaysPatchesKept` | `[]PatchesKept` |
| | `AlwaysFreshIds` | `[]FreshIds` |
| | `AlwaysFailedLeavesNothing` | `[]FailedLeavesNothing` |
| | `AlwaysProtectedRowsStay` | `ProtectedRowsStay` |
| `StorageProofs` | `CacheAlwaysCoherent` | `CacheSpec => []CacheCoherent` |
| | `CacheAlwaysFindsRows` | `CacheSpec => []CachedReadsFindRows` |
| | `FileAlwaysAtomicStore` | `FileSpec => []FileIsAtomicStore` |
| | `DiskAlwaysRestores` | `DiskSpec => []RestoresTheFlushed` |
| `AsyncProofs` | `AlwaysAnswersAreCurrent` | `MemoSpec => []AnswersAreCurrent` |
| | `AlwaysComputedOnce` | `MemoSpec => ComputedOnce` |
| | `AlwaysOwnResults` | `PoolSpec => []OwnResults` |
| `TimeProofs` | `AlwaysInvokedInTime` | `DebounceSpec => []InvokedInTime` |
| | `AlwaysOfLastAttempt` | `RetrySpec => []AnswerIsOfLastAttempt` |
| | `AlwaysAnswerIsTimed` | `ServerSpec => []AnswerIsTimed` |
| | `AlwaysStopsInTime` | `ServerSpec => []StopsInTime` |
| | `AlwaysCompletedLosesNothing` | `ServerSpec => []CompletedLosesNothing` |
| | `AlwaysByCalendar` | `LocalDateSpec => []PlusIsByCalendar` |
| | `AlwaysFullUnits` | `LocalDateSpec => []DiffCountsFullUnits` |
| | `NumbersInOrder`, `ThereAndBack`, `RangeCounts` | of `compare`, `plus` with `diff`, and `range`, for all dates |

**PQueue** (`PQueueAssumption`). The inductive invariant `IInv` is `TypeOK`, `SlotsAccounted`
and `QueueIsUnstarted` with the finiteness of `Occupying` and `Released`. None of the parts is inductive alone: that the
counter is right after a refill needs that the function taken from the queue holds no slot
(`QueueIsUnstarted`); that the finally handler starts at most one function and leaves no slot
free needs that the slots were full while the queue was not (`SlotsAccounted`); and the
cardinalities need `Occupying` and `Released` to be finite although `Push` may not be.
`SlotTaken`, `SlotGiven`, `SlotPassed` and `JobReleased` are the ways a step changes the
cardinalities; `PushPreserves` to `OnIdlePreserves` have one lemma per action.

The refinement maps the started jobs to `Len(pushed) - Len(queue)`. By `StartedIsAdmitted`
this is always the minimum of the jobs submitted and the places there have been, which is
what `JobPool` allows; a `Settle` or an `OnIdle` is a stutter, a push a `Submit`, a finally
handler a `Finish`. The listener theorems rest on `IInv` too: that a refill never
ends idle, and that a finally handler which resolves the listeners found the queue empty, since
with a queue it would have refilled (`SlotsAccounted` bounds the counter there).

For `AnsweredByItsJob` the invariant is strengthened by `AnswersInv`: that a defer which is
open belongs to a function of which no execution is done yet. Only such a
defer takes an answer, so whatever answers is an execution that ends just then. `PromisesInv` ties
what a call of `push` returned to its job: one promise for each that was started, which rejects
at once exactly if its function threw.

**PMap** (`PMapAssumption`). In the general mode `resolvingCount` is the number of items
under way, until the call is settled; then it may be less, which is why `General` states the
bound on its own. `Serial` says that at most one runs, and none after the answer. For the
results, `Collecting` says that while there is no answer what was collected tells all that has
happened: the values are those of the items that came to one, the list of errors has each
failed item once, in the general mode the items that have begun are the first `currentIndex`,
and in the serial one those before the running item are done. An answer is made from these in
one step (`ConcludesWell`) and stays right (`StaysRight`). That the values come in the order
of the items is a fact about the loop that collects them (`Collects`). `NothingTakenAfterAnswer` needs
besides that only mappers of items taken off the list are called (`CalledTaken`).

**InMemoryDB** (`InMemoryDBAssumption`). That a transaction's rows are nowhere before its
commit is not inductive: a rollback of another puts back a copy. `Buffered` and
`ReadOnlyHasNothing` speak of the copies too, and of the operations of a read-only one; `WroteKnown` ties the flag that the read
check looks at to the operations that were buffered. For `AloneAllOrNone`, `AloneStages` says
that under an undisturbed `commit()` the table is what the operations applied so far make of
the copy: each operation takes it one stage on (`StageApplied`), and no other step touches it
without marking the transaction as disturbed (`OthersStay`).

**Fetcher** (`FetcherAssumption`). `Counts` ties the tries made to `retryAttempt`; `Awaits`
what is awaited to the answer of the last try; `Downloads` says that a late body is of an
earlier, good answer; `Story` and `Reasons` are the outcome and the reasons for going on or
giving up, at every await from the failure to the return. The late body is what makes all of
them necessary: it may write to `res` at any of those places.

**CommonDao** (`CommonDaoAssumption`, `NothingAssumption`). All four theorems rest on `SInv`,
what a client holds and has buffered at each await. `FreshIds` adds `Fresh`: the ids that have
had a row since the call still have one, and neither an id that was found free nor one of an
object in the buffer is among them (a row that came after the check is not among them either,
and may be replaced: that is the race the code leaves); `PatchesKept` adds `Patches`: what is about to be saved contains all
changes of the row that was read, unless the read is stale, and then the commit fails;
`ProtectedRowsStay` rests on what an immutable dao sends: inserts, and what a call overrides
(`Sendable`); this holds of every buffered write too (`Good`), for a commit applies them much later;
`FailedLeavesNothing` that a client of which nothing was stored yet is in no row and in nobody
else's buffer (`Clean`). Lists of buffered writes are handled without recursion: the row
after some writes is that of the last of them (`RowBefore`).

**Storage** (`StoreAssumption`, `CacheDBAssumption`, `FileDBAssumption`, `DiskAssumption`). For
CacheDB: of two overlapping calls about a row, one of them a write, each knows of the other
(`OverlapsKnown`), so that what an answered call that nothing overlapped will put into the cache
is what is downstream (`FoundIsDown`, `WritesAreDown`); a row that no write is about, or only
one that was not executed yet, is coherent (`QuietIsCoherent`), which is more than
`CacheCoherent` and what makes it inductive. The steps of a call under way share one lemma,
`CacheWorkPreserves`, with what is left to show of each as its assumptions. For FileDB: as long as
nothing was upset at most one client is about to change the file, and it saves what an
atomic store would hold. For the disk: flushes that overlap know of it (`OverlapsMar`); while a flush that nothing
marred is at work, every table is still to be streamed by it or has the version that was flushed
in its file (`FlushWrites`, `FlushIsThere`); and each restore at work has still to list the files or,
of every table that is not yet as flushed, to read its file (`RestoreReads`, `Restored`), so that the
last one to end leaves none behind, whichever of them read which.

**Debounce** (`DebounceAssumption`). The current timer is never later than `MaxLate` and is due
within `wait` of the last call and within `maxWait` of the first that is not served
(`CurrentIsDue`); a call that was put off always has a current timer (`PutOffIsTimed`). That
abandoned timers fire does no harm because they only start another or invoke early.

**Retry** (`RetryAssumption`). The attempt that is awaited is running and in time, the one
before a delay has failed and was not the last (`Awaited`): whatever else settles is ignored.

**BackendServer** (`BackendServerAssumption`). A connection is closed only after the response or
by the client (`ClosedIsOver`). Of the calls of `stop` that are under way the first one's timer
never has more left than `ForceLimit` less the time since then (`FirstIsForcing`), as no other call
touches it; a call under way has an `onShutdown` that was called and has not failed
(`HooksCalled`), so a call that is through while an `onShutdown` is running is another one, whose own
has resolved.

**LocalDate** (`LocalDateAssumption`). The proof follows the loops. A step of any of them
moves to the next month or the one before without changing the number of the day
(`CarriedStep`), so that the loops end (`DaysLeft`) at the date with the number looked for
(`CarriedIsDate`), which is unique (`NumbersInOrder`). The loops of `diff` add up to the
difference of two numbers although they count years from March on with the length of the next one
(`DaysBetweenIs`); months and years are counted by comparing what `plus` makes of the earlier
date with the later one (`PlusMonthsCompares`, `PlusYearsCompares`). `RangeCounts` has no
bound on the length of the range, which the property has for TLC.

**Memo** (`MemoAssumption`). `AnswersAreCurrent` rests on what the caches hold: a store of its
own has nothing from before the clear that its cache comes after, and a shared one nothing
from before the last clear that ended, unless a task was under way during a clear
(`StoresCurrent`). `ComputedOnce` rests on the promise cache, in which a task is from its
beginning until its value is in the cache or it has failed (`OneFlight`), and on `KnownThere`:
a value computed since the last clear is in the current cache or on its way into it.

**WorkerPool** (`WorkerPoolAssumption`). While no worker has died, a chunk that was taken is in
a queue, in a worker or settled (`NoneForgotten`), for which no worker may be told to close
before the end; `EndsLast` says what the end has waited for.

**Induction over data.** Where a definition is recursive (the items that a loop collects, the
operations of a commit, the days that a loop carries over months, the dates of a range), the
library's induction theorems cannot be used, since they take an operator as a parameter. The proofs use
instead that a non-empty set of naturals has a least element (`Least`, from the library's
theorem that `<` on the naturals is well-founded): if a statement failed for some number, consider the
least for which it does. TLA+ defines a recursive function as some function that satisfies
the equation, so that one has to be shown to exist first: by extending it step by step
(`UpToExists`, `StagesExist`), or by giving a closed form (`CarriedExists`, where it is the
date with the number asked for).

Only model-checked is liveness: `EveryPushAnswered`, `EventuallySettled`, `CommitEnds` and
`EventuallyAnswered`. The prover handles neither fairness nor ENABLED. Every other property of
the passing runs is proved.

## Not modelled

Logging, wording, lengths of delays and the data in rows and bodies. Of PQueue: debug output.
Of InMemoryDB: `resetCache`, queries, streams and snapshots. Of Fetcher: building the URL,
headers and body, GraphQL, metrics, `Retry-After` (it changes only the delay), and hooks that
change the request or the response beyond the retry flag. Of CommonDao: batches, queries,
streams, validation, anonymisation and operations of several daos, which are built from the
operations that are modelled. Of CacheDB and FileDB: counts, streams, sorting, compression. Of
the memoizing helpers: unhandled rejections. Of Debounce: a wait of 0 and a clock that goes
back. Of LocalDate: parsing, formatting, time zones, and the mutating forms; dates are values,
so that an exclusive `range` moves its caller's own start date (localDate.ts:813) does not
show. Of the server: `start()`, requests that share a connection, and an `onTimeout` that answers
after an await of its own.

The modules cover the code of the repository in which an order of events decides about the
outcome. That is a small part of its lines. Most of the rest is of three kinds: pure
functions on arrays, objects, strings, times and schemas, which unit tests reach and which a
model could only repeat; I/O and configuration (files, CSV, middlewares, Slack, JWT, linters,
builds), whose behaviour is that of the operating system, of Express or of other tools; and
streams, which are thin layers over Node's stream machinery: of them the multi-threaded
transform, which has a protocol of its own, is modelled. `PROJECT.json` gives the reason for
each component.

## Plan

In this order:

1. `transformMap` with END, and `pipelineClose`, over a small model of Node's streams: each row
   once, the pipeline ends.
2. The thresholds of `deployHealthCheck`; keep-alive connections that serve several requests.
3. CommonDao over `InMemoryDB` instead of an abstract database, to show which of
   `"buffered"`'s behaviours its commit has.
4. Proofs about these, as they come.
