# WITSML viewer: TLA+ models, model checking and proofs

The repository is a monitor for drilling data. A backend polls a WITSML 1.4.1.1
server for the growing logs of about twenty wells, keeps the newest samples in
memory, stores them in Postgres, and streams one well at a time to a browser. The
hard part of it is not the arithmetic of a curve. It is that a log grows while it
is read page by page, that many logs are read concurrently, that the process is
stopped or dies between any two steps, and that browsers come, go and lag. This
project models that part, and the parts around it where steps of several actors meet:
the store with the simulator that feeds it, the REST handlers over one database, and
the answers that are put together from several reads.

## 1. Inventory

### Parts, their state, and how they interact

| Part | Source | State | Operations |
|---|---|---|---|
| Polling helpers | `backend/app/witsml/polling.py` | none | `continuation_index`, `is_beyond`, `dedupe_boundary`, `merge_blocks` |
| WITSML client | `witsml/client.py`, `queries.py`, `parse.py` | the locals of one fetch | `get_log_data` (the +2 loop), plain store calls |
| Ingestion scheduler | `ingestion/scheduler.py`, `main.py` | discovered headers, tick count, tasks, semaphore | `start`, `stop`, `_tick`, `_ingest_log`, `_discover`, snapshots |
| Warm store | `ingestion/store.py` | ring buffers, log states (cursors), subscriber queues | `append`, `get_recent`, `publish`, `subscribe`, `unsubscribe` |
| WebSocket hub | `ws/hub.py` | per socket: current well, queue, drain task | subscribe, unsubscribe, drain, disconnect |
| Live client | `frontend/src/api/ws.ts`, `useWellStream.ts` | socket, wanted well, window of samples | connect, reconnect, deliver, switch well |
| Database | `db/models.py` | `curve_samples`, `index_cache`, users, pages, reports | inserts, upserts, CRUD |
| Mock WITSML store | `mockstore/store.py`, `server.py` | wells, wellbores, logs, rows | add, update, delete, query |
| Feed simulator | `simulator/feed_simulator.py` | depth and time of each log | seed, append, burst, re-seed |
| REST API | `api/*.py`, `auth/*.py` | none of its own (database, store) | reads, CRUD, roles, reports, export |
| Units, formulas | `units/`, `formulas/` | none | conversions, hydraulics |
| Browser pages | `frontend/src/pages` etc. | forms | REST calls |

Data flows one way. The simulator writes rows to the store; the scheduler asks the
client for every log, each in a task of its own under a semaphore; the client loops
over pages; the scheduler drops the boundary row, advances the log's cursor, appends
to the ring buffers, publishes to the queues of the well's subscribers, and inserts
the samples. Every twelfth tick, and on `stop`, the cursors are upserted. The hub
sends a snapshot of the buffers and then drains its queue. The client shows a window.

The code is asyncio: a step runs from one `await` to the next without interruption,
and anything may happen at an `await`. Browser and API run in parallel.

### Hard behaviours

`PROJECT.json` lists them under "hazards", each at its line. In groups:

- growth of a log between two pages, pages that make no progress, pages that are
  exactly full, the rendering of a start index with millisecond precision;
- the inclusive boundary row, returned again by every poll;
- the cursor that advances before the samples are stored; crash, stop, failed
  database calls and failed loads between the two; two tables that are saved at
  different times;
- few workers for many logs, a tick that waits for all of them, discovery that
  stops being repeated;
- full ring buffers, full queues, slow clients;
- snapshot against deltas, reconnects while the old handler lives,
  restarts of the API under a browser that stays open;
- a store in memory that restarts under the simulator and under a poller whose cursor
  is ahead; calls whose answer is lost; logs that others created with other columns or
  the other direction, and write rows to;
- handlers that read, decide and commit later, while others commit in between;
- answers assembled from a buffer that evicts and a table that grows, or from many
  queries of which one fails.

### What makes each part correct

- *Fetch*: the block has no hole, is complete or reaches beyond its start, and the loop ends.
- *Ingestion*: each row read is in the warm store exactly once; eviction keeps the
  newest; a restart resumes at a cursor that neither skips history nor has been moved back
  by a process that knew it;
  every row of a known log is eventually read.
- *Live stream*: no queue outlives its handler; the view is in order, has holes only
  where frames were dropped, and ends with the newest sample once things calm down.
- *Store and simulator*: a cell is stored and read under its own curve; header and
  latest values agree; nothing is taken away but by a restart or a delete; the fleet
  comes back after a reset, and its rows do not lie behind a reader's cursor.
- *Database records*: names are unique and references hold whatever requests overlap; a
  request that fails leaves nothing behind; concurrent updates do not undo each other.
- *Assembled answers*: what was there when the request began is in the answer; a failed
  query costs its own part only.

## 2. Modules

| Module | Models | Extends |
|---|---|---|
| `Polling` | the polling helpers, the server's row selection, the contract of a fetch | |
| `LogFetch` | `get_log_data`, one action per round trip | `Polling` |
| `Ingestion` | scheduler, warm store, the two tables, crash and restart | `Polling` |
| `LogStream` | the abstract promise of ingestion; `Ingestion` instantiates it | `Polling` |
| `LiveStream` | publish, hub, network, browser client | |
| `WitsmlStore` | the store's operations as operators on a value, and the client's parsing | `Polling` |
| `Feed` | simulator, store, write API, other clients, a poller | `WitsmlStore` |
| `Records` | the REST handlers over the database, and the seed | |
| `ReadApi` | export, tree and comparison beside ingestion and changes of the store | `WitsmlStore` |
| `MCLogFetch`, `MCIngestion`, `MCFeed`, `MCRecords`, `MCReadApi` | instances for TLC | the module each instantiates |
| `PollingProofs` | lemmas about the operators of `Polling` | `Polling` |
| `LogFetchProofs`, `LiveStreamProofs`, `FeedProofs`, `RecordsProofs`, `ReadApiProofs` | theorems and their lemmas | the module each is about |
| `IngestionProofs`, `StreamProofs` | theorems about `Ingestion`: types and cursors; the abstract stream, the history and the ring buffers | `Ingestion`, `IngestionProofs` |

### Polling

A row is identified by its index, as in `merge_blocks`, so a block is a set of
indices. `RenderStart` keeps the one conversion that matters: a time index is
rounded down to a millisecond (`Resolution` index units), a depth is rendered
exactly (`Resolution = 1`). `SelectRows` and `Truncated` are the mock store's
`_select_rows`: rows at or past the inclusive start, in the log's own direction, cut
to a page. `FetchContract` and `FetchAdvances` are what a caller may rely on after a fetch:
a block without a hole that is all there was, or holds the row it started from and one
beyond it. `Ascending` is the sorted order in which `merge_blocks` leaves the rows. Cell
values, units and XML are left out.

### LogFetch

`BeginFetch` is the call; `Reply` is one iteration of the loop, with all of its
exits: success, no row, no progress, iteration limit; `Fail` is any exception,
including the client's timeout, which discards the batches; `AppendRow` is the
server's log growing at any moment. `atStart` is a ghost: what the server had when
the fetch began. `kind` describes the log that is fetched (direction, page limit,
resolution of a rendered start) and never changes.

### Ingestion

An action is the code between two awaits. The scheduler's own coroutine is `pc`:
`load` and `boot_discover` in `start`, `idle`, `discover`, `spawn`, `gather` and
`snapshot` in `_tick`, `final` and `exit` in `stop`. Each log's task is `waiting` (for
the semaphore), `fetching` or `persisting`. `FetchOk` is everything from the client's
answer to the database call: dedupe, cursor, append. What the answer may be is not
the loop of LogFetch but its contract, `FetchContract` and `FetchAdvances`, which the
LogFetch run checks and LogFetchProofs prove: a block that was cut off at the iteration
limit is an answer like any other. Like LogFetch's own properties the contract presumes
a page larger than the rows that one rendered start can stand for. `loaded` is a ghost:
has the process every cursor that had been saved? It has not after a failed load.
`history` counts the copies of a row, as inserts are not keyed.
`PlanTick` picks any set of viewed wells: focus and subscribers change freely.
`Stop` cancels the gathered tasks when the tick is in `gather`, and leaves orphan tasks
behind when it is in the stagger sleep. `Crash` drops everything volatile.

`_discover` is one action: nothing else that is modelled runs beside it, and a log
that a failed query leaves out is covered by `AllowMiss`. The periodic snapshot is one
action as no task runs during it; the final one reads the cursors and commits them
in one action, which orders the orphan tasks before or after it. Each log has one
value curve besides its index curve, and every row has a value in it.

### LiveStream

Samples of a well are numbered in the order in which they are read. A subscriber is
a pair of well and connection, with its queue. A handler is receiving or sending
its snapshot; `DrainOne` forwards one frame when the transport takes it. `Disconnect` is
the `finally` clause, at any time after the client has gone. `ViewWell` is the effect
of the hook for another well (a new socket); `SwitchWell` is a consumer that keeps its
socket and uses `unsubscribe` and `subscribe` on it, which the protocol and the hub
support and no page does yet. `Restart`
is a new API process: empty buffers, no subscriptions, and the wells resume at the
saved cursor. Pings carry no state. All curves of a well behave alike, so one is
modelled.

### LogStream

What ingestion promises, without cursors, ticks, tasks or tables: rows are published;
a process takes rows in order and without a hole, once what it took before is stored
or dropped; a batch is stored whole or dropped whole; what a process has behind it is
saved; a process that starts anew has behind it what was saved, or nothing. A process
that starts with nothing may save less than was saved before. The mapping (end of `Ingestion`) reads the rows
behind a process off its cursor, the due rows off the task that persists them, and the
saved rows off `index_cache`. Refusing to drop would be a stronger promise than the
code keeps: it declares persistence best-effort.

### WitsmlStore

The store is a function from keys (kind and uids) to objects, and each operation is a
pair of operators: its return code and the store afterwards. `Aligned` is the mapping
of incoming cells to the stored column order; a value is represented by the mnemonic of
its curve, so a cell under the wrong column shows. `LatestRows`, `CurveExtent` and
`IntervalInRange` follow the store's queries; `DecodeCell` and `ParseLogData` the client,
which knows only the common null sentinels in a data-only reply.

### Feed

One action is one call to the store. `WaitForServer`, `Seed`, `Update` and `Wake` are the
simulator's `main`, at position `pos` of the calls of a seed or of a tick; `Flagged` is
`needs_reseed`. A call may raise, before or after it took effect (`Raised`). `Reset` is a
restart of the store, `Delete` another client's delete. `StoreAdd` and `StoreUpdate` are
the write API: a well of its own, the polled log's header before the simulator creates it
(of either direction; columns swapped, one more with a null of its own, none), no uid, an
unknown type, rows without mnemonics, short rows, indices that do not parse, and rows of the
polled log at any depth. The poller reads the first well's depth log, which decreases, as it does
in `build_fleet`: `Discover` takes the direction from the header it finds, once, and `Poll` is
`_do_ingest_log`, where the store selects in the direction of the log it has and the poller
dedupes and continues in the one it found. Two ghosts tell the rows apart: `theirs` are the
indices others have written to the polled log, and `ahead` says that one of them was beyond
where the simulator was.

### Records

A request is a coroutine with its own session: it is authorised, reads, and commits in a
later step; `Refresh` reads the row back after the commit, as the handlers do. A commit
is all or nothing and fails on a unique constraint or a foreign key. The handlers differ
in what they look up first (`Prechecked`), in whether a failed commit is a 409 or a 500
(`ConflictCaught`), and in the level they require (`Floor`); otherwise they share their
actions. `CommitGrants` inserts before it deletes, the order in which the session flushes.
The seed inserts all the rows it found missing in one commit. The database is PostgreSQL at
READ COMMITTED, as in `docker-compose.yml`.

### ReadApi

One action is what a handler does up to its next await: an export reads the buffer and
then the history, the tree and the comparison make one query per step. A query that fails
costs the tree one well (`TreeBores`); an answer that does not parse costs all of it
(`TreeBreaks`), as `get_tree` catches HTTPException only. Ingestion is
reduced to what a reader of one increasing log sees: rows enter the buffers, then the
history unless the insert fails, and are read again, as other values, after a restart. The
history is the sequence of the batches that were inserted.
`asof` is a ghost: the objects that were in the store when the request began and have not
been deleted since.

## 3. Runs

Bounds are named in the modules (`MaxIdx`, `MaxLives`, `MaxSample`, `MaxEvents`).

| Run | Checks | Instance |
|---|---|---|
| `LogFetch` | TypeOK, NoGaps, CompleteFetch, CutOffAdvances, EventuallyReturns | 7 indices, 4 iterations; an increasing log with pages of 3 and starts rounded to 2, one with pages of 1 (the next page is the same page), a decreasing log with pages of 2 and exact starts |
| `Ingestion_crash` | TypeOK, WarmExactlyOnce, ResumeLosesNothing, BufferKeepsNewest, LatestIsNewest | two increasing logs of 3 rows, buffers of 2 samples, two workers, a crash anywhere and a second life |
| `Ingestion_faults` | WarmExactlyOnce, HistoryOncePerLife, SavedCursorMonotone, ImplementsStream | one well whose two logs, one of each direction, share a buffer of 3 samples; stop, crash, failing database calls, missed discovery and fetches that are cut off together (a failing snapshot is a tick without one) |
| `Ingestion_live` | RowsEventuallyIngested | two logs, one worker, fair scheduling, failing queries |
| `LiveStream` | TypeOK, NoLeakedSubscriber, ViewInOrder, ViewHasNoGaps, EventuallyCurrent | two wells, two connections, three samples of each well, a queue and a transport of one frame, so that overflow is the rule, two events |
| `Feed` | TypeOK, CellsAligned, LatestMatchesExtent, NothingBehindCursor, OnlySurfaceRowStale, OnlyAdditions, FleetRecovers, LogsComeBack | one well with a decreasing depth log of 4 depths and a time log of 2 times, bursts of 2 rows every second tick, two disturbances (failed calls, resets, deletes), one write of others |
| `Records` | TypeOK, UniqueNames, NoDangling, FailedChangesNothing, ConflictIs409, NoLostUpdate, GrantsReplaced | six tables, two names, three ids, three requests at a time out of every kind |
| `ReadApi` | TypeOK, ExportComplete, ExportWarmWins, TreeComplete, CompareComplete | two curves, 3 indices, buffers of 2 samples, limits below and above what there is, two wells with three wellbores, two of these with a mudLog, three changes and one failure around one request |

Why the bounds are enough: three rows of a log give a boundary row, a row beyond it
and a row that arrives during the poll; two logs and two workers give every
interleaving of two polls; two lives give a restart from every saved state; pages
smaller than the rows in range give truncation at least twice; a queue shorter than
the number of samples overflows; two connections let an abandoned handler overlap
with the new one. In `Feed` two disturbances are a reset and a failed call of the re-seed,
or two resets, and the depth log reaches the surface within the bounds; a second well
would only repeat the calls of the first, but for the burst, which then alternates. In
`Records` three requests are two that race and one that deletes what they refer to, from
a database that already has a super admin, a user with a page, and a parameter. In
`ReadApi` three changes are enough to evict a row, persist it and restart between the two
reads of an export.

`Ingestion_crash` uses symmetry: its two logs are alike, so a log may be exchanged
with the other together with its well. Only invariants are checked there and no
definition of the model tells the logs apart. `Records` exchanges its requests, which
only quantifiers name; its action properties quantify over all of them and are evaluated
step by step, and it checks no liveness. The runs that check liveness use no symmetry.

`CHECK_DEADLOCK FALSE` is set where the model really ends: the process has used its
lives, or samples, events, requests or changes are used up. `Feed` runs for ever.

### Disagreements the runs show

Four runs expect a violation; the finding of each quotes the line that the code
does not meet.

| Run | What the code does |
|---|---|
| `Ingestion_restart_index` | the first mnemonic in string order becomes the index curve after a restart |
| `Ingestion_stop_gap` | `stop` saves a cursor whose samples it has just cancelled |
| `Ingestion_decreasing_latest` | the last sample of a decreasing log's buffer is not the newest |
| `Ingestion_late_log` | a log that appears after discovery is never polled |

`LatestIsNewest` thus holds for increasing logs only (`Ingestion_crash`), and
`ResumeLosesNothing` for processes that crash rather than stop.

These limits are written into the properties, the instances or the theorems:

- a decreasing time log with indices finer than a millisecond loses rows, since the
  rendered start lies past the cursor: `FetchHasNoGaps` assumes `Renderable`, and no
  such log is among the `Kinds` of MCLogFetch;
- a process whose load failed begins every log anew; if its first fetch of a log is cut off
  at the iteration limit before it reaches the saved cursor, the next snapshot moves that
  cursor back, and a restart reads the rows between again: `SavedCursorMonotone` claims order
  only of processes that have their cursors (`loaded`), and of all that no cursor is erased;
- a page that is not larger than the rows one rendered start stands for may never get
  past them: `CompleteFetch` and `CutOffAdvances` name the condition, and Ingestion presumes it;
- a restart from an older cursor reads rows again and stores them again, as
  `curve_samples` has no key: `HistoryOncePerLife` bounds the copies;
- a browser that stays open across such a restart shows the samples twice, as an empty
  snapshot does not replace its window: `ViewInOrder` excludes it (`reread`);
- two logs of one well that share a curve share its buffer, which mixes their indices, and
  one log's rows push out the other's: no row is lost or doubled before the buffer is full
  (`WarmExactlyOnce`, in `Ingestion_faults`), but `BufferKeepsNewest` and `LatestIsNewest`
  are about logs with curves of their own;
- a well, wellbore or mudLog that is missing alone is not created again, as only the
  answers to log updates reach the simulator: `LogsComeBack` is about logs, and
  `FleetRecovers` about a reset after which nothing else goes wrong;
- "a single bad well does not blank the whole tree" holds of a query that fails, not of an
  answer that does not parse: `TreeComplete` is about trees that are answered;
- a decreasing depth log at the surface rewrites its last row, and a poller keeps the
  first version: `OnlySurfaceRowStale` says that no other row can be stale;
- `POST /store/log` makes a log increase unless its body says otherwise, and the scheduler
  keeps the direction it found: of a log that the simulator then takes down, a poller that
  found it increasing misses the rows. A row of somebody else beyond where the simulator is
  takes the cursor past rows that are still to come. `NothingBehindCursor` excludes the two,
  and the rows of others; TLC finds a violation if any of the three conditions is dropped;
- a simulator that restarts begins its depth logs anew; only the store restarts in `Feed`;
- a null of the log's own that is no common sentinel is read as a value, since a data-only
  reply does not carry it (`CellsAligned` names the one in the instance);
- `create_user`, `create_server` and a rename answer 500 when they lose a race, where the
  second of two requests in a row gets its 409 (`ConflictIs409` is about the two handlers
  that catch it); `set_user_pages` fails with 500 whenever the new set shares a page with
  the old one, and two overlapping calls for disjoint sets leave the union
  (`GrantsReplaced` excludes a change in between);
- a caller's level is checked when the request begins, and a super admin can remove the
  last super admin;
- the history of an export is cut to its oldest rows before it is merged:
  `ExportComplete` presumes that it is within the limit. The rows of a decreasing log are
  cut by index as well, which keeps the deepest rows and not the newest.

### Fairness

- LogFetch: weak fairness of `Reply`. A request ends, by its answer or by the client's
  60-second timeout.
- Ingestion: weak fairness of the event loop's steps (the tick, spawning, acquiring
  the semaphore, the database calls), strong fairness of a successful fetch: a query
  that is asked again every tick is answered some time. `_run` catches every exception
  of a tick, and `_ingest_log` every exception of a log, so neither stops the loop.
  Stops, crashes and growth are not fair.
- LiveStream: weak fairness of the handlers' and drain tasks' steps, of connecting
  (the client retries with a capped delay for as long as it runs) and of delivering
  what has arrived. Samples, losses, switches and restarts are not fair.
- Feed: the simulator takes steps that move its position for ever. Its loop catches every
  exception, a call returns or raises, and the server wait gives up after its attempts.
  Whether a call succeeds is not fair: the disturbances are bounded instead, and
  `LogsComeBack` holds wherever in a tick or a re-seed they fall. Polls, writes, resets and
  deletes are not fair.
- Records and ReadApi state no liveness: a handler is straight-line code.

## 4. Proofs

Checked by TLAPS, for every value of the constants that the named assumptions allow. Every
safety property of the passing runs is a theorem; only liveness is left to the runs.

The assumptions are about sizes (positive capacities, limits and page sizes), about `None`
being no index, and about the initial data: `FetchConstants`, `IngestionConstants`,
`StreamConstants` (a snapshot fits the window of the view, as in the client), `FeedConstants`
(the fleet is not empty, a log has an index and at least one curve, starts are in bounds),
`RecordsConstants` and `InitialRowsConsistent` (the tables satisfy their constraints when the
handlers start), `ReadApiConstants` (objects are of the three kinds, a mudLog has its fields).
TLC evaluates each of them on the instance of its run.

### The fetch loop (LogFetchProofs)

- **FetchTypeCorrect**, `TypeOK`. Its invariant adds that the iteration count is below the
  limit while a query is open.
- **FetchHasNoGaps**, `NoGaps`, for increasing logs or exactly rendered starts (`Renderable`).
  NoGaps only speaks of the end; `LoopInv` says that in every open iteration the merged block
  has no hole and the cursor is its newest row (or the start, before the first page).
  `PageIsPrefix` (a page is an initial part of the rows in range), `RenderStartSafe` (the
  rendered start is not past the cursor) and `BatchExtends` (a page that starts at or before
  the newest row of a hole-free block extends it without a hole) carry the step.
- **FetchIsComplete**, `CompleteFetch`, under the same assumption. `CompleteInv` says that
  while a query is open the block has every row from the caller's start to the cursor, the
  newest row of the last page. A page that is not truncated then completes it (`WholePage`),
  and one that is truncated gets past the cursor (`PageAdvances`), as it is larger than the
  rows one rendered start can stand for; the property names that condition.
- **CutOffFetchAdvances**, `CutOffAdvances`, from the same invariant and under the same
  conditions: at the iteration limit the cursor is beyond the caller's start, and the block has
  every row up to it.

### Ingestion (IngestionProofs, StreamProofs)

All of these allow every fault, except where it says otherwise.

- **EngineTypeCorrect**, `TypeOK`; **IngestionTypeCorrect** is its part without the buffers.
- **SavedCursorNeverMovesBack**, `SavedCursorMonotone`. `CursorInv`: a cursor is None or an
  index of a row, and in a process that has its cursors (`loaded`) never behind the saved one.
  A fetch from such a cursor, cut off or not, ends at it or beyond it (`FetchAdvances`). A
  failed load leaves None, which `SaveCursors` skips.
- **CrashLosesNothing**, `ResumeLosesNothing`, when neither `stop` nor a database failure
  happens. `DurableInv`: every row up to a log's cursor is in the history, or is among the
  samples that its task is persisting, and at a snapshot no task is. The dropped assumptions
  are exactly the cases of `Ingestion_stop_gap` and of the persistence that the code declares
  best-effort.
- **IngestionImplementsStream**, `ImplementsStream`. TypeInv and CursorInv are enough:
  `FetchedBatch` shows that what is left after the boundary row is dropped is exactly what lies
  between the old and the new cursor. One lemma for each abstract step (`GrowPublishes`,
  `FetchTakes`, `PersistStores`, `TaskDrops`, `StopDrops`, `SnapshotSaves`, `FreshForgets`,
  `LoadResumes`) says which actions take it, and `StreamStutters` that the others take none.
- **StoredOncePerLife**, `HistoryOncePerLife`. `HistoryInv`: a row that is not read yet, or is
  in a batch that is being stored, has been stored by earlier processes only.
- **WarmHoldsEachRowOnce**, `WarmExactlyOnce`, shared buffers included. `RingInv`: a buffer
  holds rows of its own logs that this process has read, each at one place, and a row that was
  read and is not held has left a full buffer. A batch is disjoint from what was read before
  (`FetchIngests`), and `AscendingFacts` says that sorting it keeps each of its rows once.
- **EvictionKeepsNewest** and **LatestIsNewestRow**, `BufferKeepsNewest` and `LatestIsNewest`,
  for logs that all increase (`AllIncrease`) and share no curve (`OwnBuffers`): for the others
  they do not hold (section 3). `OrderInv`: a buffer rises, and what it has dropped is older
  than all it holds.

### The live stream (LiveStreamProofs)

- **LiveTypeCorrect**, `TypeOK`, and **NoSubscriberLeaks**, `NoLeakedSubscriber`. `HubInv` ties
  a handler's `current_well`, its drain task and its subscription to each other.
- **ViewStaysInOrder**, `ViewInOrder`. `OrderInv`: unless samples were read again, the view, the
  frames in flight and the queue of a subscription are each in order, and each comes after the one
  before it, or starts with a snapshot that replaces it.
- **ViewStaysWhole**, `ViewHasNoGaps`. `GapInv`: until a queue overflows or the API restarts, they
  also meet: the view, the frames in flight and the queue follow on each other without a hole, up to
  the newest sample.

### Store and simulator (FeedProofs)

The invariant has a part for the store (`StoreOK`: every log's rows are aligned with its
columns), one for the simulator (`SimOK`: its position is in the plan of what it is doing), and three
for the poller. `PollerOK`: its types. `SeenOK`: of the rows that nobody else has written, none that
is stored or was read is past the simulator, and what was read is what is stored but at the surface.
`CursorOK`: unless somebody wrote past the simulator, no row of others is past it either, and a poller
that follows the log down has its cursor on a row it has read or on one of theirs, and has read all
that is not past it. `AddStep` and `UpdateStep` say once what an operation of the store may change,
whoever calls it; `WriteKeepsPoller` what that means to the poller.

- **FeedTypeCorrect**, `TypeOK`; **CellsStayAligned**, `CellsAligned`; **LatestAgreesWithExtent**,
  `LatestMatchesExtent`: from the store's part.
- **CursorMissesNothing**, `NothingBehindCursor`, and **OnlySurfaceGoesStale**,
  `OnlySurfaceRowStale`: from the poller's parts. Every batch of the decreasing log goes down step
  by step from where the simulator is (`PathDown`), a re-seeded log included, so it lies past the
  cursor, except at the surface, where the simulator stays and writes the same row again.
- **NothingIsLost**, `OnlyAdditions`: a property of a step, from the store's part.

### Database records (RecordsProofs)

`DbInv` (types, unique names, references) and `ReqInv` (what each handler holds between its
reads and its commit) are inductive together: a commit keeps the constraints because the database
checks them against the rows of that moment, and its row has its type because of what the handler
read. From it:

- **RecordsTypeCorrect**, **NamesStayUnique**, **NothingDangles**: `TypeOK`, `UniqueNames`,
  `NoDangling`.
- **ErrorsChangeNothing**, **LostCreateIsConflict**, **UpdatesAllLast**, **GrantsAreReplaced**:
  `FailedChangesNothing`, `ConflictIs409`, `NoLostUpdate`, `GrantsReplaced`, properties of a step.

### Assembled answers (ReadApiProofs)

- **TreeStaysComplete**, `TreeComplete`, and **CompareStaysComplete**, `CompareComplete`. `TreeInv`
  and `CompareInv` say of every object that was there throughout that it is in the answer, is still
  to be asked for, or that its query failed.
- **WarmSamplesWin**, `ExportWarmWins`, and **ExportStaysComplete**, `ExportComplete`. `FeedInv`: the
  buffers rise to the cursor and keep to their capacity, and the batches of the history are finite.
  `ExportInv`: between the two reads, a row that could be read at the start is among the warm samples
  that were taken, is in the history, or is older than as many warm samples as were asked for.
  `TopCount` (a finite set has as many newest indices as are asked for) and `MergedBoth` carry the
  merge.
- **ReadApiTypeCorrect**, `TypeOK`.

### What is only model-checked

The liveness properties: EventuallyReturns, RowsEventuallyIngested, EventuallyCurrent,
FleetRecovers and LogsComeBack. Fairness and ENABLED are out of the prover's reach. The sort in
`Appended` is `Ascending`, defined by rank, as the prover has no definition of a library sort; that
a finite set has a smallest and a largest element replaces induction over indices wherever one would
use it.

## 5. Not modelled

- XML, SOAP and JSON, descriptive fields, units of measure, `GetCap` and `GetBaseMsg`: no
  decision of the code depends on them.
- Values of curves, unit expressions and the hydraulics formulas: floating-point arithmetic.
  An expression of a unit definition is valid or not.
- Passwords and tokens: library calls. A token is the name of its user.
- Single-query reads (`curves.py`, the lists of `discovery.py`, report search): they hold no
  state between two steps. Depths of interest: inserts and deletes without any rule.
- Sample reports of the seed; PDF and Excel; the browser's forms and charts.
- In Ingestion a row's index stands for the row, and its server only grows; rewritten rows
  and resets are in Feed. Two schedulers on one database are not modelled; the code has no
  provision for them.
- SQLite, the database of a start without configuration: Records assumes the PostgreSQL of
  `docker-compose.yml`. SQLite locks more coarsely, and as the code does not switch its foreign
  keys on, NoDangling does not carry over to it.

## 6. Plan

1. A theorem for what holds of the buffer of a decreasing log: eviction drops a prefix of the
   batches, and within the oldest one its newest rows.
2. A simulator that restarts, with its depth logs beginning anew under a poller that stays.
3. The filters and pages of the report search.
