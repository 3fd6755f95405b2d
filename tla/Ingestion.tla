------------------------------ MODULE Ingestion ------------------------------
(***************************************************************************)
(* The ingestion engine: IngestionScheduler (backend/app/ingestion/        *)
(* scheduler.py) over the warm store (store.py) and the two tables it      *)
(* writes (curve_samples, index_cache), polling the logs of a WITSML       *)
(* server that grow while it runs.                                         *)
(*                                                                         *)
(* One action is the code between two awaits.  A poll of one log is three  *)
(* of them: Acquire sends the query, FetchOk is everything between the     *)
(* client's answer and the database call, PersistOk is the commit.  What   *)
(* get_log_data may answer is LogFetch's NoGaps and CutOffAdvances: a block *)
(* without a hole, which need not be all there is.                         *)
(* Every log here has one value curve besides its index curve.             *)
(***************************************************************************)
EXTENDS Polling, SequencesExt

CONSTANTS
    Logs, Wells,
    WellOf,         \* [Logs -> Wells]
    DirOf,          \* [Logs -> Directions]
    IndexCurve,     \* [Logs -> Int]: mnemonics are numbered in string order
    Curve,          \* [Logs -> Int]: the value curve
    MaxIdx,         \* bound: indices are 0..MaxIdx
    Capacity,       \* max_samples of a ring buffer
    Concurrency,    \* ingest_concurrency
    SnapshotEvery,  \* _SNAPSHOT_EVERY_TICKS
    MaxLives,       \* bound: how often the process is started
    AllowCrash,     \* may the process die without running stop()?
    AllowStop,      \* may it be shut down through stop()?
    AllowDbFail,    \* may a database call fail?
    AllowMiss       \* may a discovery query fail?

Idx == 0..MaxIdx

ASSUME IngestionConstants ==
    /\ WellOf \in [Logs -> Wells]
    /\ DirOf \in [Logs -> Directions]
    /\ IndexCurve \in [Logs -> Int] /\ Curve \in [Logs -> Int]
    /\ \A l \in Logs : IndexCurve[l] # Curve[l]
    /\ MaxIdx \in Nat
    /\ Capacity \in Nat \ {0}
    /\ Concurrency \in Nat \ {0}
    /\ SnapshotEvery \in Nat \ {0}
    /\ MaxLives \in Nat \ {0}
    /\ {AllowCrash, AllowStop, AllowDbFail, AllowMiss} \subseteq BOOLEAN
    /\ None \notin Int

Mnemonics == {Curve[l] : l \in Logs}
Sample == [log : Logs, i : Idx]

VARIABLES
    exists,      \* server: the logs that have been added to the store
    rows,        \* server: [Logs -> SUBSET Idx]
    pc,          \* where the scheduler's own coroutine is
    lives,       \* how often the process has been started
    tick,        \* _tick_count, modulo SnapshotEvery
    headers,     \* keys of _headers
    discovered,  \* _discovered
    first,       \* logs still to spawn this tick: of viewed wells ...
    rest,        \* ... and of the others
    task,        \* each log's _ingest_log: "none", "waiting", "fetching", "persisting"
    work,        \* rows the server had when the fetch began; samples being persisted
    known,       \* logs that have a LogState in the store
    cursor,      \* LogState.last_index
    indexOf,     \* LogState.index_mnemonic
    ring,        \* the ring buffers, by well and mnemonic
    base,        \* ghost: the cursor each log had when the process started
    loaded,      \* ghost: has the process every cursor that had been saved?
    history,     \* database: number of copies of each row in curve_samples
    snap         \* database: last_index in index_cache

server == <<exists, rows>>
sched == <<pc, lives, tick, headers, discovered, first, rest>>
store == <<known, cursor, indexOf, ring, base, loaded>>
db == <<history, snap>>
vars == <<server, sched, task, work, store, db>>

-----------------------------------------------------------------------------
\* The volatile state of a process that has just been started.
Fresh ==
    /\ tick' = 0
    /\ headers' = {} /\ discovered' = FALSE
    /\ first' = {} /\ rest' = {}
    /\ task' = [l \in Logs |-> "none"] /\ work' = [l \in Logs |-> {}]
    /\ known' = {}
    /\ cursor' = [l \in Logs |-> None]
    /\ indexOf' = [l \in Logs |-> None]
    /\ ring' = [k \in Wells \X Mnemonics |-> <<>>]
    /\ base' = [l \in Logs |-> None] /\ loaded' = FALSE

\* No log on the server, no process, and two empty tables.
Init ==
    /\ exists = {} /\ rows = [l \in Logs |-> {}]
    /\ pc = "down" /\ lives = 0 /\ tick = 0
    /\ headers = {} /\ discovered = FALSE
    /\ first = {} /\ rest = {}
    /\ task = [l \in Logs |-> "none"] /\ work = [l \in Logs |-> {}]
    /\ known = {}
    /\ cursor = [l \in Logs |-> None]
    /\ indexOf = [l \in Logs |-> None]
    /\ ring = [k \in Wells \X Mnemonics |-> <<>>]
    /\ base = [l \in Logs |-> None] /\ loaded = FALSE
    /\ history = [l \in Logs |-> [i \in Idx |-> 0]]
    /\ snap = [l \in Logs |-> None]

-----------------------------------------------------------------------------
(* The WITSML server: the simulator seeds logs and appends rows to them. *)

SeedLog(l) ==
    /\ l \notin exists
    /\ exists' = exists \cup {l}
    /\ UNCHANGED <<rows, sched, task, work, store, db>>

GrowLog(l, i) ==
    /\ l \in exists
    /\ \A j \in rows[l] : IsBeyond(i, j, DirOf[l])
    /\ rows' = [rows EXCEPT ![l] = @ \cup {i}]
    /\ UNCHANGED <<exists, sched, task, work, store, db>>

-----------------------------------------------------------------------------
(* start(): load the index snapshot, discover, launch the tick loop. *)

Boot ==
    /\ pc = "down" /\ lives < MaxLives
    /\ lives' = lives + 1
    /\ pc' = "load"
    /\ Fresh
    /\ UNCHANGED <<server, db>>

\* The restored mnemonics are sorted, and the first is taken for the index curve.
RestoredIndexCurve(l) == Min({IndexCurve[l], Curve[l]})

LoadSnapshot ==
    /\ pc = "load"
    /\ LET saved == {l \in Logs : snap[l] # None}
       IN  /\ known' = saved
           /\ indexOf' = [l \in Logs |->
                             IF l \in saved THEN RestoredIndexCurve(l) ELSE None]
    /\ cursor' = snap /\ base' = snap /\ loaded' = TRUE
    /\ pc' = "boot_discover"
    /\ UNCHANGED <<server, lives, tick, headers, discovered, first, rest,
                   task, work, ring, db>>

\* A failed load is logged, and the process starts with no cursors at all.
LoadFails ==
    /\ AllowDbFail /\ pc = "load"
    /\ loaded' = (\A l \in Logs : snap[l] = None)
    /\ pc' = "boot_discover"
    /\ UNCHANGED <<server, lives, tick, headers, discovered, first, rest,
                   task, work, known, cursor, indexOf, ring, base, db>>

\* Mutant: a header without a LogState gets none.
DiscoverWithoutState(found) ==
    /\ found \in SUBSET exists /\ (found = exists \/ AllowMiss)
    /\ headers' = headers \cup found
    /\ discovered' = (discovered \/ found # {})
    /\ UNCHANGED <<server, lives, store, task, work, db>>

\* What _discover does with the headers it found: any per-well failure leaves
\* that well's logs out.  Logs without a LogState get one from their header.
Discover(found) ==
    /\ found \in SUBSET exists /\ (found = exists \/ AllowMiss)
    /\ headers' = headers \cup found
    /\ discovered' = (discovered \/ found # {})
    /\ known' = known \cup found
    /\ indexOf' = [l \in Logs |->
                      IF l \in found \ known THEN IndexCurve[l] ELSE indexOf[l]]
    /\ UNCHANGED <<server, lives, cursor, ring, base, loaded, task, work, db>>

BootDiscover ==
    /\ pc = "boot_discover"
    /\ \E found \in SUBSET Logs : Discover(found)
    /\ pc' = "idle"
    /\ UNCHANGED <<tick, first, rest>>

-----------------------------------------------------------------------------
(* _tick *)

\* Mutant: only the logs of viewed wells are polled.
PlanTickViewedOnly(logs) ==
    /\ \E viewed \in SUBSET Wells : first' = {l \in logs : WellOf[l] \in viewed}
    /\ rest' = {}
    /\ pc' = IF first' = {} THEN "idle" ELSE "spawn"

\* The poll order of this tick: logs of viewed wells (focused, or with a
\* WebSocket subscriber), whichever they are now, before the others.
\* With no header at all the tick returns at once.
PlanTick(logs) ==
    /\ \E viewed \in SUBSET Wells :
           /\ first' = {l \in logs : WellOf[l] \in viewed}
           /\ rest' = {l \in logs : WellOf[l] \notin viewed}
    /\ pc' = IF logs = {} THEN "idle" ELSE "spawn"

BeginTick ==
    /\ pc = "idle"
    /\ tick' = (tick + 1) % SnapshotEvery
    /\ IF discovered /\ headers # {}
       THEN PlanTick(headers)
       ELSE pc' = "discover" /\ UNCHANGED <<first, rest>>
    /\ UNCHANGED <<server, lives, headers, discovered, task, work, store, db>>

Rediscover ==
    /\ pc = "discover"
    /\ \E found \in SUBSET Logs : Discover(found)
    /\ PlanTick(headers')
    /\ UNCHANGED tick

\* One create_task, after the stagger sleep.
Spawn(l) ==
    /\ pc = "spawn"
    /\ l \in IF first # {} THEN first ELSE rest
    /\ first' = first \ {l} /\ rest' = rest \ {l}
    /\ task' = [task EXCEPT ![l] = "waiting"]
    /\ pc' = IF first' \cup rest' = {} THEN "gather" ELSE "spawn"
    /\ UNCHANGED <<server, lives, tick, headers, discovered, work, store, db>>

\* Mutant: the tick goes on while samples are still being stored.
GatherDoneEarly ==
    /\ pc = "gather"
    /\ \A l \in Logs : task[l] \in {"none", "persisting"}
    /\ pc' = IF tick = 0 THEN "snapshot" ELSE "idle"
    /\ UNCHANGED <<server, lives, tick, headers, discovered, first, rest,
                   task, work, store, db>>

\* gather() returns once every task has ended, however it ended.
GatherDone ==
    /\ pc = "gather"
    /\ \A l \in Logs : task[l] = "none"
    /\ pc' = IF tick = 0 THEN "snapshot" ELSE "idle"
    /\ UNCHANGED <<server, lives, tick, headers, discovered, first, rest,
                   task, work, store, db>>

\* Mutant: the row of a log that has no cursor yet is overwritten too.
SaveCursorsOfAll == snap' = cursor

\* _snapshot_index_state: upsert the cursor of every log that has one.
SaveCursors == snap' = [l \in Logs |-> IF cursor[l] = None THEN snap[l] ELSE cursor[l]]

PeriodicSnapshot ==
    /\ pc = "snapshot"
    /\ SaveCursors
    /\ pc' = "idle"
    /\ UNCHANGED <<server, lives, tick, headers, discovered, first, rest,
                   task, work, store, history>>

SnapshotFails ==
    /\ AllowDbFail /\ pc = "snapshot"
    /\ pc' = "idle"
    /\ UNCHANGED <<server, lives, tick, headers, discovered, first, rest,
                   task, work, store, db>>

-----------------------------------------------------------------------------
(* _ingest_log *)

Running(l) == task[l] \in {"fetching", "persisting"}

\* The task enters the semaphore and sends its query from the log's cursor.
Acquire(l) ==
    /\ task[l] = "waiting"
    /\ Cardinality({m \in Logs : Running(m)}) < Concurrency
    /\ task' = [task EXCEPT ![l] = "fetching"]
    /\ work' = [work EXCEPT ![l] = rows[l]]
    /\ UNCHANGED <<server, sched, store, db>>

\* Mutant: a full buffer keeps its oldest samples.
AppendedKeepsOldest(buf, l, samples) ==
    LET asc == Ascending(samples)
        new == buf \o [n \in 1..Len(asc) |-> [log |-> l, i |-> asc[n]]]
    IN  SubSeq(new, 1, IF Len(new) > Capacity THEN Capacity ELSE Len(new))

\* Mutant: the samples of a block are appended newest first.
AppendedReversed(buf, l, samples) ==
    LET desc == Reverse(Ascending(samples))
        new == buf \o [n \in 1..Len(desc) |-> [log |-> l, i |-> desc[n]]]
        cut == IF Len(new) > Capacity THEN Len(new) - Capacity ELSE 0
    IN  SubSeq(new, cut + 1, Len(new))

\* store.append: the samples go to the log's curve in the order of the merged
\* block, ascending; the deque keeps the last Capacity.
Appended(buf, l, samples) ==
    LET asc == Ascending(samples)
        new == buf \o [n \in 1..Len(asc) |-> [log |-> l, i |-> asc[n]]]
        cut == IF Len(new) > Capacity THEN Len(new) - Capacity ELSE 0
    IN  SubSeq(new, cut + 1, Len(new))

\* The answer: advance the cursor from the whole block, append and publish the
\* rows beyond the old cursor; without any, the task is over.  The block is taken
\* for all there is also when the fetch was cut off.
FetchOk(l, block) ==
    LET dir == DirOf[l]
        samples == DedupeBoundary(block, cursor[l], dir)
        newCursor == ContinuationIndex(block, dir)
        key == <<WellOf[l], Curve[l]>>
    IN  /\ task[l] = "fetching"
        /\ FetchContract(rows[l], cursor[l], block, dir)
        /\ FetchAdvances(work[l], cursor[l], block, dir)
        /\ cursor' = [cursor EXCEPT ![l] = IF newCursor = None THEN @ ELSE newCursor]
        /\ ring' = [ring EXCEPT ![key] = Appended(@, l, samples)]
        /\ task' = [task EXCEPT ![l] = IF samples = {} THEN "none" ELSE "persisting"]
        /\ work' = [work EXCEPT ![l] = samples]
        /\ UNCHANGED <<server, sched, known, indexOf, base, loaded, db>>

EndTask(l) ==
    /\ task' = [task EXCEPT ![l] = "none"]
    /\ work' = [work EXCEPT ![l] = {}]

\* An error code or any exception: logged, and the next tick asks again.
FetchFails(l) ==
    /\ task[l] = "fetching"
    /\ EndTask(l)
    /\ UNCHANGED <<server, sched, store, db>>

\* _persist_samples: plain inserts, committed together.
PersistOk(l) ==
    /\ task[l] = "persisting"
    /\ history' = [history EXCEPT ![l] =
                      [i \in Idx |-> IF i \in work[l] THEN @[i] + 1 ELSE @[i]]]
    /\ EndTask(l)
    /\ UNCHANGED <<server, sched, store, snap>>

PersistFails(l) ==
    /\ AllowDbFail /\ task[l] = "persisting"
    /\ EndTask(l)
    /\ UNCHANGED <<server, sched, store, db>>

-----------------------------------------------------------------------------
(* stop(), and the end of the process. *)

\* Cancelling the tick task while it gathers cancels the tasks it waits for;
\* anywhere else, tasks already spawned keep running.
Stop ==
    /\ AllowStop
    /\ pc \in {"idle", "discover", "spawn", "gather", "snapshot"}
    /\ pc' = "final"
    /\ first' = {} /\ rest' = {}
    /\ IF pc = "gather"
       THEN task' = [l \in Logs |-> "none"] /\ work' = [l \in Logs |-> {}]
       ELSE UNCHANGED <<task, work>>
    /\ UNCHANGED <<server, lives, tick, headers, discovered, store, db>>

FinalSnapshot ==
    /\ pc = "final"
    /\ SaveCursors \/ (AllowDbFail /\ UNCHANGED snap)
    /\ pc' = "exit"
    /\ UNCHANGED <<server, lives, tick, headers, discovered, first, rest,
                   task, work, store, history>>

\* The event loop closes; whatever still runs is dropped.
Exit ==
    /\ pc = "exit"
    /\ pc' = "down"
    /\ Fresh
    /\ UNCHANGED <<server, lives, db>>

Crash ==
    /\ AllowCrash
    /\ pc # "down" /\ lives < MaxLives
    /\ pc' = "down"
    /\ Fresh
    /\ UNCHANGED <<server, lives, db>>

-----------------------------------------------------------------------------
Environment ==
    \/ \E l \in Logs : SeedLog(l)
    \/ \E l \in Logs, i \in Idx : GrowLog(l, i)

Lifecycle ==
    \/ Boot \/ LoadSnapshot \/ LoadFails \/ BootDiscover
    \/ Stop \/ FinalSnapshot \/ Exit \/ Crash

Tick ==
    \/ BeginTick \/ Rediscover
    \/ \E l \in Logs : Spawn(l)
    \/ GatherDone \/ PeriodicSnapshot \/ SnapshotFails

Ingest ==
    \E l \in Logs :
        \/ Acquire(l)
        \/ \E block \in SUBSET rows[l] : FetchOk(l, block)
        \/ FetchFails(l)
        \/ PersistOk(l)
        \/ PersistFails(l)

Next == Environment \/ Lifecycle \/ Tick \/ Ingest

\* The event loop runs every coroutine that can go on; a query that is asked
\* again and again is answered some time.
Fairness ==
    /\ WF_vars(Boot) /\ WF_vars(LoadSnapshot) /\ WF_vars(BootDiscover)
    /\ WF_vars(BeginTick) /\ WF_vars(Rediscover)
    /\ WF_vars(GatherDone) /\ WF_vars(PeriodicSnapshot)
    /\ \A l \in Logs :
           /\ WF_vars(Spawn(l)) /\ WF_vars(Acquire(l)) /\ WF_vars(PersistOk(l))
           /\ SF_vars(\E block \in SUBSET rows[l] : FetchOk(l, block))

Spec == Init /\ [][Next]_vars
FairSpec == Spec /\ Fairness

-----------------------------------------------------------------------------
(* Properties. *)

\* The types of everything but the ring buffers.
ControlTypeOK ==
    /\ exists \subseteq Logs /\ rows \in [Logs -> SUBSET Idx]
    /\ pc \in {"down", "load", "boot_discover", "idle", "discover", "spawn",
              "gather", "snapshot", "final", "exit"}
    /\ lives \in 0..MaxLives /\ tick \in 0..(SnapshotEvery - 1)
    /\ headers \subseteq known /\ known \subseteq Logs /\ discovered \in BOOLEAN
    /\ first \subseteq headers /\ rest \subseteq headers
    /\ task \in [Logs -> {"none", "waiting", "fetching", "persisting"}]
    /\ work \in [Logs -> SUBSET Idx]
    /\ cursor \in [Logs -> Idx \cup {None}]
    /\ indexOf \in [Logs -> Int \cup {None}]
    /\ base \in [Logs -> Idx \cup {None}] /\ loaded \in BOOLEAN
    /\ history \in [Logs -> [Idx -> Nat]]
    /\ snap \in [Logs -> Idx \cup {None}]

\* The scheduler's, the store's and the database's variables hold what the
\* code can put in them.
TypeOK ==
    /\ ControlTypeOK
    /\ ring \in [Wells \X Mnemonics -> Seq(Sample)]

\* The rows of a log up to an index it has been read to.
UpTo(l, last) ==
    IF last = None THEN {} ELSE {i \in rows[l] : ~IsBeyond(i, last, DirOf[l])}

\* The rows of a log this process has read.
Ingested(l) ==
    {i \in UpTo(l, cursor[l]) : base[l] = None \/ IsBeyond(i, base[l], DirOf[l])}

Buffer(l) == ring[<<WellOf[l], Curve[l]>>]

\* "No dupes and no gaps": each row this process has read, and no other, is in
\* the log's ring buffer exactly once, unless the buffer is full and it has
\* been evicted.
WarmExactlyOnce ==
    \A l \in Logs, i \in Idx :
        LET copies == Cardinality({n \in DOMAIN Buffer(l) : Buffer(l)[n] = [log |-> l, i |-> i]})
        IN  IF i \in Ingested(l)
            THEN copies = 1 \/ (copies = 0 /\ Len(Buffer(l)) = Capacity)
            ELSE copies = 0

\* Eviction keeps the newest samples of a curve: the buffer holds the newest
\* Capacity rows that were read.
BufferKeepsNewest ==
    \A l \in Logs :
        LET Newer(i) == {j \in Ingested(l) : IsBeyond(j, i, DirOf[l])}
        IN  {Buffer(l)[n].i : n \in DOMAIN Buffer(l)}
              = {i \in Ingested(l) : Cardinality(Newer(i)) < Capacity}

\* The last sample of a buffer, which GET /wells/{uid}/latest returns, is the
\* newest row that was read.
LatestIsNewest ==
    \A l \in Logs : Buffer(l) # <<>> => Last(Buffer(l)).i = cursor[l]

\* No durable gap: every row up to the cursor a restart resumes from is in
\* curve_samples, so a crash at any point loses nothing from the history.
ResumeLosesNothing ==
    \A l \in Logs : \A i \in UpTo(l, snap[l]) : history[l][i] > 0

\* A process stores a row at most once, whatever fails or is polled again: only
\* a restart from an older cursor can store a row another time.
HistoryOncePerLife == \A l \in Logs, i \in Idx : history[l][i] =< lives

\* A saved cursor is never erased, also by a process whose load failed and which
\* has no cursors, and a process that has loaded it never moves it back, through
\* crashes, lost snapshots, cut-off fetches and tasks that outlive their tick.
\* (A process whose load failed reads the log from the beginning; if that fetch is
\* cut off, its next snapshot does move the saved cursor back.)
SavedCursorMonotone ==
    [][\A l \in Logs : snap[l] # None =>
           /\ snap'[l] # None
           /\ loaded => ~IsBeyond(snap[l], snap'[l], DirOf[l])]_vars

\* What LogStream calls read, due, stored and saved.
ReadRows == [l \in Logs |-> UpTo(l, cursor[l])]
DueRows == [l \in Logs |-> IF task[l] = "persisting" THEN work[l] ELSE {}]
StoredRows == [l \in Logs |-> {i \in Idx : history[l][i] > 0}]
SavedRows == [l \in Logs |-> UpTo(l, snap[l])]

Stream == INSTANCE LogStream
             WITH read <- ReadRows, due <- DueRows, stored <- StoredRows, saved <- SavedRows

\* Whatever crashes, is cancelled or fails, the scheduler, its tasks and the
\* database together do what LogStream says: _ingest_log takes rows in order and
\* without a hole, stores a batch whole and once or drops it, and a restart goes
\* on from what _snapshot_index_state saved.
ImplementsStream == Stream!Spec

\* mnemonics[0] of every data query is the log's index curve.
IndexCurveFirst == \A l \in Logs : task[l] = "fetching" => indexOf[l] = IndexCurve[l]

\* A row of a discovered log is eventually read, unless the process goes down.
RowsEventuallyIngested ==
    \A l \in Logs, i \in Idx :
        (l \in headers /\ i \in rows[l]) ~> (i \in UpTo(l, cursor[l]) \/ pc = "down")

\* Every log the server has is eventually polled.
EveryLogPolled == \A l \in Logs : l \in exists ~> (l \in headers \/ pc = "down")
=============================================================================
