-------------------------------- MODULE Feed --------------------------------
(***************************************************************************)
(* The feed simulator (simulator/feed_simulator.py) against the WITSML     *)
(* store, with everyone else who talks to the store while it runs: the     *)
(* write API (api/store_write.py) and other WITSML clients, and a poller   *)
(* of the first well's depth log, which others may create with either      *)
(* direction and write rows to.  The store is in memory: a restart of it   *)
(* loses everything, and the simulator must notice and re-create its       *)
(* fleet.                                                                  *)
(*                                                                         *)
(* One action is one call to the store, which runs it under its lock, with *)
(* the caller's code up to its next call.  A call may fail before it       *)
(* reaches the store, or after the store has done it.                      *)
(***************************************************************************)
EXTENDS WitsmlStore

CONSTANTS
    Fleet,            \* the simulator's wells, a sequence
    Other,            \* a well that is not the simulator's
    DepthCols,        \* DEPTH_CURVES, the index curve first
    TimeCols,         \* TIME_CURVES
    Nullable,         \* curves whose values the simulator may null
    StartDepth,       \* start_depth, in depth steps
    MaxIdx,           \* bound: the depths are 0..MaxIdx
    MaxTime,          \* bound: the times are 0..MaxTime
    BurstEvery,       \* BURST_EVERY_TICKS
    BurstRows,        \* BURST_ROWS
    Attempts,         \* attempts of _wait_for_server
    MaxDisturbances,  \* bound: failed calls, resets and deletes
    MaxWrites         \* bound: writes of others

ASSUME FeedConstants ==
    /\ {Fleet, DepthCols, TimeCols} \subseteq Seq(STRING)
    /\ Fleet # <<>> /\ \A n \in DOMAIN Fleet : Fleet[n] # Other
    /\ Len(DepthCols) > 1 /\ Len(TimeCols) > 1
    /\ StartDepth \in 0..MaxIdx
    /\ {BurstEvery, BurstRows, Attempts} \subseteq Nat \ {0}
    /\ MaxTime \in 0..MaxIdx
    /\ {MaxIdx, MaxDisturbances, MaxWrites} \subseteq Nat
    /\ None \notin Int /\ None \notin [low : Int, high : Int]
    /\ None \notin STRING \cup {"C3"}

VARIABLES
    objs,          \* the store
    pc,            \* simulator: "wait", "seed", "tick", "reseed", "sleep"
    pos,           \* simulator: its next call in the plan of pc
    tickNo,        \* simulator: tick_no, modulo BurstEvery * Len(Fleet)
    missing,       \* simulator: needs_reseed
    at,            \* simulator: the index each log has advanced to
    logDir,        \* poller: LogState.direction, None before discovery
    cursor,        \* poller: the index it resumes from
    seen,          \* poller: what it has read, by index
    theirs,        \* ghost: the indices others have written to the polled log
    ahead,         \* ghost: was one of them beyond where the simulator was?
    disturbances,  \* how many have happened
    writes         \* how many writes of others have happened

sim == <<pc, pos, tickNo, missing, at>>
poller == <<logDir, cursor, seen>>
foreign == <<theirs, ahead>>
vars == <<objs, sim, poller, foreign, disturbances, writes>>

Idx == 0..MaxIdx

-----------------------------------------------------------------------------
(* The fleet: a well, its wellbore "wb", a time log, a depth log and a mudLog
   for each of the simulator's wells (build_fleet). *)

WellKey(w) == Key("well", "", "", w)
BoreKey(w) == Key("wellbore", w, "", "wb")
TimeKey(w) == Key("log", w, "wb", "time")
DepthKey(w) == Key("log", w, "wb", "depth")
MudKey(w) == Key("mudLog", w, "wb", "mud")

Wells == {Fleet[n] : n \in DOMAIN Fleet}
FleetLogs == {TimeKey(w) : w \in Wells} \cup {DepthKey(w) : w \in Wells}
FleetKeys == FleetLogs \cup {WellKey(w) : w \in Wells} \cup {BoreKey(w) : w \in Wells}
                 \cup {MudKey(w) : w \in Wells}

\* The first well's depth log decreases.
Polled == DepthKey(Fleet[1])
DirOf(key) == IF key = Polled THEN Decreasing ELSE Increasing
ColsOf(key) == IF key.uid = "time" THEN TimeCols ELSE DepthCols

\* The calls of one seed_fleet and of one tick, in order; position n of either.
SeedCall(n) ==
    LET w == Fleet[((n - 1) \div 5) + 1]
    IN  <<WellKey(w), BoreKey(w), TimeKey(w), DepthKey(w), MudKey(w)>>[((n - 1) % 5) + 1]
SeedLength == 5 * Len(Fleet)

TickCall(n) ==
    LET w == Fleet[((n - 1) \div 2) + 1]
    IN  <<TimeKey(w), DepthKey(w)>>[((n - 1) % 2) + 1]
TickLength == 2 * Len(Fleet)

Intervals == <<[top |-> 0, bottom |-> 1], [top |-> 1, bottom |-> 2]>>

-----------------------------------------------------------------------------
(* _emit_row *)

\* Where _advance may take a log: a depth log one step in its direction, not
\* above the surface; a time log to the clock's reading, which may not have
\* moved a millisecond.  An index at its bound stays there.
Advance(key, i) ==
    LET last == IF key.uid = "time" THEN MaxTime ELSE MaxIdx
        up == IF i = last THEN i ELSE i + 1
    IN  IF DirOf(key) = Decreasing THEN {IF i = 0 THEN 0 ELSE i - 1}
        ELSE IF key.uid = "time" THEN {i, up} ELSE {up}

\* A row of a log's columns at index j, with a null for each curve in nulls.
EmitRow(cols, j, nulls) ==
    [i |-> j, cells |-> [p \in 1..Len(cols) |->
                            IF p > 1 /\ cols[p] \in nulls THEN Default ELSE cols[p]]]

\* The indices of n rows of a log that is at i: each one step further.
Paths(key, i, n) ==
    {f \in [1..n -> Idx] : \A k \in 1..n : f[k] \in Advance(key, IF k = 1 THEN i ELSE f[k - 1])}

\* The batches of n rows the simulator may emit for a log that is at i, with a
\* null in some of the nullable cells.
Batches(key, i, n, allowNull) ==
    LET cols == ColsOf(key)
        mayNull == IF allowNull THEN Nullable \cap {cols[p] : p \in 2..Len(cols)} ELSE {}
    IN  {[cols |-> cols, data |-> [k \in 1..n |-> EmitRow(cols, f[k], g[k])]] :
            f \in Paths(key, i, n), g \in [1..n -> SUBSET mayNull]}

\* Mutant: a log only advances when its rows are known to be stored.
AdvancedIfAnswered(key, batch, raised) ==
    IF raised THEN at ELSE [at EXCEPT ![key] = batch.data[Len(batch.data)].i]

\* The state of the logs after a batch was emitted, whatever became of the call.
Advanced(key, batch, raised) == [at EXCEPT ![key] = batch.data[Len(batch.data)].i]

-----------------------------------------------------------------------------
Init ==
    /\ objs = <<>>
    /\ pc = "wait" /\ pos = 1 /\ tickNo = 0 /\ missing = FALSE
    /\ at = [k \in FleetLogs |-> IF k.uid = "time" THEN 0 ELSE StartDepth]
    /\ logDir = None /\ cursor = None /\ seen = <<>>
    /\ theirs = {} /\ ahead = FALSE
    /\ disturbances = 0 /\ writes = 0

Disturb == disturbances < MaxDisturbances /\ disturbances' = disturbances + 1

\* A call to the store is answered, or it raises, having changed the store or not.
Answered(after) == objs' = after /\ UNCHANGED disturbances
Raised(after) == objs' \in {objs, after} /\ Disturb

\* _wait_for_server: asks for the version until it is answered, or gives up and
\* proceeds anyway.
WaitForServer ==
    /\ pc = "wait"
    /\ \/ pc' = "seed" /\ pos' = 1 /\ UNCHANGED disturbances
       \/ /\ Disturb
          /\ IF pos = Attempts THEN pc' = "seed" /\ pos' = 1
             ELSE pc' = pc /\ pos' = pos + 1
    /\ UNCHANGED <<objs, tickNo, missing, at, poller, foreign, writes>>

\* After its last object the first seed goes on to the first tick, a re-seed to
\* the sleep between ticks.
SeedStep ==
    IF pos < SeedLength THEN pos' = pos + 1 /\ UNCHANGED <<pc, tickNo, missing>>
    ELSE /\ pos' = 1
         /\ IF pc = "seed"
            THEN pc' = "tick" /\ tickNo' = 1 % (BurstEvery * Len(Fleet)) /\ missing' = FALSE
            ELSE pc' = "sleep" /\ UNCHANGED <<tickNo, missing>>

\* Mutant: a re-seed only creates the logs again.
SeedObjectLogsOnly(key, batch) ==
    IF pc = "reseed" /\ key.kind # "log" THEN objs
    ELSE AddObject(objs, key,
             CASE key.kind = "log" -> Log(DirOf(key), Default, ColsOf(key), FALSE, <<>>)
               [] key.kind = "mudLog" -> MudLog(FALSE, Intervals)
               [] OTHER -> Verbatim,
             batch)

\* The object a call of seed_fleet adds.
SeedObject(key, batch) ==
    AddObject(objs, key,
        CASE key.kind = "log" -> Log(DirOf(key), Default, ColsOf(key), FALSE, <<>>)
          [] key.kind = "mudLog" -> MudLog(FALSE, Intervals)
          [] OTHER -> Verbatim,
        batch)

\* Mutant: a fleet that is seeded again is built again.
SeedFromStart(key) ==
    IF pc = "seed" THEN at[key] ELSE IF key.uid = "time" THEN 0 ELSE StartDepth

\* A seed row goes on from where the log is, in a re-seed too.
SeedFrom(key) == at[key]

\* One call of seed_fleet.  Whatever it returns, the next one follows; a log has
\* advanced by its seed row whether or not the log was there already.
Seed ==
    LET key == SeedCall(pos)
    IN  /\ pc \in {"seed", "reseed"}
        /\ \E batch \in IF key.kind = "log" THEN Batches(key, SeedFrom(key), 1, FALSE)
                        ELSE {NoBatch} :
               /\ Answered(SeedObject(key, batch)) \/ Raised(SeedObject(key, batch))
               /\ at' = IF key.kind = "log" THEN Advanced(key, batch, FALSE) ELSE at
        /\ SeedStep
        /\ UNCHANGED <<poller, foreign, writes>>

\* Mutant: only the last update of the tick says whether the fleet is seeded again.
FlaggedLast(flag, code) == code = NotFound

\* needs_reseed after an update was answered with a code.
Flagged(flag, code) == flag \/ code = NotFound

\* The burst goes to another well each time.
Rows(w) ==
    IF tickNo % BurstEvery = 0 /\ w = Fleet[(tickNo % Len(Fleet)) + 1] THEN BurstRows ELSE 1

\* One update of tick.  A call that fails says nothing about the log.
Update ==
    LET key == TickCall(pos)
    IN  /\ pc = "tick"
        /\ \E batch \in Batches(key, at[key], Rows(key.well), TRUE) :
               LET after == UpdateObject(objs, key, batch, <<>>)
               IN  \/ /\ Answered(after)
                      /\ missing' = Flagged(missing, UpdateCode(objs, key))
                      /\ at' = Advanced(key, batch, FALSE)
                   \/ /\ Raised(after)
                      /\ missing' = missing
                      /\ at' = Advanced(key, batch, TRUE)
        /\ IF pos < TickLength THEN pos' = pos + 1 /\ pc' = pc
           ELSE pos' = 1 /\ pc' = IF missing' THEN "reseed" ELSE "sleep"
        /\ UNCHANGED <<tickNo, poller, foreign, writes>>

Wake ==
    /\ pc = "sleep"
    /\ pc' = "tick" /\ pos' = 1 /\ missing' = FALSE
    /\ tickNo' = (tickNo + 1) % (BurstEvery * Len(Fleet))
    /\ UNCHANGED <<objs, at, poller, foreign, disturbances, writes>>

-----------------------------------------------------------------------------
(* Everyone else. *)

\* The store's process is restarted: it is in memory only.
Reset ==
    /\ Disturb /\ objs # <<>>
    /\ objs' = <<>>
    /\ UNCHANGED <<sim, poller, foreign, writes>>

\* Another WITSML client deletes an object.
Delete ==
    /\ Disturb
    /\ \E key \in DOMAIN objs :
           /\ DeleteCode(objs, key) = Success
           /\ objs' = DeleteObject(objs, key)
    /\ UNCHANGED <<sim, poller, foreign, writes>>

\* The headers POST /store/log may create for a log of the fleet before the
\* simulator does, increasing unless the body says otherwise: another column order,
\* a further curve with a null value of the log's own, no curve at all.
HeadersBefore(key) ==
    LET cols == ColsOf(key)
        swapped == [p \in 1..Len(cols) |->
                       cols[IF p = 2 THEN Len(cols) ELSE IF p = Len(cols) THEN 2 ELSE p]]
    IN  UNION {{Log(dir, Default, swapped, FALSE, <<>>),
                Log(dir, "-1", Append(cols, "C3"), FALSE, <<>>),
                Log(dir, Default, <<>>, FALSE, <<>>)} : dir \in Directions}

\* What the writes of others add: objects of a well of their own, a fleet log's
\* header, an object without uid, an object of a type the store does not have.
OtherAdds ==
    {<<k, Verbatim>> : k \in {WellKey(Other), Key("well", "", "", ""),
                               Key("trajectory", "", "", Other)}}
    \cup {<<Polled, h>> : h \in HeadersBefore(Polled)}

\* What they update: a well, the fleet's mudLog, its time log and the polled depth
\* log, a log nobody has.
OtherUpdates == {WellKey(Other), MudKey(Fleet[1]), TimeKey(Fleet[1]), Polled, DepthKey(Other)}

\* _add and _update of the write API: one call to the store.
Write(after) ==
    /\ writes < MaxWrites /\ writes' = writes + 1
    /\ Answered(after) \/ Raised(after)
    /\ UNCHANGED <<sim, poller>>

\* POST /store/add, /store/well, /store/wellbore, /store/log.
StoreAdd ==
    /\ \E add \in OtherAdds : Write(AddObject(objs, add[1], add[2], NoBatch))
    /\ UNCHANGED foreign

\* A row whose index does not parse and a short one at j, without a mnemonicList.
OtherBatch(key, j) ==
    [cols |-> <<>>, data |-> <<[i |-> None, cells |-> ColsOf(key)],
                               [i |-> j, cells |-> <<ColsOf(key)[1]>>]>>]

\* POST /store/update: two rows, or an interval.  The rows of the polled log may
\* be at any depth.
StoreUpdate ==
    \E key \in OtherUpdates : \E j \in IF key = Polled THEN Idx ELSE {0} :
        /\ Write(UpdateObject(objs, key, OtherBatch(key, j), <<Intervals[1]>>))
        /\ IF key = Polled /\ objs' # objs
           THEN /\ theirs' = theirs \cup {j}
                /\ ahead' = (ahead \/ IsBeyond(j, at[Polled], DirOf(Polled)))
           ELSE UNCHANGED foreign

\* _discover finds the log's header, and the LogState made from it stays.  A log
\* whose header has no curves is never queried, and its header not read again.
Discover ==
    /\ logDir = None
    /\ Polled \in DOMAIN objs /\ objs[Polled].cols # <<>>
    /\ logDir' = objs[Polled].dir
    /\ UNCHANGED <<objs, sim, cursor, seen, foreign, disturbances, writes>>

\* A poll of the first well's depth log, as _do_ingest_log does it: the server
\* selects in the direction of the log it has now, and the rows strictly beyond
\* the cursor, in the direction of the header that was discovered, are kept.
Poll ==
    LET block == ParseLogData(objs[Polled].cols, DataFrom(objs[Polled], cursor))
        fresh == DedupeBoundary(DOMAIN block, cursor, logDir)
        next == ContinuationIndex(DOMAIN block, logDir)
    IN  /\ logDir # None /\ Polled \in DOMAIN objs
        /\ next # None
        /\ cursor' = next
        /\ seen' = [i \in DOMAIN seen \cup fresh |->
                       IF i \in fresh THEN block[i] ELSE seen[i]]
        /\ UNCHANGED <<objs, sim, logDir, foreign, disturbances, writes>>

-----------------------------------------------------------------------------
Simulator == WaitForServer \/ Seed \/ Update \/ Wake
Next == Simulator \/ Reset \/ Delete \/ StoreAdd \/ StoreUpdate \/ Discover \/ Poll

\* The simulator always has a next step, its loop never ends, and a call to the
\* store returns or raises: it takes steps for ever, and each one moves pc or pos.
Fairness == []<><<pc' # pc \/ pos' # pos>>_vars

Spec == Init /\ [][Next]_vars /\ Fairness

-----------------------------------------------------------------------------
(* Properties. *)

Logs == {k \in DOMAIN objs : k.kind = "log"}

\* The store's objects, the simulator's counters and what the poller holds are
\* what the code can put in them.
TypeOK ==
    /\ \A k \in DOMAIN objs : k.kind \in Kinds /\ k.uid # ""
    /\ \A k \in Logs :
           /\ objs[k].dir \in Directions /\ objs[k].growing \in BOOLEAN
           /\ DOMAIN objs[k].rows \subseteq Idx
           /\ objs[k].cols # <<>> => \A i \in DOMAIN objs[k].rows :
                  Len(objs[k].rows[i]) = Len(objs[k].cols)
    /\ pc \in {"wait", "seed", "tick", "reseed", "sleep"}
    /\ pos \in 1..Max({SeedLength, TickLength, Attempts})
    /\ tickNo \in 0..(BurstEvery * Len(Fleet) - 1)
    /\ missing \in BOOLEAN /\ at \in [FleetLogs -> Idx]
    /\ logDir \in Directions \cup {None} /\ (cursor # None => logDir # None)
    /\ cursor \in Idx \cup {None} /\ DOMAIN seen \subseteq Idx
    /\ theirs \subseteq Idx /\ ahead \in BOOLEAN
    /\ disturbances \in 0..MaxDisturbances /\ writes \in 0..MaxWrites

\* "Aligns incoming columns to the stored curve order": whoever created the log
\* and with which columns, the value stored and the value read under a mnemonic
\* is a value of that curve or a null.  A log's own null reads as null only if
\* it is a common sentinel, as a data-only reply does not carry it.
CellsAligned ==
    /\ \A k \in Logs : LET log == objs[k] IN
           log.cols # <<>> => \A i \in DOMAIN log.rows : \A p \in 2..Len(log.cols) :
               log.rows[i][p] \in {log.cols[p], log.nul, Default}
    /\ \A i \in DOMAIN seen : \A m \in DOMAIN seen[i] : seen[i][m] \in {m, None, "-1"}

\* The header and the latest values agree: the newest end of a curve's extent is
\* the newest row requestLatestValues returns a value of it in.
LatestMatchesExtent ==
    \A k \in Logs : LET log == objs[k] IN
        \A p \in 2..Len(log.cols) :
            LET latest == LatestRows(log, 1)
                extent == CurveExtent(log, p)
                valued == {i \in DOMAIN latest : latest[i][p] \notin NullSet(log)}
            IN  ContinuationIndex(valued, log.dir)
                  = IF extent = None THEN None
                    ELSE IF log.dir = Increasing THEN extent.high ELSE extent.low

\* Resets, re-seeding, lost calls and writes of others included, every row of the
\* simulator that is not beyond the poller's cursor has been read: the simulator
\* goes on from where it was, so nothing is written behind the cursor.  This
\* presumes that the header the poller discovered had the simulator's direction,
\* and that nobody else wrote a row beyond where the simulator was, which would
\* take the cursor past rows that are still to come.
NothingBehindCursor ==
    /\ Polled \in DOMAIN objs /\ objs[Polled].cols # <<>>
    /\ cursor # None /\ logDir = DirOf(Polled) /\ ~ahead
    => \A i \in DOMAIN objs[Polled].rows \ theirs :
           ~IsBeyond(i, cursor, logDir) => i \in DOMAIN seen

\* A row the poller has read and the store then holds otherwise, and which nobody
\* else has written, is the surface row of a decreasing depth log, which the
\* simulator writes again and again.
OnlySurfaceRowStale ==
    Polled \in DOMAIN objs =>
        LET stored == ParseLogData(objs[Polled].cols, objs[Polled].rows)
        IN  \A i \in (DOMAIN seen \cap DOMAIN stored) \ theirs :
                \A m \in DOMAIN seen[i] \cap DOMAIN stored[i] :
                    {seen[i][m], stored[i][m]} = {m, None} => i = 0

\* Only a restart of the store or a delete takes anything away: seeding again,
\* retries after a lost answer and writes of others keep every object, its
\* header and the indices of its rows.
OnlyAdditions ==
    [][disturbances' = disturbances =>
          \A k \in DOMAIN objs :
              /\ k \in DOMAIN objs'
              /\ k.kind = "log" =>
                     /\ objs'[k].dir = objs[k].dir /\ objs'[k].cols = objs[k].cols
                     /\ DOMAIN objs[k].rows \subseteq DOMAIN objs'[k].rows]_vars

\* "Re-create the whole fleet so discovery and ingestion recover automatically":
\* when the store was restarted between two ticks, every object of the fleet is
\* there again, if that was the last disturbance.
FleetRecovers ==
    (pc = "sleep" /\ objs = <<>> /\ disturbances = MaxDisturbances)
        ~> (FleetKeys \subseteq DOMAIN objs)

\* Logs of the fleet that are gone come back, whatever goes wrong on the way.
LogsComeBack ==
    (pc = "sleep" /\ ~(FleetLogs \subseteq DOMAIN objs)) ~> (FleetLogs \subseteq DOMAIN objs)
=============================================================================
