---------------------------- MODULE StreamProofs ----------------------------
(***************************************************************************)
(* What the ingestion engine does with the rows it reads, for any set of   *)
(* logs and wells, any number of rows and of restarts, and under every     *)
(* fault that Ingestion has: it implements LogStream, stores a row at most *)
(* once in the life of a process, and holds each row once in its buffers.  *)
(***************************************************************************)
EXTENDS IngestionProofs

-----------------------------------------------------------------------------
(* What leaves LogStream's variables alone. *)

\* The rows read and the rows saved depend on the rows and the cursors only.
LEMMA CursorsFixRead ==
    ASSUME rows' = rows
    PROVE  /\ cursor' = cursor => ReadRows' = ReadRows
           /\ snap' = snap => SavedRows' = SavedRows
  BY DEF ReadRows, SavedRows, UpTo

\* A step that touches neither a batch nor a cursor stutters.
LEMMA StreamStutters ==
    ASSUME UNCHANGED <<rows, cursor, snap, history>>, DueRows' = DueRows
    PROVE  UNCHANGED Stream!vars
<1>1. ReadRows' = ReadRows /\ SavedRows' = SavedRows
  BY CursorsFixRead
<1>2. StoredRows' = StoredRows
  BY DEF StoredRows
<1> QED BY <1>1, <1>2 DEF Stream!vars

-----------------------------------------------------------------------------
(* One lemma for each step that LogStream sees. *)

\* A new row of a log is published.
LEMMA GrowPublishes ==
    ASSUME TypeInv, CursorInv, NEW l \in Logs, NEW i \in Idx, GrowLog(l, i)
    PROVE  Stream!Publish(l, i)
<1>1. /\ \A j \in rows[l] : IsBeyond(i, j, DirOf[l])
      /\ rows' = [rows EXCEPT ![l] = @ \cup {i}]
      /\ UNCHANGED <<task, work, cursor, history, snap>>
  BY DEF GrowLog, store, db
<1>2. ReadRows' = ReadRows /\ SavedRows' = SavedRows
  BY GrowKeepsUpTo DEF ReadRows, SavedRows
<1>3. DueRows' = DueRows /\ StoredRows' = StoredRows
  BY <1>1 DEF DueRows, StoredRows
<1> QED BY <1>1, <1>2, <1>3 DEF Stream!Publish, Stream!IsBeyond, IsBeyond, Stream!Increasing, Increasing

\* A process that goes down, or comes up, has read nothing and owes nothing.
LEMMA FreshForgets ==
    ASSUME Fresh, UNCHANGED <<server, db>>
    PROVE  Stream!Forget
<1>1. /\ cursor' = [l \in Logs |-> None] /\ task' = [l \in Logs |-> "none"]
      /\ UNCHANGED <<rows, history, snap>>
  BY FreshStart DEF server, db
<1>2. ReadRows' = Stream!Nothing /\ DueRows' = Stream!Nothing
  BY <1>1 DEF ReadRows, DueRows, UpTo, Stream!Nothing
<1>3. SavedRows' = SavedRows /\ StoredRows' = StoredRows
  BY <1>1, CursorsFixRead DEF StoredRows
<1> QED BY <1>1, <1>2, <1>3 DEF Stream!Forget

\* The snapshot a process loads is what it has read.
LEMMA LoadResumes ==
    ASSUME LoadSnapshot
    PROVE  Stream!Resume
<1>1. cursor' = snap /\ UNCHANGED <<rows, task, work, history, snap>>
  BY DEF LoadSnapshot, server, db
<1>2. ReadRows' = SavedRows /\ SavedRows' = SavedRows
  BY <1>1 DEF ReadRows, SavedRows, UpTo
<1>3. DueRows' = DueRows /\ StoredRows' = StoredRows
  BY <1>1 DEF DueRows, StoredRows
<1> QED BY <1>1, <1>2, <1>3 DEF Stream!Resume

\* _snapshot_index_state saves what has been read of every log of which
\* anything has.
LEMMA SnapshotSaves ==
    ASSUME TypeInv, CursorInv, SaveCursors,
           UNCHANGED <<rows, cursor, task, work, history>>
    PROVE  Stream!Save
<1>1. ASSUME NEW l \in Logs
      PROVE  UpTo(l, snap'[l]) = IF UpTo(l, cursor[l]) = {} THEN UpTo(l, snap[l])
                                 ELSE UpTo(l, cursor[l])
  <2>1. snap'[l] = IF cursor[l] = None THEN snap[l] ELSE cursor[l]
    BY DEF SaveCursors
  <2>2. CASE cursor[l] = None
    BY <2>1, <2>2 DEF UpTo
  <2>3. CASE cursor[l] # None
    <3>1. cursor[l] \in Int /\ cursor[l] \in rows[l]
      BY <2>3 DEF TypeInv, ControlTypeOK, Idx, CursorInv
    <3>2. cursor[l] \in UpTo(l, cursor[l])
      BY <2>3, <3>1, BeyondOrder DEF UpTo
    <3> QED BY <2>1, <2>3, <3>2
  <2> QED BY <2>2, <2>3
<1>2. SavedRows' = [l \in Logs |-> IF ReadRows[l] = {} THEN SavedRows[l] ELSE ReadRows[l]]
  <2>1. \A l \in Logs : UpTo(l, snap[l])' = UpTo(l, snap'[l])
    BY DEF UpTo
  <2> QED BY <1>1, <2>1 DEF ReadRows, SavedRows
<1>3. ReadRows' = ReadRows /\ DueRows' = DueRows /\ StoredRows' = StoredRows
  BY CursorsFixRead DEF DueRows, StoredRows
<1> QED BY <1>2, <1>3 DEF Stream!Save

\* A task that is started, or whose commit failed, has dropped its batch.
LEMMA TaskDrops ==
    ASSUME TypeInv, NEW l \in Logs, task' = [task EXCEPT ![l] = task'[l]],
           task'[l] # "persisting",
           \A m \in Logs \ {l} : work'[m] = work[m],
           UNCHANGED <<rows, cursor, snap, history>>
    PROVE  Stream!Drop({l})
<1>1. DueRows' = [m \in Logs |-> IF m \in {l} THEN {} ELSE DueRows[m]]
  BY DEF DueRows, TypeInv, ControlTypeOK
<1>2. ReadRows' = ReadRows /\ SavedRows' = SavedRows /\ StoredRows' = StoredRows
  BY CursorsFixRead DEF StoredRows
<1> QED BY <1>1, <1>2 DEF Stream!Drop

\* stop() drops every batch if it comes while the tick gathers, and none otherwise.
LEMMA StopDrops ==
    ASSUME Stop
    PROVE  Stream!Drop(Logs) \/ UNCHANGED Stream!vars
<1>1. UNCHANGED <<rows, cursor, snap, history>>
  BY DEF Stop, server, store, db
<1>2. CASE pc = "gather"
  <2>1. DueRows' = [m \in Logs |-> IF m \in Logs THEN {} ELSE DueRows[m]]
    BY <1>2 DEF Stop, DueRows
  <2>2. ReadRows' = ReadRows /\ SavedRows' = SavedRows /\ StoredRows' = StoredRows
    BY <1>1, CursorsFixRead DEF StoredRows
  <2> QED BY <1>1, <2>1, <2>2 DEF Stream!Drop
<1>3. CASE pc # "gather"
  <2>1. DueRows' = DueRows
    BY <1>3 DEF Stop, DueRows
  <2> QED BY <1>1, <2>1, StreamStutters
<1> QED BY <1>2, <1>3

\* A commit stores the whole batch.
LEMMA PersistStores ==
    ASSUME TypeInv, NEW l \in Logs, PersistOk(l)
    PROVE  Stream!Store(l)
<1>1. /\ task[l] = "persisting" /\ work[l] \subseteq Idx
      /\ history' = [history EXCEPT ![l] = [i \in Idx |-> IF i \in work[l] THEN @[i] + 1 ELSE @[i]]]
      /\ task' = [task EXCEPT ![l] = "none"]
      /\ \A m \in Logs \ {l} : work'[m] = work[m]
      /\ UNCHANGED <<rows, cursor, snap>>
      /\ history \in [Logs -> [Idx -> Nat]]
      /\ task \in [Logs -> {"none", "waiting", "fetching", "persisting"}]
  BY DEF PersistOk, EndTask, server, store, TypeInv, ControlTypeOK
<1>2. DueRows' = [DueRows EXCEPT ![l] = {}]
  BY <1>1 DEF DueRows
<1>3. StoredRows' = [StoredRows EXCEPT ![l] = @ \cup DueRows[l]]
  <2>1. \A m \in Logs \ {l} : history'[m] = history[m]
    BY <1>1
  <2>2. {i \in Idx : history'[l][i] > 0} = {i \in Idx : history[l][i] > 0} \cup work[l]
    <3>1. \A i \in Idx : /\ history[l][i] \in Nat
                         /\ history'[l][i] = IF i \in work[l] THEN history[l][i] + 1 ELSE history[l][i]
      BY <1>1
    <3>2. \A i \in Idx : history'[l][i] > 0 <=> history[l][i] > 0 \/ i \in work[l]
      BY <3>1
    <3> QED BY <1>1, <3>2
  <2>3. DueRows[l] = work[l]
    BY <1>1 DEF DueRows
  <2> QED BY <2>1, <2>2, <2>3 DEF StoredRows
<1>4. ReadRows' = ReadRows /\ SavedRows' = SavedRows
  BY <1>1, CursorsFixRead
<1> QED BY <1>1, <1>2, <1>3, <1>4 DEF Stream!Store

-----------------------------------------------------------------------------
(* A fetch. *)

\* A fetch that brings anything new hands over exactly the rows between the
\* old and the new cursor; one that brings nothing new leaves the cursor.
LEMMA FetchedBatch ==
    ASSUME TypeInv, CursorInv,
           NEW l \in Logs, NEW block \in SUBSET rows[l], FetchOk(l, block)
    PROVE  /\ UpTo(l, cursor[l]) \subseteq UpTo(l, cursor'[l])
           /\ UpTo(l, cursor'[l]) \ UpTo(l, cursor[l])
                = DedupeBoundary(block, cursor[l], DirOf[l])
<1> DEFINE dir == DirOf[l]
           old == cursor[l]
           new == cursor'[l]
<1>1. /\ task[l] = "fetching"
      /\ FetchContract(rows[l], old, block, dir)
      /\ rows[l] \subseteq Int /\ block \subseteq Int
      /\ old # None => old \in Int /\ old \in rows[l]
  BY DEF FetchOk, CursorInv, TypeInv, ControlTypeOK, Idx
<1>2. CASE block = {}
  <2>1. new = old
    BY <1>2, FetchedCursor
  <2> QED BY <1>2, <2>1 DEF DedupeBoundary
<1>3. CASE block # {}
  <2>1. new \in block /\ new \in Int /\ new # None /\ \A j \in block : ~IsBeyond(j, new, dir)
    BY <1>1, <1>3, FetchedCursor, IngestionConstants
  <2>2. old # None => ~IsBeyond(old, new, dir)
    BY FetchedNotBehind
  <2>3. UpTo(l, old) \subseteq UpTo(l, new)
    BY <1>1, <2>1, <2>2, BeyondOrder DEF UpTo
  <2>4. ASSUME NEW i \in UpTo(l, new), i \notin UpTo(l, old)
        PROVE  i \in DedupeBoundary(block, old, dir)
    <3>1. i \in rows[l] /\ ~IsBeyond(i, new, dir) /\ (old # None => IsBeyond(i, old, dir))
      BY <2>1, <2>4 DEF UpTo
    <3>2. i \in DedupeBoundary(rows[l], old, dir)
      BY <3>1 DEF DedupeBoundary
    <3>3. i \in block
      BY <1>1, <2>1, <3>1, <3>2 DEF FetchContract
    <3> QED BY <3>1, <3>3 DEF DedupeBoundary
  <2>5. ASSUME NEW i \in DedupeBoundary(block, old, dir)
        PROVE  i \in UpTo(l, new) /\ i \notin UpTo(l, old)
    BY <2>1, <2>5 DEF DedupeBoundary, UpTo
  <2> QED BY <2>3, <2>4, <2>5
<1> QED BY <1>2, <1>3

\* A fetch takes the rows up to its new cursor.
LEMMA FetchTakes ==
    ASSUME TypeInv, CursorInv, TypeInv', CursorInv',
           NEW l \in Logs, NEW block \in SUBSET rows[l], FetchOk(l, block)
    PROVE  \E S \in SUBSET rows[l] : Stream!Take(l, S)
<1> DEFINE S == UpTo(l, cursor'[l])
           samples == DedupeBoundary(block, cursor[l], DirOf[l])
<1>1. /\ UNCHANGED <<rows, snap, history>>
      /\ task[l] = "fetching"
      /\ \A m \in Logs \ {l} : cursor'[m] = cursor[m] /\ task'[m] = task[m] /\ work'[m] = work[m]
      /\ task'[l] = IF samples = {} THEN "none" ELSE "persisting"
      /\ work'[l] = samples
  BY DEF FetchOk, server, db, TypeInv, ControlTypeOK
<1>2. UpTo(l, cursor[l]) \subseteq S /\ S \ UpTo(l, cursor[l]) = samples /\ S \subseteq rows[l]
  BY FetchedBatch DEF UpTo
<1>3. \A m \in Logs : UpTo(m, cursor[m])' = UpTo(m, cursor'[m])
  BY <1>1 DEF UpTo
<1>4. ReadRows' = [ReadRows EXCEPT ![l] = S]
  BY <1>1, <1>3 DEF ReadRows
<1>5. DueRows' = [DueRows EXCEPT ![l] = S \ ReadRows[l]]
  BY <1>1, <1>2 DEF DueRows, ReadRows
<1>6. SavedRows' = SavedRows /\ StoredRows' = StoredRows
  BY <1>1, CursorsFixRead DEF StoredRows
<1>7. \A i \in S, j \in rows[l] : ~IsBeyond(j, i, DirOf[l]) => j \in S
  <2>1. rows[l] \subseteq Int /\ (cursor'[l] # None => cursor'[l] \in Int)
    BY <1>1 DEF TypeInv, ControlTypeOK, Idx
  <2> QED BY <2>1, BeyondOrder DEF UpTo
<1>8. Stream!NoHoles(l, S)
  BY <1>2, <1>7 DEF Stream!NoHoles, Stream!IsBeyond, IsBeyond, Stream!Increasing, Increasing
<1>9. ReadRows[l] \subseteq S
  BY <1>2 DEF ReadRows
<1>10. DueRows[l] = {}
  BY <1>1 DEF DueRows
<1> HIDE DEF S
<1>11. Stream!Take(l, S)
  BY <1>1, <1>4, <1>5, <1>6, <1>8, <1>9, <1>10 DEF Stream!Take
<1> QED BY <1>2, <1>11

-----------------------------------------------------------------------------
(* The refinement. *)

\* The first state is LogStream's first state.
LEMMA InitStream == Init => Stream!Init
<1> SUFFICES ASSUME Init PROVE Stream!Init
  OBVIOUS
<1>1. /\ rows = [l \in Logs |-> {}] /\ task = [l \in Logs |-> "none"]
      /\ cursor = [l \in Logs |-> None] /\ snap = [l \in Logs |-> None]
      /\ history = [l \in Logs |-> [i \in Idx |-> 0]]
  BY Zenon DEF Init
<1>2. ReadRows = [l \in Logs |-> {}] /\ SavedRows = [l \in Logs |-> {}]
  BY <1>1 DEF ReadRows, SavedRows, UpTo
<1>3. DueRows = [l \in Logs |-> {}]
  BY <1>1 DEF DueRows
<1>4. StoredRows = [l \in Logs |-> {}]
  <2>1. \A l \in Logs : {i \in Idx : history[l][i] > 0} = {}
    BY <1>1
  <2> QED BY <2>1 DEF StoredRows
<1> QED BY <1>1, <1>2, <1>3, <1>4 DEF Stream!Init, Stream!Nothing

\* Every step is a step of LogStream, or changes nothing LogStream sees.
LEMMA StepStream ==
    ASSUME TypeInv, CursorInv, TypeInv', CursorInv', [Next]_vars
    PROVE  [Stream!Next]_(Stream!vars)
<1> USE DEF server, sched, store, db
<1>1. CASE UNCHANGED <<rows, cursor, snap, history, task, work>>
  <2>1. DueRows' = DueRows
    BY <1>1 DEF DueRows
  <2> QED BY <1>1, <2>1, StreamStutters
<1>2. CASE Environment
  <2>1. ASSUME NEW l \in Logs, NEW i \in Idx, GrowLog(l, i) PROVE Stream!Next
    BY <2>1, GrowPublishes DEF Stream!Next
  <2> QED BY <1>1, <1>2, <2>1 DEF Environment, SeedLog
<1>3. CASE Lifecycle
  <2>1. CASE Boot \/ Exit \/ Crash
    <3>1. Stream!Forget
      BY <2>1, FreshForgets DEF Boot, Exit, Crash
    <3> QED BY <3>1 DEF Stream!Next
  <2>2. CASE LoadSnapshot
    BY <2>2, LoadResumes DEF Stream!Next
  <2>3. CASE LoadFails \/ BootDiscover
    BY <1>1, <2>3 DEF LoadFails, BootDiscover, Discover
  <2>4. CASE Stop
    <3>1. Stream!Drop(Logs) => Stream!Next
      BY DEF Stream!Next
    <3> QED BY <2>4, <3>1, StopDrops
  <2>5. CASE FinalSnapshot
    <3>1. CASE UNCHANGED snap
      BY <1>1, <2>5, <3>1 DEF FinalSnapshot
    <3>2. CASE SaveCursors
      BY <2>5, <3>2, SnapshotSaves DEF FinalSnapshot, Stream!Next
    <3> QED BY <2>5, <3>1, <3>2 DEF FinalSnapshot
  <2> QED BY <1>3, <2>1, <2>2, <2>3, <2>4, <2>5 DEF Lifecycle
<1>4. CASE Tick
  <2>1. ASSUME NEW l \in Logs, Spawn(l) PROVE Stream!Next
    <3>1. Stream!Drop({l})
      BY <2>1, TaskDrops DEF Spawn, TypeInv, ControlTypeOK
    <3> QED BY <3>1 DEF Stream!Next
  <2>2. CASE PeriodicSnapshot
    BY <2>2, SnapshotSaves DEF PeriodicSnapshot, Stream!Next
  <2>3. CASE BeginTick \/ Rediscover \/ GatherDone \/ SnapshotFails
    BY <1>1, <2>3 DEF BeginTick, Rediscover, Discover, GatherDone, SnapshotFails
  <2> QED BY <1>4, <2>1, <2>2, <2>3 DEF Tick
<1>5. CASE Ingest
  <2>1. PICK l \in Logs : \/ Acquire(l) \/ FetchFails(l) \/ PersistOk(l) \/ PersistFails(l)
                          \/ \E block \in SUBSET rows[l] : FetchOk(l, block)
    BY <1>5 DEF Ingest
  <2>2. CASE Acquire(l) \/ FetchFails(l)
    <3>1. /\ UNCHANGED <<rows, cursor, snap, history>>
          /\ task[l] # "persisting" /\ task'[l] # "persisting"
          /\ \A m \in Logs \ {l} : task'[m] = task[m] /\ work'[m] = work[m]
      BY <2>2 DEF Acquire, FetchFails, EndTask, TypeInv, ControlTypeOK
    <3>2. DueRows' = DueRows
      BY <3>1 DEF DueRows
    <3> QED BY <3>1, <3>2, StreamStutters
  <2>3. CASE PersistFails(l)
    <3>1. Stream!Drop({l})
      BY <2>3, TaskDrops DEF PersistFails, EndTask, TypeInv, ControlTypeOK
    <3> QED BY <3>1 DEF Stream!Next
  <2>4. CASE PersistOk(l)
    BY <2>4, PersistStores DEF Stream!Next
  <2>5. CASE \E block \in SUBSET rows[l] : FetchOk(l, block)
    BY <2>5, FetchTakes DEF Stream!Next
  <2> QED BY <2>1, <2>2, <2>3, <2>4, <2>5
<1>6. CASE UNCHANGED vars
  BY <1>1, <1>6 DEF vars
<1> QED BY <1>2, <1>3, <1>4, <1>5, <1>6 DEF Next

\* The scheduler with its tasks, its store and its database implements
\* LogStream, whatever crashes, is cancelled, fails or is missed: no batch is
\* stored in part, no row is skipped by the rows taken after it, and no restart
\* goes on from anything but a saved cursor or the beginning.
THEOREM IngestionImplementsStream == Spec => ImplementsStream
<1>1. Init => TypeInv /\ CursorInv /\ Stream!Init
  BY InitTypes, InitCursors, InitStream
<1>2. TypeInv /\ CursorInv /\ [Next]_vars => TypeInv' /\ CursorInv'
  BY TypeInvInductive, CursorInvInductive
<1>3. TypeInv /\ CursorInv /\ TypeInv' /\ CursorInv' /\ [Next]_vars => [Stream!Next]_(Stream!vars)
  BY StepStream
<1>4. Spec => Stream!Init /\ [][Stream!Next]_(Stream!vars)
  BY <1>1, <1>2, <1>3, PTL DEF Spec
<1> QED BY <1>4 DEF ImplementsStream, Stream!Spec

-----------------------------------------------------------------------------
(* How often a row is stored. *)

\* A row this process has yet to store: it is not read yet, or in a batch.
Pending(l, i) == i \notin UpTo(l, cursor[l]) \/ (task[l] = "persisting" /\ i \in work[l])

\* A batch is of rows that were read; a process that is not up yet has no task
\* and no cursor; and only the processes before this one can have stored a row
\* that is still pending.
HistoryInv ==
    /\ \A l \in Logs : task[l] = "persisting" => work[l] \subseteq UpTo(l, cursor[l])
    /\ pc \in {"down", "load"} => \A l \in Logs : task[l] = "none" /\ cursor[l] = None
    /\ HistoryOncePerLife
    /\ pc # "down" => \A l \in Logs, i \in Idx : Pending(l, i) => history[l][i] < lives

\* Nothing is stored at first.
LEMMA InitHistory == Init => HistoryInv
<1> SUFFICES ASSUME Init PROVE HistoryInv
  OBVIOUS
<1>1. /\ pc = "down" /\ lives = 0 /\ task = [l \in Logs |-> "none"]
      /\ cursor = [l \in Logs |-> None] /\ history = [l \in Logs |-> [i \in Idx |-> 0]]
  BY Zenon DEF Init
<1> QED BY <1>1 DEF HistoryInv, HistoryOncePerLife

\* A step that stores nothing, starts no process and adds nothing to what is
\* pending.
LEMMA NothingStored ==
    ASSUME TypeInv, HistoryInv, UNCHANGED <<history, lives>>, pc # "down",
           pc' \notin {"down", "load"},
           \A l \in Logs : task'[l] = "persisting" => work'[l] \subseteq UpTo(l, cursor[l])',
           \A l \in Logs, i \in Idx : Pending(l, i)' => Pending(l, i)
    PROVE  HistoryInv'
  BY DEF HistoryInv, HistoryOncePerLife

\* A step that changes neither tasks nor cursors.
LEMMA HistoryStutters ==
    ASSUME TypeInv, HistoryInv, UNCHANGED <<rows, cursor, task, work, history, lives>>,
           pc' \in {"down", "load"} => pc' = pc, pc = "down" => pc' = "down"
    PROVE  HistoryInv'
<1>1. \A l \in Logs : UpTo(l, cursor[l])' = UpTo(l, cursor[l])
  BY DEF UpTo
<1> QED BY <1>1 DEF HistoryInv, HistoryOncePerLife, Pending

\* HistoryInv is inductive.
LEMMA HistoryInvInductive ==
    ASSUME TypeInv, CursorInv, HistoryInv, [Next]_vars
    PROVE  HistoryInv'
<1> USE DEF server, sched, store, db
<1>1. lives \in Nat /\ history \in [Logs -> [Idx -> Nat]]
      /\ task \in [Logs -> {"none", "waiting", "fetching", "persisting"}]
      /\ work \in [Logs -> SUBSET Idx]
  BY IngestionConstants DEF TypeInv, ControlTypeOK
<1>2. ASSUME NEW g \in Logs, NEW r \in Idx, GrowLog(g, r) PROVE HistoryInv'
  <2>1. UNCHANGED <<pc, lives, task, work, cursor, history>>
    BY <1>2 DEF GrowLog
  <2>2. \A l \in Logs : UpTo(l, cursor[l])' = UpTo(l, cursor[l])
    BY <1>2, GrowKeepsUpTo
  <2> QED BY <2>1, <2>2 DEF HistoryInv, HistoryOncePerLife, Pending
<1>3. CASE Boot
  <2>1. /\ lives' = lives + 1 /\ history' = history
        /\ \A l \in Logs : task'[l] = "none" /\ cursor'[l] = None
    BY <1>3, FreshStart DEF Boot
  <2>2. \A l \in Logs, i \in Idx : history[l][i] < lives + 1
    BY <1>1 DEF HistoryInv, HistoryOncePerLife
  <2>3. \A l \in Logs, i \in Idx : history'[l][i] =< lives' /\ history'[l][i] < lives'
    BY <1>1, <2>1, <2>2
  <2> QED BY <2>1, <2>3 DEF HistoryInv, HistoryOncePerLife
<1>4. CASE Exit \/ Crash
  <2>1. /\ pc' = "down" /\ lives' = lives /\ history' = history
        /\ \A l \in Logs : task'[l] = "none" /\ cursor'[l] = None
    BY <1>4, FreshStart DEF Exit, Crash
  <2> QED BY <2>1 DEF HistoryInv, HistoryOncePerLife
<1>5. CASE LoadSnapshot
  <2>1. /\ pc = "load" /\ pc' = "boot_discover"
        /\ UNCHANGED <<lives, history, task, work>>
    BY <1>5 DEF LoadSnapshot
  <2>2. \A l \in Logs, i \in Idx : Pending(l, i)
    BY <2>1 DEF HistoryInv, Pending, UpTo
  <2>3. \A l \in Logs : task'[l] # "persisting"
    BY <2>1 DEF HistoryInv
  <2> QED BY <2>1, <2>2, <2>3, NothingStored
<1>6. CASE Stop
  <2>1. /\ pc \notin {"down", "load"} /\ pc' = "final"
        /\ UNCHANGED <<rows, cursor, lives, history>>
    BY <1>6 DEF Stop
  <2>2. CASE pc = "gather"
    <3>1. \A l \in Logs : task'[l] = "none"
      BY <1>6, <2>2 DEF Stop
    <3>2. \A l \in Logs : UpTo(l, cursor[l])' = UpTo(l, cursor[l])
      BY <2>1 DEF UpTo
    <3>3. \A l \in Logs, i \in Idx : Pending(l, i)' => Pending(l, i)
      BY <3>1, <3>2 DEF Pending
    <3> QED BY <2>1, <3>1, <3>3, NothingStored
  <2>3. CASE pc # "gather"
    BY <1>6, <2>1, <2>3, HistoryStutters DEF Stop
  <2> QED BY <2>2, <2>3
<1>7. ASSUME NEW l \in Logs,
             /\ task' = [task EXCEPT ![l] = task'[l]] /\ task'[l] # "persisting"
             /\ \A m \in Logs \ {l} : work'[m] = work[m]
             /\ UNCHANGED <<rows, cursor, lives, history>>,
             pc # "down", pc' \notin {"down", "load"}
      PROVE  HistoryInv'
  <2>1. \A m \in Logs : UpTo(m, cursor[m])' = UpTo(m, cursor[m])
    BY <1>7 DEF UpTo
  <2>2. \A m \in Logs : task'[m] = "persisting" => task[m] = "persisting" /\ work'[m] = work[m]
    BY <1>1, <1>7
  <2>3. \A m \in Logs : task'[m] = "persisting" => work'[m] \subseteq UpTo(m, cursor[m])'
    BY <2>1, <2>2 DEF HistoryInv
  <2>4. \A m \in Logs, i \in Idx : Pending(m, i)' => Pending(m, i)
    BY <2>1, <2>2 DEF Pending
  <2> QED BY <1>7, <2>3, <2>4, NothingStored
<1>8. ASSUME NEW l \in Logs, task[l] # "none" PROVE pc \notin {"down", "load"}
  BY <1>8 DEF HistoryInv
<1>9. ASSUME NEW l \in Logs, NEW block \in SUBSET rows[l], FetchOk(l, block) PROVE HistoryInv'
  <2> DEFINE samples == DedupeBoundary(block, cursor[l], DirOf[l])
  <2>1. /\ UNCHANGED <<rows, pc, lives, history>>
        /\ task[l] = "fetching" /\ work'[l] = samples
        /\ \A m \in Logs \ {l} : cursor'[m] = cursor[m] /\ task'[m] = task[m] /\ work'[m] = work[m]
    BY <1>9 DEF FetchOk, TypeInv, ControlTypeOK
  <2>2. /\ UpTo(l, cursor[l]) \subseteq UpTo(l, cursor'[l])
        /\ UpTo(l, cursor'[l]) \ UpTo(l, cursor[l]) = samples
    BY <1>9, FetchedBatch
  <2> HIDE DEF samples
  <2>3. \A m \in Logs : UpTo(m, cursor[m])' = UpTo(m, cursor'[m])
    BY <2>1 DEF UpTo
  <2>4. \A m \in Logs : task'[m] = "persisting" => work'[m] \subseteq UpTo(m, cursor[m])'
    BY <2>1, <2>2, <2>3 DEF HistoryInv
  <2>5. \A m \in Logs, i \in Idx : Pending(m, i)' => Pending(m, i)
    BY <2>1, <2>2, <2>3 DEF Pending
  <2>6. pc \notin {"down", "load"}
    BY <1>8, <2>1
  <2> QED BY <2>1, <2>4, <2>5, <2>6, NothingStored
<1>10. ASSUME NEW l \in Logs, PersistOk(l) PROVE HistoryInv'
  <2>1. /\ task[l] = "persisting" /\ task'[l] = "none"
        /\ \A m \in Logs \ {l} : task'[m] = task[m] /\ work'[m] = work[m]
        /\ UNCHANGED <<rows, pc, lives, cursor>>
    BY <1>1, <1>10 DEF PersistOk, EndTask
  <2>2. /\ \A m \in Logs \ {l} : history'[m] = history[m]
        /\ \A i \in Idx : history'[l][i] = IF i \in work[l] THEN history[l][i] + 1 ELSE history[l][i]
    BY <1>1, <1>10 DEF PersistOk
  <2>3. pc \notin {"down", "load"}
    BY <1>8, <2>1
  <2>4. \A m \in Logs : UpTo(m, cursor[m])' = UpTo(m, cursor[m])
    BY <2>1 DEF UpTo
  <2>5. \A i \in work[l] : i \in UpTo(l, cursor[l]) /\ i \in Idx /\ history[l][i] < lives
    BY <1>1, <2>1, <2>3 DEF HistoryInv, Pending
  <2>6. \A i \in Idx : /\ history'[l][i] =< lives
                       /\ i \notin UpTo(l, cursor[l]) => history'[l][i] < lives
    BY <1>1, <2>2, <2>3, <2>5 DEF HistoryInv, HistoryOncePerLife, Pending
  <2>7. HistoryOncePerLife'
    BY <2>1, <2>2, <2>6 DEF HistoryInv, HistoryOncePerLife
  <2>8. \A m \in Logs, i \in Idx : Pending(m, i)' => history'[m][i] < lives'
    BY <2>1, <2>2, <2>3, <2>4, <2>6 DEF HistoryInv, Pending
  <2> QED BY <2>1, <2>3, <2>4, <2>7, <2>8 DEF HistoryInv
<1>11. CASE Environment
  BY <1>2, <1>11, HistoryStutters DEF Environment, SeedLog
<1>12. CASE Lifecycle
  <2>1. CASE LoadFails \/ BootDiscover \/ FinalSnapshot
    BY <2>1, HistoryStutters DEF LoadFails, BootDiscover, Discover, FinalSnapshot
  <2> QED BY <1>3, <1>4, <1>5, <1>6, <1>12, <2>1 DEF Lifecycle
<1>13. CASE Tick
  <2>1. ASSUME NEW l \in Logs, Spawn(l) PROVE HistoryInv'
    BY <1>1, <1>7, <2>1 DEF Spawn
  <2>2. CASE BeginTick \/ Rediscover \/ GatherDone \/ PeriodicSnapshot \/ SnapshotFails
    BY <2>2, HistoryStutters
    DEF BeginTick, PlanTick, Rediscover, Discover, GatherDone, PeriodicSnapshot, SnapshotFails
  <2> QED BY <1>13, <2>1, <2>2 DEF Tick
<1>14. CASE Ingest
  <2>1. PICK l \in Logs : \/ Acquire(l) \/ FetchFails(l) \/ PersistFails(l)
                          \/ PersistOk(l) \/ \E block \in SUBSET rows[l] : FetchOk(l, block)
    BY <1>14 DEF Ingest
  <2>2. CASE Acquire(l) \/ FetchFails(l) \/ PersistFails(l)
    <3>1. /\ task[l] # "none" /\ UNCHANGED <<rows, pc, cursor, lives, history>>
          /\ task' = [task EXCEPT ![l] = task'[l]] /\ task'[l] # "persisting"
          /\ \A m \in Logs \ {l} : work'[m] = work[m]
      BY <1>1, <2>2 DEF Acquire, FetchFails, PersistFails, EndTask
    <3> QED BY <1>7, <1>8, <3>1
  <2> QED BY <1>9, <1>10, <2>1, <2>2
<1>15. CASE UNCHANGED vars
  BY <1>15, HistoryStutters DEF vars
<1> QED BY <1>11, <1>12, <1>13, <1>14, <1>15 DEF Next

\* A process stores a row at most once, whatever is polled again, fails or is
\* cancelled: a row is stored again only by a process that was started later.
THEOREM StoredOncePerLife == Spec => []HistoryOncePerLife
<1> DEFINE Inv == TypeInv /\ CursorInv /\ HistoryInv
<1>1. Init => Inv
  BY InitTypes, InitCursors, InitHistory
<1>2. Inv /\ [Next]_vars => Inv'
  BY TypeInvInductive, CursorInvInductive, HistoryInvInductive
<1>3. Inv => HistoryOncePerLife
  BY DEF HistoryInv
<1> HIDE DEF Inv
<1> QED BY <1>1, <1>2, <1>3, PTL DEF Spec

-----------------------------------------------------------------------------
(* The ring buffers. *)

\* There are finitely many indices.
LEMMA IdxFinite == IsFiniteSet(Idx) /\ Idx \subseteq Int
<1>1. IsFiniteSet(Idx)
  BY IngestionConstants, FS_Interval DEF Idx
<1>2. Idx \subseteq Int
  BY DEF Idx
<1> QED BY <1>1, <1>2

\* A buffer with a batch at its end, before the deque drops the oldest samples.
Extended(buf, l, samples) ==
    buf \o [n \in 1..Len(Ascending(samples)) |-> [log |-> l, i |-> Ascending(samples)[n]]]

\* The batch comes after what the buffer has, in the order of the indices.
LEMMA ExtendedFacts ==
    ASSUME NEW buf \in Seq(Sample), NEW l \in Logs, NEW samples \in SUBSET Idx
    PROVE  LET new == Extended(buf, l, samples)
               c == Cardinality(samples)
           IN  /\ c \in Nat /\ new \in Seq(Sample) /\ Len(new) = Len(buf) + c
               /\ \A n \in 1..Len(buf) : new[n] = buf[n]
               /\ \A n \in 1..Len(new) : n > Len(buf) =>
                      /\ n - Len(buf) \in 1..c
                      /\ new[n] = [log |-> l, i |-> Ascending(samples)[n - Len(buf)]]
<1> DEFINE c == Cardinality(samples)
           asc == Ascending(samples)
           more == [n \in 1..Len(asc) |-> [log |-> l, i |-> asc[n]]]
           new == Extended(buf, l, samples)
<1>1. samples \in SUBSET Int /\ IsFiniteSet(samples)
  BY IdxFinite, FS_Subset
<1>2. c \in Nat /\ asc \in [1..c -> samples]
  BY <1>1, AscendingFacts
<1>3. new = buf \o more
  BY DEF Extended
<1> HIDE DEF c, asc
<1>4. asc \in Seq(samples) /\ Len(asc) = c
  BY <1>2
<1>5. \A n \in 1..c : [log |-> l, i |-> asc[n]] \in Sample
  BY <1>2 DEF Sample
<1>6. more \in [1..c -> Sample]
  BY <1>4, <1>5
<1>7. more \in Seq(Sample) /\ Len(more) = c /\ \A n \in 1..c : more[n] = [log |-> l, i |-> asc[n]]
  BY <1>2, <1>4, <1>6
<1> HIDE DEF new, more
<1>8. new \in Seq(Sample) /\ Len(new) = Len(buf) + c /\ Len(buf) \in Nat
  <2>1. more \in Seq(Sample) /\ Len(more) = c
    BY <1>7
  <2>2. buf \o more \in Seq(Sample) /\ Len(buf \o more) = Len(buf) + Len(more)
    BY <2>1
  <2>3. Len(buf) \in Nat
    OBVIOUS
  <2> QED BY <1>3, <2>1, <2>2, <2>3
<1>9. \A n \in 1..Len(buf) : new[n] = buf[n]
  BY <1>3, <1>7
<1>10. ASSUME NEW n \in 1..Len(new), n > Len(buf)
       PROVE  n - Len(buf) \in 1..c /\ new[n] = [log |-> l, i |-> asc[n - Len(buf)]]
  <2>1. n - Len(buf) \in 1..c
    BY <1>2, <1>8, <1>10
  <2>2. new[n] = more[n - Len(buf)]
    BY <1>3, <1>7, <1>8, <1>10
  <2> QED BY <1>7, <2>1, <2>2
<1> QED BY <1>2, <1>8, <1>9, <1>10 DEF c, asc, new

\* The deque drops samples from the front, and only when it is full.
LEMMA AppendedFacts ==
    ASSUME NEW buf \in Seq(Sample), NEW l \in Logs, NEW samples \in SUBSET Idx
    PROVE  LET new == Extended(buf, l, samples)
               out == Appended(buf, l, samples)
           IN  \E cut \in Nat :
                   /\ out \in Seq(Sample) /\ Len(out) = Len(new) - cut
                   /\ Len(out) =< Capacity /\ (cut > 0 => Len(out) = Capacity)
                   /\ \A n \in 1..Len(out) : cut + n \in 1..Len(new) /\ out[n] = new[cut + n]
<1> DEFINE new == Extended(buf, l, samples)
           out == Appended(buf, l, samples)
           cut == IF Len(new) > Capacity THEN Len(new) - Capacity ELSE 0
<1>1. new \in Seq(Sample) /\ Len(new) \in Nat
  BY ExtendedFacts
<1>2. out = SubSeq(new, cut + 1, Len(new))
  BY DEF Appended, Extended
<1>3. Capacity \in Nat
  BY IngestionConstants
<1> HIDE DEF new, out
<1>4. /\ cut \in Nat /\ cut =< Len(new) /\ Len(new) - cut =< Capacity
      /\ cut > 0 => Len(new) - cut = Capacity
  BY <1>1, <1>3
<1> HIDE DEF cut
<1>5. out \in Seq(Sample) /\ Len(out) = Len(new) - cut
  BY <1>1, <1>2, <1>4
<1>6. \A n \in 1..Len(out) : cut + n \in 1..Len(new) /\ out[n] = new[cut + n]
  BY <1>1, <1>2, <1>4, <1>5
<1> QED BY <1>4, <1>5, <1>6 DEF new, out

\* The buffer of a log's curve, which the log shares with the logs of its well
\* that have the same mnemonic.
KeyOf(l) == <<WellOf[l], Curve[l]>>

Keys == Wells \X Mnemonics

Holds(buf, l, i) == \E n \in DOMAIN buf : buf[n] = [log |-> l, i |-> i]

\* A cursor is not behind the one its process resumed from; a process that has
\* not loaded its cursors has nothing in memory; a buffer holds rows its process
\* has read of its own logs, each once; and a row that was read and is not held
\* has been pushed out of a full buffer.
ResumedInv ==
    \A l \in Logs : base[l] # None =>
        cursor[l] # None /\ ~IsBeyond(base[l], cursor[l], DirOf[l])

HeldOnce(buf) == \A a, b \in DOMAIN buf : buf[a] = buf[b] => a = b

RingInv ==
    /\ ring \in [Keys -> Seq(Sample)]
    /\ pc \in {"down", "load"} => \A k \in Keys : ring[k] = <<>>
    /\ \A k \in Keys :
           /\ Len(ring[k]) =< Capacity
           /\ HeldOnce(ring[k])
           /\ \A l \in Logs, i \in Idx : Holds(ring[k], l, i) => KeyOf(l) = k /\ i \in Ingested(l)
    /\ \A l \in Logs : \A i \in Ingested(l) :
           Holds(Buffer(l), l, i) \/ Len(Buffer(l)) = Capacity

\* What the steps of the engine do to the buffers and to the rows read.
LEMMA RingSteps ==
    ASSUME [Next]_vars
    PROVE  \/ /\ UNCHANGED <<rows, cursor, base, ring>>
              /\ pc' \in {"down", "load"} => pc \in {"down", "load"}
           \/ Fresh /\ UNCHANGED rows
           \/ LoadSnapshot
           \/ \E l \in Logs, i \in Idx : GrowLog(l, i)
           \/ \E l \in Logs : \E block \in SUBSET rows[l] : FetchOk(l, block)
<1> USE DEF server, sched, store, db
<1> DEFINE Quiet == /\ UNCHANGED <<rows, cursor, base, ring>>
                    /\ pc' \in {"down", "load"} => pc \in {"down", "load"}
<1>1. ASSUME NEW l \in Logs, SeedLog(l) PROVE Quiet
  BY <1>1 DEF SeedLog
<1>2. CASE Boot \/ Exit \/ Crash
  BY <1>2 DEF Boot, Exit, Crash
<1>3. CASE LoadFails \/ BootDiscover \/ Stop \/ FinalSnapshot
  <2>1. Quiet
    BY <1>3 DEF LoadFails, BootDiscover, Discover, Stop, FinalSnapshot
  <2> QED BY <2>1
<1>4. CASE Tick
  <2>1. Quiet
    BY <1>4 DEF Tick, BeginTick, PlanTick, Rediscover, Discover, Spawn, GatherDone,
                PeriodicSnapshot, SnapshotFails
  <2> QED BY <2>1
<1>5. ASSUME NEW l \in Logs, Acquire(l) \/ FetchFails(l) \/ PersistOk(l) \/ PersistFails(l)
      PROVE  Quiet
  BY <1>5 DEF Acquire, FetchFails, PersistOk, PersistFails, EndTask
<1>6. CASE UNCHANGED vars
  BY <1>6 DEF vars
<1> HIDE DEF Quiet
<1>7. CASE Environment
  BY <1>1, <1>7 DEF Environment, Quiet
<1>8. CASE Lifecycle
  BY <1>2, <1>3, <1>8 DEF Lifecycle
<1>9. CASE Ingest
  BY <1>5, <1>9 DEF Ingest, Quiet
<1> QED BY <1>4, <1>6, <1>7, <1>8, <1>9 DEF Next

\* The rows read depend on the rows, the cursors and where they began.
LEMMA SameIngested ==
    ASSUME TypeInv, CursorInv, UNCHANGED <<cursor, base>>,
           \/ UNCHANGED rows
           \/ \E g \in Logs, r \in Idx : GrowLog(g, r)
    PROVE  \A l \in Logs : Ingested(l)' = Ingested(l)
<1>1. \A l \in Logs : UpTo(l, cursor[l])' = UpTo(l, cursor[l])
  <2>1. CASE UNCHANGED rows
    BY <2>1 DEF UpTo
  <2>2. CASE \E g \in Logs, r \in Idx : GrowLog(g, r)
    BY <2>2, GrowKeepsUpTo
  <2> QED BY <2>1, <2>2
<1> QED BY <1>1 DEF Ingested

\* A fetch adds just its batch to the rows read, and the batch is of rows that
\* are beyond all that was read before.
LEMMA FetchIngests ==
    ASSUME TypeInv, CursorInv, ResumedInv,
           NEW l \in Logs, NEW block \in SUBSET rows[l], FetchOk(l, block)
    PROVE  LET samples == DedupeBoundary(block, cursor[l], DirOf[l])
           IN  /\ samples \in SUBSET Idx
               /\ Ingested(l)' = Ingested(l) \cup samples
               /\ \A i \in samples, j \in Ingested(l) : IsBeyond(i, j, DirOf[l])
               /\ \A m \in Logs \ {l} : Ingested(m)' = Ingested(m)
               /\ ring' = [ring EXCEPT ![KeyOf(l)] = Appended(ring[KeyOf(l)], l, samples)]
               /\ ResumedInv'
<1> DEFINE dir == DirOf[l]
           samples == DedupeBoundary(block, cursor[l], dir)
<1>1. /\ UNCHANGED <<rows, base>>
      /\ \A m \in Logs \ {l} : cursor'[m] = cursor[m]
      /\ rows[l] \in SUBSET Idx /\ Idx \subseteq Int
  BY DEF FetchOk, TypeInv, ControlTypeOK, server, Idx
<1>2. /\ UpTo(l, cursor[l]) \subseteq UpTo(l, cursor'[l])
      /\ UpTo(l, cursor'[l]) \ UpTo(l, cursor[l]) = samples
  BY FetchedBatch
<1>3. samples \subseteq block /\ samples \in SUBSET Idx
  BY <1>1 DEF DedupeBoundary
<1>4. ring' = [ring EXCEPT ![KeyOf(l)] = Appended(ring[KeyOf(l)], l, samples)]
  BY DEF FetchOk, KeyOf
<1>5. /\ cursor[l] # None => cursor[l] \in Idx
      /\ base[l] # None => base[l] \in Idx
      /\ cursor'[l] # None => cursor'[l] \in Int
      /\ cursor[l] # None => cursor'[l] # None /\ ~IsBeyond(cursor[l], cursor'[l], dir)
  <2>1. /\ cursor[l] # None => cursor[l] \in Idx /\ cursor[l] \in rows[l]
        /\ base[l] # None => base[l] \in Idx
    BY DEF TypeInv, ControlTypeOK, CursorInv
  <2>2. cursor'[l] = cursor[l] \/ cursor'[l] \in block
    BY FetchedCursor
  <2>3. block \subseteq Int /\ None \notin Int
    BY <1>1, IngestionConstants
  <2>4. cursor[l] # None => cursor'[l] # None
    BY <2>2, <2>3
  <2>5. cursor[l] # None => cursor[l] \in UpTo(l, cursor[l])
    BY <1>1, <2>1, BeyondOrder DEF UpTo
  <2>6. cursor[l] # None => ~IsBeyond(cursor[l], cursor'[l], dir)
    BY <1>2, <2>4, <2>5 DEF UpTo
  <2> QED BY <1>1, <2>1, <2>2, <2>3, <2>4, <2>6
<1>6. \A i \in samples : cursor[l] # None => IsBeyond(i, cursor[l], dir)
  BY DEF DedupeBoundary
<1>7. \A m \in Logs : Ingested(m)' =
          {i \in UpTo(m, cursor'[m]) : base[m] = None \/ IsBeyond(i, base[m], DirOf[m])}
  BY <1>1 DEF Ingested, UpTo
<1> HIDE DEF samples
<1>8. base[l] # None => cursor[l] # None /\ ~IsBeyond(base[l], cursor[l], dir)
  BY DEF ResumedInv
<1>9. \A i \in samples : base[l] = None \/ IsBeyond(i, base[l], dir)
  <2> SUFFICES ASSUME NEW i \in samples, base[l] # None PROVE IsBeyond(i, base[l], dir)
    OBVIOUS
  <2>1. i \in Int /\ base[l] \in Int /\ cursor[l] \in Int
    BY <1>1, <1>3, <1>5, <1>8
  <2>2. IsBeyond(i, cursor[l], dir) /\ ~IsBeyond(base[l], cursor[l], dir)
    BY <1>6, <1>8
  <2> QED BY <2>1, <2>2 DEF IsBeyond
<1>10. UpTo(l, cursor'[l]) = UpTo(l, cursor[l]) \cup samples
  BY <1>2
<1>11. Ingested(l)' = Ingested(l) \cup samples
  BY <1>7, <1>9, <1>10 DEF Ingested
<1>12. \A m \in Logs \ {l} : Ingested(m)' = Ingested(m)
  BY <1>1, <1>7 DEF Ingested
<1>13. ASSUME NEW i \in samples, NEW j \in Ingested(l) PROVE IsBeyond(i, j, dir)
  <2>1. cursor[l] # None /\ j \in rows[l] /\ ~IsBeyond(j, cursor[l], dir)
    BY <1>13 DEF Ingested, UpTo
  <2>2. IsBeyond(i, cursor[l], dir) /\ i \in Int /\ j \in Int /\ cursor[l] \in Int
    BY <1>1, <1>3, <1>5, <1>6, <1>13, <2>1
  <2> QED BY <2>1, <2>2 DEF IsBeyond
<1>14. ResumedInv'
  <2> SUFFICES ASSUME NEW m \in Logs, base[m] # None
               PROVE  cursor'[m] # None /\ ~IsBeyond(base[m], cursor'[m], DirOf[m])
    BY <1>1 DEF ResumedInv
  <2>1. CASE m # l
    BY <1>1, <2>1 DEF ResumedInv
  <2>2. CASE m = l
    <3>1. base[l] \in Int /\ cursor[l] \in Int /\ cursor'[l] \in Int
      BY <1>1, <1>5, <1>8, <2>2
    <3> QED BY <1>5, <1>8, <2>2, <3>1, BeyondOrder
  <2> QED BY <2>1, <2>2
<1> QED BY <1>3, <1>4, <1>11, <1>12, <1>13, <1>14 DEF samples

\* What a fetch leaves in the buffer of its curve.
LEMMA FetchFillsRing ==
    ASSUME TypeInv, CursorInv, HistoryInv, ResumedInv, RingInv,
           NEW l \in Logs, NEW block \in SUBSET rows[l], FetchOk(l, block)
    PROVE  RingInv'
<1> DEFINE samples == DedupeBoundary(block, cursor[l], DirOf[l])
           key == KeyOf(l)
           buf == ring[key]
           new == Extended(buf, l, samples)
           out == Appended(buf, l, samples)
           c == Cardinality(samples)
           asc == Ascending(samples)
<1>1. /\ samples \in SUBSET Idx
      /\ Ingested(l)' = Ingested(l) \cup samples
      /\ \A i \in samples, j \in Ingested(l) : IsBeyond(i, j, DirOf[l])
      /\ \A m \in Logs \ {l} : Ingested(m)' = Ingested(m)
      /\ ring' = [ring EXCEPT ![key] = out]
  BY FetchIngests
<1>2. \A m \in Logs : KeyOf(m) \in Keys /\ Buffer(m) = ring[KeyOf(m)] /\ Buffer(m)' = ring'[KeyOf(m)]
  BY IngestionConstants DEF KeyOf, Keys, Mnemonics, Buffer
<1>3. buf \in Seq(Sample) /\ Len(buf) =< Capacity /\ HeldOnce(buf)
  BY <1>2 DEF RingInv
<1>4. \A m \in Logs, i \in Idx : Holds(buf, m, i) => KeyOf(m) = key /\ i \in Ingested(m)
  BY <1>2 DEF RingInv
<1>5. /\ c \in Nat /\ asc \in [1..c -> samples]
      /\ \A a, b \in 1..c : a < b => asc[a] < asc[b]
      /\ \A i \in samples : \E n \in 1..c : asc[n] = i
  <2>1. IsFiniteSet(Idx) /\ Idx \subseteq Int
    BY IdxFinite
  <2>2. samples \in SUBSET Int /\ IsFiniteSet(samples)
    BY <1>1, <2>1, FS_Subset
  <2> QED BY <2>2, AscendingFacts
<1>6. /\ new \in Seq(Sample) /\ Len(new) = Len(buf) + c
      /\ \A n \in 1..Len(buf) : new[n] = buf[n]
      /\ \A n \in 1..Len(new) : n > Len(buf) =>
             n - Len(buf) \in 1..c /\ new[n] = [log |-> l, i |-> asc[n - Len(buf)]]
  BY <1>1, <1>3, ExtendedFacts
<1>7. PICK cut \in Nat :
          /\ out \in Seq(Sample) /\ Len(out) = Len(new) - cut
          /\ Len(out) =< Capacity /\ (cut > 0 => Len(out) = Capacity)
          /\ \A n \in 1..Len(out) : cut + n \in 1..Len(new) /\ out[n] = new[cut + n]
  BY <1>1, <1>3, AppendedFacts
<1> HIDE DEF samples, key, buf, new, out, c, asc
<1>8. ASSUME NEW m \in Logs, NEW i \in Idx, Holds(new, m, i)
      PROVE  KeyOf(m) = key /\ i \in Ingested(m)'
  <2>0. PICK n \in 1..Len(new) : new[n] = [log |-> m, i |-> i]
    BY <1>6, <1>8 DEF Holds
  <2>1. n \in Nat /\ Len(buf) \in Nat
    BY <1>3
  <2>2. CASE n =< Len(buf)
    <3>1. n \in 1..Len(buf) /\ n \in DOMAIN buf
      BY <1>3, <2>1, <2>2
    <3>2. Holds(buf, m, i)
      BY <1>6, <2>0, <3>1 DEF Holds
    <3>3. KeyOf(m) = key /\ i \in Ingested(m)
      BY <1>4, <3>2
    <3> QED BY <1>1, <3>3
  <2>3. CASE n > Len(buf)
    <3>1. n - Len(buf) \in 1..c /\ new[n] = [log |-> l, i |-> asc[n - Len(buf)]]
      BY <1>6, <2>3
    <3>2. m = l /\ i \in samples
      BY <1>5, <2>0, <3>1
    <3> QED BY <1>1, <3>2 DEF key
  <2> QED BY <2>1, <2>2, <2>3
<1>9. ASSUME NEW a \in 1..Len(new), NEW b \in 1..Len(new), a < b PROVE new[a] # new[b]
  <2>0. a \in Nat /\ b \in Nat /\ Len(buf) \in Nat
    BY <1>3, <1>9
  <2>1. CASE b =< Len(buf)
    <3>1. a \in 1..Len(buf) /\ b \in 1..Len(buf) /\ DOMAIN buf = 1..Len(buf)
      BY <1>3, <1>9, <2>0, <2>1
    <3>2. buf[a] # buf[b]
      BY <1>3, <1>9, <2>0, <3>1 DEF HeldOnce
    <3> QED BY <1>6, <3>1, <3>2
  <2>2. CASE a =< Len(buf) /\ b > Len(buf)
    <3>1. a \in 1..Len(buf) /\ new[a] = buf[a]
      BY <1>6, <1>9, <2>0, <2>2
    <3>2. b - Len(buf) \in 1..c /\ new[b] = [log |-> l, i |-> asc[b - Len(buf)]]
      BY <1>6, <1>9, <2>2
    <3> SUFFICES ASSUME new[a] = new[b] PROVE FALSE
      OBVIOUS
    <3> DEFINE i == asc[b - Len(buf)]
    <3>3. i \in samples
      BY <1>5, <3>2
    <3>4. i \in Idx /\ i \in samples /\ Idx \subseteq Int
      <4>1. samples \subseteq Idx
        BY <1>1
      <4>2. Idx \subseteq Int
        BY DEF Idx
      <4> HIDE DEF i
      <4> QED BY <3>3, <4>1, <4>2
    <3>5. Holds(buf, l, i)
      <4>1. buf[a] = [log |-> l, i |-> i]
        BY <3>1, <3>2
      <4>2. a \in DOMAIN buf
        BY <1>3, <3>1
      <4> QED BY <4>1, <4>2 DEF Holds
    <3>6. i \in Ingested(l)
      BY <1>4, <3>4, <3>5
    <3>7. IsBeyond(i, i, DirOf[l])
      BY <1>1, <3>4, <3>6
    <3> QED BY <3>4, <3>7, BeyondOrder
  <2>3. CASE a > Len(buf)
    <3>1. a - Len(buf) \in 1..c /\ new[a] = [log |-> l, i |-> asc[a - Len(buf)]]
      BY <1>6, <1>9, <2>3
    <3>2. b - Len(buf) \in 1..c /\ new[b] = [log |-> l, i |-> asc[b - Len(buf)]]
      BY <1>6, <1>9, <2>0, <2>3
    <3>3. a - Len(buf) < b - Len(buf)
      BY <1>9, <2>0
    <3>4. asc[a - Len(buf)] < asc[b - Len(buf)]
      BY <1>5, <3>1, <3>2, <3>3
    <3>5. asc[a - Len(buf)] \in samples /\ samples \subseteq Int
      BY <1>1, <1>5, <3>1 DEF Idx
    <3>6. asc[a - Len(buf)] # asc[b - Len(buf)]
      <4> DEFINE x == asc[a - Len(buf)]
                 y == asc[b - Len(buf)]
      <4>1. x \in Int /\ x < y
        BY <3>4, <3>5
      <4> HIDE DEF x, y
      <4>2. x # y
        BY <4>1
      <4> QED BY <4>2 DEF x, y
    <3>7. new[a].i # new[b].i
      BY <3>1, <3>2, <3>6
    <3> QED BY <3>7
  <2> QED BY <2>0, <2>1, <2>2, <2>3
<1>10. /\ Len(out) =< Capacity
       /\ HeldOnce(out)
       /\ \A m \in Logs, i \in Idx : Holds(out, m, i) => KeyOf(m) = key /\ i \in Ingested(m)'
  <2>1. DOMAIN out = 1..Len(out) /\ Len(out) \in Nat
    BY <1>7
  <2>2. ASSUME NEW a \in DOMAIN out, NEW b \in DOMAIN out, a < b PROVE out[a] # out[b]
    <3>1. /\ cut + a \in 1..Len(new) /\ out[a] = new[cut + a]
          /\ cut + b \in 1..Len(new) /\ out[b] = new[cut + b]
      BY <1>7, <2>1, <2>2
    <3>2. cut + a < cut + b
      BY <1>7, <2>1, <2>2
    <3> QED BY <1>9, <3>1, <3>2
  <2>3. HeldOnce(out)
    <3> SUFFICES ASSUME NEW a \in DOMAIN out, NEW b \in DOMAIN out, out[a] = out[b] PROVE a = b
      BY DEF HeldOnce
    <3>1. a \in Nat /\ b \in Nat
      BY <2>1
    <3>2. ~(a < b) /\ ~(b < a)
      BY <2>2
    <3> QED BY <3>1, <3>2
  <2>4. ASSUME NEW m, NEW i, Holds(out, m, i) PROVE Holds(new, m, i)
    <3>1. PICK n \in DOMAIN out : out[n] = [log |-> m, i |-> i]
      BY <2>4 DEF Holds
    <3>2. n \in 1..Len(out)
      BY <1>7, <3>1
    <3>3. cut + n \in 1..Len(new) /\ out[n] = new[cut + n]
      BY <1>7, <3>2
    <3>4. cut + n \in DOMAIN new /\ new[cut + n] = [log |-> m, i |-> i]
      BY <1>6, <3>1, <3>3
    <3> QED BY <3>4 DEF Holds
  <2> QED BY <1>7, <1>8, <2>3, <2>4
<1>11. ASSUME NEW m \in Logs, KeyOf(m) = key, NEW i \in Ingested(m)'
       PROVE  Holds(out, m, i) \/ Len(out) = Capacity
  <2> SUFFICES ASSUME Len(out) # Capacity PROVE Holds(out, m, i)
    OBVIOUS
  <2>1. cut = 0 /\ Len(out) = Len(new) /\ Len(new) \in Nat /\ Len(buf) \in Nat /\ Capacity \in Nat
    BY <1>3, <1>6, <1>7, IngestionConstants
  <2>2. DOMAIN out = 1..Len(new) /\ \A n \in 1..Len(new) : out[n] = new[n]
    BY <1>7, <2>1
  <2>3. Len(buf) # Capacity
    BY <1>5, <1>6, <1>7, <2>1
  <2>4. CASE i \in Ingested(m)
    <3>1. Holds(buf, m, i)
      BY <1>2, <1>11, <2>3, <2>4 DEF RingInv, buf
    <3>2. PICK n \in 1..Len(buf) : buf[n] = [log |-> m, i |-> i]
      BY <1>3, <3>1 DEF Holds
    <3>3. n \in 1..Len(new)
      BY <1>5, <1>6, <2>1
    <3> QED BY <1>6, <2>2, <3>2, <3>3 DEF Holds
  <2>5. CASE i \notin Ingested(m)
    <3>1. m = l /\ i \in samples
      BY <1>1, <1>11, <2>5
    <3>2. PICK n \in 1..c : asc[n] = i
      BY <1>5, <3>1
    <3>3. Len(buf) + n \in 1..Len(new) /\ Len(buf) + n > Len(buf) /\ (Len(buf) + n) - Len(buf) = n
      BY <1>5, <1>6, <2>1
    <3>4. new[Len(buf) + n] = [log |-> m, i |-> i]
      BY <1>6, <3>1, <3>2, <3>3
    <3> QED BY <2>2, <3>3, <3>4 DEF Holds
  <2> QED BY <2>4, <2>5
<1>12. ring' \in [Keys -> Seq(Sample)] /\ ring'[key] = out /\ \A k \in Keys \ {key} : ring'[k] = ring[k]
  BY <1>1, <1>2, <1>7 DEF RingInv, key
<1>13. pc' = pc /\ pc \notin {"down", "load"}
  BY DEF FetchOk, HistoryInv, sched
<1>14. ASSUME NEW k \in Keys
       PROVE  /\ Len(ring'[k]) =< Capacity /\ HeldOnce(ring'[k])
              /\ \A m \in Logs, i \in Idx :
                     Holds(ring'[k], m, i) => KeyOf(m) = k /\ i \in Ingested(m)'
  <2>1. CASE k = key
    <3>1. ring'[k] = out
      BY <1>12, <2>1
    <3> QED BY <1>10, <2>1, <3>1
  <2>2. CASE k # key
    <3>1. ring'[k] = ring[k]
      BY <1>12, <2>2
    <3>2. Len(ring[k]) =< Capacity /\ HeldOnce(ring[k])
      BY DEF RingInv
    <3>3. ASSUME NEW m \in Logs, NEW i \in Idx, Holds(ring[k], m, i)
          PROVE  KeyOf(m) = k /\ i \in Ingested(m)'
      <4>1. KeyOf(m) = k /\ i \in Ingested(m)
        BY <3>3 DEF RingInv
      <4>2. m # l
        BY <2>2, <4>1 DEF key
      <4> QED BY <1>1, <4>1, <4>2
    <3> QED BY <3>1, <3>2, <3>3
  <2> QED BY <2>1, <2>2
<1>15. ASSUME NEW m \in Logs, NEW i \in Ingested(m)'
       PROVE  Holds(Buffer(m)', m, i) \/ Len(Buffer(m)') = Capacity
  <2>1. CASE KeyOf(m) = key
    BY <1>2, <1>11, <1>12, <1>15, <2>1
  <2>2. CASE KeyOf(m) # key
    <3>1. m # l /\ Buffer(m)' = Buffer(m) /\ Ingested(m)' = Ingested(m)
      BY <1>1, <1>2, <1>12, <2>2 DEF key
    <3> QED BY <1>15, <3>1 DEF RingInv
  <2> QED BY <2>1, <2>2
<1> QED BY <1>12, <1>13, <1>14, <1>15 DEF RingInv, Holds, HeldOnce

\* A process that has just been started, or is down, has read nothing and holds
\* nothing.
LEMMA FreshRing ==
    ASSUME \A l \in Logs : Ingested(l)' = {}, \A k \in Keys : ring'[k] = <<>>,
           ring' \in [Keys -> Seq(Sample)]
    PROVE  RingInv'
<1>1. \A k \in Keys : Len(ring'[k]) =< Capacity /\ HeldOnce(ring'[k])
  BY IngestionConstants DEF HeldOnce
<1>2. \A k \in Keys, l \in Logs, i \in Idx : ~Holds(ring'[k], l, i)
  BY DEF Holds
<1> QED BY <1>1, <1>2 DEF RingInv, HeldOnce, Holds

\* ResumedInv and RingInv are inductive.
LEMMA RingInvInductive ==
    ASSUME TypeInv, CursorInv, HistoryInv, ResumedInv, RingInv, [Next]_vars
    PROVE  ResumedInv' /\ RingInv'
<1>1. CASE /\ UNCHANGED <<rows, cursor, base, ring>>
           /\ pc' \in {"down", "load"} => pc \in {"down", "load"}
  <2>1. \A l \in Logs : Ingested(l)' = Ingested(l) /\ Buffer(l)' = Buffer(l)
    BY <1>1, SameIngested DEF Buffer
  <2> QED BY <1>1, <2>1 DEF ResumedInv, RingInv, HeldOnce, Holds
<1>2. CASE Fresh /\ UNCHANGED rows
  <2>1. ring' = [k \in Wells \X Mnemonics |-> <<>>]
    BY <1>2, Zenon DEF Fresh
  <2>2. cursor' = [l \in Logs |-> None] /\ base' = [l \in Logs |-> None]
    BY <1>2, FreshStart
  <2>3. \A l \in Logs : Ingested(l)' = {}
    BY <2>2 DEF Ingested, UpTo
  <2>4. ring' \in [Keys -> Seq(Sample)] /\ \A k \in Keys : ring'[k] = <<>>
    BY <2>1 DEF Keys
  <2> QED BY <2>2, <2>3, <2>4, FreshRing DEF ResumedInv
<1>3. CASE LoadSnapshot
  <2>1. pc = "load" /\ cursor' = snap /\ base' = snap /\ UNCHANGED <<rows, ring>>
    BY <1>3 DEF LoadSnapshot, server
  <2>2. \A l \in Logs : snap[l] # None => snap[l] \in Int
    BY DEF TypeInv, ControlTypeOK, Idx
  <2>3. ResumedInv'
    BY <2>1, <2>2, BeyondOrder DEF ResumedInv
  <2>4. \A l \in Logs : Ingested(l)' = {}
    BY <2>1, <2>2 DEF Ingested, UpTo
  <2>5. ring' \in [Keys -> Seq(Sample)] /\ \A k \in Keys : ring'[k] = <<>>
    BY <2>1 DEF RingInv
  <2> QED BY <2>3, <2>4, <2>5, FreshRing
<1>4. ASSUME NEW g \in Logs, NEW r \in Idx, GrowLog(g, r) PROVE ResumedInv' /\ RingInv'
  <2>1. UNCHANGED <<pc, cursor, base, ring>>
    BY <1>4 DEF GrowLog, sched, store
  <2>2. \A l \in Logs : Ingested(l)' = Ingested(l) /\ Buffer(l)' = Buffer(l)
    BY <1>4, <2>1, SameIngested DEF Buffer
  <2> QED BY <2>1, <2>2 DEF ResumedInv, RingInv, HeldOnce, Holds
<1>5. ASSUME NEW l \in Logs, NEW block \in SUBSET rows[l], FetchOk(l, block)
      PROVE  ResumedInv' /\ RingInv'
  BY <1>5, FetchIngests, FetchFillsRing
<1> QED BY <1>1, <1>2, <1>3, <1>4, <1>5, RingSteps

\* All of the invariant holds always.
IngestInv == TypeInv /\ CursorInv /\ HistoryInv /\ ResumedInv /\ RingInv

LEMMA IngestInvariant == Spec => []IngestInv
<1>1. Init => IngestInv
  <2> SUFFICES ASSUME Init PROVE IngestInv
    OBVIOUS
  <2>1. /\ ring = [k \in Wells \X Mnemonics |-> <<>>] /\ cursor = [l \in Logs |-> None]
        /\ base = [l \in Logs |-> None]
    BY Zenon DEF Init
  <2>2. ring \in [Keys -> Seq(Sample)] /\ \A k \in Keys : ring[k] = <<>>
    BY <2>1 DEF Keys
  <2>3. \A l \in Logs : Ingested(l) = {}
    BY <2>1 DEF Ingested, UpTo
  <2>4. \A k \in Keys : Len(ring[k]) =< Capacity /\ HeldOnce(ring[k])
    BY <2>2, IngestionConstants DEF HeldOnce
  <2>5. \A k \in Keys, l \in Logs, i \in Idx : ~Holds(ring[k], l, i)
    BY <2>2 DEF Holds
  <2>6. RingInv
    BY <2>2, <2>3, <2>4, <2>5 DEF RingInv
  <2>7. ResumedInv
    BY <2>1 DEF ResumedInv
  <2> QED BY <2>6, <2>7, InitTypes, InitCursors, InitHistory DEF IngestInv
<1>2. IngestInv /\ [Next]_vars => IngestInv'
  BY TypeInvInductive, CursorInvInductive, HistoryInvInductive, RingInvInductive DEF IngestInv
<1> QED BY <1>1, <1>2, PTL DEF Spec

\* The scheduler, the store with its ring buffers and the database always hold
\* what the code can put in them.
THEOREM EngineTypeCorrect == Spec => []TypeOK
<1>1. IngestInv => TypeOK
  BY DEF IngestInv, TypeInv, RingInv, Keys, TypeOK
<1> QED BY <1>1, IngestInvariant, PTL

\* Each row a process has read, and no other, is in its ring buffer exactly once,
\* unless the buffer is full and has dropped it, whatever is polled again, fails or
\* is restarted, and also where logs of one well share a buffer.
THEOREM WarmHoldsEachRowOnce == Spec => []WarmExactlyOnce
<1>1. ASSUME IngestInv PROVE WarmExactlyOnce
  <2> SUFFICES ASSUME NEW l \in Logs, NEW i \in Idx
               PROVE  LET copies == Cardinality({n \in DOMAIN Buffer(l) :
                                                    Buffer(l)[n] = [log |-> l, i |-> i]})
                      IN  IF i \in Ingested(l)
                          THEN copies = 1 \/ (copies = 0 /\ Len(Buffer(l)) = Capacity)
                          ELSE copies = 0
    BY DEF WarmExactlyOnce
  <2> DEFINE at == {n \in DOMAIN Buffer(l) : Buffer(l)[n] = [log |-> l, i |-> i]}
  <2>1. KeyOf(l) \in Keys /\ Buffer(l) = ring[KeyOf(l)]
    BY IngestionConstants DEF KeyOf, Keys, Mnemonics, Buffer
  <2>2. HeldOnce(Buffer(l)) /\ (Holds(Buffer(l), l, i) => i \in Ingested(l))
    BY <1>1, <2>1 DEF IngestInv, RingInv
  <2>3. i \in Ingested(l) => Holds(Buffer(l), l, i) \/ Len(Buffer(l)) = Capacity
    BY <1>1 DEF IngestInv, RingInv
  <2>4. CASE Holds(Buffer(l), l, i)
    <3>1. PICK n \in DOMAIN Buffer(l) : Buffer(l)[n] = [log |-> l, i |-> i]
      BY <2>4 DEF Holds
    <3>2. at = {n}
      BY <2>2, <3>1 DEF HeldOnce
    <3>3. Cardinality(at) = 1
      BY <3>2, FS_Singleton
    <3> QED BY <2>2, <2>4, <3>3
  <2>5. CASE ~Holds(Buffer(l), l, i)
    <3>1. at = {}
      BY <2>5 DEF Holds
    <3>2. Cardinality(at) = 0
      BY <3>1, FS_EmptySet
    <3> QED BY <2>3, <2>5, <3>2
  <2> QED BY <2>4, <2>5
<1> QED BY <1>1, IngestInvariant, PTL

-----------------------------------------------------------------------------
(* What a full buffer keeps, of logs that increase and share no curve. *)

\* No two logs of a well have the same value curve.
OwnBuffers == \A l, m \in Logs : KeyOf(l) = KeyOf(m) => l = m

AllIncrease == \A l \in Logs : DirOf[l] = Increasing

\* A buffer rises, and what was pushed out of it is older than all it holds.
OrderInv ==
    \A l \in Logs :
        /\ \A a, b \in DOMAIN Buffer(l) : a < b => Buffer(l)[a].i < Buffer(l)[b].i
        /\ \A i \in Ingested(l) :
               Holds(Buffer(l), l, i) \/ \A n \in DOMAIN Buffer(l) : i < Buffer(l)[n].i

\* What a buffer that no log shares holds are indices its process has read.
LEMMA OwnSamples ==
    ASSUME OwnBuffers, IngestInv, NEW l \in Logs, NEW n \in DOMAIN Buffer(l)
    PROVE  /\ Buffer(l)[n] = [log |-> l, i |-> Buffer(l)[n].i]
           /\ Buffer(l)[n].i \in Ingested(l) /\ Buffer(l)[n].i \in Idx /\ Buffer(l)[n].i \in Int
<1>1. KeyOf(l) \in Keys /\ Buffer(l) = ring[KeyOf(l)]
  BY IngestionConstants DEF KeyOf, Keys, Mnemonics, Buffer
<1>2. Buffer(l) \in Seq(Sample)
  BY <1>1 DEF IngestInv, RingInv
<1>3. Buffer(l)[n] \in Sample
  BY <1>2
<1>4. PICK m \in Logs, i \in Idx : Buffer(l)[n] = [log |-> m, i |-> i]
  BY <1>3 DEF Sample
<1>5. Holds(Buffer(l), m, i)
  BY <1>4 DEF Holds
<1>6. KeyOf(m) = KeyOf(l) /\ i \in Ingested(m)
  BY <1>1, <1>5 DEF IngestInv, RingInv
<1>7. m = l /\ Buffer(l)[n].i = i
  BY <1>4, <1>6 DEF OwnBuffers
<1>8. i \in Int
  BY DEF Idx
<1> QED BY <1>4, <1>6, <1>7, <1>8

\* A batch that is appended to a rising buffer leaves a rising buffer, and what
\* the deque drops is older than what it keeps.
LEMMA FetchKeepsOrder ==
    ASSUME OwnBuffers, AllIncrease, IngestInv, OrderInv,
           NEW l \in Logs, NEW block \in SUBSET rows[l], FetchOk(l, block)
    PROVE  OrderInv'
<1> DEFINE samples == DedupeBoundary(block, cursor[l], DirOf[l])
           key == KeyOf(l)
           buf == Buffer(l)
           new == Extended(buf, l, samples)
           out == Appended(buf, l, samples)
           c == Cardinality(samples)
           asc == Ascending(samples)
<1>1. /\ samples \in SUBSET Idx
      /\ Ingested(l)' = Ingested(l) \cup samples
      /\ \A i \in samples, j \in Ingested(l) : IsBeyond(i, j, DirOf[l])
      /\ \A m \in Logs \ {l} : Ingested(m)' = Ingested(m)
      /\ ring' = [ring EXCEPT ![key] = Appended(ring[key], l, samples)]
  BY FetchIngests DEF IngestInv
<1>2. \A m \in Logs : KeyOf(m) \in Keys /\ Buffer(m) = ring[KeyOf(m)] /\ Buffer(m)' = ring'[KeyOf(m)]
  BY IngestionConstants DEF KeyOf, Keys, Mnemonics, Buffer
<1>3. buf \in Seq(Sample) /\ ring \in [Keys -> Seq(Sample)]
  BY <1>2 DEF IngestInv, RingInv
<1>4. Buffer(l)' = out /\ \A m \in Logs \ {l} : Buffer(m)' = Buffer(m)
  BY <1>1, <1>2, <1>3 DEF OwnBuffers
<1>5. /\ c \in Nat /\ asc \in [1..c -> samples]
      /\ \A a, b \in 1..c : a < b => asc[a] < asc[b]
      /\ \A i \in samples : \E n \in 1..c : asc[n] = i
  <2>1. IsFiniteSet(Idx) /\ Idx \subseteq Int
    BY IdxFinite
  <2>2. samples \in SUBSET Int /\ IsFiniteSet(samples)
    BY <1>1, <2>1, FS_Subset
  <2> QED BY <2>2, AscendingFacts
<1>6. /\ new \in Seq(Sample) /\ Len(new) = Len(buf) + c
      /\ \A n \in 1..Len(buf) : new[n] = buf[n]
      /\ \A n \in 1..Len(new) : n > Len(buf) =>
             n - Len(buf) \in 1..c /\ new[n] = [log |-> l, i |-> asc[n - Len(buf)]]
  BY <1>1, <1>3, ExtendedFacts
<1>7. PICK cut \in Nat :
          /\ out \in Seq(Sample) /\ Len(out) = Len(new) - cut
          /\ \A n \in 1..Len(out) : cut + n \in 1..Len(new) /\ out[n] = new[cut + n]
  BY <1>1, <1>3, AppendedFacts
<1>8. /\ \A a, b \in 1..Len(buf) : a < b => buf[a].i < buf[b].i
      /\ \A i \in Ingested(l) : Holds(buf, l, i) \/ \A n \in 1..Len(buf) : i < buf[n].i
  BY <1>3 DEF OrderInv
<1>9. \A n \in 1..Len(buf) : buf[n] = [log |-> l, i |-> buf[n].i] /\ buf[n].i \in Ingested(l)
  BY <1>3, OwnSamples
<1>10. /\ \A i \in samples, j \in Ingested(l) : j < i
       /\ samples \subseteq Int /\ Ingested(l) \subseteq Int
  <2>1. samples \subseteq Int
    BY <1>1 DEF Idx
  <2>2. Ingested(l) \subseteq rows[l] /\ rows[l] \subseteq Int
    BY DEF Ingested, UpTo, IngestInv, TypeInv, ControlTypeOK, Idx
  <2>3. \A i \in samples, j \in Ingested(l) : i > j
    BY <1>1 DEF AllIncrease, IsBeyond
  <2> QED BY <2>1, <2>2, <2>3
<1> HIDE DEF samples, key, buf, new, out, c, asc
<1>11. Len(buf) \in Nat /\ Len(new) \in Nat /\ Len(out) \in Nat
       /\ DOMAIN buf = 1..Len(buf) /\ DOMAIN new = 1..Len(new) /\ DOMAIN out = 1..Len(out)
  BY <1>3, <1>6, <1>7
<1>12. ASSUME NEW n \in 1..Len(new)
       PROVE  /\ new[n] = [log |-> l, i |-> new[n].i]
              /\ n =< Len(buf) => new[n].i \in Ingested(l) /\ new[n] = buf[n]
              /\ n > Len(buf) => /\ new[n].i \in samples /\ n - Len(buf) \in 1..c
                                 /\ new[n].i = asc[n - Len(buf)]
  <2>1. CASE n =< Len(buf)
    <3>1. n \in 1..Len(buf)
      BY <1>11, <2>1
    <3>2. new[n] = buf[n]
      BY <1>6, <3>1
    <3>3. ~(n > Len(buf))
      BY <1>11, <2>1
    <3> QED BY <1>9, <3>1, <3>2, <3>3
  <2>2. CASE n > Len(buf)
    <3>1. n - Len(buf) \in 1..c /\ new[n] = [log |-> l, i |-> asc[n - Len(buf)]]
      BY <1>6, <2>2
    <3>2. asc[n - Len(buf)] \in samples
      BY <1>5, <3>1
    <3>3. ~(n =< Len(buf))
      BY <1>11, <2>2
    <3> QED BY <3>1, <3>2, <3>3
  <2> QED BY <1>11, <2>1, <2>2
<1>13. ASSUME NEW a \in 1..Len(new), NEW b \in 1..Len(new), a < b
       PROVE  new[a].i < new[b].i
  <2>0. a \in Nat /\ b \in Nat
    BY <1>13
  <2>1. CASE b =< Len(buf)
    <3>1. a \in 1..Len(buf) /\ b \in 1..Len(buf)
      BY <1>11, <1>13, <2>0, <2>1
    <3>2. new[a] = buf[a] /\ new[b] = buf[b]
      BY <1>6, <3>1
    <3> QED BY <1>8, <1>13, <3>1, <3>2
  <2>2. CASE a =< Len(buf) /\ b > Len(buf)
    <3>1. new[a].i \in Ingested(l) /\ new[b].i \in samples
      BY <1>12, <2>2
    <3> QED BY <1>10, <3>1
  <2>3. CASE a > Len(buf)
    <3>1. b > Len(buf) /\ a - Len(buf) < b - Len(buf)
      BY <1>11, <1>13, <2>0, <2>3
    <3>2. /\ a - Len(buf) \in 1..c /\ new[a].i = asc[a - Len(buf)]
          /\ b - Len(buf) \in 1..c /\ new[b].i = asc[b - Len(buf)]
      BY <1>12, <2>3, <3>1
    <3> QED BY <1>5, <3>1, <3>2
  <2> QED BY <1>11, <2>0, <2>1, <2>2, <2>3
<1>14. \A a, b \in DOMAIN out : a < b => out[a].i < out[b].i
  <2> SUFFICES ASSUME NEW a \in 1..Len(out), NEW b \in 1..Len(out), a < b
               PROVE  out[a].i < out[b].i
    BY <1>11
  <2>1. /\ cut + a \in 1..Len(new) /\ out[a] = new[cut + a]
        /\ cut + b \in 1..Len(new) /\ out[b] = new[cut + b]
    BY <1>7
  <2>2. cut + a < cut + b
    OBVIOUS
  <2> QED BY <1>13, <2>1, <2>2
<1>15. ASSUME NEW p \in 1..Len(new)
       PROVE  \/ Holds(out, l, new[p].i)
              \/ \A n \in DOMAIN out : new[p].i < out[n].i
  <2>0. p \in Nat
    BY <1>15
  <2>1. CASE p > cut
    <3>1. p - cut \in 1..Len(out) /\ cut + (p - cut) = p
      BY <1>7, <1>11, <2>0, <2>1
    <3>2. out[p - cut] = new[p]
      BY <1>7, <3>1
    <3> QED BY <1>11, <1>12, <3>1, <3>2 DEF Holds
  <2>2. CASE p =< cut
    <3> SUFFICES ASSUME NEW n \in 1..Len(out) PROVE new[p].i < out[n].i
      BY <1>11
    <3>1. cut + n \in 1..Len(new) /\ out[n] = new[cut + n]
      BY <1>7
    <3>2. p < cut + n
      BY <2>0, <2>2
    <3> QED BY <1>13, <3>1, <3>2
  <2> QED BY <2>0, <2>1, <2>2
<1>16. ASSUME NEW i \in Ingested(l) \cup samples
       PROVE  Holds(out, l, i) \/ \A n \in DOMAIN out : i < out[n].i
  <2>1. CASE i \in samples
    <3>1. PICK q \in 1..c : asc[q] = i
      BY <1>5, <2>1
    <3>2. Len(buf) + q \in 1..Len(new) /\ Len(buf) + q > Len(buf) /\ (Len(buf) + q) - Len(buf) = q
      BY <1>5, <1>6, <1>11
    <3>3. new[Len(buf) + q].i = i
      BY <1>12, <3>1, <3>2
    <3> QED BY <1>15, <3>2, <3>3
  <2>2. CASE i \in Ingested(l) /\ Holds(buf, l, i)
    <3>1. PICK p \in 1..Len(buf) : buf[p] = [log |-> l, i |-> i]
      BY <1>11, <2>2 DEF Holds
    <3>2. p \in 1..Len(new)
      BY <1>5, <1>6, <1>11
    <3>3. new[p] = buf[p]
      BY <1>6
    <3>4. new[p].i = i
      BY <3>1, <3>3
    <3> QED BY <1>15, <3>2, <3>4
  <2>3. CASE i \in Ingested(l) /\ ~Holds(buf, l, i)
    <3>1. \A n \in 1..Len(buf) : i < buf[n].i
      BY <1>8, <2>3
    <3> SUFFICES ASSUME NEW n \in 1..Len(out) PROVE i < out[n].i
      BY <1>11
    <3>2. cut + n \in 1..Len(new) /\ out[n] = new[cut + n] /\ cut + n \in Nat
      BY <1>7
    <3>3. CASE cut + n =< Len(buf)
      <4>1. cut + n \in 1..Len(buf)
        BY <1>11, <3>2, <3>3
      <4> QED BY <1>6, <3>1, <3>2, <4>1
    <3>4. CASE cut + n > Len(buf)
      BY <1>10, <1>12, <2>3, <3>2, <3>4
    <3> QED BY <1>11, <3>2, <3>3, <3>4
  <2> QED BY <1>16, <2>1, <2>2, <2>3
<1>17. ASSUME NEW m \in Logs
       PROVE  /\ \A a, b \in DOMAIN Buffer(m)' : a < b => Buffer(m)'[a].i < Buffer(m)'[b].i
              /\ \A i \in Ingested(m)' :
                     Holds(Buffer(m)', m, i) \/ \A n \in DOMAIN Buffer(m)' : i < Buffer(m)'[n].i
  <2>1. CASE m = l
    <3>1. Buffer(m)' = out /\ Ingested(m)' = Ingested(l) \cup samples
      BY <1>1, <1>4, <2>1
    <3> QED BY <1>14, <1>16, <2>1, <3>1
  <2>2. CASE m # l
    <3>1. Buffer(m)' = Buffer(m) /\ Ingested(m)' = Ingested(m)
      BY <1>1, <1>4, <2>2
    <3> QED BY <3>1 DEF OrderInv
  <2> QED BY <2>1, <2>2
<1> QED BY <1>17 DEF OrderInv, Holds

\* OrderInv is inductive.
LEMMA OrderInvInductive ==
    ASSUME OwnBuffers, AllIncrease, IngestInv, OrderInv, [Next]_vars
    PROVE  OrderInv'
<1>0. TypeInv /\ CursorInv /\ RingInv
  BY DEF IngestInv
<1>1. ASSUME \A l \in Logs : Ingested(l)' = Ingested(l) /\ Buffer(l)' = Buffer(l)
      PROVE  OrderInv'
  BY <1>1 DEF OrderInv, Holds
<1>2. ASSUME \A l \in Logs : Ingested(l)' = {} /\ Buffer(l)' = <<>>
      PROVE  OrderInv'
  BY <1>2 DEF OrderInv
<1>3. CASE UNCHANGED <<rows, cursor, base, ring>>
  <2>1. \A l \in Logs : Ingested(l)' = Ingested(l) /\ Buffer(l)' = Buffer(l)
    BY <1>0, <1>3, SameIngested DEF Buffer
  <2> QED BY <1>1, <2>1
<1>4. \A l \in Logs : KeyOf(l) \in Keys /\ Buffer(l)' = ring'[KeyOf(l)]
  BY IngestionConstants DEF KeyOf, Keys, Mnemonics, Buffer
<1>5. CASE Fresh /\ UNCHANGED rows
  <2>1. ring' = [k \in Keys |-> <<>>]
    BY <1>5, Zenon DEF Fresh, Keys
  <2>2. cursor' = [l \in Logs |-> None]
    BY <1>5, FreshStart
  <2>3. \A l \in Logs : Ingested(l)' = {} /\ Buffer(l)' = <<>>
    BY <1>4, <2>1, <2>2 DEF Ingested, UpTo
  <2> QED BY <1>2, <2>3
<1>6. CASE LoadSnapshot
  <2>1. pc = "load" /\ cursor' = snap /\ base' = snap /\ UNCHANGED <<rows, ring>>
    BY <1>6 DEF LoadSnapshot, server
  <2>2. \A l \in Logs : Ingested(l)' = {}
    BY <2>1 DEF Ingested, UpTo
  <2>3. \A l \in Logs : Buffer(l)' = <<>>
    BY <1>0, <1>4, <2>1 DEF RingInv
  <2> QED BY <1>2, <2>2, <2>3
<1>7. ASSUME NEW g \in Logs, NEW r \in Idx, GrowLog(g, r) PROVE OrderInv'
  <2>1. UNCHANGED <<cursor, base, ring>>
    BY <1>7 DEF GrowLog, store
  <2>2. \A l \in Logs : Ingested(l)' = Ingested(l) /\ Buffer(l)' = Buffer(l)
    BY <1>0, <1>7, <2>1, SameIngested DEF Buffer
  <2> QED BY <1>1, <2>2
<1> QED BY <1>3, <1>5, <1>6, <1>7, FetchKeepsOrder, RingSteps

\* Buffers of increasing logs are always in order.
LEMMA OrderInvariant ==
    ASSUME OwnBuffers, AllIncrease
    PROVE  Spec => [](IngestInv /\ OrderInv)
<1>1. Init => OrderInv
  <2> SUFFICES ASSUME Init PROVE OrderInv
    OBVIOUS
  <2>1. ring = [k \in Keys |-> <<>>] /\ cursor = [l \in Logs |-> None]
    BY Zenon DEF Init, Keys
  <2>2. \A l \in Logs : KeyOf(l) \in Keys /\ Buffer(l) = ring[KeyOf(l)]
    BY IngestionConstants DEF KeyOf, Keys, Mnemonics, Buffer
  <2>3. \A l \in Logs : Ingested(l) = {} /\ Buffer(l) = <<>>
    BY <2>1, <2>2 DEF Ingested, UpTo
  <2> QED BY <2>3 DEF OrderInv
<1>2. IngestInv /\ OrderInv /\ [Next]_vars => OrderInv'
  BY OrderInvInductive
<1> QED BY <1>1, <1>2, IngestInvariant, PTL DEF Spec

\* The sample that GET /wells/{uid}/latest answers with is the newest row that was
\* read, for logs that increase and share no curve, whatever fails or restarts.
THEOREM LatestIsNewestRow ==
    ASSUME OwnBuffers, AllIncrease
    PROVE  Spec => []LatestIsNewest
<1>1. ASSUME IngestInv, OrderInv PROVE LatestIsNewest
  <2> SUFFICES ASSUME NEW l \in Logs, Buffer(l) # <<>> PROVE Last(Buffer(l)).i = cursor[l]
    BY DEF LatestIsNewest
  <2> DEFINE buf == Buffer(l)
             last == buf[Len(buf)].i
  <2>1. KeyOf(l) \in Keys /\ buf = ring[KeyOf(l)]
    BY IngestionConstants DEF KeyOf, Keys, Mnemonics, Buffer
  <2>2. buf \in Seq(Sample)
    BY <1>1, <2>1 DEF IngestInv, RingInv
  <2>3. DOMAIN buf = 1..Len(buf) /\ Len(buf) \in Nat /\ Len(buf) \in DOMAIN buf
    BY <2>2
  <2>4. \A n \in DOMAIN buf : buf[n].i \in Ingested(l) /\ buf[n].i \in Int
    BY <1>1, OwnSamples
  <2>5. last \in Ingested(l) /\ last \in Int
    BY <2>3, <2>4
  <2> HIDE DEF last
  <2>6. /\ cursor[l] # None /\ last \in rows[l] /\ ~IsBeyond(last, cursor[l], DirOf[l])
        /\ base[l] = None \/ IsBeyond(last, base[l], DirOf[l])
    BY <2>5 DEF Ingested, UpTo
  <2>7. cursor[l] \in rows[l] /\ cursor[l] \in Int /\ (base[l] # None => base[l] \in Int)
    BY <1>1, <2>6 DEF IngestInv, CursorInv, TypeInv, ControlTypeOK, Idx
  <2>8. last =< cursor[l]
    BY <2>5, <2>6, <2>7 DEF IsBeyond, AllIncrease
  <2>9. cursor[l] \in Ingested(l)
    <3>1. ~IsBeyond(cursor[l], cursor[l], DirOf[l])
      BY <2>7, BeyondOrder
    <3>2. base[l] # None => IsBeyond(cursor[l], base[l], DirOf[l])
      BY <2>5, <2>6, <2>7, <2>8 DEF IsBeyond, AllIncrease
    <3> QED BY <2>6, <2>7, <3>1, <3>2 DEF Ingested, UpTo
  <2>10. Holds(buf, l, cursor[l]) \/ \A n \in DOMAIN buf : cursor[l] < buf[n].i
    BY <1>1, <2>9 DEF OrderInv
  <2>11. Holds(buf, l, cursor[l])
    BY <2>3, <2>5, <2>7, <2>8, <2>10 DEF last
  <2>12. PICK n \in DOMAIN buf : buf[n] = [log |-> l, i |-> cursor[l]]
    BY <2>11 DEF Holds
  <2>13. n < Len(buf) => buf[n].i < last
    BY <1>1, <2>3 DEF OrderInv, last
  <2>14. n = Len(buf)
    BY <2>3, <2>5, <2>7, <2>8, <2>12, <2>13
  <2> QED BY <2>12, <2>14 DEF Last
<1>2. IngestInv /\ OrderInv => LatestIsNewest
  BY <1>1
<1> QED BY <1>2, OrderInvariant, PTL

\* A full buffer keeps the newest Capacity rows that were read, for logs that
\* increase and share no curve: the deque never drops a row newer than one it keeps.
THEOREM EvictionKeepsNewest ==
    ASSUME OwnBuffers, AllIncrease
    PROVE  Spec => []BufferKeepsNewest
<1>1. ASSUME IngestInv, OrderInv PROVE BufferKeepsNewest
  <2> SUFFICES ASSUME NEW l \in Logs
               PROVE  {Buffer(l)[n].i : n \in DOMAIN Buffer(l)}
                        = {i \in Ingested(l) :
                              Cardinality({j \in Ingested(l) : IsBeyond(j, i, DirOf[l])}) < Capacity}
    BY DEF BufferKeepsNewest
  <2> DEFINE buf == Buffer(l)
             Newer(i) == {j \in Ingested(l) : IsBeyond(j, i, DirOf[l])}
             held == [n \in DOMAIN buf |-> buf[n].i]
  <2>1. KeyOf(l) \in Keys /\ buf = ring[KeyOf(l)]
    BY IngestionConstants DEF KeyOf, Keys, Mnemonics, Buffer
  <2>2. buf \in Seq(Sample) /\ Len(buf) =< Capacity
    BY <1>1, <2>1 DEF IngestInv, RingInv
  <2>3. DOMAIN buf = 1..Len(buf) /\ Len(buf) \in Nat /\ Capacity \in Nat
    BY <2>2, IngestionConstants
  <2>4. \A n \in DOMAIN buf : buf[n].i \in Ingested(l) /\ buf[n].i \in Int
    BY <1>1, OwnSamples
  <2>5. /\ \A a, b \in DOMAIN buf : a < b => buf[a].i < buf[b].i
        /\ \A i \in Ingested(l) : Holds(buf, l, i) \/ \A n \in DOMAIN buf : i < buf[n].i
    BY <1>1 DEF OrderInv
  <2>6. \A i \in Ingested(l) : Holds(buf, l, i) \/ Len(buf) = Capacity
    BY <1>1 DEF IngestInv, RingInv
  <2>7. Ingested(l) \subseteq Idx /\ Idx \subseteq Int /\ IsFiniteSet(Idx)
    <3>1. Ingested(l) \subseteq rows[l] /\ rows[l] \subseteq Idx
      BY <1>1 DEF Ingested, UpTo, IngestInv, TypeInv, ControlTypeOK
    <3>2. Idx \subseteq Int /\ IsFiniteSet(Idx)
      BY IdxFinite
    <3> QED BY <3>1, <3>2
  <2>8. \A i, j \in Ingested(l) : IsBeyond(j, i, DirOf[l]) <=> i < j
    BY <2>7 DEF IsBeyond, AllIncrease
  <2>9. \A i : Newer(i) \in SUBSET Ingested(l) /\ IsFiniteSet(Newer(i)) /\ Cardinality(Newer(i)) \in Nat
    <3> TAKE i
    <3>1. Newer(i) \in SUBSET Ingested(l) /\ Newer(i) \in SUBSET Idx
      BY <2>7
    <3>2. IsFiniteSet(Newer(i))
      BY <2>7, <3>1, FS_Subset
    <3> QED BY <3>1, <3>2, FS_CardinalityType
  <2> HIDE DEF buf
  \* What is held has fewer newer rows than the buffer has places.
  <2>10. ASSUME NEW n \in DOMAIN buf PROVE Cardinality(Newer(buf[n].i)) < Capacity
    <3> DEFINE later == (n + 1)..Len(buf)
               at == [j \in Newer(buf[n].i) |-> CHOOSE k \in later : buf[k].i = j]
    <3>1. n \in Nat /\ n >= 1 /\ n =< Len(buf)
      BY <2>3, <2>10
    <3>2. ASSUME NEW j \in Newer(buf[n].i) PROVE \E k \in later : buf[k].i = j
      <4>1. j \in Ingested(l) /\ buf[n].i < j /\ j \in Int /\ buf[n].i \in Int
        BY <2>4, <2>7, <2>8, <2>10, <3>2
      <4>2. Holds(buf, l, j)
        BY <2>5, <2>10, <4>1
      <4>3. PICK k \in DOMAIN buf : buf[k] = [log |-> l, i |-> j]
        BY <4>2 DEF Holds
      <4>4. k \in Nat /\ buf[k].i = j /\ k =< Len(buf)
        BY <2>3, <4>3
      <4>5. k # n /\ ~(k < n)
        BY <2>5, <2>10, <4>1, <4>3, <4>4
      <4>6. k \in later
        BY <2>3, <3>1, <4>4, <4>5
      <4> QED BY <4>4, <4>6
    <3> HIDE DEF later
    <3>3. \A j \in Newer(buf[n].i) : at[j] \in later /\ buf[at[j]].i = j
      BY <3>2
    <3>4. at \in Injection(Newer(buf[n].i), later)
      BY <3>3 DEF Injection, IsInjective
    <3>5. IsFiniteSet(later) /\ Cardinality(later) = IF n + 1 > Len(buf) THEN 0 ELSE Len(buf) - (n + 1) + 1
      <4>1. n + 1 \in Int /\ Len(buf) \in Int
        BY <2>3, <3>1
      <4>2. \A a, b \in Int : /\ IsFiniteSet(a..b)
                              /\ Cardinality(a..b) = IF a > b THEN 0 ELSE b - a + 1
        BY FS_Interval
      <4> QED BY <4>1, <4>2 DEF later
    <3>6. Cardinality(Newer(buf[n].i)) =< Cardinality(later)
      BY <3>4, <3>5, FS_Injection
    <3>7. Cardinality(later) \in Nat /\ Cardinality(later) < Capacity
      BY <2>2, <2>3, <3>1, <3>5
    <3> DEFINE x == Cardinality(Newer(buf[n].i))
    <3>8. x \in Nat /\ x =< Cardinality(later)
      BY <2>9, <3>6
    <3> HIDE DEF x
    <3>9. x < Capacity
      BY <2>3, <3>7, <3>8
    <3> QED BY <3>9 DEF x
  \* What was pushed out has all that is held, a full buffer, after it.
  <2>11. ASSUME NEW i \in Ingested(l), ~Holds(buf, l, i) PROVE ~(Cardinality(Newer(i)) < Capacity)
    <3>1. Len(buf) = Capacity /\ \A n \in DOMAIN buf : i < buf[n].i
      BY <2>5, <2>6, <2>11
    <3>2. \A n \in DOMAIN buf : held[n] = buf[n].i /\ held[n] \in Newer(i)
      BY <2>4, <2>8, <2>11, <3>1
    <3> HIDE DEF held
    <3>3. \A a, b \in DOMAIN buf : held[a] = held[b] => a = b
      <4> SUFFICES ASSUME NEW a \in DOMAIN buf, NEW b \in DOMAIN buf, held[a] = held[b]
                   PROVE  a = b
        OBVIOUS
      <4>1. a \in Nat /\ b \in Nat /\ buf[a].i = buf[b].i /\ buf[a].i \in Int
        BY <2>3, <2>4, <3>2
      <4>2. ~(a < b) /\ ~(b < a)
        BY <2>5, <4>1
      <4> QED BY <4>1, <4>2
    <3>4. held \in [DOMAIN buf -> Newer(i)]
      BY <3>2 DEF held
    <3>5. held \in Injection(DOMAIN buf, Newer(i))
      BY <3>3, <3>4 DEF Injection, IsInjective
    <3>6. Cardinality(DOMAIN buf) =< Cardinality(Newer(i))
      BY <2>9, <3>5, FS_Injection
    <3>7. Cardinality(DOMAIN buf) = Capacity
      <4>1. Cardinality(1..Capacity) = IF 1 > Capacity THEN 0 ELSE Capacity - 1 + 1
        BY <2>3, FS_Interval
      <4> QED BY <2>3, <3>1, <4>1
    <3> DEFINE x == Cardinality(Newer(i))
    <3>8. x \in Nat /\ Capacity =< x
      BY <2>9, <3>6, <3>7
    <3> HIDE DEF x
    <3>9. ~(x < Capacity)
      BY <2>3, <3>8
    <3> QED BY <3>9 DEF x
  <2>12. ASSUME NEW n \in DOMAIN buf
         PROVE  buf[n].i \in {i \in Ingested(l) : Cardinality(Newer(i)) < Capacity}
    BY <2>4, <2>10
  <2>13. ASSUME NEW i \in Ingested(l), Cardinality(Newer(i)) < Capacity
         PROVE  \E n \in DOMAIN buf : buf[n].i = i
    <3>1. Holds(buf, l, i)
      BY <2>11, <2>13
    <3> QED BY <3>1 DEF Holds
  <2>14. {buf[n].i : n \in DOMAIN buf} = {i \in Ingested(l) : Cardinality(Newer(i)) < Capacity}
    BY <2>12, <2>13
  <2> QED BY <2>14 DEF buf
<1>2. IngestInv /\ OrderInv => BufferKeepsNewest
  BY <1>1
<1> QED BY <1>2, OrderInvariant, PTL
=============================================================================
