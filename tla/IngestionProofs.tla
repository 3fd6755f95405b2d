--------------------------- MODULE IngestionProofs ---------------------------
(***************************************************************************)
(* Proofs about the ingestion engine, for any set of logs and wells, any   *)
(* number of rows and any number of restarts.                              *)
(***************************************************************************)
EXTENDS Ingestion, PollingProofs

-----------------------------------------------------------------------------
(* Types. *)

\* ControlTypeOK, with what keeps it inductive: nothing is discovered and no
\* task runs before the snapshot is loaded.
TypeInv ==
    /\ ControlTypeOK
    /\ pc = "load" => headers = {} /\ \A l \in Logs : task[l] = "none"

\* The mnemonic a restart takes for the index curve is a mnemonic.
LEMMA RestoredIsMnemonic ==
    ASSUME NEW l \in Logs
    PROVE  RestoredIndexCurve(l) \in Int
<1> DEFINE a == IndexCurve[l]
           b == Curve[l]
<1>1. a \in Int /\ b \in Int
  BY IngestionConstants
<1> HIDE DEF a, b
<1>2. \E x \in {a, b} : \A y \in {a, b} : x =< y
  BY <1>1, SMT
<1>3. Min({a, b}) \in {a, b}
  BY <1>2 DEF Min
<1> QED BY <1>1, <1>3 DEF RestoredIndexCurve, a, b

\* A fetch leaves the log's cursor on a row it returned, or where it was if it
\* returned none; no returned row is beyond it.
LEMMA FetchedCursor ==
    ASSUME TypeInv, NEW l \in Logs, NEW block \in SUBSET rows[l], FetchOk(l, block)
    PROVE  IF block = {} THEN cursor' = cursor
           ELSE /\ cursor' = [cursor EXCEPT ![l] = cursor'[l]]
                /\ cursor'[l] \in block
                /\ \A j \in block : ~IsBeyond(j, cursor'[l], DirOf[l])
<1> DEFINE c == ContinuationIndex(block, DirOf[l])
<1>1. block \in SUBSET (0..MaxIdx) /\ block \subseteq Int /\ None \notin Int
  BY IngestionConstants DEF TypeInv, ControlTypeOK, Idx
<1>2. IF block = {} THEN c = None
      ELSE c \in block /\ \A j \in block : ~IsBeyond(j, c, DirOf[l])
  BY <1>1, ContinuationOfBatch, IngestionConstants
<1>3. cursor' = [cursor EXCEPT ![l] = IF c = None THEN @ ELSE c]
      /\ cursor \in [Logs -> Idx \cup {None}]
  BY DEF FetchOk, TypeInv, ControlTypeOK
<1> HIDE DEF c
<1> QED BY <1>1, <1>2, <1>3

\* What a process starts with, but for its empty ring buffers.
LEMMA FreshStart ==
    ASSUME Fresh
    PROVE  /\ tick' = 0 /\ headers' = {} /\ discovered' = FALSE
           /\ first' = {} /\ rest' = {} /\ known' = {}
           /\ task' = [l \in Logs |-> "none"] /\ work' = [l \in Logs |-> {}]
           /\ cursor' = [l \in Logs |-> None] /\ indexOf' = [l \in Logs |-> None]
           /\ base' = [l \in Logs |-> None] /\ loaded' = FALSE
  BY Zenon DEF Fresh

\* The types of the variables are preserved by every step.
LEMMA TypeInvInductive == TypeInv /\ [Next]_vars => TypeInv'
<1> SUFFICES ASSUME TypeInv, [Next]_vars PROVE TypeInv'
  OBVIOUS
<1> USE DEF TypeInv, ControlTypeOK
<1> USE IngestionConstants DEF server, sched, store, db
<1>1. ASSUME NEW l \in Logs, SeedLog(l) PROVE TypeInv'
  BY <1>1 DEF SeedLog
<1>2. ASSUME NEW l \in Logs, NEW i \in Idx, GrowLog(l, i) PROVE TypeInv'
  BY <1>2 DEF GrowLog
<1>3. CASE Boot
  BY <1>3, FreshStart DEF Boot
<1>4. CASE LoadSnapshot
  BY <1>4, RestoredIsMnemonic DEF LoadSnapshot
<1>5. CASE LoadFails
  BY <1>5 DEF LoadFails
<1>6. CASE BootDiscover
  BY <1>6 DEF BootDiscover, Discover
<1>7. CASE Stop
  BY <1>7 DEF Stop
<1>8. CASE FinalSnapshot
  <2>1. snap' \in [Logs -> Idx \cup {None}]
    BY <1>8 DEF FinalSnapshot, SaveCursors
  <2>2. pc' = "exit" /\ UNCHANGED <<server, lives, tick, headers, discovered, first, rest,
                                   task, work, store, history>>
    BY <1>8 DEF FinalSnapshot
  <2> QED BY <2>1, <2>2
<1>9. CASE Exit
  BY <1>9, FreshStart DEF Exit
<1>10. CASE Crash
  BY <1>10, FreshStart DEF Crash
<1>11. CASE BeginTick
  BY <1>11 DEF BeginTick, PlanTick
<1>12. CASE Rediscover
  BY <1>12 DEF Rediscover, Discover, PlanTick
<1>13. ASSUME NEW l \in Logs, Spawn(l) PROVE TypeInv'
  BY <1>13 DEF Spawn
<1>14. CASE GatherDone
  BY <1>14 DEF GatherDone
<1>15. CASE PeriodicSnapshot
  BY <1>15 DEF PeriodicSnapshot, SaveCursors
<1>16. CASE SnapshotFails
  BY <1>16 DEF SnapshotFails
<1>17. ASSUME NEW l \in Logs, Acquire(l) PROVE TypeInv'
  BY <1>17 DEF Acquire
<1>18. ASSUME NEW l \in Logs, NEW block \in SUBSET rows[l], FetchOk(l, block)
       PROVE  TypeInv'
  <2>1. cursor' \in [Logs -> Idx \cup {None}]
    <3>1. cursor \in [Logs -> Idx \cup {None}] /\ block \subseteq Idx
      OBVIOUS
    <3>2. \/ cursor' = cursor
          \/ cursor' = [cursor EXCEPT ![l] = cursor'[l]] /\ cursor'[l] \in block
      BY <1>18, FetchedCursor, Zenon
    <3> QED BY ONLY <3>1, <3>2, SMT
  <2>2. DedupeBoundary(block, cursor[l], DirOf[l]) \subseteq Idx
    BY DEF DedupeBoundary
  <2>3. pc # "load"
    BY <1>18 DEF FetchOk
  <2> QED BY <1>18, <2>1, <2>2, <2>3 DEF FetchOk
<1>19. ASSUME NEW l \in Logs, FetchFails(l) PROVE TypeInv'
  BY <1>19 DEF FetchFails, EndTask
<1>20. ASSUME NEW l \in Logs, PersistOk(l) PROVE TypeInv'
  BY <1>20 DEF PersistOk, EndTask
<1>21. ASSUME NEW l \in Logs, PersistFails(l) PROVE TypeInv'
  BY <1>21 DEF PersistFails, EndTask
<1>22. CASE UNCHANGED vars
  BY <1>22 DEF vars
<1> QED
  BY <1>1, <1>2, <1>3, <1>4, <1>5, <1>6, <1>7, <1>8, <1>9, <1>10, <1>11, <1>12,
     <1>13, <1>14, <1>15, <1>16, <1>17, <1>18, <1>19, <1>20, <1>21, <1>22
  DEF Next, Environment, Lifecycle, Tick, Ingest

\* The initial state is well typed.
LEMMA InitTypes == Init => TypeInv
<1> SUFFICES ASSUME Init PROVE TypeInv
  OBVIOUS
<1>1. /\ exists = {} /\ rows = [l \in Logs |-> {}]
      /\ pc = "down" /\ lives = 0 /\ tick = 0
      /\ headers = {} /\ discovered = FALSE
      /\ first = {} /\ rest = {} /\ known = {}
      /\ task = [l \in Logs |-> "none"] /\ work = [l \in Logs |-> {}]
      /\ cursor = [l \in Logs |-> None] /\ indexOf = [l \in Logs |-> None]
      /\ base = [l \in Logs |-> None] /\ snap = [l \in Logs |-> None]
      /\ history = [l \in Logs |-> [i \in Idx |-> 0]] /\ loaded = FALSE
  BY Zenon DEF Init
<1>2. 0 \in 0..MaxLives /\ 0 \in 0..(SnapshotEvery - 1) /\ 0 \in Nat
  BY IngestionConstants
<1>3. history \in [Logs -> [Idx -> Nat]]
  BY <1>1
<1>4. /\ lives \in 0..MaxLives /\ tick \in 0..(SnapshotEvery - 1)
      /\ discovered \in BOOLEAN /\ loaded \in BOOLEAN
  BY <1>1, <1>2
<1>5. /\ rows \in [Logs -> SUBSET Idx] /\ work \in [Logs -> SUBSET Idx]
      /\ task \in [Logs -> {"none", "waiting", "fetching", "persisting"}]
      /\ cursor \in [Logs -> Idx \cup {None}] /\ snap \in [Logs -> Idx \cup {None}]
      /\ base \in [Logs -> Idx \cup {None}] /\ indexOf \in [Logs -> Int \cup {None}]
  BY <1>1
<1> QED BY <1>1, <1>3, <1>4, <1>5 DEF TypeInv, ControlTypeOK

\* The scheduler's, the store's and the database's variables keep their types
\* under every fault: crashes, cancelled shutdowns, failing queries and commits.
THEOREM IngestionTypeCorrect == Spec => []ControlTypeOK
<1>1. Init => TypeInv
  BY InitTypes
<1>2. TypeInv => ControlTypeOK
  BY DEF TypeInv
<1> QED BY <1>1, <1>2, TypeInvInductive, PTL DEF Spec

-----------------------------------------------------------------------------
(* Cursors. *)

\* Both cursors of a log are rows of it, the one in memory was a row when the
\* fetch under way began, and a process that has every saved cursor has one in
\* memory that is not behind it.
CursorInv ==
    \A l \in Logs :
        /\ cursor[l] # None => cursor[l] \in rows[l]
        /\ snap[l] # None => snap[l] \in rows[l]
        /\ task[l] = "fetching" => (cursor[l] # None => cursor[l] \in work[l])
        /\ loaded /\ snap[l] # None =>
               cursor[l] # None /\ ~IsBeyond(snap[l], cursor[l], DirOf[l])

\* No log has a cursor initially.
LEMMA InitCursors == Init => CursorInv
<1> SUFFICES ASSUME Init PROVE CursorInv
  OBVIOUS
<1>1. cursor = [l \in Logs |-> None] /\ snap = [l \in Logs |-> None]
  BY Zenon DEF Init
<1> QED BY <1>1 DEF CursorInv

\* "Beyond" is a strict order on indices, total by the definition of ">".
LEMMA BeyondOrder ==
    ASSUME NEW a \in Int, NEW b \in Int, NEW c \in Int, NEW dir
    PROVE  /\ ~IsBeyond(a, a, dir)
           /\ ~IsBeyond(a, b, dir) /\ ~IsBeyond(b, c, dir) => ~IsBeyond(a, c, dir)
  BY DEF IsBeyond

\* Saving the cursors in memory keeps the invariant.
LEMMA SaveKeepsCursorInv ==
    ASSUME TypeInv, CursorInv, SaveCursors,
           UNCHANGED <<rows, task, work, cursor, loaded>>
    PROVE  CursorInv'
<1> SUFFICES ASSUME NEW l \in Logs
             PROVE  /\ snap'[l] # None => snap'[l] \in rows[l]
                    /\ loaded /\ snap'[l] # None =>
                          cursor[l] # None /\ ~IsBeyond(snap'[l], cursor[l], DirOf[l])
  BY DEF CursorInv
<1>1. snap'[l] = IF cursor[l] = None THEN snap[l] ELSE cursor[l]
  BY DEF SaveCursors
<1>2. cursor[l] # None => cursor[l] \in Int
  BY DEF TypeInv, ControlTypeOK, Idx
<1>3. cursor[l] # None => ~IsBeyond(cursor[l], cursor[l], DirOf[l])
  BY <1>2, BeyondOrder
<1> QED BY <1>1, <1>3 DEF CursorInv

\* A fetch, cut off or not, never moves the cursor back.
LEMMA FetchedNotBehind ==
    ASSUME TypeInv, CursorInv,
           NEW l \in Logs, NEW block \in SUBSET rows[l], FetchOk(l, block), cursor[l] # None
    PROVE  cursor'[l] # None /\ ~IsBeyond(cursor[l], cursor'[l], DirOf[l])
<1>1. /\ task[l] = "fetching" /\ FetchAdvances(work[l], cursor[l], block, DirOf[l])
  BY DEF FetchOk
<1>2. cursor[l] \in Int /\ cursor[l] \in work[l] /\ None \notin Int
  BY <1>1, IngestionConstants DEF CursorInv, TypeInv, ControlTypeOK, Idx
<1>3. cursor[l] \in InRange(work[l], cursor[l], DirOf[l])
  BY <1>2, BeyondOrder DEF InRange
<1>4. cursor[l] \in block
  BY <1>1, <1>3 DEF FetchAdvances
<1>5. /\ cursor'[l] \in block
      /\ \A j \in block : ~IsBeyond(j, cursor'[l], DirOf[l])
  BY <1>4, FetchedCursor
<1>6. block \subseteq Int
  BY DEF TypeInv, ControlTypeOK, Idx
<1> QED BY <1>2, <1>4, <1>5, <1>6

\* A fetch leaves the cursor on a row of the log, not behind the saved one in a
\* process that has it.
LEMMA FetchKeepsCursorInv ==
    ASSUME TypeInv, CursorInv,
           NEW l \in Logs, NEW block \in SUBSET rows[l], FetchOk(l, block)
    PROVE  CursorInv'
<1>1. /\ task[l] = "fetching" /\ task'[l] # "fetching"
      /\ rows' = rows /\ snap' = snap /\ loaded' = loaded
      /\ \A m \in Logs \ {l} : task'[m] = task[m] /\ work'[m] = work[m]
  BY DEF FetchOk, TypeInv, ControlTypeOK, server, db
<1>2. CASE block = {}
  <2>1. cursor' = cursor
    BY <1>2, FetchedCursor
  <2> QED BY <1>1, <2>1 DEF CursorInv
<1>3. CASE block # {}
  <2>1. /\ cursor' = [cursor EXCEPT ![l] = cursor'[l]]
        /\ cursor'[l] \in block
        /\ \A j \in block : ~IsBeyond(j, cursor'[l], DirOf[l])
    BY <1>3, FetchedCursor
  <2>2. \A m \in Logs \ {l} : cursor'[m] = cursor[m]
    BY <2>1 DEF TypeInv, ControlTypeOK
  <2>3. loaded /\ snap[l] # None =>
            cursor'[l] # None /\ ~IsBeyond(snap[l], cursor'[l], DirOf[l])
    <3> SUFFICES ASSUME loaded, snap[l] # None
                 PROVE  cursor'[l] # None /\ ~IsBeyond(snap[l], cursor'[l], DirOf[l])
      OBVIOUS
    <3>1. cursor[l] # None /\ ~IsBeyond(snap[l], cursor[l], DirOf[l])
      BY DEF CursorInv
    <3>2. cursor'[l] # None /\ ~IsBeyond(cursor[l], cursor'[l], DirOf[l])
      BY <3>1, FetchedNotBehind
    <3>3. snap[l] \in Int /\ cursor[l] \in Int /\ cursor'[l] \in Int
      <4>1. block \subseteq Idx /\ Idx \subseteq Int /\ snap[l] \in Idx /\ cursor[l] \in Idx
        BY <3>1 DEF TypeInv, ControlTypeOK, Idx
      <4> QED BY <2>1, <4>1
    <3> QED BY <3>1, <3>2, <3>3, BeyondOrder
  <2> QED BY <1>1, <2>1, <2>2, <2>3 DEF CursorInv
<1> QED BY <1>2, <1>3

\* CursorInv is inductive.
LEMMA CursorInvInductive == TypeInv /\ CursorInv /\ [Next]_vars => CursorInv'
<1> SUFFICES ASSUME TypeInv, CursorInv, [Next]_vars PROVE CursorInv'
  OBVIOUS
<1>1. CASE UNCHANGED <<rows, task, work, cursor, snap, loaded>>
  BY <1>1 DEF CursorInv
<1>2. ASSUME Fresh, UNCHANGED <<server, db>> PROVE CursorInv'
  BY <1>2, FreshStart DEF CursorInv, server, db
<1>3. ASSUME NEW l \in Logs, NEW i \in Idx, GrowLog(l, i) PROVE CursorInv'
  BY <1>3 DEF GrowLog, store, db, CursorInv, TypeInv, ControlTypeOK
<1>4. CASE LoadSnapshot
  <2>1. /\ cursor' = snap /\ UNCHANGED <<rows, task, work, snap>>
        /\ \A l \in Logs : task[l] = "none"
    BY <1>4 DEF LoadSnapshot, server, db, TypeInv
  <2>2. \A l \in Logs : snap[l] # None => ~IsBeyond(snap[l], snap[l], DirOf[l])
    BY BeyondOrder DEF TypeInv, ControlTypeOK, Idx
  <2> QED BY <2>1, <2>2 DEF CursorInv
<1>17. CASE LoadFails
  <2>1. /\ loaded' = (\A l \in Logs : snap[l] = None)
        /\ UNCHANGED <<rows, task, work, cursor, snap>>
    BY <1>17 DEF LoadFails, server, db
  <2> QED BY <2>1 DEF CursorInv
<1>5. CASE Stop
  BY <1>5 DEF Stop, server, store, db, CursorInv, TypeInv, ControlTypeOK
<1>6. CASE FinalSnapshot
  BY <1>1, <1>6, SaveKeepsCursorInv DEF FinalSnapshot, server, store
<1>7. CASE PeriodicSnapshot
  BY <1>7, SaveKeepsCursorInv DEF PeriodicSnapshot, server, store
<1>8. ASSUME NEW l \in Logs, Spawn(l) PROVE CursorInv'
  BY <1>8 DEF Spawn, server, store, db, CursorInv, TypeInv, ControlTypeOK
<1>9. ASSUME NEW l \in Logs, Acquire(l) PROVE CursorInv'
  BY <1>9 DEF Acquire, server, store, db, CursorInv, TypeInv, ControlTypeOK
<1>10. ASSUME NEW l \in Logs, EndTask(l), UNCHANGED <<rows, cursor, snap, loaded>> PROVE CursorInv'
  BY <1>10 DEF EndTask, CursorInv, TypeInv, ControlTypeOK
<1>11. ASSUME NEW l \in Logs, NEW block \in SUBSET rows[l], FetchOk(l, block) PROVE CursorInv'
  BY <1>11, FetchKeepsCursorInv
<1>12. CASE Environment
  BY <1>1, <1>3, <1>12 DEF Environment, SeedLog, store, db
<1>13. CASE Lifecycle
  BY <1>1, <1>2, <1>4, <1>5, <1>6, <1>13, <1>17
  DEF Lifecycle, Boot, BootDiscover, Discover, Exit, Crash, server, store, db
<1>14. CASE Tick
  BY <1>1, <1>7, <1>8, <1>14
  DEF Tick, BeginTick, Rediscover, Discover, GatherDone, SnapshotFails, server, store, db
<1>15. CASE Ingest
  BY <1>9, <1>10, <1>11, <1>15
  DEF Ingest, FetchFails, PersistOk, PersistFails, server, store, db
<1>16. CASE UNCHANGED vars
  BY <1>1, <1>16 DEF vars, server, store, db
<1> QED BY <1>12, <1>13, <1>14, <1>15, <1>16 DEF Next

\* Whatever fails, however often the process is restarted and wherever a fetch is
\* cut off, no snapshot erases a saved cursor, and none of a process that started
\* with every saved cursor moves one back.
THEOREM SavedCursorNeverMovesBack == Spec => SavedCursorMonotone
<1> DEFINE A == \A l \in Logs : snap[l] # None =>
                   /\ snap'[l] # None
                   /\ loaded => ~IsBeyond(snap[l], snap'[l], DirOf[l])
<1>1. Init => TypeInv /\ CursorInv
  BY InitTypes, InitCursors
<1>2. TypeInv /\ CursorInv /\ [Next]_vars => A
  <2> SUFFICES ASSUME TypeInv, CursorInv, [Next]_vars PROVE A
    OBVIOUS
  <2>1. CASE snap' = snap
    BY <2>1, BeyondOrder DEF TypeInv, ControlTypeOK, Idx
  <2>2. CASE SaveCursors
    <3> SUFFICES ASSUME NEW l \in Logs, snap[l] # None
                 PROVE  /\ snap'[l] # None
                        /\ loaded => ~IsBeyond(snap[l], snap'[l], DirOf[l])
      OBVIOUS
    <3>1. snap'[l] = IF cursor[l] = None THEN snap[l] ELSE cursor[l]
      BY <2>2 DEF SaveCursors
    <3>2. ~IsBeyond(snap[l], snap[l], DirOf[l])
      BY BeyondOrder DEF TypeInv, ControlTypeOK, Idx
    <3> QED BY <3>1, <3>2 DEF CursorInv
  <2>3. snap' = snap \/ SaveCursors
    BY DEF Next, Environment, SeedLog, GrowLog, Lifecycle, Boot, LoadSnapshot, LoadFails,
           BootDiscover, Discover, Stop, FinalSnapshot, Exit, Crash, Tick, BeginTick,
           Rediscover, Spawn, GatherDone, PeriodicSnapshot, SnapshotFails, Ingest,
           Acquire, FetchOk, FetchFails, PersistOk, PersistFails, vars, db
  <2> QED BY <2>1, <2>2, <2>3
<1>3. TypeInv /\ CursorInv /\ [Next]_vars => [A]_vars
  BY <1>2
<1> HIDE DEF A
<1>4. Spec => [][A]_vars
  BY <1>1, <1>3, TypeInvInductive, CursorInvInductive, PTL DEF Spec
<1> QED BY <1>4 DEF SavedCursorMonotone, A

-----------------------------------------------------------------------------
(* The durable history, for a process that may crash but whose database    *)
(* calls succeed and which is not shut down through stop().                *)

\* Every row up to a log's cursor is stored or being stored; every row up to
\* its saved cursor is stored; tasks run only while a tick spawns or gathers
\* them, and one that is still to be spawned is not running.
DurableInv ==
    /\ \A l \in Logs, i \in Idx :
           i \in UpTo(l, cursor[l])
              => history[l][i] > 0 \/ (task[l] = "persisting" /\ i \in work[l])
    /\ ResumeLosesNothing
    /\ pc \notin {"final", "exit"}
    /\ pc \notin {"spawn", "gather"} => \A l \in Logs : task[l] = "none"
    /\ pc = "spawn" => \A l \in first \cup rest : task[l] = "none"

\* A new row of a growing log is beyond both cursors of the log.
LEMMA GrowKeepsUpTo ==
    ASSUME TypeInv, CursorInv, NEW g \in Logs, NEW r \in Idx, GrowLog(g, r)
    PROVE  \A l \in Logs : /\ UpTo(l, cursor[l])' = UpTo(l, cursor[l])
                           /\ UpTo(l, snap[l])' = UpTo(l, snap[l])
<1>1. /\ rows' = [rows EXCEPT ![g] = @ \cup {r}]
      /\ \A j \in rows[g] : IsBeyond(r, j, DirOf[g])
      /\ cursor' = cursor /\ snap' = snap /\ rows \in [Logs -> SUBSET Idx]
  BY DEF GrowLog, store, db, TypeInv, ControlTypeOK
<1>2. ASSUME NEW l \in Logs, NEW c, c # None => c \in rows[l]
      PROVE  c # None => {i \in rows'[l] : ~IsBeyond(i, c, DirOf[l])}
                            = {i \in rows[l] : ~IsBeyond(i, c, DirOf[l])}
  BY <1>1, <1>2
<1> SUFFICES ASSUME NEW l \in Logs
             PROVE  /\ UpTo(l, cursor[l])' = UpTo(l, cursor[l])
                    /\ UpTo(l, snap[l])' = UpTo(l, snap[l])
  OBVIOUS
<1>3. /\ cursor[l] # None => cursor[l] \in rows[l]
      /\ snap[l] # None => snap[l] \in rows[l]
  BY DEF CursorInv
<1>4. UpTo(l, cursor[l])' = UpTo(l, cursor[l])
  <2>1. CASE cursor[l] = None
    BY <1>1, <2>1 DEF UpTo
  <2>2. CASE cursor[l] # None
    BY <1>1, <1>2, <1>3, <2>2, Zenon DEF UpTo
  <2> QED BY <2>1, <2>2
<1>5. UpTo(l, snap[l])' = UpTo(l, snap[l])
  <2>1. CASE snap[l] = None
    BY <1>1, <2>1 DEF UpTo
  <2>2. CASE snap[l] # None
    BY <1>1, <1>2, <1>3, <2>2, Zenon DEF UpTo
  <2> QED BY <2>1, <2>2
<1> QED BY <1>4, <1>5

\* A fetch appends and hands to the database every row between its old and
\* its new cursor.
LEMMA FetchKeepsHistory ==
    ASSUME TypeInv, CursorInv, DurableInv,
           NEW l \in Logs, NEW block \in SUBSET rows[l], FetchOk(l, block),
           NEW i \in UpTo(l, cursor[l])'
    PROVE  history[l][i] > 0 \/ (task'[l] = "persisting" /\ i \in work'[l])
<1> DEFINE dir == DirOf[l]
           samples == DedupeBoundary(block, cursor[l], dir)
<1>1. /\ task[l] = "fetching"
      /\ FetchContract(rows[l], cursor[l], block, dir)
      /\ task'[l] = IF samples = {} THEN "none" ELSE "persisting"
      /\ work'[l] = samples
      /\ rows' = rows
  BY DEF FetchOk, TypeInv, ControlTypeOK, server
<1>2. i \in rows[l] /\ i \in Idx /\ cursor'[l] # None /\ ~IsBeyond(i, cursor'[l], dir)
  BY <1>1 DEF UpTo, TypeInv, ControlTypeOK
<1>3. CASE i \in UpTo(l, cursor[l])
  BY <1>1, <1>2, <1>3 DEF DurableInv
<1>4. CASE i \notin UpTo(l, cursor[l])
  <2>1. i \in DedupeBoundary(rows[l], cursor[l], dir)
    BY <1>2, <1>4 DEF UpTo, DedupeBoundary
  <2>2. block # {} /\ cursor'[l] \in block
    BY <1>2, <1>4, FetchedCursor DEF UpTo
  <2>3. i \in block
    BY <1>1, <1>2, <2>1, <2>2 DEF FetchContract
  <2>4. i \in samples
    BY <2>1, <2>3 DEF DedupeBoundary
  <2> QED BY <1>1, <2>4
<1> QED BY <1>3, <1>4

\* DurableInv is inductive, without stop() and without database failures.
LEMMA DurableInvInductive ==
    ASSUME ~AllowStop, ~AllowDbFail, TypeInv, CursorInv, DurableInv, [Next]_vars
    PROVE  DurableInv'
<1> DEFINE Control == /\ pc' \notin {"final", "exit"}
                      /\ pc' \notin {"spawn", "gather"} => \A l \in Logs : task'[l] = "none"
                      /\ pc' = "spawn" => \A l \in first' \cup rest' : task'[l] = "none"
<1>1. ASSUME UNCHANGED <<rows, cursor, history, snap, task, work>>, Control
      PROVE  DurableInv'
  BY <1>1 DEF DurableInv, ResumeLosesNothing, UpTo
<1>2. ASSUME Fresh, UNCHANGED <<server, db>>, pc' \in {"down", "load"} PROVE DurableInv'
  <2>1. \A l \in Logs : cursor'[l] = None /\ task'[l] = "none"
    BY <1>2, FreshStart
  <2> QED BY <1>2, <2>1 DEF DurableInv, ResumeLosesNothing, UpTo, server, db
<1>3. ASSUME NEW g \in Logs, NEW r \in Idx, GrowLog(g, r) PROVE DurableInv'
  <2>1. UNCHANGED <<pc, first, rest, task, work, history>>
    BY <1>3 DEF GrowLog, sched, store, db
  <2>2. \A l \in Logs : /\ UpTo(l, cursor[l])' = UpTo(l, cursor[l])
                        /\ UpTo(l, snap[l])' = UpTo(l, snap[l])
    BY <1>3, GrowKeepsUpTo
  <2> QED BY <2>1, <2>2 DEF DurableInv, ResumeLosesNothing
<1>4. CASE LoadSnapshot
  <2>1. /\ cursor' = snap /\ pc' = "boot_discover" /\ pc = "load"
        /\ UNCHANGED <<rows, task, work, history, snap>>
    BY <1>4 DEF LoadSnapshot, server, db
  <2> QED BY <2>1 DEF DurableInv, ResumeLosesNothing, UpTo
<1>5. CASE PeriodicSnapshot
  <2>1. /\ SaveCursors /\ pc = "snapshot" /\ pc' = "idle"
        /\ UNCHANGED <<rows, task, work, cursor, history>>
    BY <1>5 DEF PeriodicSnapshot, server, store
  <2>2. \A l \in Logs : \A i \in UpTo(l, cursor[l]) : history[l][i] > 0
    BY <2>1 DEF DurableInv, UpTo, TypeInv, ControlTypeOK
  <2>3. \A l \in Logs : \A i \in UpTo(l, snap'[l]) : history[l][i] > 0
    BY <2>1, <2>2 DEF SaveCursors, DurableInv, ResumeLosesNothing
  <2> QED BY <2>1, <2>3 DEF DurableInv, ResumeLosesNothing, UpTo
<1>6. ASSUME NEW l \in Logs, Spawn(l) PROVE DurableInv'
  <2>1. /\ pc = "spawn" /\ pc' \in {"spawn", "gather"} /\ l \in first \cup rest
        /\ first' = first \ {l} /\ rest' = rest \ {l}
        /\ task' = [task EXCEPT ![l] = "waiting"]
        /\ UNCHANGED <<rows, cursor, history, snap, work>>
    BY <1>6 DEF Spawn, server, store, db
  <2>2. task[l] = "none" /\ task \in [Logs -> {"none", "waiting", "fetching", "persisting"}]
        /\ first \cup rest \subseteq Logs
    BY <2>1 DEF DurableInv, TypeInv, ControlTypeOK
  <2> QED BY <2>1, <2>2 DEF DurableInv, ResumeLosesNothing, UpTo
<1>7. ASSUME NEW l \in Logs, Acquire(l) PROVE DurableInv'
  <2>1. /\ task[l] = "waiting" /\ task' = [task EXCEPT ![l] = "fetching"]
        /\ \A m \in Logs \ {l} : work'[m] = work[m]
        /\ UNCHANGED <<rows, pc, first, rest, cursor, history, snap>>
        /\ task \in [Logs -> {"none", "waiting", "fetching", "persisting"}]
        /\ first \cup rest \subseteq Logs
    BY <1>7 DEF Acquire, server, sched, store, db, TypeInv, ControlTypeOK
  <2> QED BY <2>1 DEF DurableInv, ResumeLosesNothing, UpTo
<1>8. ASSUME NEW l \in Logs, NEW block \in SUBSET rows[l], FetchOk(l, block)
      PROVE  DurableInv'
  <2>1. /\ task[l] = "fetching"
        /\ \A m \in Logs \ {l} : task'[m] = task[m] /\ work'[m] = work[m] /\ cursor'[m] = cursor[m]
        /\ UNCHANGED <<rows, pc, first, rest, history, snap>>
        /\ first \cup rest \subseteq Logs
    BY <1>8 DEF FetchOk, server, sched, db, TypeInv, ControlTypeOK
  <2>2. \A i \in UpTo(l, cursor[l])' :
            history[l][i] > 0 \/ (task'[l] = "persisting" /\ i \in work'[l])
    BY <1>8, FetchKeepsHistory
  <2>3. \A m \in Logs, i \in Idx : i \in UpTo(m, cursor[m])'
            => history'[m][i] > 0 \/ (task'[m] = "persisting" /\ i \in work'[m])
    BY <2>1, <2>2 DEF DurableInv, UpTo
  <2>4. ResumeLosesNothing'
    BY <2>1 DEF DurableInv, ResumeLosesNothing, UpTo
  <2>5. Control
    BY <2>1 DEF DurableInv
  <2> QED BY <2>3, <2>4, <2>5 DEF DurableInv
<1>9. ASSUME NEW l \in Logs, FetchFails(l) PROVE DurableInv'
  <2>1. /\ task[l] = "fetching" /\ task'[l] = "none"
        /\ \A m \in Logs \ {l} : task'[m] = task[m] /\ work'[m] = work[m]
        /\ UNCHANGED <<rows, pc, first, rest, cursor, history, snap>>
        /\ first \cup rest \subseteq Logs
    BY <1>9 DEF FetchFails, EndTask, server, sched, store, db, TypeInv, ControlTypeOK
  <2> QED BY <2>1 DEF DurableInv, ResumeLosesNothing, UpTo
<1>10. ASSUME NEW l \in Logs, PersistOk(l) PROVE DurableInv'
  <2>1. /\ task[l] = "persisting" /\ task'[l] = "none"
        /\ \A m \in Logs \ {l} : task'[m] = task[m] /\ work'[m] = work[m]
        /\ UNCHANGED <<rows, pc, first, rest, cursor, snap>>
        /\ first \cup rest \subseteq Logs
    BY <1>10 DEF PersistOk, EndTask, server, sched, store, TypeInv, ControlTypeOK
  <2>2. \A m \in Logs, i \in Idx :
            /\ history[m][i] > 0 => history'[m][i] > 0
            /\ m = l /\ i \in work[l] => history'[m][i] > 0
    BY <1>10 DEF PersistOk, TypeInv, ControlTypeOK
  <2>3. \A m \in Logs, i \in Idx : i \in UpTo(m, cursor[m])'
            => history'[m][i] > 0 \/ (task'[m] = "persisting" /\ i \in work'[m])
    BY <2>1, <2>2 DEF DurableInv, UpTo
  <2>4. ResumeLosesNothing'
    BY <2>1, <2>2 DEF DurableInv, ResumeLosesNothing, UpTo, TypeInv, ControlTypeOK
  <2>5. Control
    BY <2>1 DEF DurableInv
  <2> QED BY <2>3, <2>4, <2>5 DEF DurableInv
<1>11. CASE Environment
  BY <1>1, <1>3, <1>11 DEF Environment, SeedLog, sched, store, db, DurableInv
<1>12. CASE Lifecycle
  <2>1. CASE Boot \/ Exit \/ Crash
    BY <1>2, <2>1 DEF Boot, Exit, Crash
  <2>2. CASE BootDiscover
    BY <1>1, <2>2 DEF BootDiscover, Discover, server, db, DurableInv
  <2>3. ~LoadFails /\ ~Stop /\ ~FinalSnapshot
    BY DEF LoadFails, Stop, FinalSnapshot, DurableInv
  <2> QED BY <1>4, <1>12, <2>1, <2>2, <2>3 DEF Lifecycle
<1>13. CASE Tick
  <2>1. CASE BeginTick
    <3>1. /\ pc = "idle" /\ pc' \in {"idle", "spawn", "discover"}
          /\ first' \cup rest' \subseteq Logs
          /\ UNCHANGED <<rows, cursor, history, snap, task, work>>
      BY <2>1 DEF BeginTick, PlanTick, server, store, db, TypeInv, ControlTypeOK
    <3> QED BY <1>1, <3>1 DEF DurableInv
  <2>2. CASE Rediscover
    <3>1. /\ pc = "discover" /\ pc' \in {"idle", "spawn"}
          /\ UNCHANGED <<rows, cursor, history, snap, task, work>>
      BY <2>2 DEF Rediscover, Discover, PlanTick, server, db
    <3>2. first' \cup rest' \subseteq Logs
      BY TypeInvInductive DEF TypeInv, ControlTypeOK
    <3> QED BY <1>1, <3>1, <3>2 DEF DurableInv
  <2>3. CASE GatherDone
    BY <1>1, <2>3 DEF GatherDone, server, store, db, DurableInv
  <2>4. ~SnapshotFails
    BY DEF SnapshotFails
  <2> QED BY <1>5, <1>6, <1>13, <2>1, <2>2, <2>3, <2>4 DEF Tick
<1>14. CASE Ingest
  BY <1>7, <1>8, <1>9, <1>10, <1>14 DEF Ingest, PersistFails
<1>15. CASE UNCHANGED vars
  BY <1>1, <1>15 DEF vars, server, sched, store, db, DurableInv
<1> QED BY <1>11, <1>12, <1>13, <1>14, <1>15 DEF Next

\* A crash at any point, any number of times, leaves no hole in the durable
\* history below the cursor the next process resumes from: the periodic
\* snapshot never overtakes a commit.
THEOREM CrashLosesNothing ==
    ASSUME ~AllowStop, ~AllowDbFail
    PROVE  Spec => []ResumeLosesNothing
<1> DEFINE Inv == TypeInv /\ CursorInv /\ DurableInv
<1>1. Init => Inv
  <2> SUFFICES ASSUME Init PROVE Inv
    OBVIOUS
  <2>1. /\ pc = "down" /\ cursor = [l \in Logs |-> None]
        /\ snap = [l \in Logs |-> None] /\ task = [l \in Logs |-> "none"]
    BY Zenon DEF Init
  <2>2. DurableInv
    BY <2>1 DEF DurableInv, ResumeLosesNothing, UpTo
  <2> QED BY <2>2, InitTypes, InitCursors
<1>2. Inv /\ [Next]_vars => Inv'
  BY TypeInvInductive, CursorInvInductive, DurableInvInductive
<1>3. Inv => ResumeLosesNothing
  BY DEF DurableInv
<1> HIDE DEF Inv
<1> QED BY <1>1, <1>2, <1>3, PTL DEF Spec
=============================================================================
