----------------------------- MODULE FeedProofs -----------------------------
(***************************************************************************)
(* The WITSML store and the feed simulator, for a fleet of any size, any   *)
(* curves, any bursts and any number of failed calls, restarts of the      *)
(* store and writes of others.                                             *)
(***************************************************************************)
EXTENDS Feed, PollingProofs

-----------------------------------------------------------------------------
(* The operations of the store. *)

\* A stored log has the fields of one.
IsLog(log) == log = Log(log.dir, log.nul, log.cols, log.growing, log.rows)

\* The indices of a batch that parse.
Parsed(batch) == {batch.data[n].i : n \in DOMAIN batch.data} \ {None}

\* Merging rows in changes nothing of a log but the rows at the indices of the
\* batch, and takes no row away.
LEMMA IngestFacts ==
    ASSUME NEW log, IsLog(log), NEW batch
    PROVE  LET after == IngestLogData(log, batch)
           IN  /\ IsLog(after)
               /\ after.dir = log.dir /\ after.nul = log.nul
               /\ after.cols = log.cols /\ after.growing = log.growing
               /\ DOMAIN log.rows \subseteq DOMAIN after.rows
               /\ DOMAIN after.rows \subseteq DOMAIN log.rows \cup Parsed(batch)
               /\ \A i \in DOMAIN log.rows : i \notin Parsed(batch) => after.rows[i] = log.rows[i]
<1> DEFINE incoming == IF batch.cols = <<>> THEN log.cols ELSE batch.cols
           cols == IF log.cols = <<>> THEN incoming ELSE log.cols
           At(i) == {n \in DOMAIN batch.data : batch.data[n].i = i}
           new == IF incoming = <<>> THEN {} ELSE Parsed(batch)
           R == [i \in DOMAIN log.rows \cup new |->
                    IF i \in new
                    THEN Aligned(log, cols, incoming, batch.data[Max(At(i))].cells)
                    ELSE log.rows[i]]
<1>1. IngestLogData(log, batch) = [log EXCEPT !.rows = R]
  BY DEF IngestLogData, Parsed
<1>2. new \subseteq Parsed(batch)
  OBVIOUS
<1>3. DOMAIN R = DOMAIN log.rows \cup new /\ \A i \in DOMAIN log.rows : i \notin new => R[i] = log.rows[i]
  OBVIOUS
<1> HIDE DEF R, new
<1>4. [log EXCEPT !.rows = R] = Log(log.dir, log.nul, log.cols, log.growing, R)
  BY DEF IsLog, Log
<1>5. IngestLogData(log, batch) = Log(log.dir, log.nul, log.cols, log.growing, R)
  BY <1>1, <1>4
<1> QED BY <1>2, <1>3, <1>5 DEF IsLog, Log

\* A row that is merged in is the aligned form of one of the batch's rows at its
\* index, the last one.
LEMMA IngestedRow ==
    ASSUME NEW log, IsLog(log), NEW batch, NEW N \in Nat, DOMAIN batch.data = 1..N,
           NEW i \in DOMAIN IngestLogData(log, batch).rows, i \notin DOMAIN log.rows \/ i \in Parsed(batch)
    PROVE  LET incoming == IF batch.cols = <<>> THEN log.cols ELSE batch.cols
               cols == IF log.cols = <<>> THEN incoming ELSE log.cols
           IN  \/ /\ incoming = <<>> /\ i \in DOMAIN log.rows
                  /\ IngestLogData(log, batch).rows[i] = log.rows[i]
               \/ /\ incoming # <<>>
                  /\ \E n \in 1..N :
                         /\ batch.data[n].i = i /\ i # None
                         /\ IngestLogData(log, batch).rows[i]
                              = Aligned(log, cols, incoming, batch.data[n].cells)
<1> DEFINE incoming == IF batch.cols = <<>> THEN log.cols ELSE batch.cols
           cols == IF log.cols = <<>> THEN incoming ELSE log.cols
           At(j) == {n \in DOMAIN batch.data : batch.data[n].i = j}
           new == IF incoming = <<>> THEN {} ELSE Parsed(batch)
           R == [j \in DOMAIN log.rows \cup new |->
                    IF j \in new
                    THEN Aligned(log, cols, incoming, batch.data[Max(At(j))].cells)
                    ELSE log.rows[j]]
<1>1. IngestLogData(log, batch) = [log EXCEPT !.rows = R]
  BY DEF IngestLogData, Parsed
<1>2. [log EXCEPT !.rows = R].rows = R
  <2> HIDE DEF R
  <2> QED BY DEF IsLog, Log
<1>3. IngestLogData(log, batch).rows = R
  BY <1>1, <1>2
<1>4. i \in DOMAIN log.rows \cup new
  BY <1>3
<1>5. CASE i \notin new
  <2>1. incoming = <<>> /\ i \in DOMAIN log.rows
    BY <1>4, <1>5
  <2>2. R[i] = log.rows[i]
    BY <1>4, <1>5
  <2> QED BY <2>1, <2>2, <1>3
<1>6. CASE i \in new
  <2>1. incoming # <<>> /\ i \in Parsed(batch)
    BY <1>6
  <2>2. i # None /\ At(i) # {}
    BY <2>1 DEF Parsed
  <2>3. At(i) \in SUBSET (0..N)
    OBVIOUS
  <2>4. Max(At(i)) \in At(i)
    <3> HIDE DEF At
    <3> QED BY <2>2, <2>3, MaxOfIndices
  <2>5. R[i] = Aligned(log, cols, incoming, batch.data[Max(At(i))].cells)
    BY <1>4, <1>6
  <2>6. Max(At(i)) \in 1..N /\ batch.data[Max(At(i))].i = i
    BY <2>4
  <2> QED BY <2>1, <2>2, <2>5, <2>6, <1>3
<1> QED BY <1>5, <1>6

\* The return codes differ.
LEMMA CodesDiffer == Success # Duplicate /\ Success # BadInput /\ Success # NotFound
  BY SMT DEF Success, Duplicate, BadInput, NotFound

\* What AddToStore may do to a store: nothing, or a new object.
AddEffect(store, key, obj, batch, after) ==
    \/ after = store
    \/ /\ key \notin DOMAIN store /\ key.kind \in Kinds /\ key.uid # ""
       /\ DOMAIN after = DOMAIN store \cup {key}
       /\ \A k \in DOMAIN store : after[k] = store[k]
       /\ key.kind = "log" => after[key] = IngestLogData(obj, batch)

\* add_object does no more than that.
LEMMA AddFacts ==
    ASSUME NEW store, NEW key, NEW obj, NEW batch
    PROVE  AddEffect(store, key, obj, batch, AddObject(store, key, obj, batch))
<1>1. AddCode(store, key) = Success =>
          key \notin DOMAIN store /\ key.kind \in Kinds /\ key.uid # ""
  BY CodesDiffer DEF AddCode
<1> QED BY <1>1 DEF AddEffect, AddObject, Put

\* What UpdateInStore does to a store.
LEMMA UpdateFacts ==
    ASSUME NEW store, NEW key, NEW batch, NEW intervals
    PROVE  LET after == UpdateObject(store, key, batch, intervals)
           IN  \/ after = store
               \/ /\ key \in DOMAIN store /\ key.kind \in {"log", "mudLog"}
                  /\ DOMAIN after = DOMAIN store
                  /\ \A k \in DOMAIN store : k # key => after[k] = store[k]
                  /\ key.kind = "log" =>
                        after[key] = [IngestLogData(store[key], batch) EXCEPT
                                         !.growing = @ \/ HasRows(store[key], batch)]
<1>1. CASE UpdateCode(store, key) # Success
  BY <1>1 DEF UpdateObject
<1>2. CASE UpdateCode(store, key) = Success /\ key.kind \notin {"log", "mudLog"}
  BY <1>2 DEF UpdateObject
<1>3. CASE UpdateCode(store, key) = Success /\ key.kind \in {"log", "mudLog"}
  <2>1. key \in DOMAIN store
    BY <1>3, CodesDiffer DEF UpdateCode
  <2>2. DOMAIN store \cup {key} = DOMAIN store
    BY <2>1
  <2>3. CASE key.kind = "log"
    <3> DEFINE new == [IngestLogData(store[key], batch) EXCEPT
                          !.growing = @ \/ HasRows(store[key], batch)]
    <3>1. UpdateObject(store, key, batch, intervals) = Put(store, key, new)
      BY <1>3, <2>3 DEF UpdateObject
    <3> HIDE DEF new
    <3>2. /\ DOMAIN Put(store, key, new) = DOMAIN store
          /\ \A k \in DOMAIN store : Put(store, key, new)[k] = IF k = key THEN new ELSE store[k]
      BY <2>2 DEF Put
    <3> QED BY <1>3, <2>1, <2>3, <3>1, <3>2 DEF new
  <2>4. CASE key.kind = "mudLog"
    <3> DEFINE new == [store[key] EXCEPT !.growing = @ \/ intervals # <<>>,
                                         !.intervals = @ \o intervals]
    <3>1. UpdateObject(store, key, batch, intervals) = Put(store, key, new)
      BY <1>3, <2>4 DEF UpdateObject
    <3> HIDE DEF new
    <3>2. /\ DOMAIN Put(store, key, new) = DOMAIN store
          /\ \A k \in DOMAIN store : Put(store, key, new)[k] = IF k = key THEN new ELSE store[k]
      BY <2>2 DEF Put
    <3> QED BY <1>3, <2>1, <2>4, <3>1, <3>2
  <2> QED BY <1>3, <2>3, <2>4
<1> QED BY <1>1, <1>2, <1>3

-----------------------------------------------------------------------------
(* The stored logs. *)

\* What a column can be named.
Mnemonics == STRING \cup {"C3"}

\* The rows of a log with columns have a cell for each, a value of the column's
\* curve or a null.
RowsAligned(log) ==
    \A i \in DOMAIN log.rows :
        /\ Len(log.rows[i]) = Len(log.cols)
        /\ \A p \in 2..Len(log.cols) : log.rows[i][p] \in {log.cols[p], log.nul, Default}

\* A log of the fleet, whoever created it.
LogOK(key, log) ==
    /\ IsLog(log)
    /\ log.dir \in Directions /\ log.nul \in {Default, "-1"} /\ log.growing \in BOOLEAN
    /\ log.cols \in Seq(Mnemonics) /\ (log.cols # <<>> => log.cols[1] = ColsOf(key)[1])
    /\ DOMAIN log.rows \subseteq Idx
    /\ log.cols # <<>> => RowsAligned(log)

\* The rows of a batch for a log: a cell holds the value of the curve its column
\* names, or the default null.
BatchOK(log, batch) ==
    LET incoming == IF batch.cols = <<>> THEN log.cols ELSE batch.cols
    IN  /\ incoming \in Seq(Mnemonics)
        /\ \E N \in Nat : DOMAIN batch.data = 1..N
        /\ \A n \in DOMAIN batch.data : batch.data[n].i # None =>
               /\ batch.data[n].i \in Idx
               /\ Len(batch.data[n].cells) \in Nat
               /\ \A p \in 1..Len(incoming) : p =< Len(batch.data[n].cells) =>
                      batch.data[n].cells[p] \in {incoming[p], Default}

\* Only logs of the fleet are stored, and every stored object has a uid and a
\* kind the store knows.
StoreOK(store) ==
    \A k \in DOMAIN store :
        /\ k.kind \in Kinds /\ k.uid # ""
        /\ k.kind = "log" => k \in FleetLogs /\ LogOK(k, store[k])

\* An aligned row has one cell for each column, each from its own curve.
LEMMA AlignedFacts ==
    ASSUME NEW log, NEW cols \in Seq(Mnemonics), NEW incoming \in Seq(Mnemonics), NEW cells, Len(cells) \in Nat,
           \A p \in 1..Len(incoming) : p =< Len(cells) => cells[p] \in {incoming[p], Default}
    PROVE  LET row == Aligned(log, cols, incoming, cells)
           IN  /\ Len(row) = Len(cols)
               /\ \A p \in 2..Len(cols) : row[p] \in {cols[p], log.nul, Default}
<1> DEFINE At(m) == {p \in 1..Len(incoming) : p =< Len(cells) /\ incoming[p] = m}
           Cell(m) == IF At(m) = {} THEN log.nul ELSE cells[Max(At(m))]
           row == [p \in 1..Len(cols) |-> IF p = 1 THEN cells[1] ELSE Cell(cols[p])]
<1>1. Aligned(log, cols, incoming, cells) = row
  BY DEF Aligned
<1>2. \A m : Cell(m) \in {m, log.nul, Default}
  <2>1. SUFFICES ASSUME NEW m, At(m) # {} PROVE cells[Max(At(m))] \in {m, Default}
    OBVIOUS
  <2>2. At(m) \in SUBSET (0..Len(incoming)) /\ Len(incoming) \in Nat
    OBVIOUS
  <2>3. Max(At(m)) \in At(m)
    <3> HIDE DEF At
    <3> QED BY <2>1, <2>2, MaxOfIndices
  <2> QED BY <2>3
<1>3. Len(cols) \in Nat
  OBVIOUS
<1> HIDE DEF Cell
<1>4. Len(row) = Len(cols)
  BY <1>3
<1>5. \A p \in 2..Len(cols) : row[p] = Cell(cols[p])
  BY <1>3
<1> HIDE DEF row
<1> QED BY <1>1, <1>2, <1>4, <1>5

\* Merging such a batch into such a log gives such a log.
LEMMA IngestKeepsLog ==
    ASSUME NEW key, NEW log, LogOK(key, log), NEW batch, BatchOK(log, batch)
    PROVE  LogOK(key, IngestLogData(log, batch))
<1> DEFINE after == IngestLogData(log, batch)
           incoming == IF batch.cols = <<>> THEN log.cols ELSE batch.cols
<1>1. /\ IsLog(after)
      /\ after.dir = log.dir /\ after.nul = log.nul
      /\ after.cols = log.cols /\ after.growing = log.growing
      /\ DOMAIN log.rows \subseteq DOMAIN after.rows
      /\ DOMAIN after.rows \subseteq DOMAIN log.rows \cup Parsed(batch)
      /\ \A i \in DOMAIN log.rows : i \notin Parsed(batch) => after.rows[i] = log.rows[i]
  BY IngestFacts DEF LogOK
<1>2. Parsed(batch) \subseteq Idx
  BY DEF Parsed, BatchOK
<1>3. DOMAIN after.rows \subseteq Idx
  BY <1>1, <1>2 DEF LogOK
<1>4. PICK N \in Nat : DOMAIN batch.data = 1..N
  BY DEF BatchOK
<1>5. ASSUME log.cols # <<>>, NEW i \in DOMAIN after.rows
      PROVE  /\ Len(after.rows[i]) = Len(log.cols)
             /\ \A p \in 2..Len(log.cols) : after.rows[i][p] \in {log.cols[p], log.nul, Default}
  <2> DEFINE Good(row) == /\ Len(row) = Len(log.cols)
                          /\ \A p \in 2..Len(log.cols) : row[p] \in {log.cols[p], log.nul, Default}
  <2>1. \A j \in DOMAIN log.rows : Good(log.rows[j])
    BY <1>5 DEF LogOK, RowsAligned
  <2>2. CASE i \in DOMAIN log.rows /\ i \notin Parsed(batch)
    <3>1. after.rows[i] = log.rows[i]
      BY <1>1, <2>2
    <3> QED BY <2>1, <2>2, <3>1
  <2>3. CASE i \notin DOMAIN log.rows \/ i \in Parsed(batch)
    <3>1. \/ /\ incoming = <<>> /\ i \in DOMAIN log.rows /\ after.rows[i] = log.rows[i]
          \/ /\ incoming # <<>>
             /\ \E n \in 1..N :
                    /\ batch.data[n].i = i /\ i # None
                    /\ after.rows[i] = Aligned(log, IF log.cols = <<>> THEN incoming ELSE log.cols,
                                               incoming, batch.data[n].cells)
      <4> HIDE DEF after
      <4>1. IsLog(log) /\ i \in DOMAIN IngestLogData(log, batch).rows
        BY <1>5 DEF LogOK, after
      <4> QED BY <4>1, <1>4, <2>3, IngestedRow DEF after
    <3>2. CASE i \in DOMAIN log.rows /\ after.rows[i] = log.rows[i]
      BY <2>1, <3>2
    <3>3. ASSUME NEW n \in 1..N, batch.data[n].i = i, i # None,
                 after.rows[i] = Aligned(log, log.cols, incoming, batch.data[n].cells)
          PROVE  Good(after.rows[i])
      <4> DEFINE cells == batch.data[n].cells
      <4>1. /\ incoming \in Seq(Mnemonics) /\ Len(cells) \in Nat
            /\ \A p \in 1..Len(incoming) : p =< Len(cells) => cells[p] \in {incoming[p], Default}
        BY <3>3, <1>4 DEF BatchOK
      <4>2. log.cols \in Seq(Mnemonics)
        BY DEF LogOK
      <4>3. Good(Aligned(log, log.cols, incoming, cells))
        <5> HIDE DEF cells, incoming
        <5> QED BY <4>1, <4>2, AlignedFacts
      <4> QED BY <4>3, <3>3
    <3> HIDE DEF Good, after
    <3>4. (IF log.cols = <<>> THEN incoming ELSE log.cols) = log.cols
      BY <1>5
    <3>5. Good(after.rows[i])
      BY <3>1, <3>2, <3>3, <3>4, <2>1
    <3> QED BY <3>5 DEF Good
  <2> QED BY <2>2, <2>3
<1>6. log.cols # <<>> => RowsAligned(after)
  <2> HIDE DEF after
  <2> QED BY <1>1, <1>5 DEF RowsAligned
<1> HIDE DEF after
<1>7. LogOK(key, after)
  BY <1>1, <1>3, <1>6 DEF LogOK
<1> QED BY <1>7 DEF after

\* So does marking it as growing.
LEMMA GrowingKeepsLog ==
    ASSUME NEW key, NEW log, LogOK(key, log), NEW more \in BOOLEAN
    PROVE  LET after == [log EXCEPT !.growing = @ \/ more]
           IN  /\ LogOK(key, after)
               /\ after.dir = log.dir /\ after.cols = log.cols /\ after.rows = log.rows
<1> DEFINE g == log.growing \/ more
           after == [log EXCEPT !.growing = g]
<1>1. g \in BOOLEAN
  OBVIOUS
<1> HIDE DEF g
<1>2. after = Log(log.dir, log.nul, log.cols, g, log.rows)
  BY DEF LogOK, IsLog, Log
<1>3. /\ IsLog(after) /\ after.dir = log.dir /\ after.nul = log.nul /\ after.cols = log.cols
      /\ after.growing = g /\ after.rows = log.rows
  BY <1>2 DEF IsLog, Log
<1> HIDE DEF after
<1>4. LogOK(key, after)
  BY <1>1, <1>3 DEF LogOK, RowsAligned
<1> QED BY <1>3, <1>4 DEF after, g

\* A log without rows is one, whatever its direction and its columns but the first.
LEMMA HeaderIsLog ==
    ASSUME NEW key, NEW dir \in Directions, NEW nul \in {Default, "-1"},
           NEW cols \in Seq(Mnemonics), cols # <<>> => cols[1] = ColsOf(key)[1]
    PROVE  LogOK(key, Log(dir, nul, cols, FALSE, <<>>))
  BY DEF LogOK, IsLog, Log, RowsAligned

-----------------------------------------------------------------------------
(* What a call does to the store. *)

\* Nothing is taken away: every object, its header and the indices of its rows.
KeepsAll(before, after) ==
    \A k \in DOMAIN before :
        /\ k \in DOMAIN after
        /\ k.kind = "log" =>
               /\ after[k].dir = before[k].dir /\ after[k].cols = before[k].cols
               /\ DOMAIN before[k].rows \subseteq DOMAIN after[k].rows

\* The polled log, if it is there afterwards, is new or has its header as before,
\* and its rows are the ones it had, but at the indices in B.
PolledWrite(before, after, B) ==
    Polled \in DOMAIN after =>
        IF Polled \in DOMAIN before
        THEN /\ after[Polled].cols = before[Polled].cols
             /\ \A i \in DOMAIN after[Polled].rows \ B :
                    /\ i \in DOMAIN before[Polled].rows
                    /\ after[Polled].rows[i] = before[Polled].rows[i]
        ELSE DOMAIN after[Polled].rows \subseteq B

\* The polled log is a log.
LEMMA PolledFacts == Polled.kind = "log" /\ Polled.uid = "depth" /\ Polled.well = Fleet[1]
  BY DEF Polled, DepthKey, Key

\* AddToStore of a log of the fleet without rows of its own, or of another object.
LEMMA AddStep ==
    ASSUME NEW store, StoreOK(store), NEW key, NEW obj, NEW batch,
           key.kind = "log" => /\ key \in FleetLogs /\ LogOK(key, obj)
                               /\ obj.rows = <<>> /\ BatchOK(obj, batch)
    PROVE  LET after == AddObject(store, key, obj, batch)
           IN  /\ StoreOK(after) /\ KeepsAll(store, after)
               /\ PolledWrite(store, after, IF key = Polled THEN Parsed(batch) ELSE {})
<1> DEFINE after == AddObject(store, key, obj, batch)
           B == IF key = Polled THEN Parsed(batch) ELSE {}
<1>1. \/ after = store
      \/ /\ key \notin DOMAIN store /\ key.kind \in Kinds /\ key.uid # ""
         /\ DOMAIN after = DOMAIN store \cup {key}
         /\ \A k \in DOMAIN store : after[k] = store[k]
         /\ key.kind = "log" => after[key] = IngestLogData(obj, batch)
  <2>1. AddEffect(store, key, obj, batch, after)
    BY AddFacts
  <2> HIDE DEF after
  <2> QED BY <2>1 DEF AddEffect
<1>2. key.kind = "log" => LogOK(key, IngestLogData(obj, batch))
  BY IngestKeepsLog
<1>3. key = Polled => DOMAIN IngestLogData(obj, batch).rows \subseteq B
  <2> SUFFICES ASSUME key = Polled PROVE DOMAIN IngestLogData(obj, batch).rows \subseteq Parsed(batch)
    OBVIOUS
  <2>1. IsLog(obj) /\ obj.rows = <<>>
    BY PolledFacts DEF LogOK
  <2>2. DOMAIN IngestLogData(obj, batch).rows \subseteq DOMAIN obj.rows \cup Parsed(batch)
    BY <2>1, IngestFacts
  <2> QED BY <2>1, <2>2
<1> HIDE DEF after, B
<1>4. StoreOK(after)
  BY <1>1, <1>2 DEF StoreOK
<1>5. KeepsAll(store, after)
  BY <1>1 DEF KeepsAll
<1>6. PolledWrite(store, after, B)
  BY <1>1, <1>3, PolledFacts DEF PolledWrite
<1> QED BY <1>4, <1>5, <1>6 DEF after, B

\* UpdateInStore with rows for the log it names.
LEMMA UpdateStep ==
    ASSUME NEW store, StoreOK(store), NEW key, NEW batch, NEW intervals,
           key.kind = "log" /\ key \in DOMAIN store => BatchOK(store[key], batch)
    PROVE  LET after == UpdateObject(store, key, batch, intervals)
           IN  /\ StoreOK(after) /\ KeepsAll(store, after)
               /\ PolledWrite(store, after, IF key = Polled THEN Parsed(batch) ELSE {})
<1> DEFINE after == UpdateObject(store, key, batch, intervals)
           B == IF key = Polled THEN Parsed(batch) ELSE {}
           more == HasRows(store[key], batch)
           merged == IngestLogData(store[key], batch)
           log == [merged EXCEPT !.growing = @ \/ more]
<1>1. \/ after = store
      \/ /\ key \in DOMAIN store /\ key.kind \in {"log", "mudLog"}
         /\ DOMAIN after = DOMAIN store
         /\ \A k \in DOMAIN store : k # key => after[k] = store[k]
         /\ key.kind = "log" => after[key] = log
  BY UpdateFacts
<1>2. ASSUME key.kind = "log", key \in DOMAIN store
      PROVE  /\ key \in FleetLogs /\ LogOK(key, log)
             /\ log.dir = store[key].dir /\ log.cols = store[key].cols
             /\ DOMAIN store[key].rows \subseteq DOMAIN log.rows
             /\ DOMAIN log.rows \subseteq DOMAIN store[key].rows \cup Parsed(batch)
             /\ \A i \in DOMAIN store[key].rows :
                    i \notin Parsed(batch) => log.rows[i] = store[key].rows[i]
  <2>1. key \in FleetLogs /\ LogOK(key, store[key]) /\ BatchOK(store[key], batch)
    BY <1>2 DEF StoreOK
  <2>2. IsLog(store[key])
    BY <2>1 DEF LogOK
  <2>3. /\ merged.dir = store[key].dir /\ merged.cols = store[key].cols
        /\ DOMAIN store[key].rows \subseteq DOMAIN merged.rows
        /\ DOMAIN merged.rows \subseteq DOMAIN store[key].rows \cup Parsed(batch)
        /\ \A i \in DOMAIN store[key].rows :
               i \notin Parsed(batch) => merged.rows[i] = store[key].rows[i]
    BY <2>2, IngestFacts
  <2>4. LogOK(key, merged)
    BY <2>1, IngestKeepsLog
  <2>5. more \in BOOLEAN
    BY DEF HasRows
  <2> HIDE DEF merged, more
  <2>6. LogOK(key, log) /\ log.dir = merged.dir /\ log.cols = merged.cols /\ log.rows = merged.rows
    BY <2>4, <2>5, GrowingKeepsLog
  <2> HIDE DEF log
  <2> QED BY <2>1, <2>3, <2>6
<1> HIDE DEF after, B, log
<1>3. StoreOK(after)
  <2> SUFFICES ASSUME NEW k \in DOMAIN after
               PROVE  /\ k.kind \in Kinds /\ k.uid # ""
                      /\ k.kind = "log" => k \in FleetLogs /\ LogOK(k, after[k])
    BY DEF StoreOK
  <2>1. k \in DOMAIN store
    BY <1>1
  <2>2. CASE k # key \/ after = store
    BY <1>1, <2>1, <2>2 DEF StoreOK
  <2>3. CASE k = key /\ after # store
    BY <1>1, <1>2, <2>1, <2>3 DEF StoreOK
  <2> QED BY <2>2, <2>3
<1>4. KeepsAll(store, after)
  BY <1>1, <1>2 DEF KeepsAll
<1>5. PolledWrite(store, after, B)
  <2>1. CASE key # Polled \/ after = store
    BY <1>1, <2>1 DEF PolledWrite
  <2>2. CASE key = Polled /\ after # store
    <3>1. key.kind = "log" /\ key \in DOMAIN store /\ after[key] = log
      BY <1>1, <2>2, PolledFacts
    <3>2. B = Parsed(batch)
      BY <2>2 DEF B
    <3> QED BY <1>2, <2>2, <3>1, <3>2 DEF PolledWrite
  <2> QED BY <2>1, <2>2
<1> QED BY <1>3, <1>4, <1>5 DEF after, B

-----------------------------------------------------------------------------
(* What the simulator emits. *)

\* The constants' types, one by one.
LEMMA ConstantFacts ==
    /\ Fleet \in Seq(STRING) /\ Len(Fleet) \in Nat \ {0}
    /\ DepthCols \in Seq(Mnemonics) /\ TimeCols \in Seq(Mnemonics)
    /\ Len(DepthCols) > 1 /\ Len(TimeCols) > 1
    /\ MaxIdx \in Nat /\ StartDepth \in Idx /\ MaxTime \in Idx
    /\ BurstEvery \in Nat \ {0} /\ BurstRows \in Nat \ {0} /\ Attempts \in Nat \ {0}
    /\ MaxDisturbances \in Nat /\ MaxWrites \in Nat
    /\ None \notin Int /\ None \notin [low : Int, high : Int] /\ None \notin Mnemonics
<1>1. Fleet \in Seq(STRING) /\ DepthCols \in Seq(STRING) /\ TimeCols \in Seq(STRING) /\ Fleet # <<>>
  BY FeedConstants, Zenon
<1>2. Len(Fleet) \in Nat \ {0}
  BY <1>1
<1>3. Len(DepthCols) > 1 /\ Len(TimeCols) > 1 /\ StartDepth \in 0..MaxIdx /\ MaxTime \in 0..MaxIdx
      /\ BurstEvery \in Nat \ {0} /\ BurstRows \in Nat \ {0} /\ Attempts \in Nat \ {0}
      /\ MaxIdx \in Nat /\ MaxDisturbances \in Nat /\ MaxWrites \in Nat
      /\ None \notin Int /\ None \notin [low : Int, high : Int]
  BY FeedConstants, Zenon
<1>4. DepthCols \in Seq(Mnemonics) /\ TimeCols \in Seq(Mnemonics)
  <2>1. \A c \in Seq(STRING) : c \in Seq(Mnemonics)
    <3>1. STRING \subseteq Mnemonics
      BY DEF Mnemonics
    <3>2. ASSUME NEW S, NEW T, S \subseteq T, NEW c \in Seq(S) PROVE c \in Seq(T)
      BY <3>2
    <3> QED BY <3>1, <3>2, Zenon
  <2> QED BY <1>1, <2>1
<1>5. None \notin Mnemonics
  BY FeedConstants, Zenon DEF Mnemonics
<1> QED BY <1>1, <1>2, <1>3, <1>4, <1>5 DEF Idx

\* The columns of a log of the fleet.
LEMMA ColsFacts ==
    ASSUME NEW key
    PROVE  ColsOf(key) \in Seq(Mnemonics) /\ ColsOf(key) # <<>> /\ Len(ColsOf(key)) > 1
<1>1. DepthCols # <<>> /\ TimeCols # <<>>
  BY ConstantFacts
<1> QED BY <1>1, ConstantFacts DEF ColsOf

\* A batch with the columns of its log, whose rows follow such a path.
IsBatch(key, i, n, batch) ==
    /\ batch.cols = ColsOf(key)
    /\ DOMAIN batch.data = 1..n /\ Len(batch.data) = n
    /\ \E f \in Paths(key, i, n) : \A k \in 1..n : batch.data[k].i = f[k]
    /\ \A k \in 1..n : /\ Len(batch.data[k].cells) = Len(ColsOf(key))
                       /\ \A p \in 1..Len(ColsOf(key)) :
                              batch.data[k].cells[p] \in {ColsOf(key)[p], Default}

\* _emit_row makes such batches.
LEMMA BatchShape ==
    ASSUME NEW key, NEW i, NEW n \in Nat, NEW allowNull, NEW batch \in Batches(key, i, n, allowNull)
    PROVE  IsBatch(key, i, n, batch)
<1> DEFINE cols == ColsOf(key)
           mayNull == IF allowNull THEN Nullable \cap {cols[p] : p \in 2..Len(cols)} ELSE {}
           Cells(nulls) == [p \in 1..Len(cols) |-> IF p > 1 /\ cols[p] \in nulls THEN Default ELSE cols[p]]
           Data(f, g) == [k \in 1..n |-> EmitRow(cols, f[k], g[k])]
<1>1. PICK f \in Paths(key, i, n), g \in [1..n -> SUBSET mayNull] :
          batch = [cols |-> cols, data |-> Data(f, g)]
  BY DEF Batches
<1>2. Len(cols) \in Nat
  BY ColsFacts
<1>3. \A nulls : /\ Len(Cells(nulls)) = Len(cols)
                 /\ \A p \in 1..Len(cols) : Cells(nulls)[p] \in {cols[p], Default}
  <2> HIDE DEF cols
  <2> QED BY <1>2
<1> HIDE DEF Cells, cols
<1>4. DOMAIN Data(f, g) = 1..n /\ Len(Data(f, g)) = n
  OBVIOUS
<1>5. \A k \in 1..n : Data(f, g)[k].i = f[k] /\ Data(f, g)[k].cells = Cells(g[k])
  BY DEF EmitRow, Cells
<1> HIDE DEF Data
<1>6. batch.cols = cols /\ batch.data = Data(f, g)
  BY <1>1
<1>7. \E h \in Paths(key, i, n) : \A k \in 1..n : batch.data[k].i = h[k]
  BY <1>1, <1>5, <1>6
<1>8. \A k \in 1..n : /\ Len(batch.data[k].cells) = Len(cols)
                      /\ \A p \in 1..Len(cols) : batch.data[k].cells[p] \in {cols[p], Default}
  BY <1>3, <1>5, <1>6
<1> QED BY <1>4, <1>6, <1>7, <1>8 DEF cols, IsBatch

\* So it can be merged into any log, and the log advances to an index.
LEMMA BatchFacts ==
    ASSUME NEW key, NEW i \in Idx, NEW n \in Nat \ {0}, NEW allowNull,
           NEW batch \in Batches(key, i, n, allowNull)
    PROVE  /\ \A log : BatchOK(log, batch)
           /\ Parsed(batch) \subseteq Idx
           /\ batch.data[Len(batch.data)].i \in Idx
<1>0. IsBatch(key, i, n, batch)
  <2>1. n \in Nat
    OBVIOUS
  <2> QED BY <2>1, BatchShape
<1>1. PICK f \in Paths(key, i, n) : \A k \in 1..n : batch.data[k].i = f[k]
  BY <1>0 DEF IsBatch
<1>2. \A k \in 1..n : batch.data[k].i \in Idx
  BY <1>1 DEF Paths
<1>3. DOMAIN batch.data = 1..n /\ Len(batch.data) = n /\ batch.cols = ColsOf(key)
  BY <1>0 DEF IsBatch
<1>4. \A k \in 1..n : /\ Len(batch.data[k].cells) = Len(ColsOf(key))
                      /\ \A p \in 1..Len(ColsOf(key)) :
                             batch.data[k].cells[p] \in {ColsOf(key)[p], Default}
  BY <1>0 DEF IsBatch
<1>5. ColsOf(key) \in Seq(Mnemonics) /\ ColsOf(key) # <<>> /\ Len(ColsOf(key)) \in Nat
  BY ColsFacts
<1>6. ASSUME NEW log PROVE BatchOK(log, batch)
  BY <1>2, <1>3, <1>4, <1>5 DEF BatchOK
<1>7. Parsed(batch) \subseteq Idx
  BY <1>2, <1>3 DEF Parsed
<1> QED BY <1>2, <1>3, <1>6, <1>7

\* A decreasing depth log goes up one step at a time, and stays at the surface.
LEMMA PathDown ==
    ASSUME NEW i \in Idx, NEW n \in Nat, NEW f \in Paths(Polled, i, n)
    PROVE  \A k \in 1..n : f[k] = IF k >= i THEN 0 ELSE i - k
<1> DEFINE D(k) == IF k >= i THEN 0 ELSE i - k
           Bad == {k \in 1..n : f[k] # D(k)}
<1>1. i \in Nat /\ f \in [1..n -> Nat]
  BY ConstantFacts DEF Paths, Idx
<1>2. \A j : Advance(Polled, j) = {IF j = 0 THEN 0 ELSE j - 1}
  BY DEF Advance, DirOf, Polled
<1>3. \A k \in 1..n : LET j == IF k = 1 THEN i ELSE f[k - 1]
                      IN  f[k] = IF j = 0 THEN 0 ELSE j - 1
  BY <1>2 DEF Paths
<1>4. Bad = {}
  <2> SUFFICES ASSUME Bad # {} PROVE FALSE
    OBVIOUS
  <2>1. Bad \in SUBSET Nat
    OBVIOUS
  <2> DEFINE m == Min(Bad)
  <2>2. m \in Bad /\ \A k \in Bad : m =< k
    <3> HIDE DEF Bad
    <3> QED BY <2>1, MinOfIndices
  <2> HIDE DEF m
  <2>3. m \in 1..n /\ f[m] # D(m)
    BY <2>2
  <2>4. CASE m = 1
    BY <2>3, <2>4, <1>1, <1>3
  <2>5. CASE m # 1
    <3>1. m - 1 \in 1..n /\ m - 1 \notin Bad
      BY <2>2, <2>3, <2>5, SMT
    <3>2. f[m - 1] = D(m - 1)
      BY <3>1
    <3>3. f[m] = IF f[m - 1] = 0 THEN 0 ELSE f[m - 1] - 1
      BY <2>3, <2>5, <1>3
    <3> QED BY <3>2, <3>3, <2>3, <1>1, <2>5, SMT
  <2> QED BY <2>4, <2>5
<1> QED BY <1>4

\* A batch for it is below where the log was, but at the surface, and ends at the
\* index the log advances to.
LEMMA PolledBatch ==
    ASSUME NEW i \in Idx, NEW n \in Nat \ {0}, NEW allowNull,
           NEW batch \in Batches(Polled, i, n, allowNull)
    PROVE  LET last == batch.data[Len(batch.data)].i
           IN  /\ last \in Idx /\ last =< i
               /\ \A j \in Parsed(batch) : j \in Idx /\ last =< j /\ (j < i \/ j = 0)
<1>0. IsBatch(Polled, i, n, batch)
  <2>1. n \in Nat
    OBVIOUS
  <2> QED BY <2>1, BatchShape
<1>1. PICK f \in Paths(Polled, i, n) : \A k \in 1..n : batch.data[k].i = f[k]
  BY <1>0 DEF IsBatch
<1>2. \A k \in 1..n : f[k] = IF k >= i THEN 0 ELSE i - k
  BY <1>1, PathDown
<1>3. DOMAIN batch.data = 1..n /\ Len(batch.data) = n
  BY <1>0 DEF IsBatch
<1>4. batch.data[Len(batch.data)].i = f[n]
  BY <1>1, <1>3
<1>5. \A j \in Parsed(batch) : \E k \in 1..n : j = f[k]
  BY <1>1, <1>3 DEF Parsed
<1>6. i \in Nat /\ f \in [1..n -> Idx]
  BY <1>1, ConstantFacts DEF Paths, Idx
<1>7. \A k \in 1..n : f[k] \in Idx /\ f[n] =< f[k] /\ (f[k] < i \/ f[k] = 0) /\ f[n] =< i
  BY <1>2, <1>6, SMT DEF Idx
<1>8. n \in 1..n
  OBVIOUS
<1> QED BY <1>4, <1>5, <1>7, <1>8

-----------------------------------------------------------------------------
(* The simulator's calls. *)

\* The logs of the fleet are logs, and nobody's log is not one of them.
LEMMA FleetLogFacts ==
    /\ \A k \in FleetLogs : k.kind = "log"
    /\ \A w \in Wells : TimeKey(w) \in FleetLogs /\ DepthKey(w) \in FleetLogs
    /\ DepthKey(Other) \notin FleetLogs
    /\ Fleet[1] \in Wells /\ Polled \in FleetLogs
    /\ TimeKey(Fleet[1]) # Polled /\ ColsOf(TimeKey(Fleet[1])) = TimeCols
    /\ ColsOf(Polled) = DepthCols
<1>1. \A k \in FleetLogs : k.kind = "log"
  BY DEF FleetLogs, TimeKey, DepthKey, Key
<1>2. \A w \in Wells : TimeKey(w) \in FleetLogs /\ DepthKey(w) \in FleetLogs
  BY DEF FleetLogs
<1>3. Fleet[1] \in Wells
  <2>1. 1 \in DOMAIN Fleet
    BY ConstantFacts
  <2> QED BY <2>1 DEF Wells
<1>4. Other \notin Wells
  <2>1. \A n \in DOMAIN Fleet : Fleet[n] # Other
    BY FeedConstants, Zenon
  <2> QED BY <2>1 DEF Wells
<1>5. \A w : DepthKey(w).well = w /\ TimeKey(w).well = w /\ TimeKey(w).uid = "time" /\ DepthKey(w).uid = "depth"
  BY DEF DepthKey, TimeKey, Key
<1>6. DepthKey(Other) \notin FleetLogs
  BY <1>4, <1>5 DEF FleetLogs
<1>7. TimeKey(Fleet[1]) # Polled /\ ColsOf(TimeKey(Fleet[1])) = TimeCols /\ ColsOf(Polled) = DepthCols
  BY <1>5 DEF Polled, ColsOf
<1> QED BY <1>1, <1>2, <1>3, <1>6, <1>7 DEF Polled

\* A call of seed_fleet is about an object of the fleet.
LEMMA SeedCallFacts ==
    ASSUME NEW n \in 1..SeedLength
    PROVE  SeedCall(n) \in FleetKeys /\ (SeedCall(n).kind = "log" => SeedCall(n) \in FleetLogs)
<1> DEFINE q == ((n - 1) \div 5) + 1
           r == ((n - 1) % 5) + 1
           w == Fleet[q]
<1>1. n \in Nat /\ n >= 1 /\ n =< 5 * Len(Fleet) /\ Len(Fleet) \in Nat
  BY ConstantFacts DEF SeedLength
<1>2. q \in 1..Len(Fleet) /\ r \in 1..5
  BY <1>1, SMT
<1>3. DOMAIN Fleet = 1..Len(Fleet)
  BY ConstantFacts
<1> HIDE DEF q, r
<1>4. w \in Wells
  BY <1>2, <1>3 DEF Wells
<1>5. SeedCall(n) = <<WellKey(w), BoreKey(w), TimeKey(w), DepthKey(w), MudKey(w)>>[r]
  BY DEF SeedCall, q, r
<1> HIDE DEF w
<1>6. r = 1 \/ r = 2 \/ r = 3 \/ r = 4 \/ r = 5
  BY <1>2
<1>7. SeedCall(n) \in {WellKey(w), BoreKey(w), TimeKey(w), DepthKey(w), MudKey(w)}
  BY <1>5, <1>6
<1>8. WellKey(w).kind = "well" /\ BoreKey(w).kind = "wellbore" /\ MudKey(w).kind = "mudLog"
  BY DEF WellKey, BoreKey, MudKey, Key
<1>9. TimeKey(w) \in FleetLogs /\ DepthKey(w) \in FleetLogs
  BY <1>4 DEF FleetLogs
<1>10. {WellKey(w), BoreKey(w), MudKey(w)} \subseteq FleetKeys /\ FleetLogs \subseteq FleetKeys
  BY <1>4 DEF FleetKeys
<1> QED BY <1>7, <1>8, <1>9, <1>10

\* A call of tick is about a log of the fleet.
LEMMA TickCallFacts ==
    ASSUME NEW n \in 1..TickLength
    PROVE  TickCall(n) \in FleetLogs
<1> DEFINE q == ((n - 1) \div 2) + 1
           r == ((n - 1) % 2) + 1
           w == Fleet[q]
<1>1. n \in Nat /\ n >= 1 /\ n =< 2 * Len(Fleet) /\ Len(Fleet) \in Nat
  BY ConstantFacts DEF TickLength
<1>2. q \in 1..Len(Fleet) /\ r \in 1..2
  BY <1>1, SMT
<1>3. DOMAIN Fleet = 1..Len(Fleet)
  BY ConstantFacts
<1> HIDE DEF q, r
<1>4. w \in Wells
  BY <1>2, <1>3 DEF Wells
<1>5. TickCall(n) = <<TimeKey(w), DepthKey(w)>>[r]
  BY DEF TickCall, q, r
<1> HIDE DEF w
<1>6. TickCall(n) \in {TimeKey(w), DepthKey(w)}
  BY <1>2, <1>5
<1> QED BY <1>4, <1>6 DEF FleetLogs

\* The simulator's counters: its position is in the plan of what it is doing.
Positions ==
    CASE pc = "wait" -> 1..Attempts
      [] pc = "tick" -> 1..TickLength
      [] pc = "sleep" -> {1}
      [] OTHER -> 1..SeedLength

\* The simulator and the bounds are of their types.
SimOK ==
    /\ pc \in {"wait", "seed", "tick", "reseed", "sleep"}
    /\ pos \in Positions
    /\ tickNo \in 0..(BurstEvery * Len(Fleet) - 1)
    /\ missing \in BOOLEAN /\ at \in [FleetLogs -> Idx]
    /\ disturbances \in 0..MaxDisturbances /\ writes \in 0..MaxWrites

\* The tick counter wraps at the period of the bursts.
LEMMA TickNoWraps ==
    ASSUME NEW n \in Nat
    PROVE  n % (BurstEvery * Len(Fleet)) \in 0..(BurstEvery * Len(Fleet) - 1)
<1> DEFINE P == BurstEvery * Len(Fleet)
<1>1. P \in Nat \ {0}
  <2>1. \A a, b \in Nat \ {0} : a * b \in Nat \ {0}
    BY SMT
  <2> QED BY <2>1, ConstantFacts
<1> HIDE DEF P
<1>2. n % P \in 0..(P - 1)
  BY <1>1, SMT
<1> QED BY <1>2 DEF P

\* The plans are not empty.
LEMMA PlanLengths == SeedLength \in Nat /\ SeedLength >= 1 /\ TickLength \in Nat /\ TickLength >= 1
  BY ConstantFacts, SMT DEF SeedLength, TickLength

-----------------------------------------------------------------------------
(* The inductive invariant. *)

\* What a client makes of a row.
Decoded(cols, row) ==
    [m \in {cols[p] : p \in 2..Len(cols)} |->
        DecodeCell(row[Max({p \in 2..Len(cols) : cols[p] = m})])]

\* The poller's variables and the ghosts are of their types, and what was read
\* under a mnemonic is a value of that curve or a null.
PollerOK ==
    /\ logDir \in Directions \cup {None} /\ (cursor # None => logDir # None)
    /\ cursor \in Idx \cup {None} /\ DOMAIN seen \subseteq Idx
    /\ theirs \subseteq Idx /\ ahead \in BOOLEAN
    /\ \A i \in DOMAIN seen : \A m \in DOMAIN seen[i] : seen[i][m] \in {m, None, "-1"}

\* Of the rows nobody else has written, none that was read and none that is stored
\* is beyond where the simulator is, and what was read is what is stored but at the
\* surface.
SeenOK ==
    /\ \A i \in DOMAIN seen \ theirs : at[Polled] =< i
    /\ Polled \in DOMAIN objs =>
           /\ \A i \in DOMAIN objs[Polled].rows \ theirs : at[Polled] =< i
           /\ objs[Polled].cols # <<>> =>
                  \A i \in DOMAIN objs[Polled].rows \ theirs :
                      i > 0 /\ i \in DOMAIN seen
                          => seen[i] = Decoded(objs[Polled].cols, objs[Polled].rows[i])

\* Unless somebody wrote beyond where the simulator was, no row of others is beyond
\* it; and the cursor of a poller that follows the log down is a row it has read or
\* another client's, and it has read every row of the simulator from there up.
CursorOK ==
    ~ahead =>
        /\ \A i \in theirs : at[Polled] =< i
        /\ logDir = Decreasing /\ cursor # None =>
               /\ cursor \in DOMAIN seen \cup theirs
               /\ Polled \in DOMAIN objs /\ objs[Polled].cols # <<>> =>
                      \A i \in DOMAIN objs[Polled].rows \ theirs : cursor =< i => i \in DOMAIN seen

\* The inductive invariant.
Inv == StoreOK(objs) /\ SimOK /\ PollerOK /\ SeenOK /\ CursorOK

\* It holds initially.
LEMMA InitInv == Init => Inv
<1> SUFFICES ASSUME Init PROVE Inv
  OBVIOUS
<1>1. /\ DOMAIN objs = {} /\ DOMAIN seen = {} /\ cursor = None /\ logDir = None
      /\ theirs = {} /\ ahead = FALSE
  BY DEF Init
<1>2. StoreOK(objs) /\ PollerOK /\ SeenOK /\ CursorOK
  BY <1>1 DEF StoreOK, PollerOK, SeenOK, CursorOK
<1>3. /\ pc = "wait" /\ pos = 1 /\ tickNo = 0 /\ missing = FALSE
      /\ disturbances = 0 /\ writes = 0
      /\ at = [k \in FleetLogs |-> IF k.uid = "time" THEN 0 ELSE StartDepth]
  BY DEF Init
<1>4. at \in [FleetLogs -> Idx]
  BY <1>3, ConstantFacts DEF Idx
<1>5. tickNo \in 0..(BurstEvery * Len(Fleet) - 1)
  <2>1. BurstEvery * Len(Fleet) \in Nat \ {0}
    <3>1. \A a, b \in Nat \ {0} : a * b \in Nat \ {0}
      BY SMT
    <3> QED BY <3>1, ConstantFacts
  <2> DEFINE P == BurstEvery * Len(Fleet)
  <2> HIDE DEF P
  <2>2. 0 \in 0..(P - 1)
    BY <2>1, SMT DEF P
  <2> QED BY <2>2, <1>3 DEF P
<1>6. pos \in Positions
  BY <1>3, ConstantFacts DEF Positions
<1>7. disturbances \in 0..MaxDisturbances /\ writes \in 0..MaxWrites
  BY <1>3, ConstantFacts
<1> QED BY <1>2, <1>3, <1>4, <1>5, <1>6, <1>7 DEF Inv, SimOK

\* What every step but one of the poller does to the polled log: the simulator goes
\* on towards the surface, and what is written, at the indices in B, is another
\* client's, or between where the simulator was and where it is, or the surface.
WriteStep(B) ==
    /\ StoreOK(objs') /\ PolledWrite(objs, objs', B)
    /\ logDir' = logDir /\ cursor' = cursor /\ seen' = seen
    /\ theirs \subseteq theirs' /\ theirs' \subseteq Idx /\ ahead' \in BOOLEAN
    /\ at'[Polled] \in Idx /\ at'[Polled] =< at[Polled]
    /\ \A j \in B : \/ j \in theirs'
                    \/ j \in Idx /\ at'[Polled] =< j /\ (j < at[Polled] \/ j = 0)
    /\ ~ahead' => ~ahead /\ \A j \in theirs' \ theirs : at'[Polled] =< j

\* Such a step keeps the poller's part of the invariant.
LEMMA WriteKeepsPoller ==
    ASSUME Inv, NEW B, WriteStep(B)
    PROVE  PollerOK' /\ SeenOK' /\ CursorOK'
<1>1. /\ at[Polled] \in Nat /\ at'[Polled] \in Nat /\ at'[Polled] =< at[Polled] /\ Idx \subseteq Nat
  BY FleetLogFacts, ConstantFacts DEF Inv, SimOK, WriteStep, Idx
<1>2. /\ logDir' = logDir /\ cursor' = cursor /\ seen' = seen /\ theirs \subseteq theirs'
      /\ theirs' \subseteq Idx /\ ahead' \in BOOLEAN
  BY DEF WriteStep
<1>3. PollerOK'
  BY <1>2 DEF Inv, PollerOK
<1>4. \A i \in Nat : at[Polled] =< i => at'[Polled] =< i
  BY <1>1, SMT
<1>5. \A i \in DOMAIN seen : i \in Nat
  BY <1>1 DEF Inv, PollerOK
<1>6. ASSUME Polled \in DOMAIN objs', NEW i \in DOMAIN objs'[Polled].rows, i \notin B
      PROVE  /\ Polled \in DOMAIN objs /\ objs'[Polled].cols = objs[Polled].cols
             /\ i \in DOMAIN objs[Polled].rows /\ i \in Nat
             /\ objs'[Polled].rows[i] = objs[Polled].rows[i]
  <2>1. /\ Polled \in DOMAIN objs /\ objs'[Polled].cols = objs[Polled].cols
        /\ i \in DOMAIN objs[Polled].rows /\ objs'[Polled].rows[i] = objs[Polled].rows[i]
    BY <1>6 DEF WriteStep, PolledWrite
  <2>2. LogOK(Polled, objs[Polled])
    BY <2>1, PolledFacts DEF Inv, StoreOK
  <2> QED BY <2>1, <2>2, <1>1 DEF LogOK
<1>7. ASSUME NEW i \in B, i \notin theirs'
      PROVE  i \in Nat /\ at'[Polled] =< i /\ (i < at[Polled] \/ i = 0) /\ i \notin theirs
  BY <1>1, <1>2, <1>7 DEF WriteStep
<1>8. SeenOK'
  <2>1. \A i \in DOMAIN seen' \ theirs' : at'[Polled] =< i
    BY <1>2, <1>4, <1>5 DEF Inv, SeenOK
  <2>2. ASSUME Polled \in DOMAIN objs', NEW i \in DOMAIN objs'[Polled].rows \ theirs'
        PROVE  /\ at'[Polled] =< i
               /\ objs'[Polled].cols # <<>> /\ i > 0 /\ i \in DOMAIN seen
                      => seen[i] = Decoded(objs'[Polled].cols, objs'[Polled].rows[i])
    <3>1. CASE i \in B
      <4>1. i \in Nat /\ at'[Polled] =< i /\ (i < at[Polled] \/ i = 0) /\ i \notin theirs
        BY <2>2, <3>1, <1>7
      <4>2. i \in DOMAIN seen => at[Polled] =< i
        BY <4>1 DEF Inv, SeenOK
      <4>3. ~(i > 0 /\ i \in DOMAIN seen)
        BY <4>1, <4>2, <1>1, SMT
      <4> QED BY <4>1, <4>3
    <3>2. CASE i \notin B
      <4>1. /\ Polled \in DOMAIN objs /\ objs'[Polled].cols = objs[Polled].cols
            /\ i \in DOMAIN objs[Polled].rows /\ i \in Nat /\ i \notin theirs
            /\ objs'[Polled].rows[i] = objs[Polled].rows[i]
        BY <2>2, <3>2, <1>2, <1>6
      <4>2. /\ at[Polled] =< i
            /\ objs[Polled].cols # <<>> /\ i > 0 /\ i \in DOMAIN seen
                   => seen[i] = Decoded(objs[Polled].cols, objs[Polled].rows[i])
        BY <4>1 DEF Inv, SeenOK
      <4> QED BY <4>1, <4>2, <1>4
    <3> QED BY <3>1, <3>2
  <2> QED BY <2>1, <2>2, <1>2 DEF SeenOK
<1>9. CursorOK'
  <2> SUFFICES ASSUME ~ahead'
               PROVE  /\ \A i \in theirs' : at'[Polled] =< i
                      /\ logDir' = Decreasing /\ cursor' # None =>
                            /\ cursor' \in DOMAIN seen' \cup theirs'
                            /\ Polled \in DOMAIN objs' /\ objs'[Polled].cols # <<>> =>
                                   \A i \in DOMAIN objs'[Polled].rows \ theirs' :
                                       cursor' =< i => i \in DOMAIN seen'
    BY DEF CursorOK
  <2>1. ~ahead /\ \A j \in theirs' \ theirs : at'[Polled] =< j
    BY DEF WriteStep
  <2>2. \A i \in theirs : at[Polled] =< i
    BY <2>1 DEF Inv, CursorOK
  <2>3. \A i \in theirs' : at'[Polled] =< i
    <3>1. \A i \in theirs : i \in Nat
      BY <1>1, <1>2
    <3> QED BY <2>1, <2>2, <3>1, <1>4
  <2>4. ASSUME logDir = Decreasing, cursor # None PROVE cursor \in DOMAIN seen \cup theirs
    BY <2>1, <2>4 DEF Inv, CursorOK
  <2>5. ASSUME logDir = Decreasing, cursor # None, Polled \in DOMAIN objs', objs'[Polled].cols # <<>>,
               NEW i \in DOMAIN objs'[Polled].rows \ theirs', cursor =< i
        PROVE  i \in DOMAIN seen
    <3>1. CASE i \in B
      <4>1. i \in Nat /\ (i < at[Polled] \/ i = 0) /\ i \notin theirs
        BY <2>5, <3>1, <1>7
      <4>2. cursor \in Nat
        BY <2>5, <1>1 DEF Inv, PollerOK
      <4>3. cursor \in DOMAIN seen \cup theirs
        BY <2>4, <2>5
      <4>4. at[Polled] =< cursor
        BY <4>3, <2>2 DEF Inv, SeenOK
      <4>5. cursor = i
        BY <4>1, <4>2, <4>4, <2>5, <1>1, SMT
      <4> QED BY <4>1, <4>3, <4>5
    <3>2. CASE i \notin B
      <4>1. /\ Polled \in DOMAIN objs /\ objs[Polled].cols # <<>>
            /\ i \in DOMAIN objs[Polled].rows \ theirs
        BY <2>5, <3>2, <1>2, <1>6
      <4> QED BY <4>1, <2>1, <2>5 DEF Inv, CursorOK
    <3> QED BY <3>1, <3>2
  <2> QED BY <2>3, <2>4, <2>5, <1>2
<1> QED BY <1>3, <1>8, <1>9

\* A step that leaves the polled log, the simulator's place in it and the poller
\* alone.
LEMMA QuietStep ==
    ASSUME Inv, StoreOK(objs'), PolledWrite(objs, objs', {}), UNCHANGED poller, UNCHANGED foreign,
           at'[Polled] = at[Polled]
    PROVE  PollerOK' /\ SeenOK' /\ CursorOK'
<1>1. at[Polled] \in Idx /\ Idx \subseteq Nat
  BY FleetLogFacts, ConstantFacts DEF Inv, SimOK, Idx
<1>2. WriteStep({})
  <2>1. \A n \in Nat : n =< n
    BY SMT
  <2>2. at'[Polled] \in Idx /\ at'[Polled] =< at[Polled]
    BY <1>1, <2>1, Zenon
  <2>3. theirs' = theirs /\ ahead' = ahead /\ theirs \subseteq Idx /\ ahead \in BOOLEAN
    BY DEF foreign, Inv, PollerOK
  <2> QED BY <2>2, <2>3 DEF WriteStep, poller
<1> QED BY <1>2, WriteKeepsPoller

\* A call leaves the store as it is, or does what it does.
LEMMA CallFacts ==
    ASSUME Inv, NEW after, NEW B, StoreOK(after), PolledWrite(objs, after, B),
           Answered(after) \/ Raised(after)
    PROVE  /\ StoreOK(objs') /\ PolledWrite(objs, objs', B)
           /\ disturbances' \in 0..MaxDisturbances
<1>1. objs' = objs \/ objs' = after
  BY DEF Answered, Raised
<1>2. StoreOK(objs) /\ PolledWrite(objs, objs, B)
  BY DEF Inv, PolledWrite
<1>3. disturbances \in 0..MaxDisturbances /\ MaxDisturbances \in Nat
  BY ConstantFacts DEF Inv, SimOK
<1>4. disturbances' \in 0..MaxDisturbances
  <2>1. disturbances' = disturbances
        \/ (disturbances < MaxDisturbances /\ disturbances' = disturbances + 1)
    BY DEF Answered, Raised, Disturb
  <2> QED BY <1>3, <2>1, SMT
<1>5. CASE objs' = objs
  BY <1>2, <1>4, <1>5
<1>6. CASE objs' = after
  BY <1>4, <1>6
<1> QED BY <1>1, <1>5, <1>6

\* _wait_for_server keeps it.
LEMMA WaitKeeps == Inv /\ WaitForServer => Inv'
<1> SUFFICES ASSUME Inv, WaitForServer PROVE Inv'
  OBVIOUS
<1>1. /\ objs' = objs /\ tickNo' = tickNo /\ missing' = missing /\ at' = at
      /\ logDir' = logDir /\ cursor' = cursor /\ seen' = seen
      /\ theirs' = theirs /\ ahead' = ahead /\ writes' = writes
  BY DEF WaitForServer, poller, foreign
<1>2. /\ pc = "wait"
      /\ \/ pc' = "seed" /\ pos' = 1 /\ disturbances' = disturbances
         \/ /\ disturbances < MaxDisturbances /\ disturbances' = disturbances + 1
            /\ \/ pc' = "seed" /\ pos' = 1
               \/ pos # Attempts /\ pc' = pc /\ pos' = pos + 1
  BY DEF WaitForServer, Disturb
<1>3. pos \in 1..Attempts
  BY <1>2 DEF Inv, SimOK, Positions
<1>4. disturbances' \in 0..MaxDisturbances
  <2>1. disturbances \in 0..MaxDisturbances /\ MaxDisturbances \in Nat
    BY ConstantFacts DEF Inv, SimOK
  <2> QED BY <2>1, <1>2, SMT
<1>5. pos' \in Positions'
  <2>1. CASE pc' = "seed" /\ pos' = 1
    <3>1. 1 \in 1..SeedLength
      BY PlanLengths, SMT
    <3> QED BY <2>1, <3>1 DEF Positions
  <2>2. CASE pos # Attempts /\ pc' = pc /\ pos' = pos + 1
    <3>1. pos + 1 \in 1..Attempts
      BY <1>3, <2>2, ConstantFacts, SMT
    <3> QED BY <2>2, <3>1, <1>2 DEF Positions
  <2> QED BY <2>1, <2>2, <1>2
<1>6. SimOK'
  BY <1>1, <1>2, <1>4, <1>5 DEF Inv, SimOK
<1>7. StoreOK(objs') /\ PollerOK' /\ SeenOK' /\ CursorOK'
  BY <1>1 DEF Inv, PollerOK, SeenOK, CursorOK
<1> QED BY <1>6, <1>7 DEF Inv

\* So does the sleep between ticks.
LEMMA WakeKeeps == Inv /\ Wake => Inv'
<1> SUFFICES ASSUME Inv, Wake PROVE Inv'
  OBVIOUS
<1>1. /\ objs' = objs /\ at' = at /\ logDir' = logDir /\ cursor' = cursor /\ seen' = seen
      /\ theirs' = theirs /\ ahead' = ahead
      /\ disturbances' = disturbances /\ writes' = writes
      /\ pc' = "tick" /\ pos' = 1 /\ missing' = FALSE
      /\ tickNo' = (tickNo + 1) % (BurstEvery * Len(Fleet))
  BY DEF Wake, poller, foreign
<1>2. tickNo' \in 0..(BurstEvery * Len(Fleet) - 1)
  <2>1. tickNo + 1 \in Nat
    <3>1. tickNo \in 0..(BurstEvery * Len(Fleet) - 1)
      BY DEF Inv, SimOK
    <3> QED BY <3>1, SMT
  <2> QED BY <2>1, <1>1, TickNoWraps
<1>3. pos' \in Positions'
  <2>1. 1 \in 1..TickLength
    BY PlanLengths, SMT
  <2> QED BY <2>1, <1>1 DEF Positions
<1>4. SimOK'
  BY <1>1, <1>2, <1>3 DEF Inv, SimOK
<1>5. StoreOK(objs') /\ PollerOK' /\ SeenOK' /\ CursorOK'
  BY <1>1 DEF Inv, PollerOK, SeenOK, CursorOK
<1> QED BY <1>4, <1>5 DEF Inv

\* A batch of rows for a log of the fleet advances the log, and the polled log
\* towards the surface.
LEMMA AdvancedFacts ==
    ASSUME Inv, NEW key \in FleetLogs, NEW n \in Nat \ {0}, NEW allowNull, NEW raised,
           NEW batch \in Batches(key, at[key], n, allowNull)
    PROVE  LET next == Advanced(key, batch, raised)
           IN  /\ next \in [FleetLogs -> Idx] /\ next[Polled] =< at[Polled]
               /\ \A j \in IF key = Polled THEN Parsed(batch) ELSE {} :
                      j \in Idx /\ next[Polled] =< j /\ (j < at[Polled] \/ j = 0)
<1> DEFINE last == batch.data[Len(batch.data)].i
           next == [at EXCEPT ![key] = last]
<1>1. at \in [FleetLogs -> Idx]
  BY DEF Inv, SimOK
<1>2. at[key] \in Idx /\ at[Polled] \in Idx /\ Polled \in FleetLogs
  BY <1>1, FleetLogFacts
<1>3. last \in Idx
  BY <1>2, BatchFacts
<1>4. ASSUME key = Polled
      PROVE  /\ last =< at[Polled]
             /\ \A j \in Parsed(batch) : j \in Idx /\ last =< j /\ (j < at[Polled] \/ j = 0)
  <2>1. batch \in Batches(Polled, at[Polled], n, allowNull) /\ at[Polled] \in Idx
    BY <1>2, <1>4
  <2> QED BY <2>1, PolledBatch
<1> HIDE DEF last
<1>5. next \in [FleetLogs -> Idx] /\ next[Polled] = IF key = Polled THEN last ELSE at[Polled]
  BY <1>1, <1>2, <1>3
<1>6. at[Polled] =< at[Polled]
  <2>1. at[Polled] \in Nat
    BY <1>2, ConstantFacts DEF Idx
  <2> QED BY <2>1, SMT
<1>7. Advanced(key, batch, raised) = next
  BY DEF Advanced, last
<1> HIDE DEF next
<1> QED BY <1>4, <1>5, <1>6, <1>7

\* What a call of seed_fleet does to the store.
LEMMA SeedObjectFacts ==
    ASSUME Inv, NEW key \in FleetKeys, key.kind = "log" => key \in FleetLogs, NEW batch,
           key.kind = "log" => \A log : BatchOK(log, batch)
    PROVE  LET after == SeedObject(key, batch)
           IN  /\ StoreOK(after) /\ KeepsAll(objs, after)
               /\ PolledWrite(objs, after, IF key = Polled THEN Parsed(batch) ELSE {})
<1> DEFINE obj == CASE key.kind = "log" -> Log(DirOf(key), Default, ColsOf(key), FALSE, <<>>)
                    [] key.kind = "mudLog" -> MudLog(FALSE, Intervals)
                    [] OTHER -> Verbatim
<1>1. SeedObject(key, batch) = AddObject(objs, key, obj, batch)
  BY DEF SeedObject
<1>2. ASSUME key.kind = "log"
      PROVE  key \in FleetLogs /\ LogOK(key, obj) /\ obj.rows = <<>> /\ BatchOK(obj, batch)
  <2>1. obj = Log(DirOf(key), Default, ColsOf(key), FALSE, <<>>)
    BY <1>2
  <2> HIDE DEF obj
  <2>2. LogOK(key, Log(DirOf(key), Default, ColsOf(key), FALSE, <<>>))
    <3>1. DirOf(key) \in Directions /\ Default \in {Default, "-1"} /\ ColsOf(key) \in Seq(Mnemonics)
      BY ColsFacts, Zenon DEF DirOf, Directions
    <3> QED BY <3>1, HeaderIsLog
  <2>3. obj.rows = <<>>
    BY <2>1 DEF Log
  <2> QED BY <1>2, <2>1, <2>2, <2>3
<1>3. StoreOK(objs)
  BY DEF Inv
<1> HIDE DEF obj
<1> DEFINE after == AddObject(objs, key, obj, batch)
<1>4. /\ StoreOK(after) /\ KeepsAll(objs, after)
      /\ PolledWrite(objs, after, IF key = Polled THEN Parsed(batch) ELSE {})
  BY <1>2, <1>3, AddStep
<1> HIDE DEF after
<1>5. SeedObject(key, batch) = after
  BY <1>1 DEF after
<1> QED BY <1>4, <1>5

\* Seeding keeps the invariant.
LEMMA SeedKeeps == Inv /\ Seed => Inv'
<1> SUFFICES ASSUME Inv, Seed PROVE Inv'
  OBVIOUS
<1> DEFINE key == SeedCall(pos)
           next(batch) == IF key.kind = "log" THEN Advanced(key, batch, FALSE) ELSE at
<1>1. /\ pc \in {"seed", "reseed"} /\ SeedStep
      /\ logDir' = logDir /\ cursor' = cursor /\ seen' = seen
      /\ theirs' = theirs /\ ahead' = ahead /\ writes' = writes
  BY DEF Seed, poller, foreign
<1>2. PICK batch \in IF key.kind = "log" THEN Batches(key, SeedFrom(key), 1, FALSE) ELSE {NoBatch} :
          /\ Answered(SeedObject(key, batch)) \/ Raised(SeedObject(key, batch))
          /\ at' = next(batch)
  BY DEF Seed
<1> DEFINE B == IF key = Polled THEN Parsed(batch) ELSE {}
<1>3. pos \in 1..SeedLength
  BY <1>1 DEF Inv, SimOK, Positions
<1>4. key \in FleetKeys /\ (key.kind = "log" => key \in FleetLogs)
  BY <1>3, SeedCallFacts
<1> HIDE DEF key
<1>5. key.kind = "log" => batch \in Batches(key, at[key], 1, FALSE)
  BY <1>2 DEF SeedFrom
<1>6. at \in [FleetLogs -> Idx] /\ at[Polled] \in Idx /\ at[Polled] =< at[Polled] /\ Polled \in FleetLogs
  <2>1. at \in [FleetLogs -> Idx] /\ Polled \in FleetLogs
    BY FleetLogFacts DEF Inv, SimOK
  <2>2. at[Polled] \in Idx
    BY <2>1
  <2>3. Idx \subseteq Nat /\ \A n \in Nat : n =< n
    BY ConstantFacts DEF Idx
  <2> QED BY <2>1, <2>2, <2>3, Zenon
<1>7. key.kind = "log" => \A log : BatchOK(log, batch)
  <2> SUFFICES ASSUME key.kind = "log" PROVE \A log : BatchOK(log, batch)
    OBVIOUS
  <2>1. at[key] \in Idx /\ 1 \in Nat \ {0}
    BY <1>4, <1>6
  <2> QED BY <1>5, <2>1, BatchFacts
<1>8. StoreOK(SeedObject(key, batch)) /\ PolledWrite(objs, SeedObject(key, batch), B)
  BY <1>4, <1>7, SeedObjectFacts
<1>9. StoreOK(objs') /\ PolledWrite(objs, objs', B) /\ disturbances' \in 0..MaxDisturbances
  <2> HIDE DEF B
  <2> QED BY <1>2, <1>8, CallFacts
<1>10. /\ at' \in [FleetLogs -> Idx] /\ at'[Polled] =< at[Polled]
       /\ \A j \in B : j \in Idx /\ at'[Polled] =< j /\ (j < at[Polled] \/ j = 0)
  <2>1. CASE key.kind = "log"
    <3>1. at' = Advanced(key, batch, FALSE) /\ key \in FleetLogs
      BY <1>2, <1>4, <2>1
    <3>2. 1 \in Nat \ {0}
      OBVIOUS
    <3> DEFINE nxt == Advanced(key, batch, FALSE)
    <3>3. /\ nxt \in [FleetLogs -> Idx] /\ nxt[Polled] =< at[Polled]
          /\ \A j \in B : j \in Idx /\ nxt[Polled] =< j /\ (j < at[Polled] \/ j = 0)
      BY <3>1, <3>2, <1>5, <2>1, AdvancedFacts
    <3> HIDE DEF nxt, B
    <3>4. at' = nxt
      BY <3>1 DEF nxt
    <3> QED BY <3>3, <3>4
  <2>2. CASE key.kind # "log"
    <3>1. at' = at /\ B = {}
      BY <1>2, <2>2, PolledFacts
    <3> HIDE DEF B
    <3> QED BY <3>1, <1>6
  <2> QED BY <2>1, <2>2
<1> HIDE DEF B
<1>11. WriteStep(B)
  <2>1. at'[Polled] \in Idx
    BY <1>6, <1>10
  <2>2. theirs \subseteq Idx /\ ahead \in BOOLEAN
    BY DEF Inv, PollerOK
  <2> QED BY <1>1, <1>9, <1>10, <2>1, <2>2 DEF WriteStep
<1>12. PollerOK' /\ SeenOK' /\ CursorOK'
  BY <1>11, WriteKeepsPoller
<1>13. /\ pc' \in {"seed", "reseed", "tick", "sleep"} /\ pos' \in Positions'
       /\ tickNo' \in 0..(BurstEvery * Len(Fleet) - 1) /\ missing' \in BOOLEAN
  <2>0. tickNo \in 0..(BurstEvery * Len(Fleet) - 1) /\ missing \in BOOLEAN
    BY DEF Inv, SimOK
  <2>1. CASE pos < SeedLength
    <3>1. pos' = pos + 1 /\ pc' = pc /\ tickNo' = tickNo /\ missing' = missing
      BY <1>1, <2>1 DEF SeedStep
    <3>2. pos + 1 \in 1..SeedLength
      BY <1>3, <2>1, PlanLengths, SMT
    <3> QED BY <1>1, <2>0, <3>1, <3>2 DEF Positions
  <2>2. CASE ~(pos < SeedLength)
    <3>1. pos' = 1 /\ 1 \in 1..TickLength
      BY <1>1, <2>2, PlanLengths, SMT DEF SeedStep
    <3>2. CASE pc = "seed"
      <4>1. pc' = "tick" /\ tickNo' = 1 % (BurstEvery * Len(Fleet)) /\ missing' = FALSE
        BY <1>1, <2>2, <3>2 DEF SeedStep
      <4>2. tickNo' \in 0..(BurstEvery * Len(Fleet) - 1)
        BY <4>1, TickNoWraps
      <4> QED BY <3>1, <4>1, <4>2 DEF Positions
    <3>3. CASE pc # "seed"
      <4>1. pc' = "sleep" /\ tickNo' = tickNo /\ missing' = missing
        BY <1>1, <2>2, <3>3 DEF SeedStep
      <4> QED BY <2>0, <3>1, <4>1 DEF Positions
    <3> QED BY <3>2, <3>3
  <2> QED BY <2>1, <2>2
<1>14. SimOK'
  <2>1. writes' \in 0..MaxWrites
    BY <1>1 DEF Inv, SimOK
  <2> QED BY <1>9, <1>10, <1>13, <2>1 DEF SimOK
<1> QED BY <1>9, <1>12, <1>14 DEF Inv

\* A tick's updates keep it.
LEMMA UpdateKeeps == Inv /\ Update => Inv'
<1> SUFFICES ASSUME Inv, Update PROVE Inv'
  OBVIOUS
<1> DEFINE key == TickCall(pos)
           n == Rows(key.well)
<1>1. /\ pc = "tick" /\ tickNo' = tickNo
      /\ logDir' = logDir /\ cursor' = cursor /\ seen' = seen
      /\ theirs' = theirs /\ ahead' = ahead /\ writes' = writes
      /\ IF pos < TickLength THEN pos' = pos + 1 /\ pc' = pc
         ELSE pos' = 1 /\ pc' = IF missing' THEN "reseed" ELSE "sleep"
  BY DEF Update, poller, foreign
<1>2. PICK batch \in Batches(key, at[key], n, TRUE) :
          LET after == UpdateObject(objs, key, batch, <<>>)
          IN  \/ /\ Answered(after)
                 /\ missing' = Flagged(missing, UpdateCode(objs, key))
                 /\ at' = Advanced(key, batch, FALSE)
              \/ Raised(after) /\ missing' = missing /\ at' = Advanced(key, batch, TRUE)
  BY DEF Update
<1> DEFINE B == IF key = Polled THEN Parsed(batch) ELSE {}
           after == UpdateObject(objs, key, batch, <<>>)
<1>3. pos \in 1..TickLength
  BY <1>1 DEF Inv, SimOK, Positions
<1>4. key \in FleetLogs /\ n \in Nat \ {0}
  <2>1. key \in FleetLogs
    BY <1>3, TickCallFacts
  <2>2. n \in {1, BurstRows}
    BY DEF Rows
  <2>3. 1 \in Nat \ {0} /\ BurstRows \in Nat \ {0}
    BY ConstantFacts
  <2> QED BY <2>1, <2>2, <2>3, Zenon
<1> HIDE DEF key, n
<1>5. \/ Answered(after) /\ missing' = Flagged(missing, UpdateCode(objs, key))
      \/ Raised(after) /\ missing' = missing
  BY <1>2
<1>6. at' = Advanced(key, batch, FALSE)
  BY <1>2 DEF Advanced
<1>7. at \in [FleetLogs -> Idx] /\ Polled \in FleetLogs /\ StoreOK(objs) /\ missing \in BOOLEAN
  BY FleetLogFacts DEF Inv, SimOK
<1>8. \A log : BatchOK(log, batch)
  <2>1. at[key] \in Idx
    BY <1>4, <1>7
  <2> QED BY <1>4, <2>1, BatchFacts
<1>9. StoreOK(after) /\ PolledWrite(objs, after, B)
  BY <1>7, <1>8, UpdateStep
<1> HIDE DEF after, B
<1>10. StoreOK(objs') /\ PolledWrite(objs, objs', B) /\ disturbances' \in 0..MaxDisturbances
  BY <1>5, <1>9, CallFacts
<1> DEFINE nxt == Advanced(key, batch, FALSE)
<1>11. /\ nxt \in [FleetLogs -> Idx] /\ nxt[Polled] =< at[Polled]
       /\ \A j \in B : j \in Idx /\ nxt[Polled] =< j /\ (j < at[Polled] \/ j = 0)
  BY <1>2, <1>4, AdvancedFacts DEF B
<1> HIDE DEF nxt
<1>12. at' = nxt
  BY <1>6 DEF nxt
<1>13. WriteStep(B)
  <2>1. at'[Polled] \in Idx
    BY <1>7, <1>11, <1>12
  <2>2. theirs \subseteq Idx /\ ahead \in BOOLEAN
    BY DEF Inv, PollerOK
  <2> QED BY <1>1, <1>10, <1>11, <1>12, <2>1, <2>2 DEF WriteStep
<1>14. PollerOK' /\ SeenOK' /\ CursorOK'
  BY <1>13, WriteKeepsPoller
<1>15. missing' \in BOOLEAN
  BY <1>5, <1>7 DEF Flagged
<1>16. pc' \in {"tick", "reseed", "sleep"} /\ pos' \in Positions'
  <2>1. CASE pos < TickLength
    <3>1. pos + 1 \in 1..TickLength
      BY <1>3, <2>1, PlanLengths, SMT
    <3> QED BY <1>1, <2>1, <3>1 DEF Positions
  <2>2. CASE ~(pos < TickLength)
    <3>1. 1 \in 1..SeedLength
      BY PlanLengths, SMT
    <3> QED BY <1>1, <2>2, <3>1 DEF Positions
  <2> QED BY <2>1, <2>2
<1>17. SimOK'
  <2>1. /\ writes' \in 0..MaxWrites
        /\ tickNo' \in 0..(BurstEvery * Len(Fleet) - 1)
    BY <1>1 DEF Inv, SimOK
  <2> QED BY <1>10, <1>11, <1>12, <1>15, <1>16, <2>1 DEF SimOK
<1> QED BY <1>10, <1>14, <1>17 DEF Inv

\* A disturbance that leaves the simulator alone keeps the simulator's part.
LEMMA SimUntouched ==
    ASSUME Inv, UNCHANGED sim, disturbances' \in 0..MaxDisturbances,
           writes' \in 0..MaxWrites
    PROVE  SimOK' /\ at'[Polled] = at[Polled]
<1>1. pc' = pc /\ pos' = pos /\ tickNo' = tickNo /\ missing' = missing /\ at' = at
  BY DEF sim
<1>2. Positions' = Positions
  BY <1>1 DEF Positions
<1> QED BY <1>1, <1>2 DEF Inv, SimOK

\* A restart of the store keeps the invariant, and so does a delete.
LEMMA LossKeeps == Inv /\ (Reset \/ Delete) => Inv'
<1> SUFFICES ASSUME Inv, Reset \/ Delete PROVE Inv'
  OBVIOUS
<1>1. /\ UNCHANGED sim /\ UNCHANGED poller /\ UNCHANGED foreign /\ writes' = writes
      /\ disturbances < MaxDisturbances /\ disturbances' = disturbances + 1
  BY DEF Reset, Delete, Disturb
<1>2. DOMAIN objs' \subseteq DOMAIN objs /\ \A k \in DOMAIN objs' : objs'[k] = objs[k]
  <2>1. CASE Reset
    <3>1. DOMAIN objs' = {}
      BY <2>1 DEF Reset
    <3> QED BY <3>1
  <2>2. CASE Delete
    <3>1. PICK key \in DOMAIN objs : objs' = Removed(objs, key)
      BY <2>2 DEF Delete, DeleteObject
    <3> QED BY <3>1 DEF Removed
  <2> QED BY <2>1, <2>2
<1>3. StoreOK(objs') /\ PolledWrite(objs, objs', {})
  BY <1>2 DEF Inv, StoreOK, PolledWrite
<1>4. disturbances' \in 0..MaxDisturbances /\ writes' \in 0..MaxWrites
  <2>1. disturbances \in 0..MaxDisturbances /\ MaxDisturbances \in Nat
    BY ConstantFacts DEF Inv, SimOK
  <2>2. disturbances' \in 0..MaxDisturbances
    BY <1>1, <2>1, SMT
  <2> QED BY <1>1, <2>2 DEF Inv, SimOK
<1>5. SimOK' /\ at'[Polled] = at[Polled]
  BY <1>1, <1>4, SimUntouched
<1>6. PollerOK' /\ SeenOK' /\ CursorOK'
  BY <1>1, <1>3, <1>5, QuietStep
<1> QED BY <1>3, <1>5, <1>6 DEF Inv

\* A write of another client leaves the simulator and the poller alone.
LEMMA WriteFacts ==
    ASSUME Inv, NEW after, NEW B, Write(after), StoreOK(after), PolledWrite(objs, after, B)
    PROVE  /\ UNCHANGED poller /\ SimOK' /\ at'[Polled] = at[Polled]
           /\ StoreOK(objs') /\ PolledWrite(objs, objs', B)
<1>1. /\ UNCHANGED sim /\ UNCHANGED poller
      /\ writes < MaxWrites /\ writes' = writes + 1
      /\ Answered(after) \/ Raised(after)
  BY DEF Write
<1>2. StoreOK(objs') /\ PolledWrite(objs, objs', B) /\ disturbances' \in 0..MaxDisturbances
  BY <1>1, CallFacts
<1>3. writes' \in 0..MaxWrites
  <2>1. writes \in 0..MaxWrites /\ MaxWrites \in Nat
    BY ConstantFacts DEF Inv, SimOK
  <2> QED BY <1>1, <2>1, SMT
<1>4. SimOK' /\ at'[Polled] = at[Polled]
  BY <1>1, <1>2, <1>3, SimUntouched
<1> QED BY <1>1, <1>2, <1>4

\* An add without rows can be merged into any log, and writes nothing.
LEMMA NoBatchFacts ==
    /\ Parsed(NoBatch) = {}
    /\ \A log : log.cols \in Seq(Mnemonics) => BatchOK(log, NoBatch)
<1>1. NoBatch.cols = <<>> /\ NoBatch.data = <<>> /\ DOMAIN NoBatch.data = {}
  BY DEF NoBatch
<1>2. 0 \in Nat /\ DOMAIN NoBatch.data = 1..0
  BY <1>1
<1> QED BY <1>1, <1>2 DEF Parsed, BatchOK

\* What POST /store/log creates of the polled log is a log without rows.
LEMMA HeaderFacts ==
    ASSUME NEW h \in HeadersBefore(Polled)
    PROVE  LogOK(Polled, h) /\ h.rows = <<>> /\ h.cols \in Seq(Mnemonics)
<1> DEFINE cols == ColsOf(Polled)
           swapped == [p \in 1..Len(cols) |->
                          cols[IF p = 2 THEN Len(cols) ELSE IF p = Len(cols) THEN 2 ELSE p]]
<1>1. cols \in Seq(Mnemonics) /\ Len(cols) \in Nat /\ Len(cols) > 1
  BY ColsFacts
<1>2. swapped \in Seq(Mnemonics)
  <2> HIDE DEF cols
  <2>1. \A p \in 1..Len(cols) :
            cols[IF p = 2 THEN Len(cols) ELSE IF p = Len(cols) THEN 2 ELSE p] \in Mnemonics
    BY <1>1
  <2>2. swapped \in [1..Len(cols) -> Mnemonics]
    BY <2>1
  <2> QED BY <2>2, <1>1
<1>3. Append(cols, "C3") \in Seq(Mnemonics) /\ <<>> \in Seq(Mnemonics)
  <2> HIDE DEF cols
  <2>1. "C3" \in Mnemonics
    BY DEF Mnemonics
  <2> QED BY <1>1, <2>1
<1>4. \E dir \in Directions :
          \/ h = Log(dir, Default, swapped, FALSE, <<>>)
          \/ h = Log(dir, "-1", Append(cols, "C3"), FALSE, <<>>)
          \/ h = Log(dir, Default, <<>>, FALSE, <<>>)
  BY DEF HeadersBefore
<1>8. swapped[1] = cols[1] /\ Append(cols, "C3")[1] = cols[1]
  <2> HIDE DEF cols
  <2> QED BY <1>1
<1> HIDE DEF cols, swapped
<1>5. PICK dir \in Directions, nul \in {Default, "-1"}, c \in Seq(Mnemonics) :
          h = Log(dir, nul, c, FALSE, <<>>) /\ (c # <<>> => c[1] = cols[1])
  BY <1>2, <1>3, <1>4, <1>8
<1>6. LogOK(Polled, h)
  BY <1>5, HeaderIsLog DEF cols
<1>7. h.rows = <<>>
  BY <1>5 DEF Log
<1> QED BY <1>6, <1>7 DEF LogOK

\* What POST /store/add does to the store.
LEMMA StoreAddFacts ==
    ASSUME Inv, NEW add \in OtherAdds
    PROVE  LET after == AddObject(objs, add[1], add[2], NoBatch)
           IN  StoreOK(after) /\ KeepsAll(objs, after) /\ PolledWrite(objs, after, {})
<1> DEFINE key == add[1]
           obj == add[2]
           after == AddObject(objs, key, obj, NoBatch)
<1>1. StoreOK(objs)
  BY DEF Inv
<1>2. \/ key.kind # "log"
      \/ key = Polled /\ obj \in HeadersBefore(Polled)
  <2> DEFINE Others == {WellKey(Other), Key("well", "", "", ""), Key("trajectory", "", "", Other)}
  <2>1. \A k \in Others : k.kind # "log"
    <3>1. \A b, c, d : Key("well", b, c, d).kind = "well" /\ Key("trajectory", b, c, d).kind = "trajectory"
      BY DEF Key
    <3>2. \A k \in Others : k.kind \in {"well", "trajectory"}
      BY <3>1, Zenon DEF WellKey
    <3> HIDE DEF Others
    <3> QED BY <3>2
  <2>2. add \in {<<k, Verbatim>> : k \in Others} \cup {<<Polled, h>> : h \in HeadersBefore(Polled)}
    BY DEF OtherAdds, Polled
  <2> HIDE DEF Others
  <2>3. CASE add \in {<<k, Verbatim>> : k \in Others}
    BY <2>1, <2>3
  <2>4. CASE add \in {<<Polled, h>> : h \in HeadersBefore(Polled)}
    BY <2>4
  <2> QED BY <2>2, <2>3, <2>4
<1> HIDE DEF key, obj
<1>3. key.kind = "log" => /\ key \in FleetLogs /\ LogOK(key, obj)
                          /\ obj.rows = <<>> /\ BatchOK(obj, NoBatch)
  BY <1>2, HeaderFacts, NoBatchFacts, FleetLogFacts
<1>4. /\ StoreOK(after) /\ KeepsAll(objs, after)
      /\ PolledWrite(objs, after, IF key = Polled THEN Parsed(NoBatch) ELSE {})
  BY <1>1, <1>3, AddStep
<1>5. (IF key = Polled THEN Parsed(NoBatch) ELSE {}) = {}
  BY NoBatchFacts
<1> HIDE DEF after
<1>6. StoreOK(after) /\ KeepsAll(objs, after) /\ PolledWrite(objs, after, {})
  BY <1>4, <1>5
<1> QED BY <1>6 DEF after, key, obj

\* What POST /store/update does to the store.
LEMMA StoreUpdateFacts ==
    ASSUME Inv, NEW key \in OtherUpdates, NEW j \in Idx
    PROVE  LET after == UpdateObject(objs, key, OtherBatch(key, j), <<Intervals[1]>>)
           IN  /\ StoreOK(after) /\ KeepsAll(objs, after)
               /\ PolledWrite(objs, after, IF key = Polled THEN {j} ELSE {})
<1> DEFINE batch == OtherBatch(key, j)
           after == UpdateObject(objs, key, batch, <<Intervals[1]>>)
           c == ColsOf(key)[1]
<1>1. StoreOK(objs)
  BY DEF Inv
<1>2. /\ batch.cols = <<>> /\ DOMAIN batch.data = 1..2 /\ batch.data[1].i = None
      /\ batch.data[2].i = j /\ batch.data[2].cells = <<c>>
  BY DEF OtherBatch
<1>3. j # None /\ \A n \in 1..2 : n = 1 \/ n = 2
  BY ConstantFacts DEF Idx
<1> HIDE DEF batch, c
<1>4. Parsed(batch) = {j}
  <2>1. 1 \in 1..2 /\ 2 \in 1..2
    OBVIOUS
  <2>2. \A i : i \in Parsed(batch) <=> i # None /\ \E n \in 1..2 : batch.data[n].i = i
    BY <1>2 DEF Parsed
  <2>3. \A i : i \in Parsed(batch) <=> i = j
    BY <1>2, <1>3, <2>1, <2>2, Zenon
  <2> QED BY <2>3
<1>5. ASSUME key.kind = "log", key \in DOMAIN objs PROVE BatchOK(objs[key], batch)
  <2> DEFINE cols == objs[key].cols
  <2>1. cols \in Seq(Mnemonics) /\ (cols # <<>> => cols[1] = c)
    BY <1>1, <1>5 DEF StoreOK, LogOK, c
  <2>2. Len(<<c>>) = 1 /\ <<c>>[1] = c
    OBVIOUS
  <2> HIDE DEF cols
  <2>3. ASSUME NEW p \in 1..Len(cols), p =< 1 PROVE <<c>>[p] \in {cols[p], Default}
    <3>1. Len(cols) \in Nat /\ p = 1
      BY <2>1, <2>3
    <3>2. cols # <<>>
      BY <2>1, <2>3, <3>1
    <3> QED BY <3>1, <3>2, <2>1, <2>2
  <2>4. ASSUME NEW n \in DOMAIN batch.data, batch.data[n].i # None
        PROVE  /\ batch.data[n].i \in Idx
               /\ Len(batch.data[n].cells) \in Nat
               /\ \A p \in 1..Len(cols) : p =< Len(batch.data[n].cells) =>
                      batch.data[n].cells[p] \in {cols[p], Default}
    <3>1. n = 2
      BY <1>2, <1>3, <2>4
    <3> QED BY <3>1, <1>2, <2>2, <2>3
  <2>5. 2 \in Nat
    OBVIOUS
  <2> QED BY <2>1, <2>4, <2>5, <1>2 DEF BatchOK, cols
<1>6. /\ StoreOK(after) /\ KeepsAll(objs, after)
      /\ PolledWrite(objs, after, IF key = Polled THEN Parsed(batch) ELSE {})
  BY <1>1, <1>5, UpdateStep
<1> HIDE DEF after
<1>7. PolledWrite(objs, after, IF key = Polled THEN {j} ELSE {})
  BY <1>4, <1>6
<1> QED BY <1>6, <1>7 DEF after, batch

\* The writes of others keep the invariant.
LEMMA OthersKeep == Inv /\ (StoreAdd \/ StoreUpdate) => Inv'
<1> SUFFICES ASSUME Inv, StoreAdd \/ StoreUpdate PROVE Inv'
  OBVIOUS
<1>1. CASE StoreAdd
  <2>1. PICK add \in OtherAdds : Write(AddObject(objs, add[1], add[2], NoBatch))
    BY <1>1 DEF StoreAdd
  <2> DEFINE after == AddObject(objs, add[1], add[2], NoBatch)
  <2>2. StoreOK(after) /\ PolledWrite(objs, after, {})
    BY StoreAddFacts
  <2> HIDE DEF after
  <2>3. Write(after)
    BY <2>1 DEF after
  <2>4. /\ UNCHANGED poller /\ SimOK' /\ at'[Polled] = at[Polled]
        /\ StoreOK(objs') /\ PolledWrite(objs, objs', {})
    BY <2>2, <2>3, WriteFacts
  <2>5. UNCHANGED foreign
    BY <1>1 DEF StoreAdd
  <2> QED BY <2>4, <2>5, QuietStep DEF Inv
<1>2. CASE StoreUpdate
  <2>0. PICK key \in OtherUpdates : \E j \in IF key = Polled THEN Idx ELSE {0} :
            /\ Write(UpdateObject(objs, key, OtherBatch(key, j), <<Intervals[1]>>))
            /\ IF key = Polled /\ objs' # objs
               THEN /\ theirs' = theirs \cup {j}
                    /\ ahead' = (ahead \/ IsBeyond(j, at[Polled], DirOf(Polled)))
               ELSE UNCHANGED foreign
    BY <1>2 DEF StoreUpdate
  <2>1. PICK j \in IF key = Polled THEN Idx ELSE {0} :
            /\ Write(UpdateObject(objs, key, OtherBatch(key, j), <<Intervals[1]>>))
            /\ IF key = Polled /\ objs' # objs
               THEN /\ theirs' = theirs \cup {j}
                    /\ ahead' = (ahead \/ IsBeyond(j, at[Polled], DirOf(Polled)))
               ELSE UNCHANGED foreign
    BY <2>0
  <2>2. j \in Idx
    BY <2>1, ConstantFacts DEF Idx
  <2> DEFINE after == UpdateObject(objs, key, OtherBatch(key, j), <<Intervals[1]>>)
             B == IF key = Polled THEN {j} ELSE {}
  <2>3. StoreOK(after) /\ PolledWrite(objs, after, B)
    BY <2>2, StoreUpdateFacts
  <2> HIDE DEF after, B
  <2>4. Write(after)
    BY <2>1 DEF after
  <2>5. /\ UNCHANGED poller /\ SimOK' /\ at'[Polled] = at[Polled]
        /\ StoreOK(objs') /\ PolledWrite(objs, objs', B)
    BY <2>3, <2>4, WriteFacts
  <2>6. CASE key = Polled /\ objs' # objs
    <3>1. at[Polled] \in Idx /\ Idx \subseteq Nat /\ theirs \subseteq Idx /\ ahead \in BOOLEAN
      BY FleetLogFacts, ConstantFacts DEF Inv, SimOK, PollerOK, Idx
    <3>2. /\ theirs' = theirs \cup {j}
          /\ ahead' = (ahead \/ IsBeyond(j, at[Polled], DirOf(Polled)))
      BY <2>1, <2>6
    <3>3. IsBeyond(j, at[Polled], DirOf(Polled)) <=> j < at[Polled]
      BY DEF IsBeyond, DirOf, Increasing, Decreasing
    <3>4. at[Polled] =< at[Polled] /\ (~(j < at[Polled]) => at[Polled] =< j)
      <4>1. at[Polled] \in Nat /\ j \in Nat
        BY <2>2, <3>1
      <4> QED BY <4>1, SMT
    <3>5. /\ theirs \subseteq theirs' /\ theirs' \subseteq Idx /\ ahead' \in BOOLEAN
          /\ at'[Polled] \in Idx /\ at'[Polled] =< at[Polled] /\ \A i \in B : i \in theirs'
          /\ ~ahead' => ~ahead /\ \A i \in theirs' \ theirs : at'[Polled] =< i
      BY <2>2, <2>5, <3>1, <3>2, <3>3, <3>4 DEF B
    <3>6. WriteStep(B)
      BY <2>5, <3>5 DEF WriteStep, poller
    <3> QED BY <2>5, <3>6, WriteKeepsPoller DEF Inv
  <2>7. CASE ~(key = Polled /\ objs' # objs)
    <3>1. UNCHANGED foreign
      BY <2>1, <2>7
    <3>2. PolledWrite(objs, objs', {})
      <4>1. CASE key # Polled
        BY <2>5, <4>1 DEF B
      <4>2. CASE objs' = objs
        BY <4>2 DEF PolledWrite
      <4> QED BY <2>7, <4>1, <4>2
    <3> QED BY <2>5, <3>1, <3>2, QuietStep DEF Inv
  <2> QED BY <2>6, <2>7
<1> QED BY <1>1, <1>2

\* The default null reads as null, whatever the log's own is.
LEMMA DecodeFacts == DecodeCell(Default) = None /\ \A t : DecodeCell(t) \in {t, None}
<1>1. Default \in CommonNullSentinels
  BY Zenon DEF CommonNullSentinels
<1> QED BY <1>1 DEF DecodeCell

\* A stored row reads, under each mnemonic, as a value of that curve or a null.
LEMMA DecodedCells ==
    ASSUME NEW key, NEW log, LogOK(key, log), log.cols # <<>>, NEW i \in DOMAIN log.rows,
           NEW m \in DOMAIN Decoded(log.cols, log.rows[i])
    PROVE  Decoded(log.cols, log.rows[i])[m] \in {m, None, "-1"}
<1> DEFINE cols == log.cols
           row == log.rows[i]
           At == {p \in 2..Len(cols) : cols[p] = m}
<1>1. m \in {cols[p] : p \in 2..Len(cols)} /\ Decoded(cols, row)[m] = DecodeCell(row[Max(At)])
  BY DEF Decoded
<1>2. Len(cols) \in Nat
  BY DEF LogOK
<1>3. At # {} /\ At \in SUBSET (0..Len(cols))
  BY <1>1, <1>2
<1>4. Max(At) \in At
  <2> HIDE DEF At, cols
  <2> QED BY <1>2, <1>3, MaxOfIndices
<1>5. row[Max(At)] \in {m, log.nul, Default} /\ log.nul \in {Default, "-1"}
  <2>1. \A p \in 2..Len(cols) : row[p] \in {cols[p], log.nul, Default}
    BY DEF LogOK, RowsAligned
  <2>2. Max(At) \in 2..Len(cols) /\ cols[Max(At)] = m
    BY <1>4
  <2> QED BY <2>1, <2>2 DEF LogOK
<1> HIDE DEF At, row, cols
<1>6. DecodeCell(row[Max(At)]) \in {m, None, "-1"}
  BY <1>5, DecodeFacts
<1> QED BY <1>1, <1>6 DEF cols, row

\* So does the discovery of the log.
LEMMA DiscoverKeeps == Inv /\ Discover => Inv'
<1> SUFFICES ASSUME Inv, Discover PROVE Inv'
  OBVIOUS
<1>1. /\ logDir = None /\ Polled \in DOMAIN objs /\ logDir' = objs[Polled].dir
      /\ objs' = objs /\ pc' = pc /\ pos' = pos /\ tickNo' = tickNo /\ missing' = missing /\ at' = at
      /\ cursor' = cursor /\ seen' = seen /\ theirs' = theirs /\ ahead' = ahead
      /\ disturbances' = disturbances /\ writes' = writes
  BY DEF Discover, sim, foreign
<1>2. objs[Polled].dir \in Directions
  BY <1>1, PolledFacts DEF Inv, StoreOK, LogOK
<1>3. cursor = None
  BY <1>1 DEF Inv, PollerOK
<1>4. PollerOK' /\ SeenOK' /\ CursorOK'
  BY <1>1, <1>2, <1>3 DEF Inv, PollerOK, SeenOK, CursorOK
<1>5. Positions' = Positions
  BY <1>1 DEF Positions
<1>6. SimOK' /\ StoreOK(objs')
  BY <1>1, <1>5 DEF Inv, SimOK
<1> QED BY <1>4, <1>6 DEF Inv

\* A poll keeps the invariant.
LEMMA PollKeeps == Inv /\ Poll => Inv'
<1> SUFFICES ASSUME Inv, Poll PROVE Inv'
  OBVIOUS
<1> DEFINE log == objs[Polled]
           rows == log.rows
           block == ParseLogData(log.cols, DataFrom(log, cursor))
           fresh == DedupeBoundary(DOMAIN block, cursor, logDir)
           next == ContinuationIndex(DOMAIN block, logDir)
<1>1. /\ logDir # None /\ Polled \in DOMAIN objs /\ next # None /\ cursor' = next
      /\ seen' = [i \in DOMAIN seen \cup fresh |-> IF i \in fresh THEN block[i] ELSE seen[i]]
  BY DEF Poll
<1>2. /\ objs' = objs /\ pc' = pc /\ pos' = pos /\ tickNo' = tickNo /\ missing' = missing /\ at' = at
      /\ logDir' = logDir /\ theirs' = theirs /\ ahead' = ahead
      /\ disturbances' = disturbances /\ writes' = writes
  BY DEF Poll, sim, foreign
<1>3. LogOK(Polled, log) /\ DOMAIN rows \subseteq Idx /\ log.dir \in Directions
  <2>1. LogOK(Polled, log)
    BY <1>1, PolledFacts DEF Inv, StoreOK
  <2> QED BY <2>1 DEF LogOK
<1>4. log.cols # <<>>
  <2> SUFFICES ASSUME log.cols = <<>> PROVE FALSE
    OBVIOUS
  <2>1. DOMAIN block = {}
    BY DEF ParseLogData
  <2> HIDE DEF block
  <2> QED BY <1>1, <2>1 DEF ContinuationIndex
<1> DEFINE R == InRange(DOMAIN rows, cursor, log.dir)
<1>5. DOMAIN block = R /\ \A i \in R : block[i] = Decoded(log.cols, rows[i])
  <2>1. DOMAIN DataFrom(log, cursor) = R /\ \A i \in R : DataFrom(log, cursor)[i] = rows[i]
    BY DEF DataFrom
  <2> DEFINE data == DataFrom(log, cursor)
             F == [i \in DOMAIN data |-> Decoded(log.cols, data[i])]
  <2>2. block = F
    BY <1>4 DEF ParseLogData, Decoded
  <2> HIDE DEF data, block
  <2>3. DOMAIN F = DOMAIN data /\ \A i \in DOMAIN data : F[i] = Decoded(log.cols, data[i])
    OBVIOUS
  <2> QED BY <2>1, <2>2, <2>3 DEF data
<1>6. R \subseteq DOMAIN rows /\ (cursor = None => R = DOMAIN rows)
  BY DEF InRange
<1>7. fresh \subseteq R /\ (cursor = None => fresh = R)
  <2> HIDE DEF block, R
  <2> QED BY <1>5 DEF DedupeBoundary
<1>8. next \in R /\ \A j \in R : ~IsBeyond(j, next, logDir)
  <2>1. R \in SUBSET (0..MaxIdx) /\ MaxIdx \in Nat
    BY <1>3, <1>6, ConstantFacts DEF Idx
  <2>2. next = ContinuationIndex(R, logDir)
    BY <1>5
  <2>3. R # {}
    BY <1>1, <2>2 DEF ContinuationIndex
  <2> HIDE DEF R, next
  <2>4. /\ ContinuationIndex(R, logDir) \in R
        /\ \A j \in R : ~IsBeyond(j, ContinuationIndex(R, logDir), logDir)
    BY <2>1, <2>3, ContinuationOfBatch
  <2> QED BY <2>2, <2>4
<1>9. ASSUME logDir = Decreasing, cursor # None, NEW i \in DOMAIN rows, i < cursor, log.dir = Decreasing,
             ~(cursor < i)
      PROVE  i \in fresh
  <2>1. i \in R
    BY <1>9 DEF InRange, IsBeyond, Increasing, Decreasing
  <2> HIDE DEF block, R
  <2> QED BY <1>5, <1>9, <2>1 DEF DedupeBoundary, IsBeyond, Increasing, Decreasing
<1>10. ASSUME cursor # None, log.dir # Decreasing, NEW i \in R PROVE ~(i < cursor)
  <2>1. log.dir = Increasing
    BY <1>3, <1>10 DEF Directions
  <2>2. ~(cursor > i)
    BY <1>10, <2>1 DEF InRange, IsBeyond
  <2>3. i \in Int /\ cursor \in Int
    BY <1>3, <1>6, <1>10 DEF Inv, PollerOK, Idx
  <2> QED BY <2>2, <2>3, SMT
<1> HIDE DEF block, fresh, next, R
<1>11. Idx \subseteq Nat /\ DOMAIN seen \subseteq Idx /\ theirs \subseteq Idx /\ cursor \in Idx \cup {None}
  BY ConstantFacts DEF Inv, PollerOK, Idx
<1>12. /\ DOMAIN seen' = DOMAIN seen \cup fresh
       /\ \A i \in DOMAIN seen \cup fresh : seen'[i] = IF i \in fresh THEN block[i] ELSE seen[i]
  BY <1>1
<1>13. /\ \A i \in DOMAIN seen \ theirs : at[Polled] =< i
       /\ \A i \in DOMAIN rows \ theirs : at[Polled] =< i
       /\ \A i \in DOMAIN rows \ theirs :
              i > 0 /\ i \in DOMAIN seen => seen[i] = Decoded(log.cols, rows[i])
  BY <1>1, <1>4 DEF Inv, SeenOK
<1>14. next \in DOMAIN rows /\ next \in Nat /\ next \in Idx /\ \A i \in DOMAIN rows : i \in Nat
  BY <1>3, <1>6, <1>8, <1>11
<1>15. \A i \in DOMAIN seen' : \A m \in DOMAIN seen'[i] : seen'[i][m] \in {m, None, "-1"}
  <2> SUFFICES ASSUME NEW i \in DOMAIN seen', NEW m \in DOMAIN seen'[i]
               PROVE  seen'[i][m] \in {m, None, "-1"}
    OBVIOUS
  <2>1. CASE i \in fresh
    <3>1. i \in DOMAIN rows /\ seen'[i] = Decoded(log.cols, rows[i])
      BY <2>1, <1>5, <1>6, <1>7, <1>12
    <3>2. m \in DOMAIN Decoded(log.cols, rows[i])
      BY <3>1
    <3>3. Decoded(log.cols, rows[i])[m] \in {m, None, "-1"}
      BY <3>1, <3>2, <1>3, <1>4, DecodedCells DEF rows
    <3> QED BY <3>1, <3>3
  <2>2. CASE i \notin fresh
    <3>1. i \in DOMAIN seen /\ seen'[i] = seen[i]
      BY <2>2, <1>12
    <3> QED BY <3>1 DEF Inv, PollerOK
  <2> QED BY <2>1, <2>2
<1>16. PollerOK'
  <2>1. DOMAIN seen' \subseteq Idx
    BY <1>3, <1>6, <1>7, <1>11, <1>12
  <2>2. logDir \in Directions \cup {None} /\ theirs \subseteq Idx /\ ahead \in BOOLEAN
    BY DEF Inv, PollerOK
  <2> QED BY <1>1, <1>2, <1>14, <1>15, <2>1, <2>2 DEF PollerOK
<1> HIDE DEF rows
<1>17. \A i \in DOMAIN seen' \ theirs : at[Polled] =< i
  BY <1>6, <1>7, <1>12, <1>13
<1>18. \A i \in DOMAIN rows \ theirs : i > 0 /\ i \in DOMAIN seen' => seen'[i] = Decoded(log.cols, rows[i])
  BY <1>5, <1>7, <1>12, <1>13
<1>19. SeenOK'
  <2>1. objs'[Polled] = log /\ at' = at /\ theirs' = theirs
    BY <1>2
  <2>2. \A i \in DOMAIN rows \ theirs : at[Polled] =< i
    BY <1>13
  <2> HIDE DEF log
  <2> QED BY <2>1, <2>2, <1>17, <1>18 DEF SeenOK, rows
<1>20. ASSUME ~ahead, logDir = Decreasing, NEW i \in DOMAIN rows \ theirs, next =< i
       PROVE  i \in DOMAIN seen'
  <2>1. CASE cursor = None
    BY <2>1, <1>6, <1>7, <1>12, <1>20
  <2>2. CASE cursor # None
    <3>1. cursor \in Nat /\ i \in Nat
      BY <2>2, <1>11, <1>14
    <3>2. CASE cursor =< i
      <4>1. i \in DOMAIN seen
        BY <1>1, <1>4, <1>20, <2>2, <3>2 DEF Inv, CursorOK, rows
      <4> QED BY <4>1, <1>12
    <3>3. CASE ~(cursor =< i)
      <4>1. i < cursor /\ ~(cursor < i) /\ next < cursor
        BY <1>14, <1>20, <3>1, <3>3, SMT
      <4>2. log.dir = Decreasing
        BY <4>1, <2>2, <1>8, <1>10
      <4> QED BY <4>1, <4>2, <2>2, <1>9, <1>12, <1>20
    <3> QED BY <3>2, <3>3
  <2> QED BY <2>1, <2>2
<1>21. CursorOK'
  <2> SUFFICES ASSUME ~ahead
               PROVE  /\ \A i \in theirs : at[Polled] =< i
                      /\ logDir = Decreasing =>
                            /\ next \in DOMAIN seen' \cup theirs
                            /\ \A i \in DOMAIN rows \ theirs : next =< i => i \in DOMAIN seen'
    BY <1>1, <1>2 DEF CursorOK, rows
  <2>1. \A i \in theirs : at[Polled] =< i
    BY DEF Inv, CursorOK
  <2>2. logDir = Decreasing => next \in DOMAIN seen' \cup theirs
    <3>1. next =< next
      BY <1>14, SMT
    <3> QED BY <3>1, <1>14, <1>20
  <2> QED BY <2>1, <2>2, <1>20
<1>22. SimOK' /\ StoreOK(objs')
  <2>1. Positions' = Positions
    BY <1>2 DEF Positions
  <2> QED BY <1>2, <2>1 DEF Inv, SimOK
<1> QED BY <1>16, <1>19, <1>21, <1>22 DEF Inv

-----------------------------------------------------------------------------
(* The theorems. *)

\* Every step keeps the invariant.
LEMMA NextKeeps == Inv /\ [Next]_vars => Inv'
<1> SUFFICES ASSUME Inv, [Next]_vars PROVE Inv'
  OBVIOUS
<1>1. CASE UNCHANGED vars
  <2>1. /\ objs' = objs /\ pc' = pc /\ pos' = pos /\ tickNo' = tickNo /\ missing' = missing
        /\ at' = at /\ logDir' = logDir /\ cursor' = cursor /\ seen' = seen
        /\ theirs' = theirs /\ ahead' = ahead
        /\ disturbances' = disturbances /\ writes' = writes
    BY <1>1 DEF vars, sim, poller, foreign
  <2>2. Positions' = Positions
    BY <2>1 DEF Positions
  <2> QED BY <2>1, <2>2 DEF Inv, SimOK, PollerOK, SeenOK, CursorOK
<1>2. CASE Next
  BY <1>2, WaitKeeps, SeedKeeps, UpdateKeeps, WakeKeeps, LossKeeps, OthersKeep,
     DiscoverKeeps, PollKeeps
     DEF Next, Simulator
<1> QED BY <1>1, <1>2

\* The invariant always holds.
LEMMA FeedInvariant == Spec => []Inv
  BY InitInv, NextKeeps, PTL DEF Spec

\* The store, the simulator and the poller are always of their types.
THEOREM FeedTypeCorrect == Spec => []TypeOK
<1>1. ASSUME Inv PROVE TypeOK
  <2>1. \A k \in DOMAIN objs : k.kind \in Kinds /\ k.uid # ""
    BY <1>1 DEF Inv, StoreOK
  <2>2. ASSUME NEW k \in Logs
        PROVE  /\ objs[k].dir \in Directions /\ objs[k].growing \in BOOLEAN
               /\ DOMAIN objs[k].rows \subseteq Idx
               /\ objs[k].cols # <<>> => \A i \in DOMAIN objs[k].rows :
                      Len(objs[k].rows[i]) = Len(objs[k].cols)
    <3>1. LogOK(k, objs[k])
      BY <1>1, <2>2 DEF Inv, StoreOK, Logs
    <3> QED BY <3>1 DEF LogOK, RowsAligned, DirOf, Directions
  <2>3. pos \in 1..Max({SeedLength, TickLength, Attempts})
    <3> DEFINE S == {SeedLength, TickLength, Attempts}
               N == SeedLength + TickLength + Attempts
    <3>1. SeedLength \in Nat /\ SeedLength >= 1 /\ TickLength \in Nat /\ TickLength >= 1
          /\ Attempts \in Nat /\ Attempts >= 1
      BY PlanLengths, ConstantFacts, SMT
    <3>2. N \in Nat /\ S \in SUBSET (0..N) /\ S # {}
      BY <3>1, SMT
    <3>3. Max(S) \in S /\ \A j \in S : Max(S) >= j
      <4> HIDE DEF S, N
      <4> QED BY <3>2, MaxOfIndices
    <3> DEFINE top == Max(S)
    <3>4. top \in Nat /\ top >= SeedLength /\ top >= TickLength /\ top >= Attempts
      BY <3>1, <3>3
    <3> HIDE DEF top
    <3>5. pos \in 1..Attempts \/ pos \in 1..TickLength \/ pos = 1 \/ pos \in 1..SeedLength
      BY <1>1 DEF Inv, SimOK, Positions
    <3>6. pos \in 1..top
      BY <3>1, <3>4, <3>5, SMT
    <3> QED BY <3>6 DEF top
  <2>4. /\ logDir \in Directions \cup {None} /\ (cursor # None => logDir # None)
        /\ cursor \in Idx \cup {None} /\ DOMAIN seen \subseteq Idx
        /\ theirs \subseteq Idx /\ ahead \in BOOLEAN
    BY <1>1 DEF Inv, PollerOK
  <2> QED BY <1>1, <2>1, <2>2, <2>3, <2>4 DEF TypeOK, Inv, SimOK
<1> QED BY <1>1, FeedInvariant, PTL

\* Whoever created a log and with which columns, what is stored and what is read
\* under a mnemonic is a value of that curve or a null (_ingest_logdata aligns
\* every batch to the stored order).
THEOREM CellsStayAligned == Spec => []CellsAligned
<1>1. ASSUME Inv PROVE CellsAligned
  <2>1. ASSUME NEW k \in Logs
        PROVE  objs[k].cols # <<>> => \A i \in DOMAIN objs[k].rows : \A p \in 2..Len(objs[k].cols) :
                   objs[k].rows[i][p] \in {objs[k].cols[p], objs[k].nul, Default}
    <3>1. LogOK(k, objs[k])
      BY <1>1, <2>1 DEF Inv, StoreOK, Logs
    <3> QED BY <3>1 DEF LogOK, RowsAligned
  <2>2. \A i \in DOMAIN seen : \A m \in DOMAIN seen[i] : seen[i][m] \in {m, None, "-1"}
    BY <1>1 DEF Inv, PollerOK
  <2> QED BY <2>1, <2>2 DEF CellsAligned
<1> QED BY <1>1, FeedInvariant, PTL

\* Restarts of the store, re-seeding, lost calls and writes of others included, no
\* row of the simulator is ever written behind the cursor of a poller that discovered
\* the log with the simulator's direction, as long as nobody else writes to the log
\* beyond where the simulator is.
THEOREM CursorMissesNothing == Spec => []NothingBehindCursor
<1>1. ASSUME Inv PROVE NothingBehindCursor
  <2> SUFFICES ASSUME Polled \in DOMAIN objs, objs[Polled].cols # <<>>, cursor # None,
                      logDir = DirOf(Polled), ~ahead,
                      NEW i \in DOMAIN objs[Polled].rows \ theirs, ~IsBeyond(i, cursor, logDir)
               PROVE  i \in DOMAIN seen
    BY Zenon DEF NothingBehindCursor
  <2>1. logDir = Decreasing
    BY DEF DirOf
  <2>2. ~(i < cursor)
    BY <2>1 DEF IsBeyond, Increasing, Decreasing
  <2>3. i \in Idx /\ cursor \in Idx /\ Idx \subseteq Nat
    <3>1. LogOK(Polled, objs[Polled])
      BY <1>1, PolledFacts DEF Inv, StoreOK
    <3>2. i \in Idx
      BY <3>1 DEF LogOK
    <3>3. cursor \in Idx
      BY <1>1 DEF Inv, PollerOK
    <3> QED BY <3>2, <3>3, ConstantFacts DEF Idx
  <2>4. cursor =< i
    <3>1. i \in Nat /\ cursor \in Nat
      BY <2>3
    <3> QED BY <2>2, <3>1, SMT
  <2> QED BY <1>1, <2>1, <2>4 DEF Inv, CursorOK
<1> QED BY <1>1, FeedInvariant, PTL

\* A row the poller has read that the store then holds otherwise, and nobody else
\* has written, is the surface row of the decreasing log, which the simulator
\* rewrites once it is there.
THEOREM OnlySurfaceGoesStale == Spec => []OnlySurfaceRowStale
<1>1. ASSUME Inv PROVE OnlySurfaceRowStale
  <2> DEFINE log == objs[Polled]
             stored == ParseLogData(log.cols, log.rows)
  <2> SUFFICES ASSUME Polled \in DOMAIN objs, NEW i \in (DOMAIN seen \cap DOMAIN stored) \ theirs,
                      NEW m \in DOMAIN seen[i] \cap DOMAIN stored[i],
                      {seen[i][m], stored[i][m]} = {m, None}, i # 0
               PROVE  FALSE
    BY DEF OnlySurfaceRowStale
  <2>1. log.cols # <<>>
    BY DEF ParseLogData
  <2>2. i \in DOMAIN log.rows /\ stored[i] = Decoded(log.cols, log.rows[i])
    BY <2>1 DEF ParseLogData, Decoded
  <2> HIDE DEF stored
  <2>3. i > 0
    <3>1. i \in Nat
      BY <1>1, ConstantFacts DEF Inv, PollerOK, Idx
    <3> QED BY <3>1, SMT
  <2>4. seen[i] = stored[i]
    BY <1>1, <2>1, <2>2, <2>3 DEF Inv, SeenOK
  <2>5. m = None
    BY <2>4
  <2>6. m \in Mnemonics
    <3>1. log.cols \in Seq(Mnemonics)
      BY <1>1, PolledFacts DEF Inv, StoreOK, LogOK
    <3>2. PICK p \in 2..Len(log.cols) : m = log.cols[p]
      BY <2>2 DEF Decoded
    <3> HIDE DEF log
    <3> QED BY <3>1, <3>2
  <2> QED BY <2>5, <2>6, ConstantFacts
<1> QED BY <1>1, FeedInvariant, PTL

\* Two sets of indices with the same newest one have the same continuation.
LEMMA SameContinuation ==
    ASSUME NEW N \in Nat, NEW S \in SUBSET (0..N), NEW T \in SUBSET S, NEW dir,
           S # {} => ContinuationIndex(S, dir) \in T
    PROVE  ContinuationIndex(T, dir) = ContinuationIndex(S, dir)
<1>1. CASE S = {}
  <2>1. T = S
    BY <1>1
  <2> QED BY <2>1
<1>2. CASE S # {}
  <2> DEFINE s == ContinuationIndex(S, dir)
             t == ContinuationIndex(T, dir)
  <2>1. s \in T /\ s \in S /\ \A j \in S : ~IsBeyond(j, s, dir)
    BY <1>2, ContinuationOfBatch
  <2>2. T \in SUBSET (0..N) /\ T # {}
    BY <2>1
  <2>3. t \in T /\ \A j \in T : ~IsBeyond(j, t, dir)
    BY <2>2, ContinuationOfBatch
  <2> HIDE DEF s, t
  <2>4. s \in Int /\ t \in Int /\ ~IsBeyond(t, s, dir) /\ ~IsBeyond(s, t, dir)
    BY <2>1, <2>2, <2>3
  <2>5. s = t
    BY <2>4, SMT DEF IsBeyond
  <2> QED BY <2>5 DEF s, t
<1> QED BY <1>1, <1>2

\* In a stored log the newest end of a curve's extent is the newest row in which
\* requestLatestValues returns a value of it.
LEMMA LatestOfLog ==
    ASSUME NEW key, NEW log, LogOK(key, log), NEW p \in 2..Len(log.cols)
    PROVE  LET latest == LatestRows(log, 1)
               extent == CurveExtent(log, p)
               valued == {i \in DOMAIN latest : latest[i][p] \notin NullSet(log)}
           IN  ContinuationIndex(valued, log.dir)
                 = IF extent = None THEN None
                   ELSE IF log.dir = Increasing THEN extent.high ELSE extent.low
<1> DEFINE Has(i, q) == log.rows[i][q] \notin NullSet(log)
           Ahead(i, q) == {j \in DOMAIN log.rows : Has(j, q) /\ IsBeyond(j, i, log.dir)}
           Newest(q) == {i \in DOMAIN log.rows : Has(i, q) /\ Cardinality(Ahead(i, q)) < 1}
           kept == UNION {Newest(q) : q \in 2..Len(log.cols)}
           Shown(i) == [q \in 1..Len(log.cols) |-> IF q > 1 /\ ~Has(i, q) THEN log.nul ELSE log.rows[i][q]]
           latest == LatestRows(log, 1)
           valued == {i \in DOMAIN latest : latest[i][p] \notin NullSet(log)}
           V == {i \in DOMAIN log.rows : Has(i, p)}
<1>1. latest = [i \in kept |-> Shown(i)]
  BY DEF LatestRows
<1>2. Len(log.cols) \in Nat /\ DOMAIN log.rows \subseteq Idx /\ log.dir \in Directions
  BY DEF LogOK, DirOf, Directions
<1>3. p \in 1..Len(log.cols) /\ p > 1
  BY <1>2
<1>4. log.nul \in NullSet(log)
  BY Zenon DEF NullSet
<1>5. \A i : Shown(i)[p] \notin NullSet(log) <=> Has(i, p)
  BY <1>3, <1>4
<1>6. kept \subseteq DOMAIN log.rows
  OBVIOUS
<1> HIDE DEF Shown, kept
<1>7. DOMAIN latest = kept /\ \A i \in kept : latest[i] = Shown(i)
  BY <1>1
<1> HIDE DEF latest
<1>8. valued = {i \in kept : Has(i, p)}
  BY <1>5, <1>7
<1>9. valued \in SUBSET V
  BY <1>6, <1>8
<1>10. V \in SUBSET (0..MaxIdx) /\ MaxIdx \in Nat
  BY <1>2, ConstantFacts DEF Idx
<1>11. V # {} => ContinuationIndex(V, log.dir) \in valued
  <2> SUFFICES ASSUME V # {} PROVE ContinuationIndex(V, log.dir) \in valued
    OBVIOUS
  <2> DEFINE c == ContinuationIndex(V, log.dir)
  <2>1. c \in V /\ \A j \in V : ~IsBeyond(j, c, log.dir)
    <3> HIDE DEF V
    <3> QED BY <1>10, ContinuationOfBatch
  <2> HIDE DEF c
  <2>2. Ahead(c, p) = {}
    BY <2>1
  <2>3. Cardinality(Ahead(c, p)) < 1
    <3>1. Cardinality({}) = 0
      BY FS_EmptySet
    <3>2. Cardinality(Ahead(c, p)) = 0
      BY <2>2, <3>1, Zenon
    <3> HIDE DEF Ahead
    <3> QED BY <3>2
  <2>4. c \in Newest(p)
    BY <2>1, <2>3
  <2>5. c \in kept
    BY <2>4 DEF kept
  <2> QED BY <2>1, <2>5, <1>8 DEF c
<1> HIDE DEF valued, V
<1>12. ContinuationIndex(valued, log.dir) = ContinuationIndex(V, log.dir)
  BY <1>9, <1>10, <1>11, SameContinuation
<1>13. CurveExtent(log, p) = IF V = {} THEN None ELSE [low |-> Min(V), high |-> Max(V)]
  <2>1. {i \in DOMAIN log.rows : p = 1 \/ log.rows[i][p] \notin NullSet(log)} = V
    BY <1>3 DEF V
  <2> QED BY <2>1 DEF CurveExtent, Extent
<1>14. CASE V = {}
  BY <1>12, <1>13, <1>14 DEF valued, latest, ContinuationIndex
<1>15. CASE V # {}
  <2>1. Min(V) \in V /\ Max(V) \in V
    <3>1. V \in SUBSET Nat
      BY <1>10
    <3> QED BY <3>1, <1>10, <1>15, MinOfIndices, MaxOfIndices
  <2>2. Min(V) \in Int /\ Max(V) \in Int
    <3>1. V \subseteq Int
      BY <1>10
    <3> QED BY <2>1, <3>1, Zenon
  <2> DEFINE e == [low |-> Min(V), high |-> Max(V)]
  <2>3. e # None
    BY <2>2, ConstantFacts
  <2>4. CurveExtent(log, p) = e /\ e.low = Min(V) /\ e.high = Max(V)
    BY <1>13, <1>15
  <2>5. ContinuationIndex(V, log.dir) = IF log.dir = Increasing THEN e.high ELSE e.low
    BY <1>15, <2>4 DEF ContinuationIndex
  <2> HIDE DEF e
  <2> QED BY <1>12, <2>3, <2>4, <2>5 DEF valued, latest
<1> QED BY <1>14, <1>15

\* The header's extents and requestLatestValues always agree.
THEOREM LatestAgreesWithExtent == Spec => []LatestMatchesExtent
<1>1. ASSUME Inv PROVE LatestMatchesExtent
  <2>1. \A k \in Logs : LogOK(k, objs[k])
    BY <1>1 DEF Inv, StoreOK, Logs
  <2> QED BY <2>1, LatestOfLog DEF LatestMatchesExtent
<1> QED BY <1>1, FeedInvariant, PTL

\* A call that is answered keeps what the store had; a call that raises is a
\* disturbance.
LEMMA AnsweredKeeps ==
    ASSUME Inv, NEW after, KeepsAll(objs, after), Answered(after) \/ Raised(after),
           disturbances' = disturbances
    PROVE  KeepsAll(objs, objs')
<1>1. disturbances \in Nat
  BY DEF Inv, SimOK
<1>2. ~Raised(after)
  <2>1. ASSUME disturbances' = disturbances + 1 PROVE FALSE
    BY <1>1, <2>1, SMT
  <2> QED BY <2>1 DEF Raised, Disturb
<1>3. objs' = after
  BY <1>2 DEF Answered
<1> QED BY <1>3

\* Without a disturbance every step keeps all the objects, headers and indices.
LEMMA StepKeepsAll ==
    ASSUME Inv, [Next]_vars, disturbances' = disturbances
    PROVE  KeepsAll(objs, objs')
<1>1. CASE objs' = objs
  BY <1>1 DEF KeepsAll
<1>2. CASE Seed
  <2> DEFINE key == SeedCall(pos)
  <2>1. PICK batch \in IF key.kind = "log" THEN Batches(key, SeedFrom(key), 1, FALSE) ELSE {NoBatch} :
            Answered(SeedObject(key, batch)) \/ Raised(SeedObject(key, batch))
    BY <1>2 DEF Seed
  <2>2. pos \in 1..SeedLength
    BY <1>2 DEF Seed, Inv, SimOK, Positions
  <2>3. key \in FleetKeys /\ (key.kind = "log" => key \in FleetLogs)
    BY <2>2, SeedCallFacts
  <2> HIDE DEF key
  <2>4. ASSUME key.kind = "log" PROVE \A log : BatchOK(log, batch)
    <3>1. batch \in Batches(key, at[key], 1, FALSE)
      BY <2>1, <2>4 DEF SeedFrom
    <3>2. at[key] \in Idx /\ 1 \in Nat \ {0}
      BY <2>3, <2>4 DEF Inv, SimOK
    <3> QED BY <3>1, <3>2, BatchFacts
  <2>5. KeepsAll(objs, SeedObject(key, batch))
    BY <2>3, <2>4, SeedObjectFacts
  <2> QED BY <2>1, <2>5, AnsweredKeeps
<1>3. CASE Update
  <2> DEFINE key == TickCall(pos)
             n == Rows(key.well)
  <2>1. PICK batch \in Batches(key, at[key], n, TRUE) :
            LET after == UpdateObject(objs, key, batch, <<>>) IN Answered(after) \/ Raised(after)
    BY <1>3 DEF Update
  <2>2. pos \in 1..TickLength
    BY <1>3 DEF Update, Inv, SimOK, Positions
  <2>3. key \in FleetLogs
    BY <2>2, TickCallFacts
  <2>4. n \in Nat \ {0}
    <3>1. n \in {1, BurstRows}
      BY DEF Rows
    <3>2. 1 \in Nat \ {0} /\ BurstRows \in Nat \ {0}
      BY ConstantFacts
    <3> QED BY <3>1, <3>2, Zenon
  <2> HIDE DEF key, n
  <2>5. \A log : BatchOK(log, batch)
    <3>1. at[key] \in Idx
      BY <2>3 DEF Inv, SimOK
    <3> QED BY <3>1, <2>4, BatchFacts
  <2> DEFINE after == UpdateObject(objs, key, batch, <<>>)
  <2>6. StoreOK(objs)
    BY DEF Inv
  <2>7. KeepsAll(objs, after)
    BY <2>5, <2>6, UpdateStep
  <2>8. Answered(after) \/ Raised(after)
    BY <2>1
  <2> HIDE DEF after
  <2> QED BY <2>7, <2>8, AnsweredKeeps
<1>4. CASE StoreAdd
  <2>1. PICK add \in OtherAdds : Write(AddObject(objs, add[1], add[2], NoBatch))
    BY <1>4 DEF StoreAdd
  <2> DEFINE after == AddObject(objs, add[1], add[2], NoBatch)
  <2>2. KeepsAll(objs, after)
    BY StoreAddFacts
  <2> HIDE DEF after
  <2>3. Answered(after) \/ Raised(after)
    BY <2>1 DEF Write, after
  <2> QED BY <2>2, <2>3, AnsweredKeeps
<1>5. CASE StoreUpdate
  <2>0. PICK key \in OtherUpdates : \E j \in IF key = Polled THEN Idx ELSE {0} :
            Write(UpdateObject(objs, key, OtherBatch(key, j), <<Intervals[1]>>))
    BY <1>5 DEF StoreUpdate
  <2>1. PICK j \in IF key = Polled THEN Idx ELSE {0} :
            Write(UpdateObject(objs, key, OtherBatch(key, j), <<Intervals[1]>>))
    BY <2>0
  <2> DEFINE after == UpdateObject(objs, key, OtherBatch(key, j), <<Intervals[1]>>)
  <2>2. KeepsAll(objs, after)
    <3>1. j \in Idx
      BY <2>1, ConstantFacts DEF Idx
    <3> QED BY <3>1, StoreUpdateFacts
  <2> HIDE DEF after
  <2>3. Answered(after) \/ Raised(after)
    BY <2>1 DEF Write, after
  <2> QED BY <2>2, <2>3, AnsweredKeeps
<1>6. CASE Reset \/ Delete
  <2>1. disturbances \in Nat
    BY DEF Inv, SimOK
  <2>2. disturbances' = disturbances + 1
    BY <1>6 DEF Reset, Delete, Disturb
  <2> QED BY <2>1, <2>2, SMT
<1>7. CASE WaitForServer \/ Wake \/ Discover \/ Poll \/ UNCHANGED vars
  <2>1. objs' = objs
    BY <1>7 DEF WaitForServer, Wake, Discover, Poll, vars
  <2> QED BY <2>1, <1>1
<1> QED BY <1>2, <1>3, <1>4, <1>5, <1>6, <1>7 DEF Next, Simulator

\* Only a restart of the store or a delete takes anything away (add_object and
\* update_object never replace a header or drop a row).
THEOREM NothingIsLost == Spec => OnlyAdditions
<1> DEFINE A == disturbances' = disturbances =>
                    \A k \in DOMAIN objs :
                        /\ k \in DOMAIN objs'
                        /\ k.kind = "log" =>
                               /\ objs'[k].dir = objs[k].dir /\ objs'[k].cols = objs[k].cols
                               /\ DOMAIN objs[k].rows \subseteq DOMAIN objs'[k].rows
<1>1. Inv /\ [Next]_vars => [A]_vars
  <2>1. ASSUME Inv, [Next]_vars PROVE A
    BY <2>1, StepKeepsAll DEF KeepsAll
  <2> QED BY <2>1
<1> HIDE DEF A
<1>2. Spec => [][A]_vars
  BY <1>1, FeedInvariant, PTL DEF Spec
<1> QED BY <1>2 DEF A, OnlyAdditions
=============================================================================
