---------------------------- MODULE WitsmlStore ----------------------------
(***************************************************************************)
(* The WITSML store as a value: the operations of MockStore (mockstore/    *)
(* store.py), each run under the store's lock by the SOAP front            *)
(* (mockstore/server.py), and the client's side of an exchange: what the   *)
(* queries of witsml/queries.py ask for and what witsml/parse.py makes of  *)
(* the reply.                                                              *)
(*                                                                         *)
(* A store is a function from keys to objects.  A key is a record of the   *)
(* object's kind and of the uids that identify it; an absent uid is "".    *)
(* XML is abstracted to the record it carries.  A cell of a log row is a   *)
(* token: the mnemonic of the curve whose value it is, or a null token.    *)
(***************************************************************************)
EXTENDS Polling, Sequences

Default == "-999.25"     \* DEFAULT_NULL_VALUE
CommonNullSentinels == {Default, "-9999", "-999", "NaN", "null", ""}

\* A WMLtypeIn the store does not know is "trajectory" here.
Kinds == {"well", "wellbore", "log", "mudLog"}
Key(kind, well, bore, uid) == [kind |-> kind, well |-> well, bore |-> bore, uid |-> uid]

\* Stored logs keep their rows by index, each row in the order of cols, the
\* index curve's own cell first.  Stored mudLogs keep their intervals.
Log(dir, nul, cols, growing, rows) ==
    [dir |-> dir, nul |-> nul, cols |-> cols, growing |-> growing, rows |-> rows]
MudLog(growing, intervals) == [growing |-> growing, intervals |-> intervals]
Verbatim == [verbatim |-> TRUE]     \* wells and wellbores

Success == 1
Duplicate == -405
BadInput == -407
NotFound == -411

Put(objs, key, obj) == [k \in DOMAIN objs \cup {key} |-> IF k = key THEN obj ELSE objs[k]]
Removed(objs, key) == [k \in DOMAIN objs \ {key} |-> objs[k]]

-----------------------------------------------------------------------------
(* _ingest_logdata.  A batch is [cols, data]: its mnemonicList (<<>> if it has
   none) and its <data> rows, each [i, cells]; i is None when the index token
   does not parse. *)

NoBatch == [cols |-> <<>>, data |-> <<>>]

\* Mutant: cells are stored in the order they came in.
AlignedByPosition(log, cols, incoming, cells) ==
    [p \in 1..Len(cols) |-> IF p =< Len(cells) THEN cells[p] ELSE log.nul]

\* Mutant: a column the batch does not have gets no cell.
AlignedUnpadded(log, cols, incoming, cells) ==
    LET at(m) == {p \in 1..Len(incoming) : p =< Len(cells) /\ incoming[p] = m}
        n == Cardinality({p \in 1..Len(cols) : p = 1 \/ at(cols[p]) # {}})
    IN  [p \in 1..n |-> IF p = 1 THEN cells[1] ELSE cells[Max(at(cols[p]) \cup {1})]]

\* The stored row: each cell goes to the column of its mnemonic (the last one,
\* if the batch names a curve twice), a column the batch does not have gets the
\* log's null, and the index token is first whatever its mnemonic.
Aligned(log, cols, incoming, cells) ==
    LET Cell(m) ==
            LET at == {p \in 1..Len(incoming) : p =< Len(cells) /\ incoming[p] = m}
            IN  IF at = {} THEN log.nul ELSE cells[Max(at)]
    IN  [p \in 1..Len(cols) |-> IF p = 1 THEN cells[1] ELSE Cell(cols[p])]

\* The log after its rows are merged in: a row replaces the one at its index,
\* rows whose index does not parse are skipped.
IngestLogData(log, batch) ==
    LET incoming == IF batch.cols = <<>> THEN log.cols ELSE batch.cols
        cols == IF log.cols = <<>> THEN incoming ELSE log.cols
        At(i) == {n \in DOMAIN batch.data : batch.data[n].i = i}
        parsed == {batch.data[n].i : n \in DOMAIN batch.data} \ {None}
        new == IF incoming = <<>> THEN {} ELSE parsed
    IN  [log EXCEPT !.rows =
            [i \in DOMAIN log.rows \cup new |->
                IF i \in new
                THEN Aligned(log, cols, incoming, batch.data[Max(At(i))].cells)
                ELSE log.rows[i]]]

HasRows(log, batch) ==
    /\ batch.cols # <<>> \/ log.cols # <<>>
    /\ \E n \in DOMAIN batch.data : batch.data[n].i # None

-----------------------------------------------------------------------------
(* AddToStore, UpdateInStore, DeleteFromStore: the return code, and the store
   afterwards. *)

AddCode(objs, key) ==
    IF key.kind \notin Kinds \/ key.uid = "" THEN BadInput
    ELSE IF key \in DOMAIN objs THEN Duplicate
    ELSE Success

\* Mutant: an object that is there already is replaced.
AddReplacing(objs, key, obj, batch) ==
    IF AddCode(objs, key) = BadInput THEN objs
    ELSE Put(objs, key, IF key.kind = "log" THEN IngestLogData(obj, batch) ELSE obj)

\* add_object: a log is stored with the rows shipped with it.
AddObject(objs, key, obj, batch) ==
    IF AddCode(objs, key) # Success THEN objs
    ELSE Put(objs, key, IF key.kind = "log" THEN IngestLogData(obj, batch) ELSE obj)

UpdateCode(objs, key) ==
    IF key.kind \notin Kinds THEN BadInput
    ELSE IF key.kind \in {"log", "mudLog"} /\ key \notin DOMAIN objs THEN NotFound
    ELSE Success

\* update_object: rows and intervals are appended, and mark the object as
\* growing; an update of a well or a wellbore is accepted and does nothing.
UpdateObject(objs, key, batch, intervals) ==
    IF UpdateCode(objs, key) # Success THEN objs
    ELSE CASE key.kind = "log" ->
                  Put(objs, key, [IngestLogData(objs[key], batch) EXCEPT
                                     !.growing = @ \/ HasRows(objs[key], batch)])
           [] key.kind = "mudLog" ->
                  Put(objs, key, [objs[key] EXCEPT
                                     !.growing = @ \/ intervals # <<>>,
                                     !.intervals = @ \o intervals])
           [] OTHER -> objs

\* delete_object: nothing below the object goes with it.
DeleteCode(objs, key) == IF key \in DOMAIN objs THEN Success ELSE NotFound
DeleteObject(objs, key) == Removed(objs, key)

-----------------------------------------------------------------------------
(* GetFromStore. *)

\* Query by example: an empty uid matches every object.
Matches(key, q) ==
    /\ key.kind = q.kind
    /\ q.uid \in {"", key.uid} /\ q.well \in {"", key.well} /\ q.bore \in {"", key.bore}

Found(objs, q) == {k \in DOMAIN objs : Matches(k, q)}

NullSet(log) == {log.nul, Default, ""}

\* Mutant: newest is highest, in every log.
LatestRowsHighest(log, n) ==
    LET Has(i, p) == log.rows[i][p] \notin NullSet(log)
        Newest(p) == {i \in DOMAIN log.rows :
                         /\ Has(i, p)
                         /\ Cardinality({j \in DOMAIN log.rows : Has(j, p) /\ j > i}) < n}
        kept == UNION {Newest(p) : p \in 2..Len(log.cols)}
    IN  [i \in kept |-> log.rows[i]]

\* requestLatestValues: the rows that hold one of the n newest values of some
\* curve, their null cells blanked out with the log's null.
LatestRows(log, n) ==
    LET Has(i, p) == log.rows[i][p] \notin NullSet(log)
        Newest(p) == {i \in DOMAIN log.rows :
                         /\ Has(i, p)
                         /\ Cardinality({j \in DOMAIN log.rows :
                                             Has(j, p) /\ IsBeyond(j, i, log.dir)}) < n}
        kept == UNION {Newest(p) : p \in 2..Len(log.cols)}
    IN  [i \in kept |-> [p \in 1..Len(log.cols) |->
            IF p > 1 /\ ~Has(i, p) THEN log.nul ELSE log.rows[i][p]]]

\* A data-only query from an inclusive start: the log's columns and the rows in
\* range.  (LogFetch has the page limit.)
DataFrom(log, start) == [i \in InRange(DOMAIN log.rows, start, log.dir) |-> log.rows[i]]

\* The header's extents: the lowest and the highest index, of the log and of
\* a column's values, whichever way the log grows; None without rows.
Extent(indices) ==
    IF indices = {} THEN None ELSE [low |-> Min(indices), high |-> Max(indices)]
CurveExtent(log, p) ==
    Extent({i \in DOMAIN log.rows : p = 1 \/ log.rows[i][p] \notin NullSet(log)})

\* _interval_in_range, for an interval that has both its depths.
IntervalInRange(iv, top, bottom, inclusion) ==
    LET Above(d) == top = None \/ d >= top
        Below(d) == bottom = None \/ d =< bottom
    IN  CASE inclusion = "whole-interval" -> Above(iv.top) /\ Below(iv.bottom)
          [] inclusion = "minimum-point" -> Above(iv.top) /\ Below(iv.top)
          [] OTHER -> Above(iv.bottom) /\ Below(iv.top)

\* _query_mudlogs: the intervals of a mudLog that mudlog_query asks for.
IntervalsOf(mudLog, top, bottom, inclusion) ==
    {iv \in {mudLog.intervals[n] : n \in DOMAIN mudLog.intervals} :
        IntervalInRange(iv, top, bottom, inclusion)}

-----------------------------------------------------------------------------
(* The client: parse_log_data and LogDataBlock. *)

\* _decode_cell in a data-only reply, which does not carry the log's nullValue:
\* only the common sentinels are null.
DecodeCell(token) == IF token \in CommonNullSentinels THEN None ELSE token

\* A reply whose mnemonicList is empty, or without rows, has no block.  A block
\* gives for each index the value of each mnemonic, None for a null.
ParseLogData(cols, rows) ==
    IF cols = <<>> THEN <<>>
    ELSE [i \in DOMAIN rows |->
             [m \in {cols[p] : p \in 2..Len(cols)} |->
                 DecodeCell(rows[i][Max({p \in 2..Len(cols) : cols[p] = m})])]]
=============================================================================
