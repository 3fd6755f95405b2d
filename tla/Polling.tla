------------------------------ MODULE Polling ------------------------------
(***************************************************************************)
(* The pure part of incremental polling (backend/app/witsml/polling.py)    *)
(* and the server's row selection (mockstore/store.py), as operators on    *)
(* indices.                                                                *)
(*                                                                         *)
(* A log row is identified by its index: merge_blocks keys rows by index,  *)
(* so a LogDataBlock is abstracted to the set of the indices of its rows.  *)
(* Indices are natural numbers, in the unit of the server's clock (time    *)
(* logs) or depth (depth logs).                                            *)
(***************************************************************************)
EXTENDS Integers, FiniteSets, FiniteSetsExt

CONSTANT None     \* Python's None: no cursor yet, no row in the batch

Increasing == "increasing"
Decreasing == "decreasing"
Directions == {Increasing, Decreasing}

-----------------------------------------------------------------------------
(* polling.py *)

\* Strictly newer than last for the direction.
IsBeyond(index, last, dir) ==
    IF dir = Increasing THEN index > last ELSE index < last

\* Mutant: the last row of the batch, as if every log increased.
ContinuationIndexMax(block, dir) == IF block = {} THEN None ELSE Max(block)

\* Where to resume after a batch: its newest index, None for an empty batch.
ContinuationIndex(block, dir) ==
    IF block = {} THEN None
    ELSE IF dir = Increasing THEN Max(block) ELSE Min(block)

\* Mutant: the boundary row is kept.
DedupeKeepsBoundary(block, last, dir) ==
    IF last = None THEN block ELSE {i \in block : ~IsBeyond(last, i, dir)}

\* The rows of the block that are strictly beyond the cursor we resumed from.
DedupeBoundary(block, last, dir) ==
    IF last = None THEN block ELSE {i \in block : IsBeyond(i, last, dir)}

\* Mutant: only the last batch is kept.
MergeBlocksLast(earlier, later) == later

\* One row per index.
MergeBlocks(earlier, later) == earlier \cup later

\* The rows of a merged block in the order of their indices: the n-th is the one
\* that has n rows up to it.
Ascending(block) ==
    [n \in 1..Cardinality(block) |->
        CHOOSE i \in block : Cardinality({j \in block : j =< i}) = n]

-----------------------------------------------------------------------------
(* The query: the start index the server sees, and the rows it selects. *)

\* queries.py renders the start of a time log with millisecond precision,
\* rounding down; a depth is rendered exactly (resolution = 1).
RenderStart(start, resolution) ==
    IF start = None THEN None ELSE start - (start % resolution)

\* The rows at or past the inclusive start boundary.
InRange(rows, start, dir) ==
    IF start = None THEN rows ELSE {i \in rows : ~IsBeyond(start, i, dir)}

\* The first maxNodes of them in the log's own direction.
SelectRows(rows, start, dir, maxNodes) ==
    LET inRange == InRange(rows, start, dir)
        Earlier(i) == {j \in inRange : IsBeyond(i, j, dir)}
    IN  {i \in inRange : Cardinality(Earlier(i)) < maxNodes}

\* Mutant: the page is full, but the reply still says +1.
TruncatedOffByOne(rows, start, dir, maxNodes) ==
    Cardinality(InRange(rows, start, dir)) > maxNodes + 1

\* Return code +2 (partial) rather than +1.
Truncated(rows, start, dir, maxNodes) ==
    Cardinality(InRange(rows, start, dir)) > maxNodes

-----------------------------------------------------------------------------
\* What a fetch from `start` promises about the block it returns, against the
\* rows the server has: only real rows, and no hole: every row the caller has
\* not seen (beyond its start) and not beyond a returned row was returned.
FetchContract(rows, start, block, dir) ==
    /\ block \subseteq rows
    /\ \A i \in DedupeBoundary(rows, start, dir), j \in block :
           ~IsBeyond(i, j, dir) => i \in block

\* How far a fetch from `start` gets, against the rows the server had when it
\* began: it has every row in range, or it was cut off when it had the row at its
\* start and had gone beyond it.
FetchAdvances(atStart, start, block, dir) ==
    \/ InRange(atStart, start, dir) \subseteq block
    \/ start \in block \cup {None} /\ DedupeBoundary(block, start, dir) # {}
=============================================================================
