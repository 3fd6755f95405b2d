------------------------------ MODULE LogFetch ------------------------------
(***************************************************************************)
(* WitsmlClient.get_log_data (backend/app/witsml/client.py): one log is    *)
(* fetched from a cursor by repeating a data-only query while the server   *)
(* answers +2 (truncated), resuming each time from the newest row of the   *)
(* batch.  Every query is a round trip: the log grows between any two of   *)
(* them.  The server is mockstore's _select_rows.                          *)
(***************************************************************************)
EXTENDS Polling

CONSTANTS
    LogKinds,     \* the logs and settings that occur, see below
    MaxIdx,       \* bound: indices are 0..MaxIdx
    MaxIter       \* _MAX_TRUNCATION_ITERATIONS

\* The growth direction of the log, the page limit (maxReturnNodes), and the
\* index units per rendered start: 1 for a depth, 1000 for a time in microseconds.
ASSUME FetchConstants ==
    /\ LogKinds \subseteq [dir : Directions, page : Nat \ {0}, resolution : Nat \ {0}]
    /\ MaxIdx \in Nat
    /\ MaxIter \in Nat \ {0}
    /\ None \notin Int

Idx == 0..MaxIdx

VARIABLES
    kind,      \* the log that is fetched, a member of LogKinds
    rows,      \* server: indices of the rows the log has
    pc,        \* "idle", "query" (awaiting a reply), "done" or "failed"
    start,     \* argument: the caller's last_index
    cursor,    \* where the next query starts
    lastIndex, \* continuation index of the previous batch
    block,     \* the batches so far, merged
    iter,      \* loop iterations so far
    atStart    \* ghost: the rows the server had when the fetch began

client == <<pc, start, cursor, lastIndex, block, iter>>
vars == <<kind, rows, client, atStart>>

Init ==
    /\ kind \in LogKinds
    /\ rows \in {{}} \cup {{i} : i \in Idx}
    /\ pc = "idle"
    /\ start = None /\ cursor = None /\ lastIndex = None
    /\ block = {} /\ iter = 0
    /\ atStart = {}

\* A growing log is written beyond its newest row (or overwrites a row it
\* has, which changes no index).
AppendRow(i) ==
    /\ \A j \in rows : IsBeyond(i, j, kind.dir)
    /\ rows' = rows \cup {i}
    /\ UNCHANGED <<kind, client, atStart>>

\* Mutant: the iteration count of the previous fetch is not reset.
BeginFetchKeepsIter(s) ==
    /\ pc = "idle"
    /\ start' = s /\ cursor' = s
    /\ lastIndex' = None /\ block' = {} /\ iter' = iter
    /\ atStart' = rows
    /\ pc' = "query"
    /\ UNCHANGED <<kind, rows>>

\* The scheduler calls with no cursor (first poll) or with the index of a row
\* an earlier fetch returned.
BeginFetch(s) ==
    /\ pc = "idle"
    /\ start' = s /\ cursor' = s
    /\ lastIndex' = None /\ block' = {} /\ iter' = 0
    /\ atStart' = rows
    /\ pc' = "query"
    /\ UNCHANGED <<kind, rows>>

\* Mutant: the loop repeats for as long as the server says +2.
ReplyWhileTruncated ==
    /\ pc = "query"
    /\ LET from  == RenderStart(cursor, kind.resolution)
           batch == SelectRows(rows, from, kind.dir, kind.page)
           next  == ContinuationIndex(batch, kind.dir)
       IN  /\ block' = MergeBlocks(block, batch)
           /\ cursor' = next /\ lastIndex' = next
           /\ pc' = IF Truncated(rows, from, kind.dir, kind.page) THEN "query" ELSE "done"
    /\ UNCHANGED <<kind, rows, start, iter, atStart>>

\* One loop iteration: the reply to the query from `cursor`.
Reply ==
    /\ pc = "query"
    /\ LET from  == RenderStart(cursor, kind.resolution)
           batch == SelectRows(rows, from, kind.dir, kind.page)
           next  == ContinuationIndex(batch, kind.dir)
       IN  /\ block' = MergeBlocks(block, batch)
           /\ iter' = iter + 1
           /\ IF \/ ~Truncated(rows, from, kind.dir, kind.page)
                 \/ next \in {None, lastIndex}
              THEN pc' = "done" /\ UNCHANGED <<cursor, lastIndex>>
              ELSE /\ cursor' = next /\ lastIndex' = next
                   /\ pc' = IF iter' = MaxIter THEN "done" ELSE "query"
    /\ UNCHANGED <<kind, rows, start, atStart>>

\* An error code, a transport error, or batches whose headers disagree: the
\* exception discards every batch fetched so far.
Fail ==
    /\ pc = "query"
    /\ pc' = "failed"
    /\ block' = {}
    /\ UNCHANGED <<kind, rows, start, cursor, lastIndex, iter, atStart>>

\* The next poll of the same log is a fresh call.
Return ==
    /\ pc \in {"done", "failed"}
    /\ pc' = "idle"
    /\ UNCHANGED <<kind, rows, start, cursor, lastIndex, block, iter, atStart>>

Next ==
    \/ \E i \in Idx : AppendRow(i)
    \/ \E s \in rows \cup {None} : BeginFetch(s)
    \/ Reply
    \/ Fail
    \/ Return

\* Every request ends: the server answers it, or its timeout is a Fail.
Spec == Init /\ [][Next]_vars /\ WF_vars(Reply)

-----------------------------------------------------------------------------
\* The client's variables hold what get_log_data's locals can hold, and every
\* fetched row is a row of the server's log.
TypeOK ==
    /\ kind \in LogKinds
    /\ rows \subseteq Idx
    /\ pc \in {"idle", "query", "done", "failed"}
    /\ start \in Idx \cup {None}
    /\ cursor \in Idx \cup {None}
    /\ lastIndex \in Idx \cup {None}
    /\ block \subseteq rows
    /\ iter \in 0..MaxIter
    /\ atStart \subseteq rows

\* The block get_log_data returns has no hole, however the log grew between
\* the pages: the caller may take its newest index as its next cursor without
\* losing a row ("no dupes and no gaps").
NoGaps == pc = "done" => FetchContract(rows, start, block, kind.dir)

\* A fetch that returns before its iteration limit has every row at or past
\* its start that the server had when the fetch began, for a page larger than
\* the rows one rendered start index can stand for.
CompleteFetch ==
    pc = "done" /\ iter < MaxIter /\ kind.page > kind.resolution =>
        InRange(atStart, start, kind.dir) \subseteq block

\* A fetch that is cut off at its iteration limit returns what it has as if it
\* were all, but it has got somewhere: to the row the caller resumed from, so that
\* the caller's cursor does not move back, and beyond it, so that the next fetch
\* does not stop at the same place (for such a page).
CutOffAdvances ==
    pc = "done" /\ kind.page > kind.resolution =>
        FetchAdvances(atStart, start, block, kind.dir)

\* The +2 loop ends, also when the page is too small to get past the boundary
\* row.
EventuallyReturns == pc = "query" ~> pc # "query"
=============================================================================
