------------------------------ MODULE ReadApi ------------------------------
(***************************************************************************)
(* The requests that put an answer together from several reads: the export *)
(* of a well's curves (api/export.py), which merges the warm ring buffer   *)
(* with the history in the database; the tree of wells and wellbores       *)
(* (api/discovery.py) and the comparison of wells (api/comparison.py),     *)
(* which query the WITSML store object by object.  Between two reads the   *)
(* ingestion goes on, the store changes, a query fails or the process      *)
(* restarts.                                                               *)
(*                                                                         *)
(* One action is what a handler does up to its next await.  The ingestion  *)
(* (module Ingestion) is reduced to what a reader of one increasing log    *)
(* sees of it: rows go into the buffers, then into the history unless the  *)
(* insert fails, and are read again after a restart.                       *)
(***************************************************************************)
EXTENDS WitsmlStore, SequencesExt

CONSTANTS
    Objects,      \* the wells, wellbores and mudLogs there may be, by key
    Named,        \* the wells a comparison may name
    Mnems,        \* the curves of the log
    MaxIdx,       \* bound: the indices are 1..MaxIdx
    Capacity,     \* max_samples of a ring buffer
    Limits,       \* the limits an export may ask for
    MaxWells,     \* MAX_WELLS
    MaxSteps,     \* bound: steps of ingestion and of the store's clients
    MaxFailures,  \* bound: failed queries
    MaxRequests   \* bound: requests

\* A mudLog as the store keeps it.
MudLogs == [growing : BOOLEAN, intervals : Seq([top : Int, bottom : Int])]

ASSUME ReadApiConstants ==
    /\ \A k \in DOMAIN Objects :
           /\ k.kind \in {"well", "wellbore", "mudLog"}
           /\ k.kind = "mudLog" => Objects[k] \in MudLogs
    /\ IsFiniteSet(Mnems)
    /\ Capacity \in Nat \ {0} /\ Limits \subseteq Nat \ {0} /\ MaxWells \in Nat \ {0}
    /\ {MaxIdx, MaxSteps, MaxFailures, MaxRequests} \subseteq Nat
    /\ None \notin Int /\ None # {}

VARIABLES
    objs,      \* the WITSML store
    ring,      \* the warm store: for each curve, its samples
    history,   \* curve_samples: the batches of samples that were inserted
    pending,   \* the batch whose insert is under way
    cursor,    \* the index ingested last
    life,      \* how often the process has started
    req,       \* the request being handled, or its answer
    asof,      \* the objects of the store when the request began, without those
               \* deleted since
    budget     \* what is left of the bounds

feed == <<ring, history, pending, cursor, life>>
vars == <<objs, feed, req, asof, budget>>

Wells == {k.uid : k \in {k \in DOMAIN Objects : k.kind = "well"}}
Ready == req.op \in {"none", "exported", "treed", "compared", "refused"}

Init ==
    /\ objs = Objects /\ asof = <<>>
    /\ ring = [m \in Mnems |-> <<>>] /\ history = <<>> /\ pending = {}
    /\ cursor = 0 /\ life = 1
    /\ req = [op |-> "none"]
    /\ budget = [steps |-> MaxSteps, failures |-> MaxFailures, requests |-> MaxRequests]

Spend(what) == budget[what] > 0 /\ budget' = [budget EXCEPT ![what] = @ - 1]

-----------------------------------------------------------------------------
(* Ingestion, as a reader sees it. *)

Newest(s, n) == IF Len(s) =< n THEN s ELSE SubSeq(s, Len(s) - n + 1, Len(s))

\* get_recent.
GetRecent(m, n) == Newest(ring[m], n)

\* _do_ingest_log up to its await: n rows are appended, a sample for each curve.
\* A value tells in which life it was read: a row may have been written anew.
Ingest(n) ==
    LET At(m) == [j \in 1..n |-> [m |-> m, i |-> cursor + j, v |-> life]]
    IN  /\ Spend("steps") /\ pending = {} /\ cursor + n =< MaxIdx
        /\ ring' = [m \in Mnems |-> Newest(ring[m] \o At(m), Capacity)]
        /\ pending' = UNION {ToSet(At(m)) : m \in Mnems}
        /\ cursor' = cursor + n
        /\ UNCHANGED <<objs, history, life, req, asof>>

\* _persist_samples: all of the batch, or none of it.
Persist(ok) ==
    /\ pending # {}
    /\ IF ok THEN UNCHANGED budget ELSE Spend("failures")
    /\ history' = IF ok THEN Append(history, pending) ELSE history
    /\ pending' = {}
    /\ UNCHANGED <<objs, ring, cursor, life, req, asof>>

\* The process restarts: what it has not committed is lost, the request too, and
\* ingestion resumes from an index it had saved.
Restart(saved) ==
    /\ Spend("steps") /\ life = 1 /\ saved =< cursor
    /\ ring' = [m \in Mnems |-> <<>>] /\ pending' = {}
    /\ cursor' = saved /\ life' = life + 1
    /\ req' = [op |-> "none"] /\ asof' = <<>>
    /\ UNCHANGED <<objs, history>>

-----------------------------------------------------------------------------
(* Other clients of the store. *)

Add(key) ==
    /\ Spend("steps") /\ AddCode(objs, key) = Success
    /\ objs' = AddObject(objs, key, Objects[key], NoBatch)
    /\ UNCHANGED <<feed, req, asof>>

Grow(key, interval) ==
    /\ Spend("steps") /\ key.kind = "mudLog" /\ UpdateCode(objs, key) = Success
    /\ interval \notin ToSet(objs[key].intervals)
    /\ objs' = UpdateObject(objs, key, NoBatch, <<interval>>)
    /\ UNCHANGED <<feed, req, asof>>

Delete(key) ==
    /\ Spend("steps") /\ DeleteCode(objs, key) = Success
    /\ objs' = DeleteObject(objs, key) /\ asof' = Removed(asof, key)
    /\ UNCHANGED <<feed, req>>

-----------------------------------------------------------------------------
(* A request begins, and is answered. *)

Begins == Ready /\ Spend("requests") /\ asof' = objs /\ UNCHANGED <<objs, feed>>
Continues(op) == req.op = op /\ UNCHANGED <<objs, feed, asof>>

\* get_from_store answers, or the call fails (a transport error, a negative
\* return code).
Answers(ok) == IF ok THEN UNCHANGED budget ELSE Spend("failures")

-----------------------------------------------------------------------------
(* _gather_curves. *)

\* The curves asked for: all of them if none is named.
Asked(mnems) == IF mnems = {} THEN Mnems ELSE mnems

Readable(m) == {s.i : s \in ToSet(ring[m]) \cup {s \in UNION ToSet(history) : s.m = m}}

BeginExport(mnems, limit) ==
    /\ Begins
    /\ req' = [op |-> "export", mnems |-> mnems, limit |-> limit,
               warm |-> [m \in Asked(mnems) |-> GetRecent(m, limit)],
               readable |-> [m \in Asked(mnems) |-> Readable(m)]]

\* The table's rows of the curves asked for, each with the batch it came in.
TableRows(mnems) ==
    {row \in UNION {{b} \X history[b] : b \in DOMAIN history} : row[2].m \in Asked(mnems)}

\* _history_samples: the first rows by index, of all the curves together; rows
\* with the same index come in any order.
HistoryReads(mnems, limit) ==
    LET P == TableRows(mnems)
        Lower(p) == {q \in P : q[2].i < p[2].i}
        UpTo(p) == {q \in P : q[2].i =< p[2].i}
        certain == {p \in P : Cardinality(UpTo(p)) =< limit}
        tied == {p \in P \ certain : Cardinality(Lower(p)) < limit}
    IN  {{p[2] : p \in certain \cup t} :
            t \in {t \in SUBSET tied :
                      Cardinality(t) = Min({Cardinality(tied), limit - Cardinality(certain)})}}

\* Of the rows the history has twice, the one that comes first.
FirstOfEach(read) ==
    LET Same(s) == {t \in read : t.m = s.m /\ t.i = s.i}
        twice == {s \in read : Same(s) # {s}}
    IN  {read \ d : d \in {d \in SUBSET twice :
                               \A s \in twice : Cardinality(Same(s) \ d) = 1}}

\* Mutant: the row of the history wins.
MergedHistory(warm, hist) == hist \cup {s \in warm : \A h \in hist : h.i # s.i}

\* One sample for each index, the warm one if there is one.
Merged(warm, hist) == warm \cup {h \in hist : \A s \in warm : h.i # s.i}

\* Mutant: the buffer is read after the history.
WarmAfter(m) == GetRecent(m, req.limit)

WarmOf(m) == req.warm[m]

\* Mutant: the merged samples are not cut to the limit.
LastOfAll(samples, limit) == samples

\* Sorted by index, the last limit of them.
LastOf(samples, limit) ==
    {s \in samples : Cardinality({t \in samples : t.i > s.i}) < limit}

FinishExport(ok) ==
    /\ Continues("export") /\ Answers(ok)
    /\ \E read \in IF ok THEN HistoryReads(req.mnems, req.limit) ELSE {{}} :
       \E first \in FirstOfEach(read) :
          req' = [op |-> "exported", limit |-> req.limit, warm |-> req.warm,
                  readable |-> req.readable, ok |-> ok,
                  all |-> Cardinality(TableRows(req.mnems)) =< req.limit,
                  got |-> [m \in Asked(req.mnems) |->
                              LastOf(Merged(ToSet(WarmOf(m)), {s \in first : s.m = m}),
                                     req.limit)]]

-----------------------------------------------------------------------------
(* get_tree. *)

Query(kind, well, bore) == [kind |-> kind, well |-> well, bore |-> bore, uid |-> ""]
UidsOf(keys) == {k.uid : k \in keys}

\* The wells; without an answer, or with one that does not parse, there is no tree.
BeginTree(ok) ==
    /\ Begins
    /\ LET wells == UidsOf(Found(objs, Query("well", "", "")))
       IN  req' \in IF ~ok THEN {[op |-> "refused", status |-> s] : s \in {500, 502}}
                    ELSE {[op |-> "tree", todo |-> wells, failed |-> {},
                           got |-> [w \in wells |-> {}]]}

\* Mutant: a query that fails ends the loop.
TreeBoresAborting(w, ok) ==
    /\ Continues("tree") /\ Answers(ok) /\ w \in req.todo
    /\ req' = [req EXCEPT !.todo = IF ok THEN @ \ {w} ELSE {},
                          !.failed = IF ok THEN @ ELSE @ \cup {w},
                          !.got = [@ EXCEPT ![w] =
                                       IF ok THEN UidsOf(Found(objs, Query("wellbore", w, "")))
                                       ELSE {}]]

\* The wellbores of one well, none if the query fails.
TreeBores(w, ok) ==
    /\ Continues("tree") /\ Answers(ok) /\ w \in req.todo
    /\ req' = [req EXCEPT !.todo = @ \ {w},
                          !.failed = IF ok THEN @ ELSE @ \cup {w},
                          !.got = [@ EXCEPT ![w] =
                                       IF ok THEN UidsOf(Found(objs, Query("wellbore", w, "")))
                                       ELSE {}]]

\* The query of a well is answered, but the answer does not parse: that is not an
\* HTTPException, and there is no tree.
TreeBreaks(w) ==
    /\ Continues("tree") /\ Answers(FALSE) /\ w \in req.todo
    /\ req' = [op |-> "refused", status |-> 500]

FinishTree ==
    /\ Continues("tree") /\ req.todo = {}
    /\ req' = [req EXCEPT !.op = "treed"] /\ UNCHANGED budget

-----------------------------------------------------------------------------
(* compare. *)

BeginCompare(wells) ==
    /\ Begins
    /\ req' = IF wells = <<>> \/ Len(wells) > MaxWells THEN [op |-> "refused", status |-> 400]
              ELSE [op |-> "compare", todo |-> wells, bores |-> None, failed |-> {},
                    got |-> [w \in ToSet(wells) |-> {}]]

\* _wellbore_uids of the next well.
CompareBores(ok) ==
    /\ Continues("compare") /\ Answers(ok) /\ req.todo # <<>> /\ req.bores = None
    /\ LET w == Head(req.todo)
       IN  req' = [req EXCEPT
              !.bores = IF ok THEN UidsOf(Found(objs, Query("wellbore", w, ""))) ELSE {},
              !.failed = IF ok THEN @ ELSE @ \cup {<<w, "">>}]

\* The rows of the mudLogs of one wellbore.
Lithology(w, b) ==
    UNION {IntervalsOf(objs[k], None, None, "any-part")
               : k \in Found(objs, Query("mudLog", w, b))}

\* Mutant: a mudLog query that fails ends the loop over the wellbores.
CompareMudLogsBreaking(b, ok) ==
    /\ Continues("compare") /\ Answers(ok) /\ req.bores # None
    /\ b \in req.bores
    /\ LET w == Head(req.todo)
       IN  req' = [req EXCEPT
              !.bores = IF ok THEN @ \ {b} ELSE {},
              !.got = IF ok THEN [@ EXCEPT ![w] = req.got[w] \cup Lithology(w, b)] ELSE @,
              !.failed = IF ok THEN @ ELSE @ \cup {<<w, b>>}]

CompareMudLogs(b, ok) ==
    /\ Continues("compare") /\ Answers(ok) /\ req.bores # None
    /\ b \in req.bores
    /\ LET w == Head(req.todo)
       IN  req' = [req EXCEPT
              !.bores = @ \ {b},
              !.got = IF ok THEN [@ EXCEPT ![w] = req.got[w] \cup Lithology(w, b)] ELSE @,
              !.failed = IF ok THEN @ ELSE @ \cup {<<w, b>>}]

CompareNext ==
    /\ Continues("compare") /\ req.bores = {}
    /\ req' = [req EXCEPT !.todo = Tail(@), !.bores = None,
                          !.op = IF Len(req.todo) = 1 THEN "compared" ELSE @]
    /\ UNCHANGED budget

-----------------------------------------------------------------------------
Environment ==
    \/ \E n \in 1..MaxIdx : Ingest(n)
    \/ \E ok \in BOOLEAN : Persist(ok)
    \/ \E saved \in 0..MaxIdx : Restart(saved)
    \/ \E k \in DOMAIN Objects : Add(k) \/ Delete(k)
    \/ \E k \in DOMAIN Objects, d \in 1..2 : Grow(k, [top |-> d, bottom |-> d + 1])

Bores == {k.uid : k \in {k \in DOMAIN Objects : k.kind = "wellbore"}}

Handler ==
    \/ \E mnems \in SUBSET Mnems, limit \in Limits : BeginExport(mnems, limit)
    \/ \E ok \in BOOLEAN : FinishExport(ok) \/ BeginTree(ok) \/ CompareBores(ok)
    \/ \E w \in Wells, ok \in BOOLEAN : TreeBores(w, ok)
    \/ \E w \in Wells : TreeBreaks(w)
    \/ FinishTree
    \/ \E ws \in UNION {[1..n -> Named] : n \in 0..(MaxWells + 1)} :
           IsInjective(ws) /\ BeginCompare(ws)
    \/ \E b \in Bores, ok \in BOOLEAN : CompareMudLogs(b, ok)
    \/ CompareNext

Next == Environment \/ Handler

Spec == Init /\ [][Next]_vars

-----------------------------------------------------------------------------
(* Properties. *)

\* The buffers hold at most max_samples samples, the answer of an export at most
\* as many as were asked for, and a comparison has an entry for each well.
TypeOK ==
    /\ \A m \in Mnems : Len(ring[m]) =< Capacity
    /\ \A s \in UNION ToSet(history) : s.m \in Mnems /\ s.i \in 1..MaxIdx
    /\ cursor \in 0..MaxIdx /\ life \in 1..2
    /\ DOMAIN asof \subseteq DOMAIN Objects /\ DOMAIN objs \subseteq DOMAIN Objects
    /\ Ready \/ req.op \in {"export", "tree", "compare"}
    /\ req.op = "exported" => \A m \in DOMAIN req.got : Cardinality(req.got[m]) =< req.limit
    /\ req.op \in {"tree", "compare"} => DOMAIN req.got \subseteq Wells \cup Named

\* "History fills ... stretches the bounded ring buffer doesn't cover": a row
\* that could be read when an export began is in the answer, unless limit newer
\* rows are, whatever was ingested, evicted or persisted while it ran.  If the
\* history cannot be read, this holds of the rows in the buffer; it presumes that
\* the history is within the limit.
ExportComplete ==
    req.op = "exported" /\ (req.all \/ ~req.ok) =>
        \A m \in DOMAIN req.got :
            \A i \in IF req.ok THEN req.readable[m] ELSE {s.i : s \in ToSet(req.warm[m])} :
                LET got == {s.i : s \in req.got[m]}
                IN  i \in got \/ Cardinality({j \in got : j > i}) = req.limit

\* "Warm-store samples win on overlap": of a row that was read again after a
\* restart, and that both have, the export shows the sample in the buffer, once.
ExportWarmWins ==
    req.op = "exported" =>
        \A m \in DOMAIN req.got : \A s \in req.got[m] :
            /\ \A t \in ToSet(req.warm[m]) : t.i = s.i => s = t
            /\ \A t \in req.got[m] : t.i = s.i => s = t

\* "A single bad well does not blank the whole tree": every well that was there
\* when the request began, and has not been deleted, is in the tree, with all
\* such wellbores unless the query of this very well failed.  An answer that does
\* not parse is the exception: the request then fails as a whole, with a 500.
TreeComplete ==
    req.op = "treed" =>
        \A k \in DOMAIN asof :
            /\ k.kind = "well" => k.uid \in DOMAIN req.got
            /\ (k.kind = "wellbore" /\ k.well \in DOMAIN req.got \ req.failed)
                   => k.uid \in req.got[k.well]

\* "Per-well failures degrade to empty lithology for that well only": a
\* comparison has all the intervals that were there when it began, except those
\* under a wellbore that was deleted or whose own query, or whose well's, failed.
CompareComplete ==
    req.op = "compared" =>
        \A k \in DOMAIN asof :
            LET bore == Key("wellbore", k.well, "", k.bore)
            IN  /\ k.kind = "mudLog" /\ k.well \in DOMAIN req.got
                /\ bore \in DOMAIN asof
                /\ {<<k.well, "">>, <<k.well, k.bore>>} \cap req.failed = {}
                => ToSet(asof[k].intervals) \subseteq req.got[k.well]
=============================================================================
