--------------------------- MODULE LogFetchProofs ---------------------------
(***************************************************************************)
(* Proofs about the +2 loop of LogFetch, for every direction, page size,   *)
(* iteration limit and number of rows.                                     *)
(***************************************************************************)
EXTENDS LogFetch, PollingProofs

\* A page is a prefix, in the log's direction, of the rows in range.
LEMMA PageIsPrefix ==
    ASSUME NEW R \in SUBSET Idx, NEW from \in Int \cup {None}, NEW dir, NEW page \in Nat,
           NEW i \in InRange(R, from, dir),
           NEW j \in SelectRows(R, from, dir, page),
           ~IsBeyond(i, j, dir)
    PROVE  i \in SelectRows(R, from, dir, page)
<1> DEFINE S == InRange(R, from, dir)
           Earlier(k) == {m \in S : IsBeyond(k, m, dir)}
<1>1. S \in SUBSET Idx /\ j \in S
  BY DEF InRange, SelectRows
<1>2. Earlier(i) \in SUBSET Earlier(j)
  BY <1>1, SMT DEF IsBeyond, Idx
<1>3. IsFiniteSet(Earlier(j))
  <2>1. IsFiniteSet(Idx)
    BY FS_Interval, FetchConstants, SMT DEF Idx
  <2>2. Earlier(j) \in SUBSET Idx
    BY <1>1
  <2> QED BY <2>1, <2>2, FS_Subset
<1>4. IsFiniteSet(Earlier(i)) /\ Cardinality(Earlier(i)) =< Cardinality(Earlier(j))
  BY <1>2, <1>3, FS_Subset
<1>5. Cardinality(Earlier(i)) \in Nat /\ Cardinality(Earlier(j)) \in Nat
  BY <1>3, <1>4, FS_CardinalityType
<1>6. Cardinality(Earlier(j)) < page
  BY DEF SelectRows
<1>7. Cardinality(Earlier(i)) < page
  BY <1>4, <1>5, <1>6, FetchConstants, SMT
<1> QED BY <1>7 DEF SelectRows

\* The start index the server sees is not beyond the one the client meant,
\* for the logs whose rows the rendering cannot skip: those that increase,
\* and those whose indices are rendered exactly.
LEMMA RenderStartSafe ==
    ASSUME NEW dir, NEW resolution \in Nat \ {0}, NEW s \in Idx,
           dir = Increasing \/ resolution = 1
    PROVE  /\ RenderStart(s, resolution) \in Int
           /\ ~IsBeyond(RenderStart(s, resolution), s, dir)
<1>1. s \in Nat /\ s # None /\ Increasing # Decreasing
  BY FetchConstants DEF Idx, Increasing, Decreasing
<1>2. s % resolution \in Nat
  BY <1>1, SMT
<1>3. CASE resolution = 1
  BY <1>1, <1>3, SMT DEF RenderStart, IsBeyond
<1>4. CASE dir = Increasing
  BY <1>1, <1>2, <1>4, SMT DEF RenderStart, IsBeyond
<1> QED BY <1>3, <1>4
-----------------------------------------------------------------------------
(* The loop. *)

\* No log that is fetched decreases and has a rounded start.
Renderable == \A k \in LogKinds : k.dir = Increasing \/ k.resolution = 1

\* The fields of the log's description.
LEMMA KindFields ==
    ASSUME kind \in LogKinds
    PROVE  kind.page \in Nat \ {0} /\ kind.resolution \in Nat \ {0}
  BY FetchConstants

\* TypeOK, with the bound on the iterations that keeps it inductive.
TypeInv ==
    /\ TypeOK
    /\ pc = "query" => iter < MaxIter

\* The strengthening of NoGaps that the loop maintains: the batches so far
\* never have a hole, and a query resumes either from the caller's start or
\* from a row that has already been fetched.
LoopInv ==
    /\ TypeInv
    /\ pc \in {"query", "done"} => FetchContract(rows, start, block, kind.dir)
    /\ pc = "query" => (cursor = start \/ cursor \in block)

\* What one loop iteration does, and that the cursor it leaves is a fetched row.
LEMMA ReplyStep ==
    ASSUME TypeInv, Reply,
           NEW batch, batch = SelectRows(rows, RenderStart(cursor, kind.resolution), kind.dir, kind.page)
    PROVE  /\ pc = "query" /\ block' = block \cup batch
           /\ batch \subseteq rows
           /\ UNCHANGED <<kind, rows, start, atStart>>
           /\ iter' \in 0..MaxIter /\ pc' \in {"query", "done"}
           /\ pc' = "query" => iter' < MaxIter
           /\ \/ cursor' = cursor /\ lastIndex' = lastIndex /\ pc' = "done"
              \/ cursor' \in batch /\ lastIndex' = cursor'
<1> DEFINE next == ContinuationIndex(batch, kind.dir)
<1>1. /\ pc = "query" /\ block' = block \cup batch
      /\ UNCHANGED <<kind, rows, start, atStart>>
      /\ iter' = iter + 1 /\ pc' \in {"query", "done"}
      /\ pc' = "query" => iter' # MaxIter
      /\ \/ cursor' = cursor /\ lastIndex' = lastIndex /\ pc' = "done"
         \/ cursor' = next /\ lastIndex' = next /\ next # None
  BY DEF Reply, MergeBlocks
<1>2. batch \subseteq rows
  BY DEF SelectRows, InRange
<1>3. next # None => next \in batch
  <2>1. batch \in SUBSET (0..MaxIdx)
    BY <1>2 DEF TypeInv, TypeOK, Idx
  <2> QED BY <2>1, ContinuationOfBatch, FetchConstants
<1>4. iter' \in 0..MaxIter /\ (pc' = "query" => iter' < MaxIter)
  BY <1>1, FetchConstants, SMT DEF TypeInv, TypeOK
<1> QED BY <1>1, <1>2, <1>3, <1>4

\* TypeInv is inductive.
LEMMA TypeInvInductive == TypeInv /\ [Next]_vars => TypeInv'
<1> SUFFICES ASSUME TypeInv, [Next]_vars PROVE TypeInv'
  OBVIOUS
<1>1. CASE \E i \in Idx : AppendRow(i)
  BY <1>1 DEF AppendRow, client, TypeInv, TypeOK
<1>2. CASE \E s \in rows \cup {None} : BeginFetch(s)
  BY <1>2, FetchConstants DEF BeginFetch, TypeInv, TypeOK
<1>3. CASE Reply
  <2> DEFINE batch == SelectRows(rows, RenderStart(cursor, kind.resolution), kind.dir, kind.page)
  <2>1. /\ block' = block \cup batch /\ batch \subseteq rows
        /\ UNCHANGED <<kind, rows, start, atStart>>
        /\ iter' \in 0..MaxIter /\ pc' \in {"query", "done"}
        /\ pc' = "query" => iter' < MaxIter
        /\ \/ cursor' = cursor /\ lastIndex' = lastIndex
           \/ cursor' \in batch /\ lastIndex' = cursor'
    BY <1>3, ReplyStep
  <2> HIDE DEF batch
  <2> QED BY <2>1 DEF TypeInv, TypeOK
<1>4. CASE Fail
  BY <1>4 DEF Fail, TypeInv, TypeOK
<1>5. CASE Return
  BY <1>5 DEF Return, TypeInv, TypeOK
<1>6. CASE UNCHANGED vars
  BY <1>6 DEF vars, client, TypeInv, TypeOK
<1> QED BY <1>1, <1>2, <1>3, <1>4, <1>5, <1>6 DEF Next

\* The new batch, added to a hole-free block, leaves no hole: a row before
\* the page is covered by the row the page resumed from.
LEMMA BatchExtends ==
    ASSUME Renderable,
           LoopInv, pc = "query",
           NEW batch, batch = SelectRows(rows, RenderStart(cursor, kind.resolution), kind.dir, kind.page)
    PROVE  FetchContract(rows, start, block \cup batch, kind.dir)
<1> DEFINE from == RenderStart(cursor, kind.resolution)
<1>0. /\ kind.page \in Nat \ {0} /\ kind.resolution \in Nat \ {0}
      /\ kind.dir = Increasing \/ kind.resolution = 1
  BY KindFields DEF LoopInv, TypeInv, TypeOK, Renderable
<1>1. /\ rows \in SUBSET Idx /\ block \subseteq rows
      /\ cursor \in Idx \cup {None} /\ start \in Idx \cup {None}
      /\ cursor = start \/ cursor \in block
      /\ FetchContract(rows, start, block, kind.dir)
  BY DEF LoopInv, TypeInv, TypeOK
<1>2. from \in Int \cup {None}
  <2>1. CASE cursor = None
    BY <2>1 DEF RenderStart
  <2>2. CASE cursor \in Idx
    BY <1>0, <2>2, RenderStartSafe
  <2> QED BY <1>1, <2>1, <2>2
<1>3. batch \subseteq InRange(rows, from, kind.dir) /\ batch \subseteq rows
  BY DEF SelectRows, InRange
<1>4. ASSUME NEW i \in DedupeBoundary(rows, start, kind.dir),
             NEW j \in batch, ~IsBeyond(i, j, kind.dir)
      PROVE  i \in block \cup batch
  <2>1. i \in rows /\ i \in Int /\ j \in Int
    BY <1>1, <1>3 DEF DedupeBoundary, Idx
  <2>2. CASE i \in InRange(rows, from, kind.dir)
    BY <1>0, <1>1, <1>2, <1>4, <2>2, PageIsPrefix
  <2>3. CASE i \notin InRange(rows, from, kind.dir)
    <3>1. from # None /\ IsBeyond(from, i, kind.dir)
      BY <2>1, <2>3 DEF InRange
    <3>2. cursor \in Idx
      BY <1>1, <3>1 DEF RenderStart
    <3>3. from \in Int /\ ~IsBeyond(from, cursor, kind.dir)
      BY <1>0, <3>2, RenderStartSafe
    <3>4. IsBeyond(cursor, i, kind.dir) /\ ~IsBeyond(i, cursor, kind.dir)
      BY <2>1, <3>1, <3>2, <3>3, SMT DEF IsBeyond, Idx
    <3>5. cursor # start
      <4>1. SUFFICES ASSUME cursor = start PROVE FALSE
        OBVIOUS
      <4>2. start # None
        BY <4>1, <3>2, FetchConstants DEF Idx
      <4>3. IsBeyond(i, start, kind.dir)
        BY <4>2 DEF DedupeBoundary
      <4> QED BY <4>1, <4>3, <3>4
    <3>6. cursor \in block
      BY <1>1, <3>5
    <3> QED BY <1>1, <3>4, <3>6 DEF FetchContract
  <2> QED BY <2>2, <2>3
<1>5. ASSUME NEW i \in DedupeBoundary(rows, start, kind.dir),
             NEW j \in block, ~IsBeyond(i, j, kind.dir)
      PROVE  i \in block
  BY <1>1, <1>5 DEF FetchContract
<1> QED BY <1>1, <1>3, <1>4, <1>5 DEF FetchContract

\* LoopInv is inductive.
LEMMA LoopInvInductive ==
    ASSUME Renderable, LoopInv, [Next]_vars
    PROVE  LoopInv'
<1>0. TypeInv'
  BY TypeInvInductive DEF LoopInv
<1>1. CASE \E i \in Idx : AppendRow(i)
  <2> PICK i \in Idx : AppendRow(i)
    BY <1>1
  <2>1. /\ rows' = rows \cup {i} /\ block' = block /\ start' = start /\ kind' = kind
        /\ pc' = pc /\ cursor' = cursor
    BY DEF AppendRow, client
  <2>2. \A j \in block : IsBeyond(i, j, kind.dir)
    BY DEF AppendRow, LoopInv, TypeInv, TypeOK
  <2>3. FetchContract(rows, start, block, kind.dir) => FetchContract(rows', start', block', kind.dir)
    BY <2>1, <2>2 DEF FetchContract, DedupeBoundary
  <2> QED BY <1>0, <2>1, <2>3 DEF LoopInv
<1>2. CASE \E s \in rows \cup {None} : BeginFetch(s)
  BY <1>0, <1>2 DEF BeginFetch, LoopInv, FetchContract
<1>3. CASE Reply
  <2> DEFINE batch == SelectRows(rows, RenderStart(cursor, kind.resolution), kind.dir, kind.page)
  <2>1. /\ pc = "query" /\ block' = block \cup batch
        /\ UNCHANGED <<kind, rows, start>>
        /\ pc' = "done" \/ cursor' \in batch
    BY <1>3, ReplyStep DEF LoopInv
  <2>2. FetchContract(rows, start, block \cup batch, kind.dir)
    BY <2>1, BatchExtends
  <2> HIDE DEF batch
  <2> QED BY <1>0, <2>1, <2>2 DEF LoopInv
<1>4. CASE Fail
  BY <1>0, <1>4 DEF Fail, LoopInv
<1>5. CASE Return
  BY <1>0, <1>5 DEF Return, LoopInv
<1>6. CASE UNCHANGED vars
  BY <1>0, <1>6 DEF vars, client, LoopInv, FetchContract, DedupeBoundary
<1> QED BY <1>1, <1>2, <1>3, <1>4, <1>5, <1>6 DEF Next

\* The client's locals keep their types, the loop stays within its limit, and
\* the client only ever holds rows of the log.
THEOREM FetchTypeCorrect == Spec => []TypeOK
<1>1. Init => TypeInv
  BY FetchConstants DEF Init, TypeInv, TypeOK
<1>2. TypeInv /\ [Next]_vars => TypeInv'
  BY TypeInvInductive
<1>3. TypeInv => TypeOK
  BY DEF TypeInv
<1> QED BY <1>1, <1>2, <1>3, PTL DEF Spec

\* Whatever the page size, the iteration limit and the growth of the log
\* during the fetch, get_log_data returns a block without a hole, for a log
\* that increases or whose indices are rendered exactly.
THEOREM FetchHasNoGaps ==
    ASSUME Renderable
    PROVE  Spec => []NoGaps
<1>1. Init => LoopInv
  BY FetchConstants DEF Init, LoopInv, TypeInv, TypeOK
<1>2. LoopInv /\ [Next]_vars => LoopInv'
  BY LoopInvInductive
<1>3. LoopInv => NoGaps
  BY DEF LoopInv, NoGaps
<1> QED BY <1>1, <1>2, <1>3, PTL DEF Spec

-----------------------------------------------------------------------------
(* Completeness: a page that is larger than the rows one rendered start can *)
(* stand for gets the loop past its cursor.                                 *)

\* A set of rows of a log has a first one in the log's direction.
LEMMA FirstRow ==
    ASSUME NEW D \in SUBSET Idx, D # {}, NEW dir
    PROVE  \E m \in D : \A j \in D : ~IsBeyond(m, j, dir)
<1>1. D \in SUBSET Nat /\ D \in SUBSET (0..MaxIdx) /\ D \subseteq Int /\ MaxIdx \in Nat
  BY FetchConstants DEF Idx
<1>2. CASE dir = Increasing
  <2> DEFINE m == Min(D)
  <2>1. m \in D /\ \A j \in D : m =< j
    BY <1>1, MinOfIndices
  <2> HIDE DEF m
  <2> QED BY <1>1, <1>2, <2>1 DEF IsBeyond
<1>3. CASE dir # Increasing
  <2> DEFINE m == Max(D)
  <2>1. m \in D /\ \A j \in D : m >= j
    BY <1>1, MaxOfIndices
  <2> HIDE DEF m
  <2> QED BY <1>1, <1>3, <2>1 DEF IsBeyond
<1> QED BY <1>2, <1>3

\* Every set of rows is finite, and a part of it is no larger.
LEMMA RowsFinite ==
    ASSUME NEW S \in SUBSET Idx
    PROVE  /\ IsFiniteSet(S) /\ Cardinality(S) \in Nat
           /\ \A T \in SUBSET S : Cardinality(T) \in Nat /\ Cardinality(T) =< Cardinality(S)
<1>1. IsFiniteSet(Idx)
  BY FS_Interval, FetchConstants, SMT DEF Idx
<1>2. IsFiniteSet(S) /\ Cardinality(S) \in Nat
  BY <1>1, FS_Subset, FS_CardinalityType
<1>3. ASSUME NEW T \in SUBSET S
      PROVE  Cardinality(T) \in Nat /\ Cardinality(T) =< Cardinality(S)
  BY <1>2, FS_Subset, FS_CardinalityType
<1> QED BY <1>2, <1>3

\* A page that is not truncated has every row in range.
LEMMA WholePage ==
    ASSUME NEW R \in SUBSET Idx, NEW from, NEW dir, NEW page \in Nat,
           ~Truncated(R, from, dir, page)
    PROVE  InRange(R, from, dir) \subseteq SelectRows(R, from, dir, page)
<1> DEFINE S == InRange(R, from, dir)
           Earlier(k) == {m \in S : IsBeyond(k, m, dir)}
<1>1. S \in SUBSET Idx
  BY DEF InRange
<1>2. Cardinality(S) \in Nat /\ IsFiniteSet(S) /\ Cardinality(S) =< page
  BY <1>1, RowsFinite DEF Truncated
<1>3. ASSUME NEW i \in S PROVE Cardinality(Earlier(i)) < page
  <2>1. Earlier(i) \in SUBSET S /\ i \notin Earlier(i)
    BY <1>1, <1>3 DEF IsBeyond, Idx
  <2>2. Cardinality(S \ {i}) = Cardinality(S) - 1 /\ IsFiniteSet(S \ {i})
    BY <1>2, <1>3, FS_RemoveElement
  <2>3. Earlier(i) \subseteq S \ {i}
    BY <2>1
  <2>4. Cardinality(Earlier(i)) =< Cardinality(S \ {i}) /\ Cardinality(Earlier(i)) \in Nat
    BY <2>2, <2>3, FS_Subset, FS_CardinalityType
  <2> QED BY <1>2, <2>2, <2>4
<1> QED BY <1>3 DEF SelectRows

\* The rows between the start the server sees and the cursor that was meant are
\* no more than one rendered start stands for.
LEMMA BoundaryRows ==
    ASSUME NEW R \in SUBSET Idx, NEW c \in Idx, NEW resolution \in Nat \ {0}, NEW dir,
           dir = Increasing \/ resolution = 1
    PROVE  Cardinality({i \in InRange(R, RenderStart(c, resolution), dir) : ~IsBeyond(i, c, dir)})
               =< resolution
<1> DEFINE from == RenderStart(c, resolution)
           C == {i \in InRange(R, from, dir) : ~IsBeyond(i, c, dir)}
<1>1. from \in Int /\ from =< c /\ c - from < resolution /\ c \in Int /\ from # None
      /\ (resolution = 1 => from = c)
  <2>1. c \in Nat /\ c # None
    BY FetchConstants DEF Idx
  <2>2. c % resolution \in Nat /\ c % resolution < resolution
    BY <2>1, SMT
  <2>3. from = c - (c % resolution)
    BY <2>1 DEF RenderStart
  <2>4. from \in Int
    BY <2>1, <2>2, <2>3
  <2> QED BY <2>1, <2>2, <2>3, <2>4, FetchConstants
<1> HIDE DEF from
<1>2. ASSUME NEW i \in C PROVE i \in from..c
  <2>1. i \in Int /\ ~IsBeyond(from, i, dir) /\ ~IsBeyond(i, c, dir)
    BY <1>1 DEF InRange, Idx
  <2> QED BY <1>1, <2>1 DEF IsBeyond
<1>3. IsFiniteSet(from..c) /\ Cardinality(from..c) = c - from + 1
  BY <1>1, FS_Interval
<1>4. Cardinality(C) =< Cardinality(from..c) /\ Cardinality(C) \in Nat
  <2> HIDE DEF C
  <2>1. C \in SUBSET (from..c)
    BY <1>2
  <2> QED BY <1>3, <2>1, FS_Subset, FS_CardinalityType
<1>5. Cardinality(C) =< resolution
  <2> HIDE DEF C
  <2> QED BY <1>1, <1>3, <1>4
<1> QED BY <1>5 DEF from

\* A truncated page larger than that has a row beyond the cursor.
LEMMA PageAdvances ==
    ASSUME NEW R \in SUBSET Idx, NEW c \in Idx \cup {None}, NEW resolution \in Nat \ {0},
           NEW dir, dir = Increasing \/ resolution = 1,
           NEW page \in Nat, page > resolution,
           Truncated(R, RenderStart(c, resolution), dir, page)
    PROVE  \E m \in SelectRows(R, RenderStart(c, resolution), dir, page) :
               c # None => IsBeyond(m, c, dir)
<1> DEFINE from == RenderStart(c, resolution)
           S == InRange(R, from, dir)
           C == {i \in S : c # None /\ ~IsBeyond(i, c, dir)}
           D == S \ C
           Earlier(k) == {m \in S : IsBeyond(k, m, dir)}
<1>1. S \in SUBSET Idx /\ C \in SUBSET Idx /\ D \in SUBSET Idx /\ C \subseteq S
  BY DEF InRange
<1>2. Cardinality(S) > page
  BY DEF Truncated
<1>3. Cardinality(C) \in Nat /\ Cardinality(C) =< resolution
  <2>1. CASE c = None
    <3>1. C = {}
      BY <2>1
    <3> QED BY <3>1, FS_EmptySet
  <2>2. CASE c # None
    <3>1. c \in Idx /\ C = {i \in InRange(R, RenderStart(c, resolution), dir) : ~IsBeyond(i, c, dir)}
      BY <2>2
    <3>2. Cardinality(C) =< resolution
      BY <3>1, BoundaryRows
    <3> QED BY <1>1, <3>2, RowsFinite
  <2> QED BY <2>1, <2>2
<1>4. D # {}
  <2>1. SUFFICES ASSUME D = {} PROVE FALSE
    OBVIOUS
  <2>2. S = C
    BY <1>1, <2>1
  <2>3. Cardinality(S) =< resolution /\ Cardinality(S) \in Nat
    BY <1>3, <2>2
  <2> HIDE DEF S
  <2> QED BY <1>2, <2>3
<1>5. PICK m \in D : \A j \in D : ~IsBeyond(m, j, dir)
  BY <1>1, <1>4, FirstRow
<1>6. m \in S /\ (c # None => IsBeyond(m, c, dir)) /\ Earlier(m) \in SUBSET C
  BY <1>5
<1>7. Cardinality(Earlier(m)) =< Cardinality(C) /\ Cardinality(Earlier(m)) \in Nat
  BY <1>1, <1>6, RowsFinite
<1>8. Cardinality(Earlier(m)) < page
  <2> DEFINE n == Cardinality(Earlier(m))
             k == Cardinality(C)
  <2>1. n =< k /\ n \in Nat /\ k \in Nat /\ k =< resolution
    BY <1>3, <1>7
  <2> HIDE DEF n, k
  <2>2. n < page
    BY <2>1
  <2> QED BY <2>2 DEF n
<1>9. m \in SelectRows(R, from, dir, page)
  BY <1>6, <1>8 DEF SelectRows
<1> QED BY <1>6, <1>9

\* While the loop runs, it has fetched nothing and is at the caller's start, or
\* it has fetched every row from the start to its cursor, the newest row of the
\* last batch, which is beyond the start; and it ends, before its limit, with
\* every row it was asked for, and at its limit beyond the start.
CompleteInv ==
    /\ start \in rows \cup {None}
    /\ kind.page > kind.resolution =>
        /\ pc = "query" =>
               \/ cursor = start /\ lastIndex = None
               \/ /\ cursor \in block /\ lastIndex = cursor
                  /\ start # None => IsBeyond(cursor, start, kind.dir)
                  /\ \A i \in InRange(rows, start, kind.dir) :
                         ~IsBeyond(i, cursor, kind.dir) => i \in block
        /\ CompleteFetch /\ CutOffAdvances

\* A row at or past the caller's start that is before the page was fetched by an
\* earlier one.
LEMMA BeforePage ==
    ASSUME Renderable, TypeInv, CompleteInv, pc = "query", kind.page > kind.resolution,
           NEW i \in InRange(rows, start, kind.dir),
           i \notin InRange(rows, RenderStart(cursor, kind.resolution), kind.dir)
    PROVE  i \in block
<1> DEFINE from == RenderStart(cursor, kind.resolution)
<1>1. /\ rows \subseteq Idx /\ start \in Idx \cup {None} /\ cursor \in Idx \cup {None}
  BY DEF TypeInv, TypeOK
<1>2. i \in rows /\ i \in Idx
  BY <1>1 DEF InRange
<1>3. from # None /\ IsBeyond(from, i, kind.dir)
  BY <1>2 DEF InRange
<1>4. cursor \in Idx
  BY <1>1, <1>3 DEF RenderStart
<1>5. kind.resolution \in Nat \ {0} /\ (kind.dir = Increasing \/ kind.resolution = 1)
  BY KindFields DEF TypeInv, TypeOK, Renderable
<1>6. from \in Int /\ ~IsBeyond(from, cursor, kind.dir)
  BY <1>4, <1>5, RenderStartSafe
<1> HIDE DEF from
<1>7. IsBeyond(cursor, i, kind.dir) /\ ~IsBeyond(i, cursor, kind.dir)
  BY <1>2, <1>3, <1>4, <1>6, SMT DEF IsBeyond, Idx
<1>8. cursor # start
  <2>1. SUFFICES ASSUME cursor = start PROVE FALSE
    OBVIOUS
  <2>2. start # None
    BY <1>4, <2>1, FetchConstants DEF Idx
  <2> QED BY <1>7, <2>1, <2>2 DEF InRange
<1> QED BY <1>7, <1>8 DEF CompleteInv

\* One loop iteration keeps CompleteInv.
LEMMA ReplyKeepsComplete ==
    ASSUME Renderable, TypeInv, CompleteInv, Reply
    PROVE  CompleteInv'
<1> DEFINE dir == kind.dir
           from == RenderStart(cursor, kind.resolution)
           batch == SelectRows(rows, from, dir, kind.page)
           next == ContinuationIndex(batch, dir)
           full == Truncated(rows, from, dir, kind.page)
<1>1. /\ kind.page \in Nat \ {0} /\ kind.resolution \in Nat \ {0}
      /\ dir = Increasing \/ kind.resolution = 1
      /\ rows \in SUBSET Idx /\ cursor \in Idx \cup {None} /\ atStart \subseteq rows
      /\ start \in rows \cup {None} /\ Idx \subseteq Int
  BY KindFields DEF TypeInv, TypeOK, Renderable, CompleteInv, Idx
<1>2. /\ pc = "query" /\ block' = block \cup batch
      /\ UNCHANGED <<kind, rows, start, atStart>> /\ iter' = iter + 1
      /\ IF ~full \/ next \in {None, lastIndex}
         THEN pc' = "done" /\ UNCHANGED <<cursor, lastIndex>>
         ELSE cursor' = next /\ lastIndex' = next /\ pc' = IF iter' = MaxIter THEN "done" ELSE "query"
  BY DEF Reply, MergeBlocks
<1> SUFFICES ASSUME kind.page > kind.resolution
             PROVE  CompleteInv'
  BY <1>1, <1>2 DEF CompleteInv
<1>3. batch \in SUBSET (0..MaxIdx) /\ batch \subseteq rows /\ batch \subseteq Int /\ MaxIdx \in Nat
  <2>1. batch \subseteq rows
    BY DEF SelectRows, InRange
  <2> HIDE DEF batch
  <2> QED BY <1>1, <2>1, FetchConstants DEF Idx
<1>4. IF batch = {} THEN next = None
      ELSE next \in batch /\ \A j \in batch : ~IsBeyond(j, next, dir)
  BY <1>3, ContinuationOfBatch
<1>5. \A i \in InRange(rows, start, dir) : i \notin InRange(rows, from, dir) => i \in block
  BY <1>2, BeforePage
<1>6. CASE ~full
  <2>1. InRange(rows, from, dir) \subseteq batch
    BY <1>1, <1>6, WholePage
  <2>2. InRange(atStart, start, dir) \subseteq InRange(rows, start, dir)
    BY <1>1 DEF InRange
  <2>3. InRange(atStart, start, dir) \subseteq block'
    BY <1>2, <1>5, <2>1, <2>2
  <2>4. pc' = "done"
    BY <1>2, <1>6
  <2> QED BY <1>1, <1>2, <2>3, <2>4 DEF CompleteInv, CompleteFetch, CutOffAdvances, FetchAdvances
<1>7. CASE full
  <2>1. PICK m \in batch : cursor # None => IsBeyond(m, cursor, dir)
    BY <1>1, <1>7, PageAdvances
  <2>2. next \in batch /\ ~IsBeyond(m, next, dir) /\ next # None
    BY <1>3, <1>4, <2>1, FetchConstants
  <2>3. next # lastIndex
    <3>1. CASE lastIndex = None
      BY <2>2, <3>1
    <3>2. CASE lastIndex = cursor /\ cursor # None
      BY <2>1, <2>2, <3>2
    <3> QED BY <1>2, <2>2, <3>1, <3>2 DEF CompleteInv
  <2>4. cursor' = next /\ lastIndex' = next /\ pc' = IF iter' = MaxIter THEN "done" ELSE "query"
    BY <1>2, <1>7, <2>2, <2>3
  <2>5. ASSUME NEW i \in InRange(rows, start, dir), ~IsBeyond(i, next, dir)
        PROVE  i \in block'
    <3>1. CASE i \in InRange(rows, from, dir)
      <4>1. from \in Int \cup {None}
        <5>1. CASE cursor = None
          BY <5>1 DEF RenderStart
        <5>2. CASE cursor \in Idx
          BY <1>1, <5>2, RenderStartSafe
        <5> QED BY <1>1, <5>1, <5>2
      <4>2. i \in batch
        BY <1>1, <2>2, <2>5, <3>1, <4>1, PageIsPrefix
      <4> QED BY <1>2, <4>2
    <3> QED BY <1>2, <1>5, <3>1
  <2> HIDE DEF next, batch
  <2>6. pc' = "done" => ~(iter' < MaxIter)
    BY <2>4, FetchConstants
  <2>7. start # None => IsBeyond(next, start, dir)
    <3> SUFFICES ASSUME start # None PROVE IsBeyond(next, start, dir)
      OBVIOUS
    <3>1. start \in Int /\ next \in Int /\ m \in Int /\ (cursor # None => cursor \in Int)
      BY <1>1, <1>3, <2>1, <2>2
    <3>2. cursor # None /\ (cursor = start \/ IsBeyond(cursor, start, dir))
      BY <1>1, <1>2, FetchConstants DEF CompleteInv, TypeInv, TypeOK, Idx
    <3> QED BY <2>1, <2>2, <3>1, <3>2 DEF IsBeyond
  <2>8. FetchAdvances(atStart, start, block', dir)
    <3>1. next \in DedupeBoundary(block', start, dir)
      BY <1>2, <2>2, <2>7 DEF DedupeBoundary
    <3>2. start \in block' \cup {None}
      <4> SUFFICES ASSUME start # None PROVE start \in block'
        OBVIOUS
      <4>1. start \in Int /\ next \in Int /\ IsBeyond(next, start, dir) /\ start \in rows
        BY <1>1, <1>3, <2>2, <2>7
      <4>2. start \in InRange(rows, start, dir) /\ ~IsBeyond(start, next, dir)
        BY <4>1 DEF InRange, IsBeyond
      <4> QED BY <2>5, <4>2
    <3> QED BY <3>1, <3>2 DEF FetchAdvances
  <2> QED BY <1>1, <1>2, <2>2, <2>4, <2>5, <2>6, <2>7, <2>8
          DEF CompleteInv, CompleteFetch, CutOffAdvances
<1> QED BY <1>6, <1>7

\* CompleteInv is inductive.
LEMMA CompleteInvInductive ==
    ASSUME Renderable, TypeInv, CompleteInv, [Next]_vars
    PROVE  CompleteInv'
<1>1. CASE \E i \in Idx : AppendRow(i)
  <2> PICK i \in Idx : AppendRow(i)
    BY <1>1
  <2>1. /\ rows' = rows \cup {i}
        /\ UNCHANGED <<kind, pc, start, cursor, lastIndex, block, iter, atStart>>
    BY DEF AppendRow, client
  <2>2. \A j \in block : IsBeyond(i, j, kind.dir)
    BY DEF AppendRow, TypeInv, TypeOK
  <2>3. \A j \in InRange(rows', start, kind.dir) : j = i \/ j \in InRange(rows, start, kind.dir)
    BY <2>1 DEF InRange
  <2> QED BY <2>1, <2>2, <2>3 DEF CompleteInv, CompleteFetch, CutOffAdvances
<1>2. CASE \E s \in rows \cup {None} : BeginFetch(s)
  BY <1>2 DEF BeginFetch, CompleteInv, CompleteFetch, CutOffAdvances
<1>3. CASE Reply
  BY <1>3, ReplyKeepsComplete
<1>4. CASE Fail
  BY <1>4 DEF Fail, CompleteInv, CompleteFetch, CutOffAdvances
<1>5. CASE Return
  BY <1>5 DEF Return, CompleteInv, CompleteFetch, CutOffAdvances
<1>6. CASE UNCHANGED vars
  BY <1>6 DEF vars, client, CompleteInv, CompleteFetch, CutOffAdvances, InRange
<1> QED BY <1>1, <1>2, <1>3, <1>4, <1>5, <1>6 DEF Next

\* A fetch that ends before its iteration limit has every row at or past the
\* caller's start that the server had when it began, whatever was appended
\* between its pages, if a page is larger than the rows of one rendered start
\* and no log both decreases and has a rounded start.
THEOREM FetchIsComplete ==
    ASSUME Renderable
    PROVE  Spec => []CompleteFetch
<1>1. Init => TypeInv /\ CompleteInv
  BY FetchConstants DEF Init, TypeInv, TypeOK, CompleteInv, CompleteFetch, CutOffAdvances
<1>2. TypeInv /\ CompleteInv /\ [Next]_vars => TypeInv' /\ CompleteInv'
  BY TypeInvInductive, CompleteInvInductive
<1>3. CompleteInv => CompleteFetch
  BY DEF CompleteInv, CompleteFetch
<1> QED BY <1>1, <1>2, <1>3, PTL DEF Spec

\* However the loop ended, at its iteration limit too, the block get_log_data
\* returns is all there was or reaches beyond the caller's start, under the same
\* two conditions.
THEOREM CutOffFetchAdvances ==
    ASSUME Renderable
    PROVE  Spec => []CutOffAdvances
<1>1. Init => TypeInv /\ CompleteInv
  BY FetchConstants DEF Init, TypeInv, TypeOK, CompleteInv, CompleteFetch, CutOffAdvances
<1>2. TypeInv /\ CompleteInv /\ [Next]_vars => TypeInv' /\ CompleteInv'
  BY TypeInvInductive, CompleteInvInductive
<1>3. CompleteInv => CutOffAdvances
  BY DEF CompleteInv, CutOffAdvances
<1> QED BY <1>1, <1>2, <1>3, PTL DEF Spec
=============================================================================
