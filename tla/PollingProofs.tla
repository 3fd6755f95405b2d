--------------------------- MODULE PollingProofs ---------------------------
(***************************************************************************)
(* Lemmas about the operators of Polling, for any bound on the indices.    *)
(***************************************************************************)
EXTENDS Polling, FiniteSetTheorems, WellFoundedInduction, TLAPS

\* min() of a non-empty batch of indices is a row of the batch, and none is lower.
LEMMA MinOfIndices ==
    ASSUME NEW S \in SUBSET Nat, S # {}
    PROVE  Min(S) \in S /\ \A j \in S : Min(S) =< j
<1>1. PICK x \in S : \A y \in S : ~(<<y, x>> \in OpToRel(<, Nat))
  BY WFMin, NatLessThanWellFounded
<1>2. \A y \in S : x =< y
  <2>1. SUFFICES ASSUME NEW y \in S, y < x PROVE FALSE
    BY SMT
  <2>2. <<y, x>> \in OpToRel(<, Nat)
    BY <2>1, SMT DEF OpToRel
  <2> QED BY <2>2, <1>1
<1> QED BY <1>1, <1>2 DEF Min

\* max() of a non-empty batch of bounded indices, likewise.
LEMMA MaxOfIndices ==
    ASSUME NEW N \in Nat, NEW S \in SUBSET (0..N), S # {}
    PROVE  Max(S) \in S /\ \A j \in S : Max(S) >= j
<1> DEFINE T == {N - x : x \in S}
<1>1. T \in SUBSET Nat /\ T # {}
  <2>1. \A x \in S : N - x \in Nat
    BY SMT
  <2> QED BY <2>1
<1>2. Min(T) \in T /\ \A j \in T : Min(T) =< j
  BY <1>1, MinOfIndices
<1>3. PICK x \in S : Min(T) = N - x
  BY <1>2
<1>4. \A y \in S : x >= y
  <2>1. SUFFICES ASSUME NEW y \in S PROVE x >= y
    OBVIOUS
  <2>2. N - x =< N - y
    BY <1>2, <1>3
  <2> QED BY <2>2, SMT
<1> QED BY <1>3, <1>4 DEF Max

\* The continuation index of a batch is None exactly when it is empty, and
\* otherwise a row of the batch that no row is beyond.
LEMMA ContinuationOfBatch ==
    ASSUME NEW N \in Nat, NEW batch \in SUBSET (0..N), NEW dir
    PROVE  IF batch = {} THEN ContinuationIndex(batch, dir) = None
           ELSE /\ ContinuationIndex(batch, dir) \in batch
                /\ \A j \in batch : ~IsBeyond(j, ContinuationIndex(batch, dir), dir)
<1>1. CASE batch = {}
  BY <1>1 DEF ContinuationIndex
<1>2. CASE batch # {} /\ dir = Increasing
  <2>1. Max(batch) \in batch /\ \A j \in batch : Max(batch) >= j
    BY <1>2, MaxOfIndices
  <2>2. ContinuationIndex(batch, dir) = Max(batch)
    BY <1>2 DEF ContinuationIndex
  <2>3. \A j \in batch : ~(j > Max(batch))
    <3> DEFINE m == Max(batch)
    <3>0. batch \subseteq Int
      OBVIOUS
    <3>1. m \in Int /\ \A j \in batch : m >= j
      BY <3>0, <2>1
    <3> HIDE DEF m
    <3>2. \A j \in batch : ~(j > m)
      BY <3>0, <3>1, SMT
    <3> QED BY <3>2 DEF m
  <2> QED BY <1>2, <2>1, <2>2, <2>3 DEF IsBeyond
<1>3. CASE batch # {} /\ dir # Increasing
  <2>1. batch \in SUBSET Nat
    OBVIOUS
  <2>2. Min(batch) \in batch /\ \A j \in batch : Min(batch) =< j
    BY <1>3, <2>1, MinOfIndices
  <2>3. ContinuationIndex(batch, dir) = Min(batch)
    BY <1>3 DEF ContinuationIndex
  <2>4. \A j \in batch : ~(j < Min(batch))
    <3> DEFINE m == Min(batch)
    <3>0. batch \subseteq Int
      OBVIOUS
    <3>1. m \in Int /\ \A j \in batch : m =< j
      BY <3>0, <2>2
    <3> HIDE DEF m
    <3>2. \A j \in batch : ~(j < m)
      BY <3>0, <3>1, SMT
    <3> QED BY <3>2 DEF m
  <2> QED BY <1>3, <2>2, <2>3, <2>4 DEF IsBeyond
<1> QED BY <1>1, <1>2, <1>3

\* The rows of a block up to an index.
RowsUpTo(block, i) == {j \in block : j =< i}

\* The rank of a row is between one and the size of the block, and grows with
\* the index.
LEMMA RankOfRow ==
    ASSUME NEW block \in SUBSET Int, IsFiniteSet(block), NEW i \in block
    PROVE  /\ Cardinality(RowsUpTo(block, i)) \in 1..Cardinality(block)
           /\ \A k \in block : i < k =>
                  Cardinality(RowsUpTo(block, i)) < Cardinality(RowsUpTo(block, k))
<1>1. \A k : RowsUpTo(block, k) \in SUBSET block
  BY DEF RowsUpTo
<1>2. \A k : /\ IsFiniteSet(RowsUpTo(block, k))
             /\ Cardinality(RowsUpTo(block, k)) =< Cardinality(block)
  BY <1>1, FS_Subset
<1>3. /\ Cardinality(block) \in Nat
      /\ \A k : Cardinality(RowsUpTo(block, k)) \in Nat
  BY <1>2, FS_CardinalityType
<1>4. i \in RowsUpTo(block, i)
  BY DEF RowsUpTo
<1>5. Cardinality(RowsUpTo(block, i)) # 0
  BY <1>2, <1>4, FS_EmptySet
<1>6. ASSUME NEW k \in block, i < k
      PROVE  Cardinality(RowsUpTo(block, i)) < Cardinality(RowsUpTo(block, k))
  <2>1. RowsUpTo(block, i) \in SUBSET RowsUpTo(block, k)
    <3>1. \A j \in block : j =< i => j =< k
      BY <1>6
    <3> QED BY <3>1 DEF RowsUpTo
  <2>2. k \in RowsUpTo(block, k) /\ k \notin RowsUpTo(block, i)
    BY <1>6 DEF RowsUpTo
  <2>3. /\ Cardinality(RowsUpTo(block, i)) =< Cardinality(RowsUpTo(block, k))
        /\ Cardinality(RowsUpTo(block, k)) # Cardinality(RowsUpTo(block, i))
    <3>1. IsFiniteSet(RowsUpTo(block, k))
      BY <1>2
    <3> QED BY <2>1, <2>2, <3>1, FS_Subset
  <2> QED BY <1>3, <2>3
<1>7. Cardinality(RowsUpTo(block, i)) \in 1..Cardinality(block)
  BY <1>2, <1>3, <1>5
<1> QED BY <1>6, <1>7

\* merge_blocks sorts: each row of a block is in the sequence, once, and the
\* sequence rises strictly.
LEMMA AscendingFacts ==
    ASSUME NEW block \in SUBSET Int, IsFiniteSet(block)
    PROVE  /\ Cardinality(block) \in Nat
           /\ Ascending(block) \in [1..Cardinality(block) -> block]
           /\ \A a, b \in 1..Cardinality(block) : a < b => Ascending(block)[a] < Ascending(block)[b]
           /\ \A i \in block : \E n \in 1..Cardinality(block) : Ascending(block)[n] = i
<1> DEFINE c == Cardinality(block)
           asc == Ascending(block)
           rank == [i \in block |-> Cardinality(RowsUpTo(block, i))]
<1>1. c \in Nat
  BY FS_CardinalityType
<1>2. \A i \in block : /\ rank[i] \in 1..c
                       /\ \A k \in block : i < k => rank[i] < rank[k]
  BY RankOfRow
<1>3. rank \in [block -> 1..c]
  BY <1>2
<1> HIDE DEF rank
<1>4. \A i, k \in block : i # k => i < k \/ k < i
  OBVIOUS
<1>5. \A i, k \in block : rank[i] \in Int /\ rank[k] \in Int
  BY <1>2
<1>6. \A i, k \in block : rank[i] = rank[k] => i = k
  BY <1>2, <1>4, <1>5
<1>7. rank \in Injection(block, 1..c)
  BY <1>3, <1>6 DEF Injection, IsInjective
<1>8. IsFiniteSet(1..c) /\ Cardinality(1..c) = c
  <2>1. IsFiniteSet(1..c) /\ Cardinality(1..c) = IF 1 > c THEN 0 ELSE c - 1 + 1
    BY <1>1, FS_Interval
  <2> QED BY <1>1, <2>1
<1>9. rank \in Surjection(block, 1..c)
  BY <1>7, <1>8, FS_Injection
<1>10. \A n \in 1..c : \E i \in block : rank[i] = n
  BY <1>9 DEF Surjection
<1>11. asc = [n \in 1..c |-> CHOOSE i \in block : Cardinality({j \in block : j =< i}) = n]
  BY DEF Ascending
<1>12. \A i \in block : rank[i] = Cardinality({j \in block : j =< i})
  BY DEF rank, RowsUpTo
<1>13. ASSUME NEW n \in 1..c PROVE asc[n] \in block /\ rank[asc[n]] = n
  <2>1. PICK i \in block : rank[i] = n
    BY <1>10
  <2>2. Cardinality({j \in block : j =< i}) = n
    BY <1>12, <2>1
  <2>3. asc[n] = CHOOSE k \in block : Cardinality({j \in block : j =< k}) = n
    BY <1>11
  <2>4. asc[n] \in block /\ Cardinality({j \in block : j =< asc[n]}) = n
    BY <2>2, <2>3
  <2> QED BY <1>12, <2>4
<1>14. asc \in [1..c -> block]
  BY <1>11, <1>13
<1> HIDE DEF asc, c
<1>15. ASSUME NEW a \in 1..c, NEW b \in 1..c, a < b PROVE asc[a] < asc[b]
  <2>1. /\ asc[a] \in block /\ rank[asc[a]] = a
        /\ asc[b] \in block /\ rank[asc[b]] = b
    BY <1>13
  <2>2. asc[a] # asc[b]
    BY <1>1, <1>15, <2>1
  <2>3. ~(asc[b] < asc[a])
    <3> SUFFICES ASSUME asc[b] < asc[a] PROVE FALSE
      OBVIOUS
    <3>1. rank[asc[b]] < rank[asc[a]]
      BY <1>2, <2>1
    <3> QED BY <1>1, <1>15, <2>1, <3>1
  <2> QED BY <1>4, <2>1, <2>2, <2>3
<1>16. ASSUME NEW i \in block PROVE \E n \in 1..c : asc[n] = i
  <2>1. rank[i] \in 1..c
    BY <1>2
  <2>2. asc[rank[i]] \in block /\ rank[asc[rank[i]]] = rank[i]
    BY <1>13, <2>1
  <2> QED BY <1>6, <2>1, <2>2
<1>17. /\ \A a, b \in 1..c : a < b => asc[a] < asc[b]
       /\ \A i \in block : \E n \in 1..c : asc[n] = i
  BY <1>15, <1>16
<1> QED BY <1>1, <1>14, <1>17 DEF asc, c
=============================================================================
