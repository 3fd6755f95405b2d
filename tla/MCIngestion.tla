---------------------------- MODULE MCIngestion ----------------------------
(***************************************************************************)
(* Instances of Ingestion.  Mnemonics are numbered in string order.        *)
(***************************************************************************)
EXTENDS Ingestion

CONSTANTS l1, l2, w1, w2

\* Two wells, one log each; or one well, whose logs share the buffer of their
\* curve.
WellsApart == [l \in Logs |-> IF l = l2 THEN w2 ELSE w1]
OneWell == [l \in Logs |-> w1]

AllIncreasing == [l \in Logs |-> Increasing]
AllDecreasing == [l \in Logs |-> Decreasing]
\* As the simulator's first well: a time log that increases, a depth log that
\* decreases.
Mixed == [l \in Logs |-> IF l = l2 THEN Decreasing ELSE Increasing]

\* "DEPTH" is the index curve.  "ROP" sorts after it, "C1" before it.
Depth == [l \in Logs |-> 1]
Rop == [l \in Logs |-> 2]
C1 == [l \in Logs |-> 0]

\* Two logs that are alike, each in a well of its own, are interchangeable
\* together with their wells.
Symmetry ==
    {p \in Permutations({l1, l2, w1, w2}) :
        <<p[l1], p[w1]>> \in {<<l1, w1>>, <<l2, w2>>} /\ {p[w1], p[w2]} = {w1, w2}}
=============================================================================
