----------------------------- MODULE MCLogFetch -----------------------------
(***************************************************************************)
(* The logs that LogFetch is checked with.                                 *)
(***************************************************************************)
EXTENDS LogFetch

Kind(dir, page, resolution) == [dir |-> dir, page |-> page, resolution |-> resolution]

\* A time log whose pages are larger than the rows of one rendered start, one
\* whose pages are not, and a depth log that decreases.
Kinds == {Kind(Increasing, 3, 2), Kind(Increasing, 1, 2), Kind(Decreasing, 2, 1)}
=============================================================================
