----------------------------- MODULE MCRecords -----------------------------
(***************************************************************************)
(* An instance of Records that starts after the first seed, with a normal  *)
(* user who owns a page.                                                   *)
(***************************************************************************)
EXTENDS Records, TLC

CONSTANTS r1, r2, r3, n1, n2

Rows ==
    LET row(n, o, level) == [name |-> n, owner |-> o, a |-> level, b |-> 0]
    IN  (<<"users", 1>> :> row(n1, None, 2)) @@ (<<"users", 2>> :> row(n2, None, 0))
        @@ (<<"pages", 1>> :> row(n1, 2, 0)) @@ (<<"parameters", 1>> :> row(n1, None, 0))

Seeds == {<<"users", n1>>, <<"parameters", n1>>, <<"unit_defs", n1>>, <<"unit_defs", n2>>}
Order == <<"parameters", "unit_defs", "users">>

Symmetry == Permutations({r1, r2, r3})
=============================================================================
