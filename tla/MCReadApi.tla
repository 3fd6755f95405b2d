----------------------------- MODULE MCReadApi -----------------------------
(***************************************************************************)
(* An instance of ReadApi: two wells, one of them with two wellbores and a *)
(* mudLog in each.                                                         *)
(***************************************************************************)
EXTENDS ReadApi

Catalogue ==
    LET bores == {<<"w1", "b1">>, <<"w1", "b2">>, <<"w2", "b1">>}
        keys == {Key("well", "", "", w) : w \in {"w1", "w2"}}
                \cup {Key("wellbore", b[1], "", b[2]) : b \in bores}
                \cup {Key("mudLog", "w1", b, "m") : b \in {"b1", "b2"}}
    IN  [k \in keys |-> IF k.kind = "mudLog" THEN MudLog(FALSE, <<[top |-> 1, bottom |-> 2]>>)
                        ELSE Verbatim]
=============================================================================
