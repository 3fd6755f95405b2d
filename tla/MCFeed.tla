------------------------------ MODULE MCFeed ------------------------------
(***************************************************************************)
(* An instance of Feed: one simulated well, whose depth log decreases.     *)
(***************************************************************************)
EXTENDS Feed

OneWell == <<"w1">>
Depth3 == <<"DEPTH", "C1", "C2">>
Time2 == <<"TIME", "C1">>
=============================================================================
