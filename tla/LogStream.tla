----------------------------- MODULE LogStream -----------------------------
(***************************************************************************)
(* What the ingestion promises of the logs it follows, whatever it does to *)
(* keep the promise: a log's rows are taken in order and without a hole,   *)
(* the rows taken in one step are stored together or dropped together,     *)
(* before more are taken, and a process that starts anew goes on where one *)
(* before it had saved, or from the beginning.                             *)
(***************************************************************************)
EXTENDS Polling

CONSTANTS Logs, DirOf,
    Idx      \* the indices a row may have

VARIABLES
    rows,    \* the rows of each log
    read,    \* the rows the running process has behind it
    due,     \* the rows it has taken and not yet stored
    stored,  \* the rows in the history
    saved    \* the rows a process that starts will have behind it

vars == <<rows, read, due, stored, saved>>

Nothing == [l \in Logs |-> {}]

Init == rows = Nothing /\ read = Nothing /\ due = Nothing /\ stored = Nothing /\ saved = Nothing

\* S has every row of the log up to its newest one.
NoHoles(l, S) ==
    S \subseteq rows[l] /\ \A i \in S, j \in rows[l] : ~IsBeyond(j, i, DirOf[l]) => j \in S

Publish(l, i) ==
    /\ \A j \in rows[l] : IsBeyond(i, j, DirOf[l])
    /\ rows' = [rows EXCEPT ![l] = @ \cup {i}]
    /\ UNCHANGED <<read, due, stored, saved>>

Take(l, S) ==
    /\ due[l] = {}
    /\ NoHoles(l, S) /\ read[l] \subseteq S
    /\ read' = [read EXCEPT ![l] = S]
    /\ due' = [due EXCEPT ![l] = S \ read[l]]
    /\ UNCHANGED <<rows, stored, saved>>

Store(l) ==
    /\ stored' = [stored EXCEPT ![l] = @ \cup due[l]]
    /\ due' = [due EXCEPT ![l] = {}]
    /\ UNCHANGED <<rows, read, saved>>

Drop(D) ==
    /\ due' = [l \in Logs |-> IF l \in D THEN {} ELSE due[l]]
    /\ UNCHANGED <<rows, read, stored, saved>>

Save ==
    /\ saved' = [l \in Logs |-> IF read[l] = {} THEN saved[l] ELSE read[l]]
    /\ UNCHANGED <<rows, read, due, stored>>

\* The process goes down.
Forget ==
    /\ read' = Nothing /\ due' = Nothing
    /\ UNCHANGED <<rows, stored, saved>>

\* Another one has loaded what was saved.
Resume ==
    /\ read' = saved
    /\ UNCHANGED <<rows, due, stored, saved>>

Next ==
    \/ \E D \in SUBSET Logs : Drop(D)
    \/ \E l \in Logs : \/ \E i \in Idx : Publish(l, i)
                       \/ \E S \in SUBSET rows[l] : Take(l, S)
                       \/ Store(l)
    \/ Save \/ Forget \/ Resume

Spec == Init /\ [][Next]_vars
=============================================================================
