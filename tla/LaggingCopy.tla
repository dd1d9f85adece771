------------------------------ MODULE LaggingCopy ------------------------------
(***************************************************************************)
(* What merge feedback promises: the MCRT computation has a copy of its    *)
(* data at the merge computation that lags behind, but shows, one after    *)
(* the other and without skipping one, exactly the states that the data    *)
(* had whenever its record was closed and sent.                            *)
(***************************************************************************)
EXTENDS Sequences

CONSTANTS
    Value,          \* the states of the data
    Initially       \* the one that both sides begin with

VARIABLES
    source,         \* the data of the merge computation
    snapshots,      \* its states that are on their way
    replica         \* the copy of the MCRT computation

vars == <<source, snapshots, replica>>

Init ==
    /\ source = Initially
    /\ snapshots = << >>
    /\ replica = Initially

Work ==
    /\ source' \in Value
    /\ UNCHANGED <<snapshots, replica>>

Ship ==
    /\ snapshots' = Append(snapshots, source)
    /\ UNCHANGED <<source, replica>>

Receive ==
    /\ snapshots # << >>
    /\ replica' = Head(snapshots)
    /\ snapshots' = Tail(snapshots)
    /\ UNCHANGED source

Next == Work \/ Ship \/ Receive

Spec == Init /\ [][Next]_vars
===============================================================================
