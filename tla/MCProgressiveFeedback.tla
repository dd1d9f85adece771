------------------------- MODULE MCProgressiveFeedback -------------------------
(***************************************************************************)
(* ProgressiveFeedback on small instances.                                 *)
(***************************************************************************)
EXTENDS ProgressiveFeedback, TLC

CONSTANTS m1, m2

(* The machines are interchangeable.                                       *)
MachineSymmetry == Permutations(Machine)
===============================================================================
