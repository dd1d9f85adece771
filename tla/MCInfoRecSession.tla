--------------------------- MODULE MCInfoRecSession ---------------------------
(***************************************************************************)
(* The machines are interchangeable for the recorder.                      *)
(***************************************************************************)
EXTENDS InfoRecSession, TLC

MachineSymmetry == Permutations(Machine)
===============================================================================
