----------------------------- MODULE MCFrameReading -----------------------------
(***************************************************************************)
(* Values for the constants of FrameReading that are functions.            *)
(***************************************************************************)
EXTENDS FrameReading

MCPrecision == [b \in Buffer |-> "H16"]
===============================================================================
