-------------------------- MODULE MCFbMsgMultiFrames --------------------------
(***************************************************************************)
(* FbMsgMultiFrames on small instances.                                    *)
(***************************************************************************)
EXTENDS FbMsgMultiFrames, TLC

CONSTANTS m1, m2

(* The machines are interchangeable.                                       *)
MachineSymmetry == Permutations(Machine)

(* A view for runs whose properties do not speak of the image: no action   *)
(* reads it but to make the next one, so states that differ in nothing     *)
(* else have the same behaviours.                                          *)
AllButImage ==
    <<frames, trackers, windowVars, displayVars, settingVars, mcrtVars>>
===============================================================================
