----------------------------- MODULE MergeFbSender -----------------------------
(***************************************************************************)
(* The part of the merge computation that turns the merged frame buffer    *)
(* into a message for the client (MergeFbSender).  The sender keeps a copy *)
(* of what it sent (mFb); a snapshot finds the pixels that differ from it  *)
(* and only these are packed, each buffer at a precision that depends on   *)
(* the pass, on the buffer and, in the coarse pass, on whether the image   *)
(* has values above 1.                                                     *)
(*                                                                         *)
(* A buffer is one tile.  Its value is NoValue, LowValue (all of it fits   *)
(* 8 bits), FewHdrValue (so few pixels are above 1 that they may be        *)
(* fireflies) or HdrValue (many are).                                      *)
(***************************************************************************)
EXTENDS Integers, Sequences

CONSTANTS
    Buffer,             \* the buffers of the frame: Beauty and others
    CoarsePrecision,    \* what a buffer asks for in the coarse pass
    FinePrecision       \* what a buffer asks for after it

Beauty          == "Beauty"
RenderBufferOdd == "RenderBufferOdd"
HeatMap         == "HeatMap"
(* Buffers that have an operation of their own; all others are AOVs.       *)
BuiltInBuffer   == {Beauty, RenderBufferOdd, HeatMap, "PixelInfo", "Weight"}
RenderOutput    == Buffer \ BuiltInBuffer

Precision == {"F32", "H16", "UC8"}

ASSUME BufferAssumption ==
    /\ Beauty \in Buffer
    /\ CoarsePrecision \in [Buffer -> Precision \cup {"RUNTIME_DECISION"}]
    /\ FinePrecision \in [Buffer -> {"F32", "H16"}]

NoValue     == 0
LowValue    == 1
FewHdrValue == 2
HdrValue    == 3
Value == {NoValue, LowValue, FewHdrValue, HdrValue}
Image == [Buffer -> Value]
NoImage == [b \in Buffer |-> NoValue]

PrecisionControl == {"FULL32", "FULL16", "AUTO32", "AUTO16"}
HdriTestCondition == {"INIT", "HDRI", "NON_HDRI"}

NewSender(control) ==
    [control |-> control, fb |-> NoImage, active |-> {}, status |-> "ERROR",
     coarsePass |-> TRUE, beautyHdriTest |-> "INIT", buffers |-> <<>>]

(* init: the size of the image has changed.                                *)
SenderInit(sender) == [sender EXCEPT !.fb = NoImage]

FbReset(sender) == [sender EXCEPT !.fb = NoImage]

(* Faulty variant: the copy of what was sent is kept when a frame starts.  *)
SetHeaderInfoAndFbReset_KeepFb(sender, status, coarsePass) ==
    [sender EXCEPT !.status = status, !.coarsePass = coarsePass,
                   !.beautyHdriTest = "INIT", !.buffers = <<>>]

(* setHeaderInfoAndFbReset: a new image is about to be packed.             *)
SetHeaderInfoAndFbReset(sender, status, coarsePass) ==
    LET set == [sender EXCEPT !.status = status, !.coarsePass = coarsePass,
                              !.beautyHdriTest = "INIT", !.buffers = <<>>]
    IN  IF status = "STARTED" THEN FbReset(set) ELSE set

(* Fb::snapshotDelta: which buffers differ from what was sent before.      *)
SnapshotDelta(sender, merged) ==
    [sender EXCEPT !.fb = merged,
                   !.active = {b \in Buffer : merged[b] # sender.fb[b]}]

-------------------------------------------------------------------------------
(* Precision.                                                              *)

CalcCoarsePassPrecision(coarse, runtimeDecision) ==
    IF coarse = "RUNTIME_DECISION" THEN runtimeDecision ELSE coarse

CalcPackTilePrecision(sender, coarse, fine, runtimeDecision) ==
    LET requested == IF sender.coarsePass THEN coarse ELSE fine
    IN  CASE sender.control = "FULL32" -> "F32"
          [] sender.control = "FULL16" -> IF requested = "F32" THEN "F32" ELSE "H16"
          [] sender.control = "AUTO32" ->
               IF sender.coarsePass THEN CalcCoarsePassPrecision(coarse, runtimeDecision)
                                    ELSE "F32"
          [] sender.control = "AUTO16" ->
               IF sender.coarsePass THEN CalcCoarsePassPrecision(coarse, runtimeDecision)
                                    ELSE fine

(* The decision at run time is only asked for when it is needed.           *)
AsksAtRuntime(sender, coarse) ==
    /\ sender.control \in {"AUTO32", "AUTO16"}
    /\ sender.coarsePass
    /\ coarse = "RUNTIME_DECISION"

(* More than 0.5% of the pixels are above 1.                               *)
BeautyHdriTest(sender) == sender.fb[Beauty] = HdrValue

(* The same for an AOV; but the pointer to the values only moves past      *)
(* pixels that have samples, so that a buffer with gaps is tested against  *)
(* the values of other pixels, with any result.                            *)
RenderOutputHdriTests(sender, aov, hasGaps) ==
    IF hasGaps THEN BOOLEAN ELSE {sender.fb[aov] = HdrValue}

(* getBeautyHDRITestResult: tested once for each image, and remembered.    *)
WithBeautyHdriTest(sender) ==
    IF sender.beautyHdriTest # "INIT" THEN sender
    ELSE [sender EXCEPT !.beautyHdriTest =
            IF BeautyHdriTest(sender) THEN "HDRI" ELSE "NON_HDRI"]

HdriPrecision(isHdri) == IF isHdri THEN "H16" ELSE "UC8"

-------------------------------------------------------------------------------
(* Packing.  PackTiles encodes the active pixels of a buffer; 8 bits clip. *)

Encoded(value, precision) ==
    IF precision = "UC8" /\ value > LowValue THEN LowValue ELSE value

(* A buffer without active pixels is packed as an empty one.               *)
AddBuffer(sender, b, precision) ==
    [sender EXCEPT !.buffers = Append(@,
        [name |-> b, active |-> b \in sender.active,
         data |-> Encoded(sender.fb[b], precision)])]

(* addBeautyBuff and addBeautyBuffWithNumSample; addRenderBufferOdd and    *)
(* addRenderBufferOddWithNumSample use the precisions and the HDRI test of *)
(* the beauty buffer.                                                      *)
AddWithBeautyPrecision(sender, b) ==
    LET tested == IF AsksAtRuntime(sender, CoarsePrecision[Beauty])
                    THEN WithBeautyHdriTest(sender) ELSE sender
        decision == HdriPrecision(tested.beautyHdriTest = "HDRI")
    IN  AddBuffer(tested, b,
            CalcPackTilePrecision(tested, CoarsePrecision[Beauty], FinePrecision[Beauty], decision))

AddBeautyBuff(sender) == AddWithBeautyPrecision(sender, Beauty)
AddRenderBufferOdd(sender) == AddWithBeautyPrecision(sender, RenderBufferOdd)

(* addPixelInfo and addWeightBuffer have no test to decide with.           *)
AddWithOwnPrecision(sender, b) ==
    AddBuffer(sender, b,
        CalcPackTilePrecision(sender, CoarsePrecision[b], FinePrecision[b], "F32"))
AddPixelInfo(sender) == AddWithOwnPrecision(sender, "PixelInfo")
AddWeightBuffer(sender) == AddWithOwnPrecision(sender, "Weight")

(* addHeatMap and addHeatMapWithNumSample have one precision.              *)
AddHeatMap(sender) == AddBuffer(sender, HeatMap, "F32")

(* addRenderOutput: each AOV with active pixels is tested for itself, with *)
(* the result isHdri.                                                      *)
AddAov(sender, aov, isHdri) ==
    IF aov \notin sender.active THEN sender
    ELSE AddBuffer(sender, aov,
            CalcPackTilePrecision(sender, CoarsePrecision[aov], FinePrecision[aov],
                                  HdriPrecision(isHdri)))
===============================================================================
