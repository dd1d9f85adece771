--------------------------- MODULE ClientReceiverFb ---------------------------
(***************************************************************************)
(* What the client keeps of the frames it receives (ClientReceiverFb): the *)
(* header of the last image, the frame buffer that the messages update and *)
(* what it knows of the back end.  Each operator is one piece of           *)
(* decodeProgressiveFrame or of the functions that read the frame buffer;  *)
(* FrameDelivery puts them in order, with the threads that run them.       *)
(***************************************************************************)
EXTENDS MergeFbSender

CONSTANTS
    Viewport        \* sizes of images

NoViewport == "NoViewport"
AlbedoAov  == "albedo"
NoAov      == ""

(* Progress: no image yet (-1), none, some, or all of the frame.           *)
NotReceived == -1
Progress == {NotReceived, 0, 1, 2}

(* The first value of mLastFrameId is written !0, which is 1.              *)
FirstLastFrameId == 1

NewClient(telemetryOverlay) ==
    [frameId |-> 0, lastFrameId |-> FirstLastFrameId, status |-> "FINISHED",
     progress |-> IF telemetryOverlay THEN 0 ELSE NotReceived,
     coarsePass |-> TRUE, albedoInput |-> NoAov,
     rezedViewport |-> NoViewport, fbViewport |-> NoViewport, fb |-> NoImage,
     telemetryActive |-> telemetryOverlay, newestSyncId |-> 0,
     mergeKnown |-> FALSE, clockDeltaRun |-> FALSE]

(* Fb::init, and Fb::resetExceptColor.                                     *)
FbInit(client, viewport) == [client EXCEPT !.fb = NoImage, !.fbViewport = viewport]
ResetExceptColor(fb) == [b \in Buffer |-> IF b = Beauty THEN fb[b] ELSE NoValue]

(* decodeProgressiveFrame, first part: the header of a message with an     *)
(* image is taken over before any lock.                                    *)
TakeHeader(client, m) ==
    [client EXCEPT
        !.progress = m.progress,
        !.frameId = m.frameId,
        !.status = m.status,
        !.coarsePass = m.coarsePass,
        !.albedoInput = IF m.status = "STARTED" THEN m.albedoInput ELSE @]

StartsFrame(client, m) == m.status = "STARTED" /\ client.frameId # client.lastFrameId

(* Second part: the frame buffer is made ready for the message.            *)
PrepareFb(client, m) ==
    LET sized == IF m.viewport # client.fbViewport THEN FbInit(client, m.viewport) ELSE client
    IN  [sized EXCEPT !.rezedViewport = m.viewport,
                      !.fb = IF StartsFrame(client, m) THEN ResetExceptColor(@) ELSE @,
                      !.lastFrameId = client.frameId]

(* decodeProgressiveFrameBuff: one buffer; an empty one changes nothing.   *)
DecodeBuff(client, buff) ==
    IF buff.active THEN [client EXCEPT !.fb[buff.name] = buff.data] ELSE client

(* All the buffers, one by one or by several threads in any order: no two  *)
(* have the same name.                                                     *)
DecodeBuffs(client, buffs) ==
    LET of(b) == {buff \in buffs : buff.active /\ buff.name = b}
    IN  [client EXCEPT !.fb = [b \in Buffer |->
            IF of(b) = {} THEN @[b] ELSE (CHOOSE buff \in of(b) : TRUE).data]]

(* decodeAuxInfo: the newest syncId of which the back end tells, and the   *)
(* host of the merge computation.  The clock is measured against it once.  *)
DecodeAuxInfo(client, aux) ==
    LET known == client.mergeKnown \/ aux.merge
    IN  [client EXCEPT
            !.newestSyncId = IF aux.syncId > @ THEN aux.syncId ELSE @,
            !.mergeKnown = known,
            !.clockDeltaRun = known]

(* Faulty variant: a back end that is at the same frame resets progress.   *)
AfterInfoOnly_SameFrame(client) ==
    IF client.frameId > 0 /\ client.frameId <= client.newestSyncId
      THEN [client EXCEPT !.progress = 0] ELSE client

(* What decodeProgressiveFrame does after a message without an image.      *)
AfterInfoOnly(client) ==
    IF client.frameId > 0
      THEN IF client.frameId < client.newestSyncId
             THEN [client EXCEPT !.progress = 0] ELSE client
    ELSE IF client.telemetryActive /\ client.status = "FINISHED"
      THEN [client EXCEPT !.progress = 0] ELSE client

-------------------------------------------------------------------------------
(* Reading.                                                                *)

DenoiseMode == {"DISABLE", "ENABLE", "ENABLE_W_ALBEDO"}

(* denoiseAlbedoInputCheck, denoiseNormalInputCheck.                       *)
DenoiseAlbedoInputCheck(mode, input) == mode = "ENABLE_W_ALBEDO" /\ input # NoAov

(* getBeautyRgb888 and getBeautyRgb888MTSafe: before any image was         *)
(* received only the overlay is shown.                                     *)
OnlyOverlay(client) == client.progress = 0 /\ client.frameId = 0

(* A pixel of which nothing was received is extrapolated in the coarse     *)
(* pass; NoValue stays NoValue here, as a buffer is one tile.              *)
Extrapolated(client, b) == client.fb[b]

(* getBeautyNoDenoise, getPixelInfoMain, getHeatMapMain, getWeightBuffer-  *)
(* Main and getBeautyAuxMain.                                              *)
Untiled(client, b) == [viewport |-> client.rezedViewport, value |-> Extrapolated(client, b)]

(* Nothing is read of a buffer that the frame buffer does not have.        *)
ReadBuffer(client, b) == IF client.fb[b] = NoValue THEN <<>> ELSE <<Untiled(client, b)>>
===============================================================================
