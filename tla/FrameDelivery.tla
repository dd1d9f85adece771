----------------------------- MODULE FrameDelivery -----------------------------
(***************************************************************************)
(* From the merged image to the frame buffer of the client.  The merge     *)
(* computation packs what has changed with MergeFbSender; messages reach   *)
(* the client in order, and ClientReceiverFb decodes them.  The thread     *)
(* that reads the frame buffer is the subject of FrameReading.             *)
(***************************************************************************)
EXTENDS ClientReceiverFb

CONSTANTS
    Control,        \* the PrecisionControls of the merge computation
    FirstFrame,     \* the frame ids of a session are FirstFrame .. LastFrame
    LastFrame,
    ImageValue,     \* the values that each buffer takes
    Failures,       \* how many messages of a behaviour cannot be decoded
    MaxSent,        \* bound: messages of a behaviour
    MaxPending      \* bound: messages on their way

(* There is at most one AOV.  NoViewport is the size of no image.          *)
ASSUME DeliveryAssumption ==
    /\ FirstFrame \in Nat \ {0} /\ LastFrame \in Nat
    /\ RenderOutput \subseteq {AlbedoAov}
    /\ Viewport # {} /\ NoViewport \notin Viewport
    /\ ImageValue \in [Buffer -> SUBSET Value]
    /\ Control \subseteq PrecisionControl
    /\ {Failures, MaxSent, MaxPending} \subseteq Nat

VARIABLES
    sender,     \* MergeFbSender
    render,     \* the frame that is merged: id, pass, progress, newest syncId
    channel,    \* messages to the client
    sent,       \* how many were sent
    client,     \* ClientReceiverFb
    failed,     \* how many messages could not be decoded
    broken      \* one of them was of the image that is shown

deliveryVars == <<sender, render, sent, channel, client, failed, broken>>

NoStatus == "none"

DeliveryInit ==
    /\ \E control \in Control : sender = NewSender(control)
    /\ render = [frame |-> FirstFrame, coarsePass |-> TRUE, progress |-> 0,
                 syncId |-> FirstFrame, status |-> NoStatus,
                 viewport |-> CHOOSE v \in Viewport : TRUE,
                 sentViewport |-> NoViewport, unseenInit |-> FALSE]
    /\ channel = <<>>
    /\ sent = 0
    /\ \E overlay \in BOOLEAN : client = NewClient(overlay)
    /\ failed = 0
    /\ broken = FALSE

-------------------------------------------------------------------------------
(* The merge computation.                                                  *)

CanSend == Len(channel) < MaxPending /\ sent < MaxSent

(* The back end starts a frame before it has an image of it.               *)
BackendStarts ==
    /\ render.syncId < LastFrame
    /\ render' = [render EXCEPT !.syncId = @ + 1]
    /\ UNCHANGED <<sender, sent, channel, client, failed, broken>>

(* The display frame changes to the one the back end is at, perhaps with   *)
(* another size; then the sender is initialised.  The client only knows of *)
(* it from the size of the next image: unseenInit is TRUE after a change   *)
(* back to the size of the last image that was sent.                       *)
ShowNextFrame(viewport) ==
    LET changes == viewport # render.viewport
    IN  /\ render.frame < render.syncId
        /\ render' = [render EXCEPT
               !.frame = render.syncId, !.coarsePass = TRUE, !.progress = 0,
               !.status = NoStatus, !.viewport = viewport,
               !.unseenInit = IF changes THEN viewport = render.sentViewport ELSE @]
        /\ sender' = IF changes THEN SenderInit(sender) ELSE sender
        /\ UNCHANGED <<sent, channel, client, failed, broken>>

(* What merging may lead to: in one frame a buffer that has samples keeps  *)
(* some.  The first image of a frame may hold anything.                    *)
Merged ==
    {image \in [Buffer -> Value] :
        \A b \in Buffer :
            /\ image[b] \in ImageValue[b]
            /\ (render.status # NoStatus /\ sender.fb[b] # NoValue) => image[b] # NoValue}

(* The functions that pack a message, in the order of the buffers.         *)
Packed(s, aovIsHdri) ==
    LET beauty == AddBeautyBuff(s)
        odd == IF RenderBufferOdd \in Buffer THEN AddRenderBufferOdd(beauty) ELSE beauty
        heat == IF HeatMap \in Buffer THEN AddHeatMap(odd) ELSE odd
        info == IF "PixelInfo" \in Buffer THEN AddPixelInfo(heat) ELSE heat
        weight == IF "Weight" \in Buffer THEN AddWeightBuffer(info) ELSE info
    IN  IF RenderOutput = {} THEN weight ELSE AddAov(weight, AlbedoAov, aovIsHdri)

(* Samples may be missing in some pixels as long as the coarse pass lasts. *)
HasGaps(coarsePass) == coarsePass /\ RenderOutput # {}

(* STARTED is the status of a frame as long as one message of it was       *)
(* merged; the first image may come later.                                 *)
SendImage(status, coarsePass, merged) ==
    LET ready == SnapshotDelta(SetHeaderInfoAndFbReset(sender, status, coarsePass), merged)
        progress == IF status = "FINISHED" THEN 2 ELSE 1
    IN  /\ CanSend
        /\ render.coarsePass \/ ~coarsePass
        /\ progress >= render.progress
        /\ status = "STARTED" => render.status \in {NoStatus, "STARTED"}
        /\ \E aovIsHdri \in IF RenderOutput = {} THEN {FALSE}
                            ELSE RenderOutputHdriTests(ready, AlbedoAov, HasGaps(coarsePass)) :
             LET packed == Packed(ready, aovIsHdri)
             IN  /\ sender' = [packed EXCEPT !.buffers = <<>>]
                 /\ channel' = Append(channel,
                      [kind |-> "image", frameId |-> render.frame, status |-> status,
                       coarsePass |-> coarsePass, progress |-> progress,
                       viewport |-> render.viewport,
                       albedoInput |-> IF RenderOutput = {} THEN NoAov ELSE AlbedoAov,
                       buffers |-> {packed.buffers[i] : i \in DOMAIN packed.buffers}])
        /\ render' = [render EXCEPT !.coarsePass = coarsePass, !.progress = progress,
                                    !.status = status, !.sentViewport = render.viewport,
                                    !.unseenInit = @ /\ status # "STARTED"]
        /\ sent' = sent + 1
        /\ UNCHANGED <<client, failed, broken>>

(* A message that only holds what is known of the computations.            *)
SendInfo ==
    /\ CanSend
    /\ channel' = Append(channel, [kind |-> "info", aux |-> [syncId |-> render.syncId, merge |-> TRUE]])
    /\ sent' = sent + 1
    /\ UNCHANGED <<sender, render, client, failed, broken>>

-------------------------------------------------------------------------------
(* The client: decodeProgressiveFrame.                                     *)

Received(kind) == channel # <<>> /\ Head(channel).kind = kind

ReceiveInfo ==
    /\ Received("info")
    /\ client' = AfterInfoOnly(DecodeAuxInfo(client, Head(channel).aux))
    /\ channel' = Tail(channel)
    /\ UNCHANGED <<sender, render, sent, failed, broken>>

(* A whole STARTED message repairs what was broken before it: the sender   *)
(* packed everything it has.                                               *)
ReceiveImage ==
    LET m == Head(channel)
        ready == PrepareFb(TakeHeader(client, m), m)
    IN  /\ Received("image")
        /\ client' = DecodeBuffs(ready, m.buffers)
        /\ channel' = Tail(channel)
        /\ broken' = (broken /\ m.status # "STARTED")
        /\ UNCHANGED <<sender, render, sent, failed>>

(* A buffer that cannot be decoded ends the message; the others may be     *)
(* decoded already, in any order when several threads decode them.         *)
ReceiveImageFails ==
    LET m == Head(channel)
        ready == PrepareFb(TakeHeader(client, m), m)
    IN  /\ Received("image")
        /\ failed < Failures
        /\ failed' = failed + 1
        /\ \E decoded \in SUBSET m.buffers :
             decoded # m.buffers /\ client' = DecodeBuffs(ready, decoded)
        /\ channel' = Tail(channel)
        /\ broken' = TRUE
        /\ UNCHANGED <<sender, render, sent>>

-------------------------------------------------------------------------------
DeliveryNext ==
    \/ BackendStarts
    \/ \E viewport \in Viewport : ShowNextFrame(viewport)
    \/ \E status \in {"STARTED", "RENDERING", "FINISHED"}, coarsePass \in BOOLEAN,
          merged \in Merged : SendImage(status, coarsePass, merged)
    \/ SendInfo
    \/ ReceiveInfo
    \/ ReceiveImage
    \/ ReceiveImageFails

DeliverySpec == DeliveryInit /\ [][DeliveryNext]_deliveryVars

-------------------------------------------------------------------------------
(* 8 bits may have clipped what the client has: a few pixels above 1, or   *)
(* any pixels of a buffer that asks for 8 bits, of an AOV whose test was   *)
(* misled by gaps, or of RenderBufferOdd, for which beauty is tested.      *)
Clipped(b, received, value) ==
    /\ received = LowValue
    /\ \/ value = FewHdrValue
       \/ value = HdrValue /\ (\/ b \in RenderOutput \cup {RenderBufferOdd}
                               \/ CoarsePrecision[b] = "UC8")

(* Once every message of the frame is decoded the client has what the merge computation *)
(* packed: no delta is lost between the resets of the two sides at the     *)
(* start of a frame and at a change of the size, and 8 bits never clip a   *)
(* beauty buffer with many pixels above 1.  Only beauty of an earlier      *)
(* frame stays until the new one has some, so that the image does not      *)
(* flicker (ClientReceiverFb.cc:600).  After a reset of the sender that no *)
(* image shows the client, and after a message that it could not decode,   *)
(* this holds again with the next STARTED image.                           *)
ImageArrives ==
    (channel = <<>> /\ render.status # NoStatus /\ ~broken /\ ~render.unseenInit) =>
        \A b \in Buffer :
            \/ client.fb[b] = sender.fb[b]
            \/ Clipped(b, client.fb[b], sender.fb[b])
            \/ b = Beauty /\ sender.fb[b] = NoValue

(* The progress that the client shows only drops when another frame is     *)
(* shown or the back end has begun one; messages without an image and      *)
(* images of the frame alternate in any order.                             *)
ProgressDropsOnlyForNewFrame ==
    [][client'.progress < client.progress =>
          \/ client'.frameId # client.frameId
          \/ client'.frameId < client'.newestSyncId]_deliveryVars
===============================================================================
