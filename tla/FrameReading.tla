------------------------------ MODULE FrameReading ------------------------------
(***************************************************************************)
(* The two threads of the client that use the frame buffer.  One decodes   *)
(* messages (decodeProgressiveFrame) and takes mFbAccessMutex for those    *)
(* with status STARTED only, because only there the frame buffer may be    *)
(* rebuilt.  The other one reads images through the MTSafe functions, with *)
(* or without the denoiser: getBeautyMTSafe holds the lock while it copies,*)
(* getRenderOutputMTSafe holds it while the denoiser runs as well.         *)
(***************************************************************************)
EXTENDS ClientReceiverFb, ClientReceiverDenoiser

CONSTANTS
    LastFrame,      \* the frame ids of a session are 1 .. LastFrame
    ReadMode,       \* the DenoiseModes that the application uses
    MaxSent         \* bound: messages of a behaviour

FrameId == 1 .. LastFrame

ASSUME ReadingAssumption ==
    /\ LastFrame \in Nat /\ MaxSent \in Nat
    /\ ReadMode \subseteq DenoiseMode

VARIABLES
    client,     \* ClientReceiverFb
    decoder,    \* what the decoding thread is doing, and with which message
    sent,       \* how many messages there were
    mutex,      \* mFbAccessMutex: who holds it
    reader,     \* what the reading thread is doing
    denoiser,   \* ClientReceiverDenoiser
    shown       \* what the reader got, until the next call

decoderVars == <<client, decoder, sent>>
readerVars  == <<reader, denoiser, shown>>
vars == <<decoderVars, mutex, readerVars>>

Free == "free"
Nothing == [source |-> "nothing"]
DecoderIdle == [at |-> "idle"]
ReaderIdle(mode) ==
    [at |-> "idle", goal |-> "none", mode |-> mode, holds |-> FALSE,
     buffer |-> Beauty, refusable |-> FALSE, related |-> FALSE]

Init ==
    /\ \E overlay \in BOOLEAN : client = NewClient(overlay)
    /\ decoder = DecoderIdle
    /\ sent = 0
    /\ mutex = Free
    /\ reader = ReaderIdle("DISABLE")
    /\ denoiser = NewDenoiser
    /\ shown = Nothing

-------------------------------------------------------------------------------
(* The decoding thread.                                                    *)

(* An image with some buffers; the frame and the size may change with it.  *)
ReceiveImage ==
    /\ decoder.at = "idle"
    /\ sent < MaxSent
    /\ sent' = sent + 1
    /\ \E frameId \in FrameId, status \in {"STARTED", "RENDERING"}, viewport \in Viewport :
         LET m == [frameId |-> frameId, status |-> status, coarsePass |-> TRUE,
                   progress |-> 1, viewport |-> viewport, albedoInput |-> AlbedoAov,
                   buffers |-> {[name |-> b, active |-> TRUE, data |-> LowValue] : b \in Buffer}]
         IN  /\ frameId >= client.frameId
             /\ (client.fbViewport # viewport) => status = "STARTED"
             /\ client' = TakeHeader(client, m)
             /\ decoder' = [at |-> "prepare", m |-> m, todo |-> m.buffers]
    /\ UNCHANGED <<mutex, readerVars>>

EnableLock(m) == m.status = "STARTED"

(* Faulty variant: a message that starts a frame takes no lock.            *)
Prepare_NoLock ==
    /\ decoder.at = "prepare"
    /\ client' = PrepareFb(client, decoder.m)
    /\ decoder' = [decoder EXCEPT !.at = "buffers"]
    /\ UNCHANGED <<sent, mutex, readerVars>>

Prepare ==
    /\ decoder.at = "prepare"
    /\ IF EnableLock(decoder.m) THEN mutex = Free /\ mutex' = "decoder" ELSE UNCHANGED mutex
    /\ client' = PrepareFb(client, decoder.m)
    /\ decoder' = [decoder EXCEPT !.at = "buffers"]
    /\ UNCHANGED <<sent, readerVars>>

(* The buffers are decoded one by one, or by several threads in any order. *)
DecodeOne ==
    /\ decoder.at = "buffers"
    /\ \E buff \in decoder.todo :
         /\ client' = DecodeBuff(client, buff)
         /\ decoder' = [decoder EXCEPT !.todo = @ \ {buff}]
    /\ UNCHANGED <<sent, mutex, readerVars>>

(* Faulty variant: the early return of a failure keeps the lock.           *)
DecodeEnds_KeepLock ==
    /\ decoder.at = "buffers"
    /\ decoder' = DecoderIdle
    /\ mutex' = IF mutex = "decoder" /\ decoder.todo = {} THEN Free ELSE mutex
    /\ UNCHANGED <<client, sent, readerVars>>

(* After the last buffer, or after one that cannot be decoded.             *)
DecodeEnds ==
    /\ decoder.at = "buffers"
    /\ decoder' = DecoderIdle
    /\ mutex' = IF mutex = "decoder" THEN Free ELSE mutex
    /\ UNCHANGED <<client, sent, readerVars>>

-------------------------------------------------------------------------------
(* The reading thread.                                                     *)

(* Fb::isBeautyRelatedAov: AOVs of the beauty buffer are denoised.         *)
IsBeautyRelatedAov(b) == b = Beauty

Denoises == reader.mode # "DISABLE"
UsesAlbedo == DenoiseAlbedoInputCheck(reader.mode, client.albedoInput)

SetBeautyDenoiseMode ==
    /\ reader.at = "idle"
    /\ \E mode \in ReadMode \ {reader.mode} : reader' = ReaderIdle(mode)
    /\ shown' = Nothing
    /\ UNCHANGED <<decoderVars, mutex, denoiser>>

(* getBeautyRgb888MTSafe before any image: only the overlay is shown.      *)
ShowOverlay ==
    /\ reader.at = "idle"
    /\ OnlyOverlay(client)
    /\ shown' = [source |-> "overlay"]
    /\ UNCHANGED <<decoderVars, mutex, reader, denoiser>>

(* getBeautyMTSafe and getBeautyRgb888MTSafe.                              *)
GetBeautyMTSafe ==
    /\ reader.at = "idle"
    /\ client.frameId # 0
    /\ reader' = [reader EXCEPT !.at = IF Denoises THEN "denoiser" ELSE "lock",
                                !.goal = IF Denoises THEN "denoise" ELSE "direct"]
    /\ shown' = Nothing
    /\ UNCHANGED <<decoderVars, mutex, denoiser>>

(* getDataMTSafe: the whole call holds the lock.                           *)
GetDataMTSafe(buffer, refusable, related) ==
    /\ reader.at = "idle"
    /\ reader' = [reader EXCEPT !.at = "lock", !.goal = "direct", !.holds = TRUE, !.buffer = buffer,
                                !.refusable = refusable, !.related = related]
    /\ shown' = Nothing
    /\ UNCHANGED <<decoderVars, mutex, denoiser>>

(* getPixelInfoMTSafe, getHeatMapMTSafe, getWeightBufferMTSafe and         *)
(* getBeautyAuxMTSafe, as floats or Rgb888: these are never denoised, and  *)
(* a buffer that is not active is refused.                                 *)
GetBufferMTSafe == \E b \in Buffer \ {Beauty} : GetDataMTSafe(b, TRUE, FALSE)

(* getRenderOutputMTSafe, by the number of the AOV, which is refused when  *)
(* there are not so many, or by its name, which is not.                    *)
GetRenderOutputMTSafe ==
    \E b \in Buffer, byNumber \in BOOLEAN : GetDataMTSafe(b, byNumber, IsBeautyRelatedAov(b))

IsThere == ReadBuffer(client, reader.buffer) # <<>>
Refused == reader.refusable /\ ~ IsThere

Lock ==
    /\ reader.at = "lock" /\ mutex = Free
    /\ ~ Refused
    /\ mutex' = "reader"
    /\ LET asked == [reader EXCEPT !.refusable = FALSE, !.related = FALSE]
       IN  reader' = IF Denoises /\ reader.related /\ IsThere
                       THEN [asked EXCEPT !.at = "denoiser", !.goal = "denoise"]
                       ELSE [asked EXCEPT !.at = "copy"]
    /\ UNCHANGED <<decoderVars, denoiser, shown>>

Refuse ==
    /\ reader.at = "lock" /\ mutex = Free
    /\ Refused
    /\ shown' = Nothing
    /\ reader' = ReaderIdle(reader.mode)
    /\ UNCHANGED <<decoderVars, mutex, denoiser>>

(* What follows for a thread that needs the frame buffer next.             *)
ToBuffer(goal) == [reader EXCEPT !.at = IF reader.holds THEN "copy" ELSE "lock", !.goal = goal]
Unlocked == IF mutex = "reader" THEN Free ELSE mutex
Answer(image) ==
    /\ shown' = image
    /\ reader' = ReaderIdle(reader.mode)
    /\ mutex' = Unlocked

(* runDenoise and runDenoise888 skip the first image of a frame.           *)
SkipFirstImage ==
    /\ reader.at = "denoiser"
    /\ client.status = "STARTED"
    /\ denoiser' = ResetTimingInfo(denoiser)
    /\ reader' = ToBuffer("direct")
    /\ UNCHANGED <<decoderVars, mutex, shown>>

(* Any other image: set up, and test the interval.                         *)
RunDenoise ==
    /\ reader.at = "denoiser"
    /\ client.status # "STARTED"
    /\ \E created \in BOOLEAN :
         LET ready == SetupDenoiser(denoiser, [viewport |-> client.fbViewport, albedo |-> UsesAlbedo],
                                    created)
         IN  /\ denoiser' = ready
             /\ IF ~ready.ready
                  THEN reader' = ToBuffer("direct") /\ UNCHANGED <<mutex, shown>>
                ELSE \E run \in IntervalTests(ready) :
                  IF run THEN reader' = ToBuffer("denoise") /\ UNCHANGED <<mutex, shown>>
                  ELSE Answer([source |-> "denoised", image |-> ready.result])
    /\ UNCHANGED decoderVars

(* The beauty buffer, or any other one, is copied under the lock.          *)
CopyBuffer ==
    /\ reader.at = "copy"
    /\ IF reader.goal = "direct"
         THEN Answer([source |-> "fb", image |-> ReadBuffer(client, reader.buffer)])
         ELSE /\ reader' = [reader EXCEPT !.at = IF UsesAlbedo THEN "albedo" ELSE "engine"]
              /\ mutex' = IF reader.holds THEN mutex ELSE Free
              /\ UNCHANGED shown
    /\ UNCHANGED <<decoderVars, denoiser>>

(* The albedo input is read by getRenderOutputF4Main, which takes no lock. *)
CopyAlbedo ==
    /\ reader.at = "albedo"
    /\ reader' = [reader EXCEPT !.at = "engine"]
    /\ UNCHANGED <<decoderVars, mutex, denoiser, shown>>

(* The engine works, or fails and the image is read without it.            *)
RunEngine ==
    /\ reader.at = "engine"
    /\ \E works \in BOOLEAN :
         /\ denoiser' = Denoise(denoiser, Untiled(client, Beauty), works)
         /\ IF works THEN Answer([source |-> "denoised", image |-> denoiser'.result])
                     ELSE reader' = ToBuffer("direct") /\ UNCHANGED <<mutex, shown>>
    /\ UNCHANGED decoderVars

-------------------------------------------------------------------------------
DecoderStep == Prepare \/ DecodeOne \/ DecodeEnds
ReaderStep  == Lock \/ Refuse \/ SkipFirstImage \/ RunDenoise \/ CopyBuffer \/ CopyAlbedo \/ RunEngine

Next ==
    \/ ReceiveImage \/ DecoderStep
    \/ SetBeautyDenoiseMode \/ ShowOverlay \/ GetBeautyMTSafe \/ GetBufferMTSafe
    \/ GetRenderOutputMTSafe \/ ReaderStep

(* Each thread goes on with the call it is in.  A reader that waits for    *)
(* the lock gets it because the messages of a behaviour come to an end.    *)
Fairness == WF_vars(DecoderStep) /\ WF_vars(ReaderStep)

Spec == Init /\ [][Next]_vars /\ Fairness

-------------------------------------------------------------------------------
(* While the decoder rebuilds the frame buffer under mFbAccessMutex no     *)
(* other thread copies from it under the same lock ("multi-thread safe     *)
(* version of getBeauty() against decodeProgressiveFrame()",               *)
(* ClientReceiverFb.h:883).  The albedo input is only covered when the     *)
(* whole call holds the lock.                                              *)
NoReaderWhileFrameIsRebuilt ==
    (decoder.at = "buffers" /\ EnableLock(decoder.m)) =>
        /\ reader.at # "copy"
        /\ ~(reader.at = "albedo" /\ reader.holds)

(* When the interval says that the last denoised image is shown again,     *)
(* there is one, whatever failed and however often the set-up changed.     *)
ShownAgainExists ==
    shown.source = "denoised" => shown.image # NoResult

(* Every call returns: no path through the denoiser takes a lock that the  *)
(* thread holds, and no path of the decoder, failing or not, keeps it.     *)
(* (A decoder that waits for the lock may be passed by a reader that reads *)
(* without a pause: std::mutex promises no order.)                         *)
CallsReturn ==
    /\ (reader.at # "idle") ~> (reader.at = "idle")
    /\ (mutex # Free) ~> (mutex = Free)
===============================================================================
