-------------------------- MODULE FrameReadingProofs --------------------------
(***************************************************************************)
(* Why the mutex of the client is enough: who holds it follows from what   *)
(* the two threads are doing, whatever messages come and whichever of the  *)
(* paths through the denoiser the reader takes.                            *)
(***************************************************************************)
EXTENDS FrameReading, TLAPS

Decoder == {"idle", "prepare", "buffers"}
Reader  == {"idle", "lock", "denoiser", "copy", "albedo", "engine"}

(* A decoder that is idle is without a message.                            *)
TypeOK ==
    /\ decoder.at \in Decoder
    /\ decoder = IF decoder.at = "idle" THEN DecoderIdle
                 ELSE [at |-> decoder.at, m |-> decoder.m, todo |-> decoder.todo]
    /\ reader = [at |-> reader.at, goal |-> reader.goal, mode |-> reader.mode, holds |-> reader.holds,
                 buffer |-> reader.buffer, refusable |-> reader.refusable, related |-> reader.related]
    /\ reader.at \in Reader /\ reader.holds \in BOOLEAN
    /\ mutex \in {Free, "decoder", "reader"}

DecoderLocks == decoder.at = "buffers" /\ EnableLock(decoder.m)
ReaderLocks ==
    \/ reader.at = "copy"
    \/ reader.holds /\ reader.at \in {"denoiser", "albedo", "engine"}

MutexOK ==
    /\ mutex = "decoder" <=> DecoderLocks
    /\ mutex = "reader" <=> ReaderLocks
    /\ reader.at = "idle" => ~ reader.holds
    /\ reader.related => reader.holds

(* The interval is only tested against a cost that a result came with.     *)
DenoiserOK ==
    /\ denoiser = [setup |-> denoiser.setup, ready |-> denoiser.ready, timed |-> denoiser.timed,
                   result |-> denoiser.result]
    /\ denoiser.timed \in BOOLEAN
    /\ denoiser.timed => denoiser.result # NoResult

IInv == TypeOK /\ MutexOK /\ DenoiserOK /\ ShownAgainExists
-------------------------------------------------------------------------------

LEMMA InitIInv == Init => IInv
  BY DEF Init, IInv, TypeOK, MutexOK, DenoiserOK, ShownAgainExists, DecoderIdle, ReaderIdle, Decoder,
         Reader, Free, Nothing, NewDenoiser, DecoderLocks, ReaderLocks

(* The decoding thread changes only what the decoder does and its lock.    *)
LEMMA DecoderKeeps ==
  ASSUME IInv, ReceiveImage \/ DecoderStep
  PROVE  IInv'
<1> USE DEF TypeOK, MutexOK, Decoder, Free, DecoderLocks, ReaderLocks, EnableLock, readerVars
<1>1. CASE ReceiveImage
  BY <1>1 DEF IInv, ReceiveImage, DenoiserOK, ShownAgainExists, DecoderIdle
<1>2. CASE Prepare
  BY <1>2 DEF IInv, Prepare, DenoiserOK, ShownAgainExists, DecoderIdle
<1>3. CASE DecodeOne
  BY <1>3 DEF IInv, DecodeOne, DenoiserOK, ShownAgainExists, DecoderIdle
<1>4. CASE DecodeEnds
  BY <1>4 DEF IInv, DecodeEnds, DenoiserOK, ShownAgainExists, DecoderIdle
<1> QED BY <1>1, <1>2, <1>3, <1>4 DEF DecoderStep

LEMMA CallKeeps ==
  ASSUME IInv, SetBeautyDenoiseMode \/ ShowOverlay \/ GetBeautyMTSafe \/ GetBufferMTSafe \/ GetRenderOutputMTSafe
  PROVE  IInv'
<1> USE DEF IInv, TypeOK, MutexOK, DenoiserOK, ShownAgainExists, Free, Nothing, Reader, DecoderLocks,
            ReaderLocks, decoderVars
<1>1. CASE SetBeautyDenoiseMode
  BY <1>1 DEF SetBeautyDenoiseMode, ReaderIdle
<1>2. CASE ShowOverlay
  BY <1>2 DEF ShowOverlay
<1>3. CASE GetBeautyMTSafe
  BY <1>3 DEF GetBeautyMTSafe
<1>4. ASSUME NEW b, NEW refusable, NEW related, GetDataMTSafe(b, refusable, related) PROVE IInv'
  BY <1>4 DEF GetDataMTSafe
<1> QED BY <1>1, <1>2, <1>3, <1>4 DEF GetBufferMTSafe, GetRenderOutputMTSafe

(* A call that returns gives the lock back, if it has it.                  *)
LEMMA AnswerKeeps ==
  ASSUME IInv, NEW image, Answer(image), UNCHANGED decoderVars,
         image.source = "denoised" => image.image # NoResult,
         DenoiserOK'
  PROVE  IInv'
  BY DEF IInv, TypeOK, MutexOK, ShownAgainExists, Answer, Unlocked, ReaderIdle, Free, Reader, DecoderLocks,
         ReaderLocks, decoderVars

(* What follows is the copy, for a thread that has the lock, or to wait.   *)
LEMMA ToBufferKeeps ==
  ASSUME IInv, NEW goal, reader' = ToBuffer(goal), reader.at \in {"denoiser", "engine"},
         UNCHANGED <<decoderVars, mutex, shown>>,
         DenoiserOK'
  PROVE  IInv'
  BY DEF IInv, TypeOK, MutexOK, ShownAgainExists, ToBuffer, Free, Reader, DecoderLocks, ReaderLocks,
         decoderVars

LEMMA ReaderKeeps ==
  ASSUME IInv, ReaderStep
  PROVE  IInv'
<1>1. CASE Lock
  BY <1>1 DEF Lock, IInv, TypeOK, MutexOK, DenoiserOK, ShownAgainExists, Free, Reader, DecoderLocks,
              ReaderLocks, decoderVars
<1>2. CASE Refuse
  BY <1>2 DEF Refuse, IInv, TypeOK, MutexOK, DenoiserOK, ShownAgainExists, Free, Reader, DecoderLocks,
              ReaderLocks, ReaderIdle, Nothing, decoderVars
<1>3. CASE SkipFirstImage
  <2>1. denoiser' = [denoiser EXCEPT !.timed = FALSE]
    BY <1>3 DEF SkipFirstImage, ResetTimingInfo
  <2> QED BY <1>3, <2>1, ToBufferKeeps DEF SkipFirstImage, IInv, DenoiserOK
<1>4. CASE RunDenoise
  <2>1. PICK created \in BOOLEAN :
          LET ready == SetupDenoiser(denoiser, [viewport |-> client.fbViewport, albedo |-> UsesAlbedo], created)
          IN  /\ denoiser' = ready
              /\ \/ \E goal : reader' = ToBuffer(goal) /\ UNCHANGED <<mutex, shown>>
                 \/ \E run \in IntervalTests(ready) :
                      ~run /\ Answer([source |-> "denoised", image |-> ready.result])
    BY <1>4 DEF RunDenoise
  <2>2. DenoiserOK'
    BY <2>1 DEF IInv, DenoiserOK, SetupDenoiser
  <2>3. UNCHANGED decoderVars /\ reader.at = "denoiser"
    BY <1>4 DEF RunDenoise
  <2>4. CASE \E goal : reader' = ToBuffer(goal) /\ UNCHANGED <<mutex, shown>>
    BY <2>2, <2>3, <2>4, ToBufferKeeps
  <2>5. CASE \E run \in IntervalTests(denoiser') :
               ~run /\ Answer([source |-> "denoised", image |-> denoiser'.result])
    <3>1. denoiser'.timed
      BY <2>5 DEF IntervalTests
    <3> QED BY <3>1, <2>2, <2>3, <2>5, AnswerKeeps DEF DenoiserOK
  <2> QED BY <2>1, <2>4, <2>5
<1>5. CASE CopyBuffer
  <2>1. UNCHANGED <<decoderVars, denoiser>> /\ reader.at = "copy"
    BY <1>5 DEF CopyBuffer
  <2>2. DenoiserOK'
    BY <2>1 DEF IInv, DenoiserOK
  <2>3. CASE reader.goal = "direct"
    BY <1>5, <2>1, <2>2, <2>3, AnswerKeeps DEF CopyBuffer
  <2>4. CASE reader.goal # "direct"
    BY <1>5, <2>1, <2>2, <2>4 DEF CopyBuffer, IInv, TypeOK, MutexOK, ShownAgainExists, Free, Reader,
       DecoderLocks, ReaderLocks, decoderVars
  <2> QED BY <2>3, <2>4
<1>6. CASE CopyAlbedo
  BY <1>6 DEF CopyAlbedo, IInv, TypeOK, MutexOK, DenoiserOK, ShownAgainExists, Free, Reader, DecoderLocks,
              ReaderLocks, decoderVars
<1>7. CASE RunEngine
  <2>1. PICK works \in BOOLEAN :
          /\ denoiser' = Denoise(denoiser, Untiled(client, Beauty), works)
          /\ IF works THEN Answer([source |-> "denoised", image |-> denoiser'.result])
                      ELSE reader' = ToBuffer("direct") /\ UNCHANGED <<mutex, shown>>
    BY <1>7 DEF RunEngine
  <2>2. UNCHANGED decoderVars /\ reader.at = "engine"
    BY <1>7 DEF RunEngine
  <2>3. DenoiserOK' /\ (works => denoiser'.result # NoResult)
    BY <2>1 DEF IInv, DenoiserOK, Denoise, NoResult
  <2>4. CASE works
    BY <2>1, <2>2, <2>3, <2>4, AnswerKeeps
  <2>5. CASE ~works
    BY <2>1, <2>2, <2>3, <2>5, ToBufferKeeps
  <2> QED BY <2>4, <2>5
<1> QED BY <1>1, <1>2, <1>3, <1>4, <1>5, <1>6, <1>7 DEF ReaderStep

(* Who holds the lock follows from what the threads do, in every state.    *)
THEOREM InvariantHolds == Spec => []IInv
<1>1. Init => IInv
  BY InitIInv
<1>2. IInv /\ [Next]_vars => IInv'
  <2> SUFFICES ASSUME IInv, [Next]_vars PROVE IInv'
    OBVIOUS
  <2>1. CASE Next
    BY <2>1, DecoderKeeps, CallKeeps, ReaderKeeps DEF Next
  <2>2. CASE UNCHANGED vars
    BY <2>2 DEF vars, decoderVars, readerVars, IInv, TypeOK, MutexOK, DenoiserOK, ShownAgainExists,
                DecoderLocks, ReaderLocks
  <2> QED BY <2>1, <2>2
<1> QED BY <1>1, <1>2, PTL DEF Spec

(* No image is copied under the lock while a frame is rebuilt: for every   *)
(* number of buffers, sizes, frames and messages, and all of the paths of  *)
(* getBeautyMTSafe and getRenderOutputMTSafe through the denoiser.         *)
THEOREM FrameIsNotReadWhileRebuilt == Spec => []NoReaderWhileFrameIsRebuilt
<1>1. IInv => NoReaderWhileFrameIsRebuilt
  BY DEF IInv, MutexOK, DecoderLocks, ReaderLocks, NoReaderWhileFrameIsRebuilt
<1> QED BY <1>1, InvariantHolds, PTL

(* A denoised image that is shown again is one the engine made.            *)
THEOREM ShownImageExists == Spec => []ShownAgainExists
<1>1. IInv => ShownAgainExists
  BY DEF IInv
<1> QED BY <1>1, InvariantHolds, PTL
===============================================================================
