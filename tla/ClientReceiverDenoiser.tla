------------------------ MODULE ClientReceiverDenoiser ------------------------
(***************************************************************************)
(* The denoiser of the client (ClientReceiverDenoiser): it is set up anew  *)
(* when the engine, the size or the additional inputs change, and it runs  *)
(* at intervals that follow what denoising costs.  Between two runs the    *)
(* last result is shown again.                                             *)
(*                                                                         *)
(* Times are left out: whether the interval has passed is an input.        *)
(***************************************************************************)
EXTENDS Integers

(* A set-up and a result are sequences of at most one element.             *)
NoResult == <<>>
NoSetup  == <<>>

NewDenoiser ==
    [setup |-> NoSetup, ready |-> TRUE, timed |-> FALSE, result |-> NoResult]

(* resetTimingInfo: what denoising costs is unknown again.                 *)
ResetTimingInfo(denoiser) == [denoiser EXCEPT !.timed = FALSE]

NeedsSetup(denoiser, setup) == denoiser.setup # <<setup>>

(* setupDenoiser: created says whether the engine accepts the set-up.  A   *)
(* set-up that fails is not tried again, and leaves the denoiser not ready.*)
SetupDenoiser(denoiser, setup, created) ==
    IF NeedsSetup(denoiser, setup)
      THEN [denoiser EXCEPT !.setup = <<setup>>, !.ready = created]
      ELSE denoiser

(* denoiseActionIntervalTest: the first time is always right; afterwards   *)
(* the interval decides.                                                   *)
IntervalTests(denoiser) == IF denoiser.timed THEN BOOLEAN ELSE {TRUE}

(* Faulty variant: the cost is recorded whether or not the engine failed.  *)
Denoise_TimeFirst(denoiser, image, works) ==
    IF works THEN [denoiser EXCEPT !.result = <<image>>, !.timed = TRUE]
             ELSE [denoiser EXCEPT !.timed = TRUE]

(* The run of the engine in denoiseBeauty and denoiseBeauty888: it fails   *)
(* with a message, or it leaves a result and its cost is recorded.         *)
Denoise(denoiser, image, works) ==
    IF works THEN [denoiser EXCEPT !.result = <<image>>, !.timed = TRUE] ELSE denoiser
===============================================================================
