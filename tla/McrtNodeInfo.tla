----------------------------- MODULE McrtNodeInfo -----------------------------
(***************************************************************************)
(* What is known of one MCRT computation (McrtNodeInfo), with the InfoCodec *)
(* through which it reaches the merge computation and the client.          *)
(*                                                                         *)
(* The same class stands at all three places.  Setting a value also queues *)
(* the change for the next encode, unless the object is decodeOnly, as it  *)
(* is at the client; decoding a change sets the value.  So the merge       *)
(* computation passes on what it decodes, and only changes ever travel.    *)
(*                                                                         *)
(* Of the many values those are kept that behave differently: hostName, by *)
(* which clocks are assigned; cpuTotal, which also resets coreUsage; the   *)
(* clock's values, which the merge computation sets; and those of render   *)
(* prep, which reach the queue through a work area.                        *)
(***************************************************************************)
EXTENDS Integers, Sequences

CONSTANT NoHost     \* the empty mHostName

LoadGeometry == {"LOADGEO0", "LOADGEO1"}
Tessellation == {"TESSELLATION0", "TESSELLATION1"}
Phase == LoadGeometry \cup Tessellation

(* RenderPrepStats::Stage: the three steps of a phase, and the rest.       *)
Stage(phase, step) == <<phase, step>>
NotActive == Stage("NONE", "NOT_ACTIVE")
PhaseOf(stage) == stage[1]
StepOf(stage) == stage[2]

TotalKey == [LOADGEO0      |-> "renderPrepStatsLoadGeoTotal0",
             LOADGEO1      |-> "renderPrepStatsLoadGeoTotal1",
             TESSELLATION0 |-> "renderPrepStatsTessellationTotal0",
             TESSELLATION1 |-> "renderPrepStatsTessellationTotal1"]

ProcessedKey == [LOADGEO0      |-> "renderPrepStatsLoadGeoProcessed0",
                 LOADGEO1      |-> "renderPrepStatsLoadGeoProcessed1",
                 TESSELLATION0 |-> "renderPrepStatsTessellationProcessed0",
                 TESSELLATION1 |-> "renderPrepStatsTessellationProcessed1"]

ClockKey == {"clockTimeShift", "lastRunClockOffsetTime"}
CountKey == {TotalKey[p] : p \in Phase} \cup {ProcessedKey[p] : p \in Phase}
Key == {"hostName", "cpuTotal", "coreUsage", "renderPrepStatsStage"} \cup ClockKey \cup CountKey

NewInfo ==
    [ value     |-> [k \in Key |-> CASE k = "hostName" -> NoHost
                                     [] k = "renderPrepStatsStage" -> NotActive
                                     [] OTHER -> 0],
      array     |-> <<>>,
      comment   |-> <<>>,
      workStage |-> NotActive,
      workProcessed |-> [p \in Phase |-> 0],
      loadGeometriesRequestFlush |-> FALSE,
      tessellationRequestFlush   |-> FALSE ]

Entry(key, value) == [key |-> key, value |-> value]

(* The values after an assignment: setCpuTotal makes room for as many      *)
(* cores, none of them used.                                               *)
Assigned(value, key, new) ==
    IF key = "cpuTotal" THEN [value EXCEPT !.cpuTotal = new, !.coreUsage = 0]
                        ELSE [value EXCEPT ![key] = new]

(* Faulty variant: a value that is the same as before is not queued.       *)
SetValue_OnChange(info, decodeOnly, key, new) ==
    [info EXCEPT
        !.value = Assigned(@, key, new),
        !.array = IF decodeOnly \/ info.value[key] = new THEN @ ELSE Append(@, Entry(key, new))]

(* InfoCodec's set of a value and its change in one step.                  *)
SetValue(info, decodeOnly, key, new) ==
    [info EXCEPT
        !.value = Assigned(@, key, new),
        !.array = IF decodeOnly THEN @ ELSE Append(@, Entry(key, new))]

-------------------------------------------------------------------------------
(* setRenderPrepStats at the MCRT computation.  The first and the last     *)
(* step of a phase are queued at once; those between only leave their      *)
(* count in the work area, for the next flush.                             *)
WithRequest(info, phase, request) ==
    IF phase \in LoadGeometry THEN [info EXCEPT !.loadGeometriesRequestFlush = request]
                              ELSE [info EXCEPT !.tessellationRequestFlush = request]

SetStage(info, stage) == SetValue(info, FALSE, "renderPrepStatsStage", stage)

StartPhase(info, phase, count) ==
    WithRequest(SetValue(SetStage(info, Stage(phase, "START")), FALSE, TotalKey[phase], count),
                phase, FALSE)

ProcessPhase(info, phase, count) ==
    WithRequest([info EXCEPT !.workStage = Stage(phase, "PROCESS"),
                             !.workProcessed[phase] = count],
                phase, TRUE)

FinishPhase(info, phase, count) ==
    WithRequest(SetValue(SetStage(info, Stage(phase, "DONE")), FALSE, ProcessedKey[phase], count),
                phase, FALSE)

SetRenderPrepStats(info, stage, count) ==
    CASE StepOf(stage) = "START"   -> StartPhase(info, PhaseOf(stage), count)
      [] StepOf(stage) = "PROCESS" -> ProcessPhase(info, PhaseOf(stage), count)
      [] StepOf(stage) = "DONE"    -> FinishPhase(info, PhaseOf(stage), count)
      [] OTHER                     -> SetStage(info, stage)

(* enqGenericComment adds to the comments that wait.                       *)
EnqGenericComment(info, comments) == [info EXCEPT !.comment = @ \o comments]

(* flushEncodeData: the work area, then the comments, go to the queue.     *)
FlushStage(info, phases) ==
    LET staged == SetStage(info, info.workStage)
        phase  == PhaseOf(info.workStage)
    IN  IF phase \in phases
          THEN SetValue(staged, FALSE, ProcessedKey[phase], info.workProcessed[phase])
          ELSE staged

(* Faulty variant: tessellation's counts are not flushed.                  *)
FlushRenderPrepStats_LoadOnly(info) ==
    IF info.loadGeometriesRequestFlush
      THEN [FlushStage(info, LoadGeometry) EXCEPT !.loadGeometriesRequestFlush = FALSE]
    ELSE info

FlushRenderPrepStats(info) ==
    IF info.loadGeometriesRequestFlush
      THEN [FlushStage(info, LoadGeometry) EXCEPT !.loadGeometriesRequestFlush = FALSE]
    ELSE IF info.tessellationRequestFlush
      THEN [FlushStage(info, Tessellation) EXCEPT !.tessellationRequestFlush = FALSE]
    ELSE info

(* Faulty variant: the comments are queued and stay.                       *)
FlushComments_Keep(info) ==
    IF info.comment = <<>> THEN info
    ELSE [info EXCEPT !.array = Append(@, Entry("genericComment", info.comment))]

FlushComments(info) ==
    IF info.comment = <<>> THEN info
    ELSE [info EXCEPT !.array = Append(@, Entry("genericComment", info.comment)),
                      !.comment = <<>>]

FlushEncodeData(info) == FlushComments(FlushRenderPrepStats(info))

-------------------------------------------------------------------------------
(* decode: the changes one by one, each through its setter.                *)
DecodeEntry(info, decodeOnly, entry) ==
    IF entry.key = "genericComment" THEN EnqGenericComment(info, entry.value)
    ELSE SetValue(info, decodeOnly, entry.key, entry.value)

DecodeInfo(info, decodeOnly, entries) ==
    LET Decoded[n \in 0 .. Len(entries)] ==
          IF n = 0 THEN info ELSE DecodeEntry(Decoded[n - 1], decodeOnly, entries[n])
    IN  Decoded[Len(entries)]
===============================================================================
