--------------------------- MODULE FbMsgSingleFrame ---------------------------
(***************************************************************************)
(* The merge computation's memory of one frame (FbMsgSingleFrame), with    *)
(* the messages that each MCRT computation sent for it (FbMsgMultiChans).  *)
(* The module has no state of its own: its operators are the functions of  *)
(* the class, from a frame to a frame, and FbMsgMultiFrames keeps frames.  *)
(*                                                                         *)
(* The data that a progressiveFrame message carries is a member of Data:   *)
(* decoding it adds it to the machine's frame buffer, merging a tile       *)
(* copies what the frame buffers hold into the tile of the output image.   *)
(***************************************************************************)
EXTENDS PartialMerge, MergeActionTracker, FiniteSets, FiniteSetsExt

CONSTANTS
    Machine,        \* the MCRT computations
    NoMachine,      \* machineId -1
    TotalTiles,     \* tiles of the image
    GcMessages,     \* messages before garbage collection is considered (5)
    Data            \* the payloads of the messages, numbered by each machine

ASSUME MachineAssumption == IsFiniteSet(Machine) /\ Machine # {} /\ NoMachine \notin Machine
ASSUME TotalTilesAssumption == TotalTiles \in Nat \ {0}
ASSUME GcMessagesAssumption == GcMessages \in Nat \ {0}
ASSUME DataAssumption == Data \subseteq Nat

Tile == TileIds(TotalTiles)

(* mcrt::BaseFrame::Status                                                 *)
Status == {"STARTED", "RENDERING", "FINISHED", "CANCELLED", "ERROR"}

-------------------------------------------------------------------------------
(* FbMsgMultiChans: what one machine sent since the last image was sent.   *)
(* queue is the part of mMsgArray that decodeAll decodes.                  *)
EmptyChans == [ids |-> <<>>, progress |-> 0, status |-> "STARTED",
               started |-> FALSE, coarse |-> TRUE, queue |-> {}]

(* Faulty variant: reset also forgets the ids of the messages.             *)
ResetChans_Ids(chans) == EmptyChans

(* reset keeps the ids of the messages that it throws away.                *)
ResetChans(chans) == [EmptyChans EXCEPT !.ids = chans.ids]

(* push; that a STARTED message also resets fb is in PushFrame.            *)
PushChans(chans, msg) ==
    LET noted == [chans EXCEPT
                    !.ids = IF msg.actionId = NoActionId THEN @ ELSE Append(@, msg.actionId),
                    !.progress = msg.progress,
                    !.status = msg.status]
        current == IF msg.status = "STARTED"
                     THEN [ResetChans(noted) EXCEPT !.started = TRUE]
                     ELSE noted
    IN  [current EXCEPT !.coarse = @ /\ ~msg.coarseDone,
                        !.queue = @ \cup {msg.data}]

DecodeChans(chans) == [chans EXCEPT !.ids = <<>>, !.queue = {}]

-------------------------------------------------------------------------------
(* A frame as it is constructed.  messagesTotal, messagesAll, merged and   *)
(* messages[m] are counters of which the code asks only whether they       *)
(* have passed 0, 1, 0 and GcMessages; they stop counting there.           *)
EmptyFrame ==
    [ mySyncId       |-> 0,
      chans          |-> [m \in Machine |-> EmptyChans],
      received       |-> {},
      feedbackActive |-> FALSE,
      messagesTotal  |-> 0,
      messagesAll    |-> 0,
      tunnel         |-> NoMachine,
      receivedAll    |-> {},
      messages       |-> [m \in Machine |-> 0],
      gcReady        |-> {},
      gcCompleted    |-> {},
      coarseAll      |-> Machine,
      progressAll    |-> [m \in Machine |-> 0],
      statusAll      |-> [m \in Machine |-> "FINISHED"],
      active         |-> 0,
      first          |-> NoMachine,
      status         |-> "CANCELLED",
      fb             |-> [m \in Machine |-> {}],
      merged         |-> FALSE,
      partialMergeStartTileId |-> 0 ]

(* Faulty variant: what belongs to the whole frame is reset with it.       *)
ResetLastHistory_Progress(frame) ==
    [frame EXCEPT !.chans = [m \in Machine |-> ResetChans(@[m])], !.received = {},
                  !.messagesTotal = 0, !.progressAll = [m \in Machine |-> 0]]

ResetLastHistory(frame) ==
    [frame EXCEPT !.chans = [m \in Machine |-> ResetChans(@[m])],
                  !.received = {},
                  !.messagesTotal = 0]

(* Faulty variants: the coarse passes or the number of merges survive (so  *)
(* do the statuses, in both).                                              *)
ResetWholeHistory_KeepCoarse(frame, syncId) ==
    [ResetLastHistory(frame) EXCEPT !.mySyncId = syncId, !.receivedAll = {},
                                    !.active = 0, !.first = NoMachine, !.merged = FALSE]

ResetWholeHistory_KeepMerged(frame, syncId) ==
    [ResetLastHistory(frame) EXCEPT !.mySyncId = syncId, !.receivedAll = {},
                                    !.active = 0, !.first = NoMachine]

(* resetWholeHistory leaves the frame buffers, mStatus and the start of    *)
(* the next partial merge as they are.                                     *)
ResetWholeHistory(frame, syncId) ==
    [ResetLastHistory(frame) EXCEPT
        !.mySyncId = syncId,
        !.receivedAll = {},
        !.messages = [m \in Machine |-> 0],
        !.gcReady = {},
        !.gcCompleted = {},
        !.coarseAll = Machine,
        !.progressAll = [m \in Machine |-> 0],
        !.statusAll = [m \in Machine |-> "FINISHED"],
        !.active = 0,
        !.first = NoMachine,
        !.merged = FALSE]

ResetAllReceivedMessagesCount(frame) == [frame EXCEPT !.messagesAll = 0]

(* resetFeedback, and its effect on the trackers of the frame's machines.  *)
ResetFeedback(frame, feedbackActive) == [frame EXCEPT !.feedbackActive = feedbackActive]

ResetTrackers(trackers, feedbackActive) ==
    IF feedbackActive THEN [m \in Machine |-> ResetEncode(trackers[m])] ELSE trackers

(* Every machine has sent something on the frame.                          *)
IsReadyAll(frame) == frame.active = Cardinality(Machine)

IsCoarsePassDone(frame) == frame.coarseAll = {}

(* mProgressTotal: the sum of mProgressAll, shown as 0 by a STARTED frame. *)
ProgressTotal(frame) ==
    IF frame.status = "STARTED" THEN 0
    ELSE MapThenSumSet(LAMBDA m : frame.progressAll[m], Machine)

-------------------------------------------------------------------------------
(* Faulty variant: one finished machine is enough.                         *)
CalcCurrentFrameStatus_AnyFinished(frame) ==
    IF \E m \in Machine : frame.statusAll[m] = "FINISHED" THEN "FINISHED" ELSE "RENDERING"

CalcCurrentFrameStatus(frame) ==
    LET Some(status) == \E m \in Machine : frame.statusAll[m] = status
    IN  IF Some("ERROR") THEN "ERROR"
        ELSE IF Some("CANCELLED") THEN "CANCELLED"
        ELSE IF Some("STARTED") /\ frame.messagesAll = 1 THEN "STARTED"
        ELSE IF \A m \in Machine : frame.statusAll[m] = "FINISHED" THEN "FINISHED"
        ELSE "RENDERING"

(* Faulty variants: the frame buffer is kept, or the machine stays counted.*)
StartOver_KeepFb(frame, machine, stagedTunnel) ==
    [frame EXCEPT
        !.active = IF machine \in frame.receivedAll THEN @ - 1 ELSE @,
        !.receivedAll = @ \ {machine}]

StartOver_KeepActive(frame, machine, stagedTunnel) ==
    [frame EXCEPT !.fb[machine] = {}, !.receivedAll = @ \ {machine}]

(* The part of push that a STARTED message adds: the machine starts over.  *)
StartOver(frame, machine, stagedTunnel) ==
    [frame EXCEPT
        !.fb[machine] = {},
        !.active = IF machine \in frame.receivedAll THEN @ - 1 ELSE @,
        !.receivedAll = @ \ {machine},
        !.messages[machine] = 0,
        !.gcReady = @ \ {machine},
        !.gcCompleted = @ \ {machine},
        !.coarseAll = @ \cup {machine},
        !.tunnel = stagedTunnel]

CountMessage(frame, machine) ==
    LET isNew == machine \notin frame.receivedAll
    IN  [frame EXCEPT
            !.messagesTotal = 1,
            !.messagesAll = Least(@ + 1, 2),
            !.received = @ \cup {machine},
            !.receivedAll = @ \cup {machine},
            !.active = IF isNew THEN @ + 1 ELSE @,
            !.first = IF isNew /\ frame.active = 0 THEN machine ELSE @,
            !.messages[machine] = Least(@ + 1, GcMessages + 1)]

(* A machine that has been rendering for long enough becomes a candidate   *)
(* for garbage collection; slow says whether the half second has passed.   *)
TrackGc(frame, machine, slow) ==
    IF /\ machine \notin frame.gcReady
       /\ frame.messages[machine] > GcMessages
       /\ slow
      THEN [frame EXCEPT !.gcReady = @ \cup {machine},
                         !.gcCompleted = @ \ {machine}]
      ELSE frame

TrackProgress(frame, machine) ==
    LET chans == frame.chans[machine]
        next == [frame EXCEPT
            !.coarseAll = IF chans.coarse THEN @ ELSE @ \ {machine},
            !.progressAll[machine] =
                IF frame.tunnel \in {NoMachine, machine} THEN chans.progress ELSE @,
            !.statusAll[machine] = IF chans.started THEN "STARTED" ELSE chans.status]
    IN  [next EXCEPT !.status = CalcCurrentFrameStatus(next)]

(* push of a message with an image, from a machine in range.               *)
PushFrame(frame, msg, stagedTunnel, slow) ==
    LET m == msg.machine
        pushed  == [frame EXCEPT !.chans[m] = PushChans(@, msg)]
        started == IF msg.status = "STARTED" THEN StartOver(pushed, m, stagedTunnel)
                                             ELSE pushed
    IN  TrackProgress(TrackGc(CountMessage(started, m), m, slow), m)

-------------------------------------------------------------------------------
(* decodeAll decodes what every machine in received has queued, and tells  *)
(* the trackers.                                                           *)
DecodeAll(frame) ==
    IF frame.messagesTotal = 0 THEN frame
    ELSE [frame EXCEPT
            !.fb = [m \in Machine |-> IF m \in frame.received
                                        THEN @[m] \cup frame.chans[m].queue
                                        ELSE @[m]],
            !.chans = [m \in Machine |-> IF m \in frame.received
                                           THEN DecodeChans(@[m])
                                           ELSE @[m]]]

TrackDecodeAll(frame, trackers) ==
    [m \in Machine |->
        IF frame.messagesTotal # 0 /\ frame.feedbackActive /\ m \in frame.received
          THEN TrackDecode(trackers[m], frame.chans[m].ids)
          ELSE trackers[m]]

(* merge collects the garbage of the machines that are ready for it, and   *)
(* merges unless the resolution of the image is not that of the received   *)
(* frame buffers.                                                          *)
CollectGarbage(frame) ==
    [frame EXCEPT !.gcCompleted = @ \cup (frame.gcReady \cap frame.received)]

Merges(frame, sameReso) == frame.messagesTotal # 0 /\ sameReso

Merge(frame, request, sameReso) ==
    LET collected == IF frame.messagesTotal = 0 THEN frame ELSE CollectGarbage(frame)
    IN  IF Merges(frame, sameReso)
          THEN [collected EXCEPT
                  !.merged = TRUE,
                  !.partialMergeStartTileId = NextStartTileId(@, request, TotalTiles)]
          ELSE collected

(* mergeSingleFb merges a machine that has sent something on this frame,   *)
(* unless it is the tunnel machine, and only then tells its tracker.       *)
Contributors(frame, machines) == (machines \cap frame.receivedAll) \ {frame.tunnel}

(* One reset and accumulation of the marked tiles of the output image.     *)
Accumulate(frame, image, tiles, machines) ==
    [t \in Tile |->
        IF t \in tiles
          THEN [m \in Machine |->
                   IF m \in Contributors(frame, machines) THEN frame.fb[m] ELSE {}]
          ELSE image[t]]

(* The image after merge: the first merge of a frame begins with           *)
(* mergeFirstFb, which starts every tile from the machine that was heard   *)
(* first; then mergeAllFb refreshes all tiles or those of a table.         *)
MergedImage(frame, image, request, sameReso) ==
    LET begun == IF frame.merged THEN image
                 ELSE Accumulate(frame, image, Tile, {frame.first})
        tiles == PartialMergeTiles(frame.partialMergeStartTileId, request, TotalTiles)
    IN  IF Merges(frame, sameReso) THEN Accumulate(frame, begun, tiles, Machine) ELSE image

TrackMerge(frame, trackers, request, sameReso) ==
    LET tiles == PartialMergeTiles(frame.partialMergeStartTileId, request, TotalTiles)
        First(m) == IF ~frame.merged /\ m = frame.first THEN TrackMergeFull(trackers[m])
                                                        ELSE trackers[m]
        All(m) == IF request = 0 THEN TrackMergeFull(First(m))
                                 ELSE TrackMergePartial(First(m), tiles)
    IN  [m \in Machine |->
            IF /\ Merges(frame, sameReso)
               /\ frame.feedbackActive
               /\ m \in Contributors(frame, Machine)
              THEN All(m)
              ELSE trackers[m]]

(* encodeMergeActionTracker: the records of the machines heard on this     *)
(* frame; those records begin anew.                                        *)
EncodedTrackers(frame, trackers) == [m \in frame.receivedAll |-> trackers[m].data]

ResetEncoded(frame, trackers) ==
    [m \in Machine |->
        IF m \in frame.receivedAll THEN ResetEncode(trackers[m]) ELSE trackers[m]]

-------------------------------------------------------------------------------
(* The values that frames take.                                            *)
Chans == [ids : Seq(Data), progress : Nat, status : Status, started : BOOLEAN,
          coarse : BOOLEAN, queue : SUBSET Data]

Frame ==
    [ mySyncId : Nat, chans : [Machine -> Chans], received : SUBSET Machine,
      feedbackActive : BOOLEAN, messagesTotal : 0 .. 1, messagesAll : 0 .. 2,
      tunnel : Machine \cup {NoMachine}, receivedAll : SUBSET Machine,
      messages : [Machine -> 0 .. GcMessages + 1], gcReady : SUBSET Machine,
      gcCompleted : SUBSET Machine, coarseAll : SUBSET Machine,
      progressAll : [Machine -> Nat], statusAll : [Machine -> Status], active : Int,
      first : Machine \cup {NoMachine}, status : Status,
      fb : [Machine -> SUBSET Data], merged : BOOLEAN,
      partialMergeStartTileId : 0 .. TotalTiles ]
===============================================================================
