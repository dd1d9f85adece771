--------------------------- MODULE FbMsgMultiFrames ---------------------------
(***************************************************************************)
(* The merge computation's frames (FbMsgMultiFrames): how each message of  *)
(* an MCRT computation finds its frame, and which frame is displayed.      *)
(*                                                                         *)
(* A scene update gets a syncId, and every MCRT computation answers it     *)
(* with progressiveFrame messages of that syncId.  What becomes of them    *)
(* depends on the merge type:                                              *)
(*   SEAMLESS_COMBINE  one frame takes every message;                      *)
(*   PICKUP_LATEST     one frame takes the messages of the newest syncId;  *)
(*   SYNCID_LINEUP     a window of CacheFrames frames takes the messages   *)
(*                     of as many syncIds, reached through mPtrTable.      *)
(*                                                                         *)
(* The MCRT computations, the code that calls this class and the image it  *)
(* merges into are outside the repository's sources; mcrt, outcome, image  *)
(* and the actions' inputs stand for them.                                 *)
(***************************************************************************)
EXTENDS FbMsgSingleFrame

CONSTANTS
    InitialMergeTypes,  \* the merge types that a session may begin with
    MergeTypes,         \* the merge types that it may change to
    CacheFrames,        \* totalCacheFrames of SYNCID_LINEUP
    SyncId,             \* the syncIds of scene updates
    MaxProgress,        \* bound: messages of one rendering after its first
    LaterStatuses,      \* the statuses that messages after the first may have
    ActionIds,          \* TRUE if messages carry a sendImageActionId
    Restarts,           \* TRUE if a machine may start again on the same syncId
    Requests,           \* partialMergeTilesTotal of the images that are sent
    Feedbacks,          \* the values that *mFeedback takes
    Tunnels,            \* the values that *mTunnelMachineId takes
    CallbackOutcomes    \* what feedbackInitCallBack may return

MergeType == {"SEAMLESS_COMBINE", "PICKUP_LATEST", "SYNCID_LINEUP"}

ASSUME MergeTypeAssumption == InitialMergeTypes \cup MergeTypes \subseteq MergeType
ASSUME CacheFramesAssumption == CacheFrames \in Nat \ {0}
ASSUME SyncIdAssumption == SyncId \subseteq Nat
ASSUME InputAssumption ==
    /\ MaxProgress \in Nat
    /\ LaterStatuses \subseteq Status \ {"STARTED"}
    /\ ActionIds \in BOOLEAN
    /\ Restarts \in BOOLEAN
    /\ Requests \subseteq Nat
    /\ Feedbacks \subseteq BOOLEAN /\ Feedbacks # {}
    /\ Tunnels \subseteq Machine \cup {NoMachine} /\ NoMachine \in Tunnels
    /\ CallbackOutcomes \subseteq BOOLEAN

VARIABLES
    mergeType,
    frames,                     \* mFbMsgMultiFrames; only slot 1 unless lined up
    trackers,                   \* mMergeActionTracker of each slot and machine
    ptrTable,                   \* position in the window -> slot
    startSyncFrameId,
    endSyncFrameId,
    displayFrame,               \* a slot, or 0 for the null pointer
    displaySyncFrameInitialize,
    displaySyncFrameId,
    feedback,                   \* *mFeedback
    tunnelStaged,               \* *mTunnelMachineId
    mcrt,                       \* the last message of each machine
    rendered,                   \* rendered[m][s]: the data that m sent for s
    image                       \* the output image: tile -> machine -> data

windowVars == <<ptrTable, startSyncFrameId, endSyncFrameId>>
displayVars == <<displayFrame, displaySyncFrameInitialize, displaySyncFrameId>>
settingVars == <<mergeType, feedback, tunnelStaged>>
mcrtVars == <<mcrt, rendered>>
vars == <<frames, trackers, windowVars, displayVars, settingVars, mcrtVars, image>>

Slot == 1 .. CacheFrames
Identity == [i \in Slot |-> i]

Init ==
    /\ mergeType \in InitialMergeTypes
    /\ frames = [i \in Slot |-> EmptyFrame]
    /\ trackers = [i \in Slot |-> [m \in Machine |-> EmptyTracker]]
    /\ ptrTable = Identity
    /\ startSyncFrameId = 0
    /\ endSyncFrameId = 0
    /\ displayFrame = IF mergeType = "SYNCID_LINEUP" THEN 0 ELSE 1
    /\ displaySyncFrameInitialize = FALSE
    /\ displaySyncFrameId = 0
    /\ feedback \in Feedbacks
    /\ tunnelStaged = NoMachine
    /\ mcrt = [m \in Machine |-> [syncId |-> -1, status |-> "FINISHED",
                                  progress |-> 0, data |-> 0]]
    /\ rendered = [m \in Machine |-> [s \in SyncId |-> {}]]
    /\ image = [t \in Tile |-> [m \in Machine |-> {}]]

-------------------------------------------------------------------------------
(* The slot of a syncId in a window that starts at start.                  *)
SlotOf(table, start, syncId) == table[syncId - start + 1]

PushInto(slot, frame, msg, slow) ==
    frames' = [frames EXCEPT ![slot] = PushFrame(frame, msg, tunnelStaged, slow)]

(* Faulty variant: the syncId of the last message is displayed.            *)
PushSeamlessCombine_Last(msg, slow) ==
    /\ mergeType = "SEAMLESS_COMBINE"
    /\ displaySyncFrameId' = msg.syncId
    /\ displaySyncFrameInitialize' = TRUE
    /\ PushInto(1, frames[1], msg, slow)
    /\ UNCHANGED <<trackers, displayFrame, windowVars>>

(* push_seamlessCombine: no reset, and the newest syncId is displayed.     *)
PushSeamlessCombine(msg, slow) ==
    /\ mergeType = "SEAMLESS_COMBINE"
    /\ displaySyncFrameId' = IF displaySyncFrameInitialize /\ msg.syncId < displaySyncFrameId
                               THEN displaySyncFrameId
                               ELSE msg.syncId
    /\ displaySyncFrameInitialize' = TRUE
    /\ PushInto(1, frames[1], msg, slow)
    /\ UNCHANGED <<trackers, displayFrame, windowVars>>

(* push_pickupLatest of a syncId newer than any so far: the frame is reset *)
(* for it, and the message is pushed unless the callback fails.            *)
StartedFor(syncId) ==
    ResetFeedback(ResetAllReceivedMessagesCount(ResetWholeHistory(frames[1], syncId)),
                  feedback)

(* Faulty variant: any other syncId is taken for a newer one.              *)
PickupNewer_AnyOther(msg, slow, callbackOutcome) ==
    /\ displaySyncFrameInitialize => displaySyncFrameId # msg.syncId
    /\ displaySyncFrameInitialize' = TRUE
    /\ displaySyncFrameId' = msg.syncId
    /\ PushInto(1, StartedFor(msg.syncId), msg, slow)
    /\ UNCHANGED <<trackers, displayFrame, windowVars>>

PickupNewer(msg, slow, callbackOutcome) ==
    /\ displaySyncFrameInitialize => displaySyncFrameId < msg.syncId
    /\ displaySyncFrameInitialize' = TRUE
    /\ displaySyncFrameId' = msg.syncId
    /\ IF callbackOutcome
         THEN PushInto(1, StartedFor(msg.syncId), msg, slow)
         ELSE frames' = [frames EXCEPT ![1] = StartedFor(msg.syncId)]
    /\ trackers' = [trackers EXCEPT ![1] = ResetTrackers(@, feedback)]
    /\ UNCHANGED <<displayFrame, windowVars>>

PickupSame(msg, slow) ==
    /\ displaySyncFrameInitialize
    /\ displaySyncFrameId = msg.syncId
    /\ PushInto(1, frames[1], msg, slow)
    /\ UNCHANGED <<trackers, displayVars, windowVars>>

DropOlder(msg) ==
    /\ displaySyncFrameInitialize
    /\ msg.syncId < displaySyncFrameId
    /\ UNCHANGED <<frames, trackers, displayVars, windowVars>>

PushPickupLatest(msg, slow, callbackOutcome) ==
    /\ mergeType = "PICKUP_LATEST"
    /\ \/ PickupNewer(msg, slow, callbackOutcome)
       \/ PickupSame(msg, slow)
       \/ DropOlder(msg)

-------------------------------------------------------------------------------
(* The window of SYNCID_LINEUP as one value.                               *)
Window == [frames |-> frames, ptrTable |-> ptrTable,
           start |-> startSyncFrameId, end |-> endSyncFrameId,
           displayFrame |-> displayFrame, displayId |-> displaySyncFrameId]

(* Faulty variants: a recycled frame keeps its history, and a display that *)
(* is shifted out of the window stays there.                               *)
RecycledFor_KeepHistory(frame, syncId) ==
    ResetFeedback(ResetAllReceivedMessagesCount(frame), FALSE)

WithDisplayInside_Stay(window) == window

RecycledFor(frame, syncId) ==
    ResetFeedback(ResetAllReceivedMessagesCount(ResetWholeHistory(frame, syncId)), FALSE)

(* A display that has left the window moves to its oldest frame.           *)
WithDisplayInside(window) ==
    IF window.displayId < window.start
      THEN [window EXCEPT !.displayId = window.start, !.displayFrame = window.ptrTable[1]]
      ELSE window

(* shiftPtrTable: the oldest frame is recycled as the newest.              *)
ShiftPtrTable(window) ==
    LET oldest == window.ptrTable[1]
    IN  WithDisplayInside(
          [window EXCEPT
             !.frames[oldest] = RecycledFor(@, window.end + 1),
             !.ptrTable = [i \in Slot |-> IF i = CacheFrames THEN oldest ELSE @[i + 1]],
             !.start = @ + 1,
             !.end = @ + 1])

(* Faulty variant: the table is rotated once, however far the window moves.*)
ShiftedPtrTable_Once(table, count) ==
    [i \in Slot |-> table[(i % CacheFrames) + 1]]

(* What the loop that calls shiftPtrTable count times leaves: the table is *)
(* rotated, and the newest count frames of the window are fresh.           *)
ShiftedPtrTable(table, count) ==
    [i \in Slot |-> table[((i - 1 + count) % CacheFrames) + 1]]

Shifted(window, count) ==
    LET table == ShiftedPtrTable(window.ptrTable, count)
        start == window.start + count
        FreshIds(slot) == {id \in start .. window.end + count :
                              id > window.end /\ SlotOf(table, start, id) = slot}
    IN  WithDisplayInside(
          [window EXCEPT
             !.frames = [slot \in Slot |->
                 IF FreshIds(slot) = {} THEN @[slot]
                 ELSE RecycledFor(@[slot], CHOOSE id \in FreshIds(slot) : TRUE)],
             !.ptrTable = table,
             !.start = start,
             !.end = @ + count])

(* The first message makes a window that starts at its syncId.             *)
InitialWindow(syncId) ==
    [Window EXCEPT !.start = syncId, !.end = syncId + CacheFrames - 1,
                   !.displayId = syncId, !.displayFrame = ptrTable[1]]

WindowFor(syncId) ==
    LET window == IF displaySyncFrameInitialize THEN Window ELSE InitialWindow(syncId)
    IN  IF syncId > window.end THEN Shifted(window, syncId - window.end) ELSE window

(* push_syncidLineup of a message that is not too old.  The display moves  *)
(* to the frame when this message makes it complete.                       *)
LineUp(msg, slow) ==
    LET window == WindowFor(msg.syncId)
        slot   == SlotOf(window.ptrTable, window.start, msg.syncId)
        frame  == window.frames[slot]
        pushed == PushFrame(frame, msg, tunnelStaged, slow)
        completed == ~IsReadyAll(frame) /\ IsReadyAll(pushed)
        moves  == completed /\ window.displayId < msg.syncId
    IN  /\ displaySyncFrameInitialize => displaySyncFrameId <= msg.syncId
        /\ displaySyncFrameInitialize' = TRUE
        /\ frames' = [window.frames EXCEPT ![slot] = pushed]
        /\ ptrTable' = window.ptrTable
        /\ startSyncFrameId' = window.start
        /\ endSyncFrameId' = window.end
        /\ displaySyncFrameId' = IF moves THEN msg.syncId ELSE window.displayId
        /\ displayFrame' = IF moves THEN slot ELSE window.displayFrame
        /\ UNCHANGED trackers

PushSyncidLineup(msg, slow) ==
    /\ mergeType = "SYNCID_LINEUP"
    /\ LineUp(msg, slow) \/ DropOlder(msg)

-------------------------------------------------------------------------------
(* An MCRT computation sends: STARTED, with the next syncId that it works  *)
(* on, and then RENDERING until it reports how it ended.  Its messages are *)
(* numbered, arrive in order, and are done with the coarse pass after the  *)
(* first message.                                                          *)
Message(m, syncId, status, progress) ==
    [ machine |-> m, syncId |-> syncId, status |-> status, progress |-> progress,
      data |-> mcrt[m].data + 1,
      actionId |-> IF ActionIds THEN mcrt[m].data + 1 ELSE NoActionId,
      coarseDone |-> progress > 0 ]

StartedMessage(m, syncId) ==
    /\ mcrt[m].syncId < syncId \/ (Restarts /\ mcrt[m].syncId = syncId)
    /\ rendered' = [rendered EXCEPT ![m][syncId] = {mcrt[m].data + 1}]

LaterMessage(m) ==
    /\ mcrt[m].status \in {"STARTED", "RENDERING"}
    /\ mcrt[m].progress < MaxProgress
    /\ rendered' = [rendered EXCEPT ![m][mcrt[m].syncId] = @ \cup {mcrt[m].data + 1}]

Push(msg, slow, callbackOutcome) ==
    /\ msg.data \in Data
    /\ mcrt' = [mcrt EXCEPT ![msg.machine] =
                  [syncId |-> msg.syncId, status |-> msg.status,
                   progress |-> msg.progress, data |-> msg.data]]
    /\ \/ PushSeamlessCombine(msg, slow)
       \/ PushPickupLatest(msg, slow, callbackOutcome)
       \/ PushSyncidLineup(msg, slow)
    /\ UNCHANGED <<settingVars, image>>

ReceiveStarted(m, syncId, slow, callbackOutcome) ==
    /\ StartedMessage(m, syncId)
    /\ Push(Message(m, syncId, "STARTED", 0), slow, callbackOutcome)

ReceiveLater(m, status, slow, callbackOutcome) ==
    /\ LaterMessage(m)
    /\ Push(Message(m, mcrt[m].syncId, status, mcrt[m].progress + 1), slow, callbackOutcome)

(* An image is sent: the display frame decodes what it received, merges it *)
(* into the image, and begins to collect for the next one.                 *)
SendImage(request, sameReso) ==
    /\ displayFrame # 0
    /\ LET slot    == displayFrame
           decoded == DecodeAll(frames[slot])
           merged  == Merge(decoded, request, sameReso)
           tracked == TrackDecodeAll(frames[slot], trackers[slot])
       IN  /\ frames' = [frames EXCEPT ![slot] = ResetLastHistory(merged)]
           /\ image' = MergedImage(decoded, image, request, sameReso)
           /\ trackers' = [trackers EXCEPT
                             ![slot] = TrackMerge(decoded, tracked, request, sameReso)]
    /\ UNCHANGED <<windowVars, displayVars, settingVars, mcrtVars>>

(* The parameters that the merge computation owns, and the class points to.*)
SetFeedback(value) ==
    /\ feedback # value
    /\ feedback' = value
    /\ UNCHANGED <<frames, trackers, windowVars, displayVars, mergeType, tunnelStaged, mcrtVars, image>>

StageTunnel(machine) ==
    /\ tunnelStaged # machine
    /\ tunnelStaged' = machine
    /\ UNCHANGED <<frames, trackers, windowVars, displayVars, mergeType, feedback, mcrtVars, image>>

(* changeMergeType, with the initTotalCacheFrames that it ends in.  Slots  *)
(* that are not used are as constructed.                                   *)
ChangeToSingleFrame(type) ==
    /\ type \in {"SEAMLESS_COMBINE", "PICKUP_LATEST"}
    /\ frames' = [slot \in Slot |->
                    IF slot # 1 THEN EmptyFrame
                    ELSE IF type = "SEAMLESS_COMBINE" THEN ResetFeedback(frames[1], FALSE)
                    ELSE frames[1]]
    /\ trackers' = [slot \in Slot |-> IF slot = 1 THEN trackers[1]
                                      ELSE [m \in Machine |-> EmptyTracker]]
    /\ displayFrame' = 1
    /\ UNCHANGED windowVars

ChangeToLineup(type) ==
    /\ type = "SYNCID_LINEUP"
    /\ ptrTable' = Identity
    /\ startSyncFrameId' = 0
    /\ endSyncFrameId' = 0
    /\ displayFrame' = 0
    /\ UNCHANGED <<frames, trackers>>

ChangeMergeType(type) ==
    /\ mergeType # type
    /\ mergeType' = type
    /\ displaySyncFrameInitialize' = FALSE
    /\ displaySyncFrameId' = 0
    /\ ChangeToSingleFrame(type) \/ ChangeToLineup(type)
    /\ UNCHANGED <<feedback, tunnelStaged, mcrtVars, image>>

ReceiveMessage ==
    \E m \in Machine, slow \in BOOLEAN, callbackOutcome \in CallbackOutcomes :
        \/ \E s \in SyncId : ReceiveStarted(m, s, slow, callbackOutcome)
        \/ \E status \in LaterStatuses : ReceiveLater(m, status, slow, callbackOutcome)

Next ==
    \/ ReceiveMessage
    \/ \E request \in Requests, sameReso \in BOOLEAN : SendImage(request, sameReso)
    \/ \E value \in Feedbacks : SetFeedback(value)
    \/ \E machine \in Tunnels : StageTunnel(machine)
    \/ \E type \in MergeTypes : ChangeMergeType(type)

Spec == Init /\ [][Next]_vars

-------------------------------------------------------------------------------
(* The type of the state.  What the trackers hold is the subject of        *)
(* MergeTrackerReplay and ProgressiveFeedback.                             *)
TypeOK ==
    /\ frames \in [Slot -> Frame]
    /\ mergeType \in MergeType
    /\ ptrTable \in [Slot -> Slot]
    /\ startSyncFrameId \in Nat /\ endSyncFrameId \in Nat
    /\ displayFrame \in Slot \cup {0}
    /\ displaySyncFrameInitialize \in BOOLEAN /\ displaySyncFrameId \in Nat
    /\ feedback \in Feedbacks /\ tunnelStaged \in Tunnels
    /\ mcrt \in [Machine -> [syncId : SyncId \cup {-1}, status : Status,
                             progress : 0 .. MaxProgress, data : Data \cup {0}]]
    /\ rendered \in [Machine -> [SyncId -> SUBSET Data]]
    /\ image \in [Tile -> [Machine -> SUBSET Data]]

(* mActiveMachines, which decides that a frame is complete, counts the     *)
(* machines that have sent something on the frame, through restarts and    *)
(* resets; and mFirstMachineId, with which merge, encodeLatencyLog and     *)
(* getSnapshotStartTime index their tables, is one of them whenever there  *)
(* is anything to index for.                                               *)
ActiveIsCount(frame) ==
    /\ frame.active = Cardinality(frame.receivedAll)
    /\ frame.received \subseteq frame.receivedAll
    /\ frame.receivedAll # {} => frame.first \in frame.receivedAll
    /\ frame.messagesTotal > 0 => frame.received # {}

FramesCountMachines == \A slot \in Slot : ActiveIsCount(frames[slot])

(* The pointer table of SYNCID_LINEUP stays a permutation of the frames,   *)
(* whatever gap there is between two syncIds, and the display frame is the *)
(* window's frame of the display syncId.                                   *)
WindowOK ==
    mergeType = "SYNCID_LINEUP" =>
        /\ IsInjective(ptrTable)
        /\ displaySyncFrameInitialize =>
              /\ endSyncFrameId = startSyncFrameId + CacheFrames - 1
              /\ displaySyncFrameId \in startSyncFrameId .. endSyncFrameId
              /\ displayFrame = SlotOf(ptrTable, startSyncFrameId, displaySyncFrameId)

(* The loop over shiftPtrTable, which push_syncidLineup runs as often as    *)
(* the syncId is past the window, does what Shifted says in one step, also *)
(* when it recycles some frames more than once.                            *)
ShiftLoop(window, count) ==
    LET loop[i \in 0 .. count] ==
          IF i = 0 THEN window ELSE ShiftPtrTable(loop[i - 1])
    IN  loop[count]

ShiftedIsShiftLoop ==
    (mergeType = "SYNCID_LINEUP" /\ displaySyncFrameInitialize) =>
        \A count \in 0 .. 2 * CacheFrames + 1 :
            Shifted(Window, count) = ShiftLoop(Window, count)

(* The frames that messages are pushed into, each with its syncId; the one *)
(* of SEAMLESS_COMBINE has none.                                           *)
LiveFrames ==
    IF ~displaySyncFrameInitialize \/ mergeType = "SEAMLESS_COMBINE" THEN {}
    ELSE IF mergeType = "SYNCID_LINEUP"
      THEN {<<frames[SlotOf(ptrTable, startSyncFrameId, s)], s>> :
              s \in SyncId \cap (displaySyncFrameId .. endSyncFrameId)}
      ELSE {<<frames[1], displaySyncFrameId>>}

(* A frame that is or may become the display frame holds, of every         *)
(* machine, the messages of its newest rendering of that syncId: all of    *)
(* them, decoded or queued, and no other ("Old data is immediately removed *)
(* when processed newer syncFrameId data", FbMsgMultiFrames.cc:236).       *)
HoldsRenderings(frame, syncId) ==
    \A m \in Machine :
        LET held == frame.fb[m] \cup frame.chans[m].queue
        IN  IF rendered[m][syncId] = {} THEN m \notin frame.receivedAll
            ELSE m \in frame.receivedAll /\ held = rendered[m][syncId]

FramesHoldTheirRenderings ==
    \A live \in LiveFrames : HoldsRenderings(live[1], live[2])

(* SEAMLESS_COMBINE shows of each machine its newest rendering, under the  *)
(* newest syncId of all.                                                   *)
SeamlessHoldsNewest ==
    (mergeType = "SEAMLESS_COMBINE" /\ displaySyncFrameInitialize) =>
        \A m \in Machine : mcrt[m].syncId # -1 =>
            /\ displaySyncFrameId >= mcrt[m].syncId
            /\ frames[1].fb[m] \cup frames[1].chans[m].queue
                 = rendered[m][mcrt[m].syncId]

(* A frame that every machine has begun is not left behind the display     *)
(* ("Each frame is ready to send to down stream computation when each      *)
(* frame received from data from all MCRT computations",                   *)
(* FbMsgMultiFrames.cc:303).                                               *)
NoCompleteFrameIsOverlooked ==
    mergeType = "SYNCID_LINEUP" =>
        \A s \in SyncId :
            (\A m \in Machine : rendered[m][s] # {}) => displaySyncFrameId >= s

(* The display never goes back, and in SYNCID_LINEUP it goes forward only  *)
(* to a complete frame or because its own frame was recycled.              *)
DisplayMoves ==
    [][(displaySyncFrameInitialize /\ displaySyncFrameId' # displaySyncFrameId
        /\ mergeType' = mergeType) =>
         /\ displaySyncFrameId < displaySyncFrameId'
         /\ mergeType = "SYNCID_LINEUP" =>
              \/ displaySyncFrameId < startSyncFrameId'
              \/ \A m \in Machine : rendered'[m][displaySyncFrameId'] # {}]_vars

(* An image that is sent shows nothing of another frame, although partial  *)
(* merges refresh only some of its tiles: the first merge of a frame       *)
(* resets them all.                                                        *)
ImageIsOfOneFrame ==
    [][(image' # image /\ mergeType # "SEAMLESS_COMBINE") =>
         \A t \in Tile, m \in Machine :
             image'[t][m] \subseteq rendered[m][displaySyncFrameId]]_vars

(* The progress of the display frame does not drop while it is rendered.   *)
ProgressNeverDrops ==
    [][(displaySyncFrameInitialize /\ mergeType # "SEAMLESS_COMBINE"
        /\ <<displayFrame', displaySyncFrameId'>> = <<displayFrame, displaySyncFrameId>>) =>
         ProgressTotal(frames'[displayFrame']) >= ProgressTotal(frames[displayFrame])]_vars

AgreesWithReports(frame) ==
    LET reported == {mcrt[m].status : m \in frame.receivedAll}
    IN  frame.receivedAll # {} =>
          /\ frame.status = "FINISHED"  => reported = {"FINISHED"}
          /\ frame.status = "ERROR"     => "ERROR" \in reported
          /\ frame.status = "CANCELLED" => "CANCELLED" \in reported
          /\ frame.status = "STARTED"   => reported = {"STARTED"}

(* What the client is told of the display frame agrees with the last       *)
(* message of the machines that have sent something on it: no machine that *)
(* still renders hides behind FINISHED, and ERROR and CANCELLED have a     *)
(* machine that reported them.  The one frame of SEAMLESS_COMBINE, whose   *)
(* machines are each at a syncId of their own, is no exception.            *)
StatusAgreesWithReports ==
    /\ \A live \in LiveFrames : AgreesWithReports(live[1])
    /\ (mergeType = "SEAMLESS_COMBINE" /\ displaySyncFrameInitialize) =>
           AgreesWithReports(frames[1])

(* The coarse pass of a frame is over only when every machine has said so  *)
(* in its newest rendering of the frame.                                   *)
CoarsePassEndsWithAll ==
    \A live \in LiveFrames :
        IsCoarsePassDone(live[1]) =>
            \A m \in Machine : Cardinality(rendered[m][live[2]]) > 1
===============================================================================
