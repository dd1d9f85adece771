------------------------ MODULE FbMsgMultiFramesProofs ------------------------
(***************************************************************************)
(* FbMsgMultiFrames: its frames count their machines, and the window of    *)
(* SYNCID_LINEUP is in order; the frames hold what was sent, and the       *)
(* display, the image, the status and the progress follow them.            *)
(*                                                                         *)
(* ActiveIsCount alone is not inductive: the step needs that a frame has   *)
(* the fields that EXCEPT changes, and that receivedAll holds machines,    *)
(* so that it is finite.  Counts adds both.                                *)
(*                                                                         *)
(* WindowOK is about ptrTable and the window's ids; it is inductive once   *)
(* they are typed, and once the syncId of a machine's last message, which  *)
(* the next message repeats, is an integer.  A later part shows that       *)
(* the one step in which the model moves the window, Shifted, is what the  *)
(* code's loop over shiftPtrTable does, by induction over its rounds.      *)
(***************************************************************************)
EXTENDS FbMsgMultiFrames, FiniteSetTheorems, LoopTheorems

Fields == DOMAIN EmptyFrame

(* A frame that counts its machines.                                       *)
Counts(frame) ==
    /\ DOMAIN frame = Fields
    /\ frame.receivedAll \subseteq Machine
    /\ ActiveIsCount(frame)

(* The same while machine starts over, between its being taken out of      *)
(* receivedAll and its being counted again.                                *)
CountsBut(frame, machine) ==
    /\ DOMAIN frame = Fields
    /\ frame.receivedAll \subseteq Machine
    /\ frame.active = Cardinality(frame.receivedAll)
    /\ frame.received \subseteq frame.receivedAll \cup {machine}
    /\ frame.receivedAll # {} => frame.first \in frame.receivedAll \cup {machine}

LEMMA EmptyFrameCounts == Counts(EmptyFrame)
BY FS_EmptySet DEF Counts, Fields, EmptyFrame, ActiveIsCount

LEMMA ResetLastHistoryCounts ==
    ASSUME NEW frame, Counts(frame) PROVE Counts(ResetLastHistory(frame))
BY DEF Counts, Fields, EmptyFrame, ActiveIsCount, ResetLastHistory

LEMMA ResetWholeHistoryCounts ==
    ASSUME NEW frame, NEW syncId, Counts(frame)
    PROVE  Counts(ResetWholeHistory(frame, syncId))
<1> DEFINE g == ResetLastHistory(frame)
<1>1. Counts(g)
  BY ResetLastHistoryCounts
<1>2. g.received = {} /\ g.messagesTotal = 0
  BY DEF Counts, Fields, EmptyFrame, ResetLastHistory
<1>3. ResetWholeHistory(frame, syncId) = [g EXCEPT
        !.mySyncId = syncId, !.receivedAll = {}, !.messages = [m \in Machine |-> 0],
        !.gcReady = {}, !.gcCompleted = {}, !.coarseAll = Machine,
        !.progressAll = [m \in Machine |-> 0],
        !.statusAll = [m \in Machine |-> "FINISHED"],
        !.active = 0, !.first = NoMachine, !.merged = FALSE]
  BY DEF ResetWholeHistory
<1> DEFINE whole == ResetWholeHistory(frame, syncId)
<1> HIDE DEF g
<1>4. DOMAIN g = Fields
  BY <1>1 DEF Counts
<1>5. /\ DOMAIN whole = Fields
      /\ whole.receivedAll = {} /\ whole.active = 0
      /\ whole.received = g.received /\ whole.messagesTotal = g.messagesTotal
  <2>1. DOMAIN whole = Fields
    BY <1>3, <1>4
  <2>2. /\ "receivedAll" \in DOMAIN g /\ "active" \in DOMAIN g
        /\ "received" \in DOMAIN g /\ "messagesTotal" \in DOMAIN g
    BY <1>4 DEF Fields, EmptyFrame
  <2>3. whole.receivedAll = {} /\ whole.active = 0
    BY <1>3, <2>2
  <2>4. whole.received = g.received /\ whole.messagesTotal = g.messagesTotal
    BY <1>3, <2>2
  <2> QED
    BY <2>1, <2>3, <2>4
<1> HIDE DEF whole
<1>6. Cardinality({}) = 0
  BY FS_EmptySet
<1>7. Counts(whole)
  BY <1>2, <1>5, <1>6 DEF Counts, ActiveIsCount
<1> QED
  BY <1>7 DEF whole

LEMMA ResetFeedbackCounts ==
    ASSUME NEW frame, NEW active, Counts(frame) PROVE Counts(ResetFeedback(frame, active))
BY DEF Counts, Fields, EmptyFrame, ActiveIsCount, ResetFeedback

LEMMA ResetAllReceivedMessagesCountCounts ==
    ASSUME NEW frame, Counts(frame) PROVE Counts(ResetAllReceivedMessagesCount(frame))
BY DEF Counts, Fields, EmptyFrame, ActiveIsCount, ResetAllReceivedMessagesCount

LEMMA StartOverCounts ==
    ASSUME NEW frame, NEW m \in Machine, NEW staged, Counts(frame)
    PROVE  CountsBut(StartOver(frame, m, staged), m)
<1> DEFINE g == StartOver(frame, m, staged)
<1>1. IsFiniteSet(frame.receivedAll)
  BY MachineAssumption, FS_Subset DEF Counts
<1>2. Cardinality(frame.receivedAll \ {m}) =
        IF m \in frame.receivedAll THEN Cardinality(frame.receivedAll) - 1
                                   ELSE Cardinality(frame.receivedAll)
  BY <1>1, FS_RemoveElement
<1>3. /\ DOMAIN g = Fields
      /\ g.receivedAll = frame.receivedAll \ {m}
      /\ g.active = IF m \in frame.receivedAll THEN frame.active - 1 ELSE frame.active
      /\ g.received = frame.received
      /\ g.first = frame.first
  BY DEF Counts, Fields, EmptyFrame, StartOver
<1>4. frame.receivedAll = {} => g.receivedAll = {}
  BY <1>3
<1> HIDE DEF g
<1>5. CountsBut(g, m)
  BY <1>2, <1>3, <1>4 DEF Counts, CountsBut, ActiveIsCount
<1> QED
  BY <1>5 DEF g

LEMMA CountMessageCounts ==
    ASSUME NEW frame, NEW m \in Machine, CountsBut(frame, m)
    PROVE  Counts(CountMessage(frame, m))
<1> DEFINE g == CountMessage(frame, m)
<1>1. IsFiniteSet(frame.receivedAll)
  BY MachineAssumption, FS_Subset DEF CountsBut
<1>2. Cardinality(frame.receivedAll \cup {m}) =
        IF m \in frame.receivedAll THEN Cardinality(frame.receivedAll)
                                   ELSE Cardinality(frame.receivedAll) + 1
  BY <1>1, FS_AddElement
<1>3. /\ DOMAIN g = Fields
      /\ g.receivedAll = frame.receivedAll \cup {m}
      /\ g.active = IF m \notin frame.receivedAll THEN frame.active + 1 ELSE frame.active
      /\ g.received = frame.received \cup {m}
      /\ g.first = IF m \notin frame.receivedAll /\ frame.active = 0 THEN m ELSE frame.first
  BY DEF CountsBut, Fields, EmptyFrame, CountMessage
<1>4. frame.receivedAll = {} <=> frame.active = 0
  BY <1>1, FS_EmptySet DEF CountsBut
<1> HIDE DEF g
<1>5. Counts(g)
  BY <1>2, <1>3, <1>4 DEF CountsBut, Counts, ActiveIsCount
<1> QED
  BY <1>5 DEF g

LEMMA TrackGcCounts ==
    ASSUME NEW frame, NEW m, NEW slow, Counts(frame) PROVE Counts(TrackGc(frame, m, slow))
BY DEF Counts, Fields, EmptyFrame, ActiveIsCount, TrackGc

LEMMA TrackProgressCounts ==
    ASSUME NEW frame, NEW m, Counts(frame) PROVE Counts(TrackProgress(frame, m))
<1> DEFINE next == [frame EXCEPT
            !.coarseAll = IF frame.chans[m].coarse THEN @ ELSE @ \ {m},
            !.progressAll[m] = IF frame.tunnel \in {NoMachine, m}
                                 THEN frame.chans[m].progress ELSE @,
            !.statusAll[m] = IF frame.chans[m].started THEN "STARTED"
                                                       ELSE frame.chans[m].status]
<1>1. Counts(next)
  BY DEF Counts, Fields, EmptyFrame, ActiveIsCount
<1>2. TrackProgress(frame, m) = [next EXCEPT !.status = CalcCurrentFrameStatus(next)]
  BY DEF TrackProgress
<1> HIDE DEF next
<1>3. Counts([next EXCEPT !.status = CalcCurrentFrameStatus(next)])
  BY <1>1 DEF Counts, Fields, EmptyFrame, ActiveIsCount
<1> QED
  BY <1>2, <1>3

LEMMA PushFrameCounts ==
    ASSUME NEW frame, NEW msg, msg.machine \in Machine, NEW staged, NEW slow, Counts(frame)
    PROVE  Counts(PushFrame(frame, msg, staged, slow))
<1> DEFINE m == msg.machine
           pushed == [frame EXCEPT !.chans[m] = PushChans(@, msg)]
           started == IF msg.status = "STARTED" THEN StartOver(pushed, m, staged) ELSE pushed
<1>1. Counts(pushed)
  BY DEF Counts, Fields, EmptyFrame, ActiveIsCount
<1>2. PushFrame(frame, msg, staged, slow)
        = TrackProgress(TrackGc(CountMessage(started, m), m, slow), m)
  BY DEF PushFrame
<1> HIDE DEF pushed
<1>3. CountsBut(started, m)
  <2>1. CASE msg.status = "STARTED"
    BY <1>1, <2>1, StartOverCounts
  <2>2. CASE msg.status # "STARTED"
    BY <1>1, <2>2 DEF Counts, CountsBut, ActiveIsCount
  <2> QED
    BY <2>1, <2>2
<1> HIDE DEF started
<1> QED
  BY <1>2, <1>3, CountMessageCounts, TrackGcCounts, TrackProgressCounts

LEMMA DecodeAllCounts ==
    ASSUME NEW frame, Counts(frame) PROVE Counts(DecodeAll(frame))
BY DEF Counts, Fields, EmptyFrame, ActiveIsCount, DecodeAll

LEMMA MergeCounts ==
    ASSUME NEW frame, NEW request, NEW sameReso, Counts(frame)
    PROVE  Counts(Merge(frame, request, sameReso))
<1> DEFINE collected == IF frame.messagesTotal = 0 THEN frame ELSE CollectGarbage(frame)
<1>1. Counts(collected)
  BY DEF Counts, Fields, EmptyFrame, ActiveIsCount, CollectGarbage
<1>2. Merge(frame, request, sameReso) =
        IF Merges(frame, sameReso)
          THEN [collected EXCEPT
                  !.merged = TRUE,
                  !.partialMergeStartTileId = NextStartTileId(@, request, TotalTiles)]
          ELSE collected
  BY DEF Merge
<1> HIDE DEF collected
<1>3. Counts([collected EXCEPT
                !.merged = TRUE,
                !.partialMergeStartTileId = NextStartTileId(@, request, TotalTiles)])
  BY <1>1 DEF Counts, Fields, EmptyFrame, ActiveIsCount
<1> QED
  BY <1>1, <1>2, <1>3

-------------------------------------------------------------------------------
(* A table of frames that count their machines.                            *)
AllCount(table) ==
    table = [slot \in Slot |-> table[slot]] /\ \A slot \in Slot : Counts(table[slot])

LEMMA RecycledForCounts ==
    ASSUME NEW frame, NEW syncId, Counts(frame) PROVE Counts(RecycledFor(frame, syncId))
BY ResetWholeHistoryCounts, ResetAllReceivedMessagesCountCounts, ResetFeedbackCounts
   DEF RecycledFor

LEMMA StoreCounts ==
    ASSUME NEW table, AllCount(table), NEW slot, NEW frame, slot \in Slot => Counts(frame)
    PROVE  AllCount([table EXCEPT ![slot] = frame])
BY DEF AllCount

LEMMA WithDisplayInsideFrames ==
    ASSUME NEW window, "frames" \in DOMAIN window
    PROVE  WithDisplayInside(window).frames = window.frames
BY DEF WithDisplayInside

LEMMA ShiftedCounts ==
    ASSUME NEW window, NEW count,
           {"frames", "ptrTable", "start", "end"} \subseteq DOMAIN window,
           AllCount(window.frames)
    PROVE  AllCount(Shifted(window, count).frames)
<1> DEFINE table == ShiftedPtrTable(window.ptrTable, count)
           start == window.start + count
           FreshIds(slot) == {id \in start .. window.end + count :
                                id > window.end /\ SlotOf(table, start, id) = slot}
           shiftedFrames == [slot \in Slot |->
                               IF FreshIds(slot) = {} THEN window.frames[slot]
                               ELSE RecycledFor(window.frames[slot],
                                                CHOOSE id \in FreshIds(slot) : TRUE)]
           moved == [window EXCEPT !.frames = shiftedFrames, !.ptrTable = table,
                                   !.start = start, !.end = @ + count]
<1>1. Shifted(window, count) = WithDisplayInside(moved)
  BY DEF Shifted
<1>2. "frames" \in DOMAIN moved /\ moved.frames = shiftedFrames
  OBVIOUS
<1>3. AllCount(shiftedFrames)
  BY RecycledForCounts DEF AllCount
<1> HIDE DEF moved, shiftedFrames
<1> QED
  BY <1>1, <1>2, <1>3, WithDisplayInsideFrames

LEMMA WindowForCounts ==
    ASSUME NEW syncId, AllCount(frames) PROVE AllCount(WindowFor(syncId).frames)
<1> DEFINE window == IF displaySyncFrameInitialize THEN Window ELSE InitialWindow(syncId)
<1>1. /\ {"frames", "ptrTable", "start", "end"} \subseteq DOMAIN window
      /\ window.frames = frames
  BY DEF Window, InitialWindow
<1>2. WindowFor(syncId) = IF syncId > window.end THEN Shifted(window, syncId - window.end)
                                                 ELSE window
  BY DEF WindowFor
<1> HIDE DEF window
<1> QED
  BY <1>1, <1>2, ShiftedCounts

-------------------------------------------------------------------------------
(* What a message does to the frames, by merge type.                       *)
LEMMA PushCounts ==
    ASSUME AllCount(frames), NEW msg, msg.machine \in Machine, NEW slow,
           NEW callbackOutcome, Push(msg, slow, callbackOutcome)
    PROVE  AllCount(frames')
<1>1. CASE PushSeamlessCombine(msg, slow)
  BY <1>1, PushFrameCounts, StoreCounts DEF PushSeamlessCombine, PushInto, AllCount
<1>2. CASE PickupNewer(msg, slow, callbackOutcome)
  <2>1. 1 \in Slot => Counts(StartedFor(msg.syncId))
    BY ResetWholeHistoryCounts, ResetAllReceivedMessagesCountCounts, ResetFeedbackCounts
       DEF StartedFor, AllCount
  <2> QED
    BY <1>2, <2>1, PushFrameCounts, StoreCounts DEF PickupNewer, PushInto
<1>3. CASE PickupSame(msg, slow)
  BY <1>3, PushFrameCounts, StoreCounts DEF PickupSame, PushInto, AllCount
<1>4. CASE DropOlder(msg)
  BY <1>4 DEF DropOlder
<1>5. CASE LineUp(msg, slow)
  <2> DEFINE window == WindowFor(msg.syncId)
             slot == SlotOf(window.ptrTable, window.start, msg.syncId)
             pushed == PushFrame(window.frames[slot], msg, tunnelStaged, slow)
  <2>1. AllCount(window.frames)
    BY WindowForCounts
  <2>2. frames' = [window.frames EXCEPT ![slot] = pushed]
    BY <1>5 DEF LineUp
  <2>3. slot \in Slot => Counts(pushed)
    BY <2>1, PushFrameCounts DEF AllCount
  <2> HIDE DEF window, slot, pushed
  <2> QED
    BY <2>1, <2>2, <2>3, StoreCounts
<1> QED
  BY <1>1, <1>2, <1>3, <1>4, <1>5
     DEF Push, PushPickupLatest, PushSyncidLineup

LEMMA SendImageCounts ==
    ASSUME AllCount(frames), NEW request, NEW sameReso, SendImage(request, sameReso)
    PROVE  AllCount(frames')
<1> DEFINE merged == Merge(DecodeAll(frames[displayFrame]), request, sameReso)
<1>1. frames' = [frames EXCEPT ![displayFrame] = ResetLastHistory(merged)]
  BY DEF SendImage
<1>2. displayFrame \in Slot => Counts(ResetLastHistory(merged))
  BY DecodeAllCounts, MergeCounts, ResetLastHistoryCounts DEF AllCount
<1> HIDE DEF merged
<1> QED
  BY <1>1, <1>2, StoreCounts

LEMMA ChangeMergeTypeCounts ==
    ASSUME AllCount(frames), NEW type, ChangeMergeType(type)
    PROVE  AllCount(frames')
<1>1. CASE ChangeToSingleFrame(type)
  BY <1>1, EmptyFrameCounts, ResetFeedbackCounts DEF ChangeToSingleFrame, AllCount
<1>2. CASE ChangeToLineup(type)
  BY <1>2 DEF ChangeToLineup
<1> QED
  BY <1>1, <1>2 DEF ChangeMergeType

LEMMA StepCounts ==
    ASSUME AllCount(frames), [Next]_vars PROVE AllCount(frames')
<1>1. CASE ReceiveMessage
  <2> PICK m \in Machine, slow \in BOOLEAN, callbackOutcome \in CallbackOutcomes :
        \/ \E s \in SyncId : ReceiveStarted(m, s, slow, callbackOutcome)
        \/ \E status \in LaterStatuses : ReceiveLater(m, status, slow, callbackOutcome)
    BY <1>1 DEF ReceiveMessage
  <2>1. \E msg : msg.machine \in Machine /\ Push(msg, slow, callbackOutcome)
    <3>1. ASSUME NEW s, NEW status, NEW progress
          PROVE  Message(m, s, status, progress).machine \in Machine
      BY DEF Message
    <3> QED
      BY <3>1 DEF ReceiveStarted, ReceiveLater
  <2> QED
    BY <2>1, PushCounts
<1>2. CASE \E request \in Requests, sameReso \in BOOLEAN : SendImage(request, sameReso)
  BY <1>2, SendImageCounts
<1>3. CASE \E value \in Feedbacks : SetFeedback(value)
  BY <1>3 DEF SetFeedback
<1>4. CASE \E machine \in Tunnels : StageTunnel(machine)
  BY <1>4 DEF StageTunnel
<1>5. CASE \E type \in MergeTypes : ChangeMergeType(type)
  BY <1>5, ChangeMergeTypeCounts
<1>6. CASE UNCHANGED vars
  BY <1>6 DEF vars
<1> QED
  BY <1>1, <1>2, <1>3, <1>4, <1>5, <1>6 DEF Next

(* Through every merge type, restart, reset and change of merge type, each *)
(* frame counts as active the machines that it has heard, which is what    *)
(* isReadyAll compares with the number of machines, and its first machine  *)
(* is one of them.                                                         *)
THEOREM FramesAlwaysCountMachines == Spec => []FramesCountMachines
<1>1. Init => AllCount(frames)
  BY EmptyFrameCounts DEF Init, AllCount
<1>2. AllCount(frames) /\ [Next]_vars => AllCount(frames)'
  BY StepCounts
<1>3. AllCount(frames) => FramesCountMachines
  BY DEF AllCount, Counts, FramesCountMachines
<1> QED
  BY <1>1, <1>2, <1>3, PTL DEF Spec

-------------------------------------------------------------------------------
(* Remainders of numbers less than the divisor apart differ.               *)
LEMMA ModUnique ==
    ASSUME NEW d \in Nat \ {0}, NEW a \in Int, NEW b \in Int,
           a % d = b % d, a - b < d, b - a < d
    PROVE  a = b
<1> DEFINE q == a \div d
           p == b \div d
<1>1. a = d * q + (a % d) /\ q \in Int /\ a % d \in Int
  OBVIOUS
<1>2. b = d * p + (b % d) /\ p \in Int
  OBVIOUS
<1> HIDE DEF q, p
<1>3. a - b = d * (q - p)
  <2>1. d * (q - p) = d * q - d * p
    BY <1>1, <1>2
  <2>2. d * q \in Int /\ d * p \in Int
    BY <1>1, <1>2
  <2>3. a - b = d * q - d * p
    BY <1>1, <1>2, <2>2
  <2> QED
    BY <2>1, <2>3
<1>4. CASE q - p >= 1
  <2>1. d * (q - p) >= d
    BY <1>1, <1>2, <1>4
  <2> QED
    BY <1>3, <2>1
<1>5. CASE q - p =< -1
  <2>1. d * (q - p) =< -d
    BY <1>1, <1>2, <1>5
  <2> QED
    BY <1>3, <2>1
<1>6. CASE q = p
  BY <1>1, <1>2, <1>6
<1> QED
  BY <1>1, <1>2, <1>4, <1>5, <1>6

LEMMA ModSmall ==
    ASSUME NEW d \in Nat \ {0}, NEW a \in 0 .. d - 1
    PROVE  a % d = a
<1> DEFINE q == a \div d
<1>1. a = d * q + (a % d) /\ q \in Int /\ a % d \in 0 .. d - 1
  OBVIOUS
<1> HIDE DEF q
<1>2. CASE q >= 1
  <2>1. d * q >= d
    BY <1>1, <1>2
  <2> QED
    BY <1>1, <2>1
<1>3. CASE q =< -1
  <2>1. d * q =< -d
    BY <1>1, <1>3
  <2> QED
    BY <1>1, <2>1
<1>4. CASE q = 0
  BY <1>1, <1>4
<1> QED
  BY <1>1, <1>2, <1>3, <1>4

-------------------------------------------------------------------------------
(* A pointer table, and a window that has one.                             *)
IsTable(table) == table \in [Slot -> Slot] /\ IsInjective(table)

IsWindow(window) ==
    /\ DOMAIN window = {"frames", "ptrTable", "start", "end", "displayFrame", "displayId"}
    /\ IsTable(window.ptrTable)
    /\ window.start \in Int
    /\ window.end = window.start + CacheFrames - 1
    /\ window.displayId \in window.start .. window.end
    /\ window.displayFrame = SlotOf(window.ptrTable, window.start, window.displayId)

LEMMA IdentityIsTable == IsTable(Identity)
BY DEF IsTable, Identity, IsInjective

LEMMA RotationIsTable ==
    ASSUME NEW table, IsTable(table), NEW count \in Nat
    PROVE  IsTable(ShiftedPtrTable(table, count))
<1> DEFINE At(i) == ((i - 1 + count) % CacheFrames) + 1
           rotated == [i \in Slot |-> table[At(i)]]
<1>1. \A i \in Slot : At(i) \in Slot
  BY CacheFramesAssumption DEF Slot
<1>2. \A i, j \in Slot : At(i) = At(j) => i = j
  <2> SUFFICES ASSUME NEW i \in Slot, NEW j \in Slot, At(i) = At(j)
               PROVE  i = j
    OBVIOUS
  <2>1. (i - 1 + count) % CacheFrames = (j - 1 + count) % CacheFrames
    BY CacheFramesAssumption DEF Slot
  <2> DEFINE a == i - 1 + count
             b == j - 1 + count
  <2>2. a \in Int /\ b \in Int /\ a - b < CacheFrames /\ b - a < CacheFrames
    BY CacheFramesAssumption DEF Slot
  <2>3. a = b
    BY <2>1, <2>2, ModUnique, CacheFramesAssumption
  <2> QED
    BY <2>3 DEF Slot
<1>3. ShiftedPtrTable(table, count) = rotated
  BY DEF ShiftedPtrTable
<1> HIDE DEF At
<1>4. rotated \in [Slot -> Slot]
  BY <1>1 DEF IsTable
<1>5. \A i, j \in Slot : rotated[i] = rotated[j] => i = j
  BY <1>1, <1>2 DEF IsTable, IsInjective
<1> QED
  BY <1>3, <1>4, <1>5 DEF IsTable, IsInjective

(* The frame of an id that stays in the window does not change.            *)
LEMMA RotationKeepsSlot ==
    ASSUME NEW table, NEW count \in Nat, NEW start \in Int,
           NEW id \in start + count .. start + CacheFrames - 1
    PROVE  SlotOf(ShiftedPtrTable(table, count), start + count, id) = SlotOf(table, start, id)
<1> DEFINE i == id - (start + count) + 1
<1>1. i \in Slot /\ i - 1 + count = id - start /\ id - start \in 0 .. CacheFrames - 1
  BY CacheFramesAssumption DEF Slot
<1>2. (id - start) % CacheFrames = id - start
  BY <1>1, ModSmall, CacheFramesAssumption
<1> HIDE DEF i
<1>3. ShiftedPtrTable(table, count)[i] = table[id - start + 1]
  BY <1>1, <1>2 DEF ShiftedPtrTable
<1> QED
  BY <1>3 DEF SlotOf, i

LEMMA ShiftedIsWindow ==
    ASSUME NEW window, IsWindow(window), NEW count \in Nat
    PROVE  /\ IsWindow(Shifted(window, count))
           /\ Shifted(window, count).end = window.end + count
<1> DEFINE table == ShiftedPtrTable(window.ptrTable, count)
           start == window.start + count
           FreshIds(slot) == {id \in start .. window.end + count :
                                id > window.end /\ SlotOf(table, start, id) = slot}
           recycled == [slot \in Slot |->
                          IF FreshIds(slot) = {} THEN window.frames[slot]
                          ELSE RecycledFor(window.frames[slot],
                                           CHOOSE id \in FreshIds(slot) : TRUE)]
           moved == [window EXCEPT !.frames = recycled, !.ptrTable = table,
                                   !.start = start, !.end = @ + count]
<1>1. Shifted(window, count) = WithDisplayInside(moved)
  BY DEF Shifted
<1>2. IsTable(table)
  BY RotationIsTable DEF IsWindow
<1>3. /\ DOMAIN moved = DOMAIN window
      /\ moved.ptrTable = table
      /\ moved.start = start
      /\ moved.end = window.end + count
      /\ moved.displayId = window.displayId
      /\ moved.displayFrame = window.displayFrame
  BY DEF IsWindow
<1> HIDE DEF moved, table
<1>4. CASE window.displayId < start
  <2> DEFINE inside == [moved EXCEPT !.displayId = moved.start,
                                     !.displayFrame = moved.ptrTable[1]]
  <2>1. WithDisplayInside(moved) = inside
    BY <1>3, <1>4 DEF WithDisplayInside
  <2>2. /\ DOMAIN inside = DOMAIN window
        /\ inside.ptrTable = table
        /\ inside.start = start
        /\ inside.end = window.end + count
        /\ inside.displayId = start
        /\ inside.displayFrame = table[1]
    BY <1>3 DEF IsWindow
  <2>3. start - start + 1 = 1
    BY DEF IsWindow
  <2>4. table[1] = SlotOf(table, start, start)
    BY <2>3 DEF SlotOf
  <2> HIDE DEF inside
  <2> QED
    BY <1>1, <1>2, <2>1, <2>2, <2>4, CacheFramesAssumption DEF IsWindow
<1>5. CASE ~(window.displayId < start)
  <2>1. WithDisplayInside(moved) = moved
    BY <1>3, <1>5 DEF WithDisplayInside
  <2>2. window.displayId \in start .. window.start + CacheFrames - 1
    BY <1>5, CacheFramesAssumption DEF IsWindow
  <2>3. SlotOf(table, start, window.displayId)
          = SlotOf(window.ptrTable, window.start, window.displayId)
    BY <2>2, RotationKeepsSlot DEF IsWindow, table
  <2> QED
    BY <1>1, <1>2, <1>3, <2>1, <2>2, <2>3, CacheFramesAssumption DEF IsWindow
<1> QED
  BY <1>4, <1>5

-------------------------------------------------------------------------------
(* The inductive invariant.                                                *)
WindowInv ==
    /\ DOMAIN mcrt = Machine
    /\ \A m \in Machine : mcrt[m].syncId \in Int
    /\ mergeType = "SYNCID_LINEUP" =>
          /\ IsTable(ptrTable)
          /\ displaySyncFrameInitialize => IsWindow(Window)

LEMMA WindowForIsWindow ==
    ASSUME WindowInv, mergeType = "SYNCID_LINEUP", NEW syncId \in Int,
           displaySyncFrameInitialize => displaySyncFrameId <= syncId
    PROVE  /\ IsWindow(WindowFor(syncId))
           /\ syncId \in WindowFor(syncId).start .. WindowFor(syncId).end
<1> DEFINE window == IF displaySyncFrameInitialize THEN Window ELSE InitialWindow(syncId)
<1>1. IsWindow(window) /\ window.displayId <= syncId
  <2>1. CASE displaySyncFrameInitialize
    BY <2>1 DEF WindowInv, Window
  <2>2. CASE ~displaySyncFrameInitialize
    <3> DEFINE first == InitialWindow(syncId)
    <3>1. /\ DOMAIN first = {"frames", "ptrTable", "start", "end",
                             "displayFrame", "displayId"}
          /\ first.ptrTable = ptrTable
          /\ first.start = syncId
          /\ first.end = syncId + CacheFrames - 1
          /\ first.displayId = syncId
          /\ first.displayFrame = ptrTable[1]
      BY DEF InitialWindow, Window
    <3>2. ptrTable[1] = SlotOf(ptrTable, syncId, syncId)
      <4>1. syncId - syncId + 1 = 1
        OBVIOUS
      <4> QED
        BY <4>1 DEF SlotOf
    <3> HIDE DEF first
    <3>3. IsWindow(first) /\ first.displayId <= syncId
      BY <3>1, <3>2, CacheFramesAssumption DEF WindowInv, IsWindow
    <3> QED
      BY <2>2, <3>3 DEF first
  <2> QED
    BY <2>1, <2>2
<1>2. WindowFor(syncId) = IF syncId > window.end THEN Shifted(window, syncId - window.end)
                                                 ELSE window
  BY DEF WindowFor
<1> HIDE DEF window
<1>3. CASE syncId > window.end
  <2>1. window.end \in Int
    BY <1>1, CacheFramesAssumption DEF IsWindow
  <2>2. syncId - window.end \in Nat
    BY <1>3, <2>1
  <2> DEFINE shifted == Shifted(window, syncId - window.end)
  <2>3. IsWindow(shifted) /\ shifted.end = window.end + (syncId - window.end)
    BY <1>1, <2>2, ShiftedIsWindow
  <2>4. shifted.end = syncId
    BY <2>1, <2>3
  <2>5. WindowFor(syncId) = shifted
    BY <1>2, <1>3
  <2> HIDE DEF shifted
  <2> QED
    BY <2>3, <2>4, <2>5, CacheFramesAssumption DEF IsWindow
<1>4. CASE ~(syncId > window.end)
  BY <1>1, <1>2, <1>4, CacheFramesAssumption DEF IsWindow
<1> QED
  BY <1>3, <1>4

(* The window that a lined-up message leaves behind.                       *)
LEMMA LineUpIsWindow ==
    ASSUME WindowInv, mergeType = "SYNCID_LINEUP", NEW msg, msg.syncId \in Int, NEW slow,
           LineUp(msg, slow)
    PROVE  IsWindow(Window)' /\ displaySyncFrameInitialize'
<1> DEFINE window == WindowFor(msg.syncId)
           slot == SlotOf(window.ptrTable, window.start, msg.syncId)
<1>1. displaySyncFrameInitialize => displaySyncFrameId <= msg.syncId
  BY DEF LineUp
<1>2. IsWindow(window) /\ msg.syncId \in window.start .. window.end
  BY <1>1, WindowForIsWindow
<1>3. /\ displaySyncFrameInitialize' = TRUE
      /\ ptrTable' = window.ptrTable
      /\ startSyncFrameId' = window.start
      /\ endSyncFrameId' = window.end
      /\ \/ displaySyncFrameId' = msg.syncId /\ displayFrame' = slot
         \/ displaySyncFrameId' = window.displayId /\ displayFrame' = window.displayFrame
  BY DEF LineUp
<1> HIDE DEF window
<1>4. /\ DOMAIN Window' = {"frames", "ptrTable", "start", "end",
                           "displayFrame", "displayId"}
      /\ Window'.ptrTable = ptrTable'
      /\ Window'.start = startSyncFrameId'
      /\ Window'.end = endSyncFrameId'
      /\ Window'.displayId = displaySyncFrameId'
      /\ Window'.displayFrame = displayFrame'
  BY DEF Window
<1> QED
  BY <1>2, <1>3, <1>4 DEF IsWindow

(* Steps that leave the window and the display alone.                      *)
LEMMA UntouchedWindow ==
    ASSUME WindowInv, mergeType' = mergeType, UNCHANGED <<windowVars, displayVars, mcrt>>
    PROVE  WindowInv'
<1>1. IsWindow(Window) => IsWindow(Window)'
  BY DEF IsWindow, Window, windowVars, displayVars
<1> QED
  BY <1>1 DEF WindowInv, windowVars, displayVars

LEMMA PushWindow ==
    ASSUME WindowInv, NEW msg, msg.machine \in Machine, msg.syncId \in Int, NEW slow,
           NEW callbackOutcome, Push(msg, slow, callbackOutcome)
    PROVE  WindowInv'
<1>1. DOMAIN mcrt' = Machine /\ \A m \in Machine : mcrt'[m].syncId \in Int
  BY DEF Push, WindowInv
<1>2. mergeType' = mergeType
  BY DEF Push, settingVars
<1>3. CASE mergeType # "SYNCID_LINEUP"
  BY <1>1, <1>2, <1>3 DEF WindowInv
<1>4. CASE mergeType = "SYNCID_LINEUP"
  <2>1. LineUp(msg, slow) \/ DropOlder(msg)
    BY <1>4 DEF Push, PushSeamlessCombine, PushPickupLatest, PushSyncidLineup
  <2>2. CASE LineUp(msg, slow)
    BY <1>1, <1>2, <1>4, <2>2, LineUpIsWindow DEF WindowInv, IsWindow, Window
  <2>3. CASE DropOlder(msg)
    <3>1. IsWindow(Window) => IsWindow(Window)'
      BY <2>3 DEF DropOlder, IsWindow, Window, windowVars, displayVars
    <3> QED
      BY <1>1, <1>2, <2>3, <3>1 DEF WindowInv, DropOlder, windowVars, displayVars
  <2> QED
    BY <2>1, <2>2, <2>3
<1> QED
  BY <1>3, <1>4

LEMMA ChangeMergeTypeWindow ==
    ASSUME WindowInv, NEW type, ChangeMergeType(type)
    PROVE  WindowInv'
<1>1. displaySyncFrameInitialize' = FALSE /\ mergeType' = type /\ mcrt' = mcrt
  BY DEF ChangeMergeType, mcrtVars
<1>2. type = "SYNCID_LINEUP" => IsTable(ptrTable')
  BY IdentityIsTable DEF ChangeMergeType, ChangeToSingleFrame, ChangeToLineup
<1> QED
  BY <1>1, <1>2 DEF WindowInv

LEMMA StepWindow ==
    ASSUME WindowInv, [Next]_vars PROVE WindowInv'
<1>1. CASE ReceiveMessage
  <2> PICK m \in Machine, slow \in BOOLEAN, callbackOutcome \in CallbackOutcomes :
        \/ \E s \in SyncId : ReceiveStarted(m, s, slow, callbackOutcome)
        \/ \E status \in LaterStatuses : ReceiveLater(m, status, slow, callbackOutcome)
    BY <1>1 DEF ReceiveMessage
  <2>1. ASSUME NEW s \in Int, NEW status, NEW progress
        PROVE  /\ Message(m, s, status, progress).machine \in Machine
               /\ Message(m, s, status, progress).syncId \in Int
    BY DEF Message
  <2>2. \E msg : /\ msg.machine \in Machine
                 /\ msg.syncId \in Int
                 /\ Push(msg, slow, callbackOutcome)
    BY <2>1, SyncIdAssumption DEF ReceiveStarted, ReceiveLater, WindowInv
  <2> QED
    BY <2>2, PushWindow
<1>2. CASE \E request \in Requests, sameReso \in BOOLEAN : SendImage(request, sameReso)
  BY <1>2, UntouchedWindow DEF SendImage, settingVars, mcrtVars
<1>3. CASE \E value \in Feedbacks : SetFeedback(value)
  BY <1>3, UntouchedWindow DEF SetFeedback, mcrtVars
<1>4. CASE \E machine \in Tunnels : StageTunnel(machine)
  BY <1>4, UntouchedWindow DEF StageTunnel, mcrtVars
<1>5. CASE \E type \in MergeTypes : ChangeMergeType(type)
  BY <1>5, ChangeMergeTypeWindow
<1>6. CASE UNCHANGED vars
  BY <1>6, UntouchedWindow DEF vars, settingVars, mcrtVars
<1> QED
  BY <1>1, <1>2, <1>3, <1>4, <1>5, <1>6 DEF Next

(* For any cache size and any gap between two syncIds, ptrTable stays a    *)
(* permutation of the frames, the display syncId stays in the window, and  *)
(* the display frame is the window's frame of that syncId.                 *)
THEOREM WindowAlwaysOK == Spec => []WindowOK
<1>1. Init => WindowInv
  BY IdentityIsTable DEF Init, WindowInv
<1>2. WindowInv /\ [Next]_vars => WindowInv'
  BY StepWindow
<1>3. WindowInv => WindowOK
  BY DEF WindowInv, WindowOK, IsTable, IsWindow, Window
<1> QED
  BY <1>1, <1>2, <1>3, PTL DEF Spec

-------------------------------------------------------------------------------
(* The code shifts the window one frame at a time.  Both forms of the      *)
(* shift, field by field.                                                  *)
DisplayLeft(window, start) == window.displayId < start

FreshIds(window, count, slot) ==
    {id \in window.start + count .. window.end + count :
       /\ id > window.end
       /\ SlotOf(ShiftedPtrTable(window.ptrTable, count), window.start + count, id) = slot}

ShiftedFrames(window, count) ==
    [slot \in Slot |->
       IF FreshIds(window, count, slot) = {} THEN window.frames[slot]
       ELSE RecycledFor(window.frames[slot], CHOOSE id \in FreshIds(window, count, slot) : TRUE)]

(* w is window moved by count, with these frames and this table.           *)
MovedTo(w, window, count, table, framesNow) ==
    /\ w = [field \in DOMAIN window |-> w[field]]
    /\ w.frames = framesNow
    /\ w.ptrTable = table
    /\ w.start = window.start + count
    /\ w.end = window.end + count
    /\ w.displayId = IF DisplayLeft(window, window.start + count)
                       THEN window.start + count ELSE window.displayId
    /\ w.displayFrame = IF DisplayLeft(window, window.start + count)
                          THEN table[1] ELSE window.displayFrame

LEMMA WithDisplayInsideMoves ==
    ASSUME NEW window, IsWindow(window), NEW count, NEW table, NEW framesNow
    PROVE  MovedTo(WithDisplayInside([window EXCEPT !.frames = framesNow, !.ptrTable = table,
                                        !.start = window.start + count,
                                        !.end = window.end + count]),
                   window, count, table, framesNow)
<1> DEFINE moved == [window EXCEPT !.frames = framesNow, !.ptrTable = table,
                                   !.start = window.start + count, !.end = window.end + count]
<1>1. /\ moved = [field \in DOMAIN window |-> moved[field]]
      /\ moved.frames = framesNow
      /\ moved.ptrTable = table
      /\ moved.start = window.start + count
      /\ moved.end = window.end + count
      /\ moved.displayId = window.displayId
      /\ moved.displayFrame = window.displayFrame
  BY DEF IsWindow
<1> HIDE DEF moved
<1>2. CASE DisplayLeft(window, window.start + count)
  <2> DEFINE inside == [moved EXCEPT !.displayId = moved.start,
                                     !.displayFrame = moved.ptrTable[1]]
  <2>1. WithDisplayInside(moved) = inside
    BY <1>1, <1>2 DEF WithDisplayInside, DisplayLeft
  <2>2. DOMAIN moved = DOMAIN window
    BY <1>1
  <2>3. /\ inside = [field \in DOMAIN window |-> inside[field]]
        /\ inside.frames = framesNow
        /\ inside.ptrTable = table
        /\ inside.start = window.start + count
        /\ inside.end = window.end + count
        /\ inside.displayId = window.start + count
        /\ inside.displayFrame = table[1]
    BY <1>1, <2>2 DEF IsWindow
  <2> HIDE DEF inside
  <2> QED
    BY <1>2, <2>1, <2>3 DEF MovedTo, moved
<1>3. CASE ~DisplayLeft(window, window.start + count)
  <2>1. WithDisplayInside(moved) = moved
    BY <1>1, <1>3 DEF WithDisplayInside, DisplayLeft
  <2> QED
    BY <1>1, <1>3, <2>1 DEF MovedTo, moved
<1> QED
  BY <1>2, <1>3

LEMMA ShiftedMoves ==
    ASSUME NEW window, IsWindow(window), NEW count \in Nat
    PROVE  MovedTo(Shifted(window, count), window, count,
                   ShiftedPtrTable(window.ptrTable, count), ShiftedFrames(window, count))
<1> DEFINE table == ShiftedPtrTable(window.ptrTable, count)
           framesNow == ShiftedFrames(window, count)
<1>1. Shifted(window, count)
        = WithDisplayInside([window EXCEPT !.frames = framesNow, !.ptrTable = table,
                                           !.start = window.start + count,
                                           !.end = window.end + count])
  BY DEF Shifted, ShiftedFrames, FreshIds, IsWindow
<1> HIDE DEF table, framesNow
<1>2. MovedTo(WithDisplayInside([window EXCEPT !.frames = framesNow, !.ptrTable = table,
                                   !.start = window.start + count,
                                   !.end = window.end + count]),
              window, count, table, framesNow)
  BY WithDisplayInsideMoves
<1>3. MovedTo(Shifted(window, count), window, count, table, framesNow)
  BY <1>1, <1>2
<1> QED
  BY <1>3 DEF table, framesNow

NextTable(table) ==
    [i \in Slot |-> IF i = CacheFrames THEN table[1] ELSE table[i + 1]]

LEMMA ShiftPtrTableMoves ==
    ASSUME NEW window, IsWindow(window)
    PROVE  MovedTo(ShiftPtrTable(window), window, 1, NextTable(window.ptrTable),
                   [window.frames EXCEPT ![window.ptrTable[1]] =
                      RecycledFor(@, window.end + 1)])
<1> DEFINE table == NextTable(window.ptrTable)
           framesNow == [window.frames EXCEPT ![window.ptrTable[1]] =
                           RecycledFor(@, window.end + 1)]
<1>1. ShiftPtrTable(window)
        = WithDisplayInside([window EXCEPT !.frames = framesNow, !.ptrTable = table,
                                           !.start = window.start + 1,
                                           !.end = window.end + 1])
  BY DEF ShiftPtrTable, NextTable, IsWindow
<1> HIDE DEF table, framesNow
<1>2. MovedTo(WithDisplayInside([window EXCEPT !.frames = framesNow, !.ptrTable = table,
                                   !.start = window.start + 1,
                                   !.end = window.end + 1]),
              window, 1, table, framesNow)
  BY WithDisplayInsideMoves
<1>3. MovedTo(ShiftPtrTable(window), window, 1, table, framesNow)
  BY <1>1, <1>2
<1> QED
  BY <1>3 DEF table, framesNow

(* A frame may be recycled several times before it is used.                *)
LEMMA RecycledTwice ==
    ASSUME NEW frame, DOMAIN frame = Fields, NEW a, NEW b
    PROVE  RecycledFor(RecycledFor(frame, a), b) = RecycledFor(frame, b)
<1> DEFINE Fresh(f, id) ==
              [ mySyncId       |-> id,
                chans          |-> [m \in Machine |-> ResetChans(f.chans[m])],
                received       |-> {},
                feedbackActive |-> FALSE,
                messagesTotal  |-> 0,
                messagesAll    |-> 0,
                tunnel         |-> f.tunnel,
                receivedAll    |-> {},
                messages       |-> [m \in Machine |-> 0],
                gcReady        |-> {},
                gcCompleted    |-> {},
                coarseAll      |-> Machine,
                progressAll    |-> [m \in Machine |-> 0],
                statusAll      |-> [m \in Machine |-> "FINISHED"],
                active         |-> 0,
                first          |-> NoMachine,
                status         |-> f.status,
                fb             |-> f.fb,
                merged         |-> FALSE,
                partialMergeStartTileId |-> f.partialMergeStartTileId ]
<1>1. ASSUME NEW f, DOMAIN f = Fields, NEW id
      PROVE  RecycledFor(f, id) = Fresh(f, id)
  <2> DEFINE last == ResetLastHistory(f)
             whole == ResetWholeHistory(f, id)
  <2>1. /\ DOMAIN last = Fields
        /\ last.chans = [m \in Machine |-> ResetChans(f.chans[m])]
        /\ last.received = {} /\ last.messagesTotal = 0
        /\ last.tunnel = f.tunnel /\ last.status = f.status /\ last.fb = f.fb
        /\ last.partialMergeStartTileId = f.partialMergeStartTileId
    BY <1>1 DEF ResetLastHistory, Fields, EmptyFrame
  <2> HIDE DEF last
  <2>2. /\ DOMAIN whole = Fields
        /\ whole.mySyncId = id
        /\ whole.chans = last.chans
        /\ whole.received = {} /\ whole.messagesTotal = 0
        /\ whole.tunnel = last.tunnel /\ whole.status = last.status /\ whole.fb = last.fb
        /\ whole.partialMergeStartTileId = last.partialMergeStartTileId
        /\ whole.receivedAll = {}
        /\ whole.messages = [m \in Machine |-> 0]
        /\ whole.gcReady = {} /\ whole.gcCompleted = {}
        /\ whole.coarseAll = Machine
        /\ whole.progressAll = [m \in Machine |-> 0]
        /\ whole.statusAll = [m \in Machine |-> "FINISHED"]
        /\ whole.active = 0 /\ whole.first = NoMachine /\ whole.merged = FALSE
    BY <2>1 DEF ResetWholeHistory, last, Fields, EmptyFrame
  <2> HIDE DEF whole
  <2> DEFINE g == [[whole EXCEPT !.messagesAll = 0] EXCEPT !.feedbackActive = FALSE]
  <2>3. RecycledFor(f, id) = g
    BY DEF RecycledFor, ResetFeedback, ResetAllReceivedMessagesCount, whole
  <2>4. g = [x \in Fields |-> g[x]]
    BY <2>2
  <2>5. /\ g.messagesAll = 0 /\ g.feedbackActive = FALSE
        /\ \A x \in Fields \ {"messagesAll", "feedbackActive"} : g[x] = whole[x]
    BY <2>2 DEF Fields, EmptyFrame
  <2>8. /\ g.mySyncId = id
        /\ g.chans = [m \in Machine |-> ResetChans(f.chans[m])]
        /\ g.received = {} /\ g.messagesTotal = 0
        /\ g.tunnel = f.tunnel /\ g.status = f.status /\ g.fb = f.fb
        /\ g.partialMergeStartTileId = f.partialMergeStartTileId
        /\ g.receivedAll = {}
        /\ g.messages = [m \in Machine |-> 0]
        /\ g.gcReady = {} /\ g.gcCompleted = {}
        /\ g.coarseAll = Machine
        /\ g.progressAll = [m \in Machine |-> 0]
        /\ g.statusAll = [m \in Machine |-> "FINISHED"]
        /\ g.active = 0 /\ g.first = NoMachine /\ g.merged = FALSE
    BY <2>1, <2>2, <2>5 DEF Fields, EmptyFrame
  <2>6. Fresh(f, id) = [x \in Fields |-> Fresh(f, id)[x]]
    BY DEF Fields, EmptyFrame
  <2> HIDE DEF g
  <2>9. /\ g.mySyncId = Fresh(f, id).mySyncId /\ g.chans = Fresh(f, id).chans
        /\ g.received = Fresh(f, id).received /\ g.feedbackActive = Fresh(f, id).feedbackActive
        /\ g.messagesTotal = Fresh(f, id).messagesTotal /\ g.messagesAll = Fresh(f, id).messagesAll
        /\ g.tunnel = Fresh(f, id).tunnel /\ g.receivedAll = Fresh(f, id).receivedAll
        /\ g.messages = Fresh(f, id).messages /\ g.gcReady = Fresh(f, id).gcReady
        /\ g.gcCompleted = Fresh(f, id).gcCompleted /\ g.coarseAll = Fresh(f, id).coarseAll
        /\ g.progressAll = Fresh(f, id).progressAll /\ g.statusAll = Fresh(f, id).statusAll
        /\ g.active = Fresh(f, id).active /\ g.first = Fresh(f, id).first
        /\ g.status = Fresh(f, id).status /\ g.fb = Fresh(f, id).fb
        /\ g.merged = Fresh(f, id).merged
        /\ g.partialMergeStartTileId = Fresh(f, id).partialMergeStartTileId
    BY <2>5, <2>8
  <2> HIDE DEF Fresh
  <2>7. ASSUME NEW x \in Fields PROVE g[x] = Fresh(f, id)[x]
    <3>1. x \in {"mySyncId", "chans", "received", "feedbackActive", "messagesTotal",
                "messagesAll", "tunnel", "receivedAll", "messages",
                "gcReady", "gcCompleted", "coarseAll", "progressAll",
                "statusAll", "active", "first", "status", "fb", "merged", "partialMergeStartTileId"}
      BY DEF Fields, EmptyFrame
    <3> QED
      BY <3>1, <2>9
  <2> QED
    BY <2>3, <2>4, <2>6, <2>7
<1>2. DOMAIN Fresh(frame, a) = Fields
  BY DEF Fields, EmptyFrame
<1>3. ASSUME NEW m \in Machine
      PROVE  ResetChans(Fresh(frame, a).chans[m]) = ResetChans(frame.chans[m])
  BY DEF ResetChans, EmptyChans
<1>4. Fresh(Fresh(frame, a), b) = Fresh(frame, b)
  BY <1>3
<1> HIDE DEF Fresh
<1> QED
  BY <1>1, <1>2, <1>4

(* The slot of an id in the table that was rotated by count.               *)
LEMMA SlotWhenShifted ==
    ASSUME NEW table, NEW count \in Nat, NEW start \in Int,
           NEW id \in start + count .. start + count + CacheFrames - 1
    PROVE  SlotOf(ShiftedPtrTable(table, count), start + count, id)
             = table[((id - start) % CacheFrames) + 1]
<1> DEFINE i == id - (start + count) + 1
<1>1. i \in Slot /\ i - 1 + count = id - start
  BY CacheFramesAssumption DEF Slot
<1> HIDE DEF i
<1>2. ShiftedPtrTable(table, count)[i] = table[((id - start) % CacheFrames) + 1]
  BY <1>1 DEF ShiftedPtrTable
<1> QED
  BY <1>2 DEF SlotOf, i

(* A number that is one round further has the same remainder.              *)
LEMMA ModRound ==
    ASSUME NEW n \in Nat
    PROVE  (n + CacheFrames) % CacheFrames = n % CacheFrames
<1> DEFINE q == n \div CacheFrames
           r == n % CacheFrames
           a == n + CacheFrames
           p == a \div CacheFrames
           s == a % CacheFrames
<1>1. n = CacheFrames * q + r /\ q \in Int /\ r \in 0 .. CacheFrames - 1
  BY CacheFramesAssumption
<1>2. a = CacheFrames * p + s /\ p \in Int /\ s \in 0 .. CacheFrames - 1
  BY CacheFramesAssumption
<1>3. a = n + CacheFrames
  OBVIOUS
<1> SUFFICES r = s
  OBVIOUS
<1> HIDE DEF q, r, a, p, s
<1>4. CacheFrames * (p - (q + 1)) = r - s
  <2>1. CacheFrames * (p - (q + 1)) = CacheFrames * p - CacheFrames * q - CacheFrames
    BY <1>1, <1>2, CacheFramesAssumption
  <2>2. CacheFrames * p \in Int /\ CacheFrames * q \in Int
    BY <1>1, <1>2, CacheFramesAssumption
  <2> QED
    BY <1>1, <1>2, <1>3, <2>1, <2>2, CacheFramesAssumption
<1>5. CASE p - (q + 1) >= 1
  <2>1. CacheFrames * (p - (q + 1)) >= CacheFrames
    BY <1>1, <1>2, <1>5, CacheFramesAssumption
  <2> QED
    BY <1>1, <1>2, <1>4, <2>1, CacheFramesAssumption
<1>6. CASE p - (q + 1) =< -1
  <2>1. CacheFrames * (p - (q + 1)) =< -CacheFrames
    BY <1>1, <1>2, <1>6, CacheFramesAssumption
  <2> QED
    BY <1>1, <1>2, <1>4, <2>1, CacheFramesAssumption
<1>7. CASE p - (q + 1) = 0
  BY <1>1, <1>2, <1>4, <1>7, CacheFramesAssumption
<1> QED
  BY <1>1, <1>2, <1>5, <1>6, <1>7

LEMMA NextTableRotates ==
    ASSUME NEW table, NEW count \in Nat
    PROVE  NextTable(ShiftedPtrTable(table, count)) = ShiftedPtrTable(table, count + 1)
<1> DEFINE t == ShiftedPtrTable(table, count)
           u == ShiftedPtrTable(table, count + 1)
<1>1. ASSUME NEW i \in Slot
      PROVE  u[i] = IF i = CacheFrames THEN t[1] ELSE t[i + 1]
  <2>1. u[i] = table[((i - 1 + (count + 1)) % CacheFrames) + 1]
    BY DEF ShiftedPtrTable
  <2>2. i - 1 + (count + 1) = i + count
    BY DEF Slot
  <2>3. CASE i = CacheFrames
    <3>1. 1 \in Slot /\ 1 - 1 + count = count
      BY CacheFramesAssumption DEF Slot
    <3>2. t[1] = table[(count % CacheFrames) + 1]
      BY <3>1 DEF ShiftedPtrTable
    <3>3. (i + count) % CacheFrames = count % CacheFrames
      <4>1. i + count = count + CacheFrames
        BY <2>3, CacheFramesAssumption
      <4> QED
        BY <4>1, ModRound
    <3> QED
      BY <2>1, <2>2, <2>3, <3>2, <3>3
  <2>4. CASE i # CacheFrames
    <3>1. i + 1 \in Slot /\ (i + 1) - 1 + count = i + count
      BY <2>4, CacheFramesAssumption DEF Slot
    <3>2. t[i + 1] = table[((i + count) % CacheFrames) + 1]
      BY <3>1 DEF ShiftedPtrTable
    <3> QED
      BY <2>1, <2>2, <2>4, <3>2
  <2> QED
    BY <2>3, <2>4
<1>2. u = [i \in Slot |-> u[i]]
  BY DEF ShiftedPtrTable
<1> HIDE DEF t, u
<1>3. NextTable(t) = u
  BY <1>1, <1>2 DEF NextTable
<1> QED
  BY <1>3 DEF t, u

AllShaped(window) ==
    DOMAIN window.frames = Slot /\ \A slot \in Slot : DOMAIN window.frames[slot] = Fields

(* The frame that leaves the window is the one of the next new id, and the *)
(* other frames are as fresh as before.                                    *)
LEMMA NextFrames ==
    ASSUME NEW window, IsWindow(window), AllShaped(window), NEW count \in Nat
    PROVE  [ShiftedFrames(window, count)
              EXCEPT ![ShiftedPtrTable(window.ptrTable, count)[1]] =
                 RecycledFor(@, window.end + count + 1)]
             = ShiftedFrames(window, count + 1)
<1> DEFINE table == window.ptrTable
           start == window.start
           end == window.end
           At(id) == table[((id - start) % CacheFrames) + 1]
           oldest == ShiftedPtrTable(table, count)[1]
           last == end + count + 1
           old == ShiftedFrames(window, count)
           new == ShiftedFrames(window, count + 1)
<1>1. /\ start \in Int /\ end \in Int /\ end = start + CacheFrames - 1
      /\ table \in [Slot -> Slot] /\ IsInjective(table)
      /\ CacheFrames \in Nat \ {0}
  BY CacheFramesAssumption DEF IsWindow, IsTable
<1>2. ASSUME NEW n \in Nat, NEW slot \in Slot
      PROVE  FreshIds(window, n, slot) = {id \in start + n .. end + n : id > end /\ At(id) = slot}
  <2>1. ASSUME NEW id \in start + n .. end + n
        PROVE  SlotOf(ShiftedPtrTable(table, n), start + n, id) = At(id)
    <3>1. id \in start + n .. start + n + CacheFrames - 1
      BY <1>1
    <3> QED
      BY <1>1, <3>1, SlotWhenShifted
  <2> QED
    BY <2>1 DEF FreshIds
<1>3. ASSUME NEW a \in Int, NEW b \in Int, a - b < CacheFrames, b - a < CacheFrames,
             At(a) = At(b)
      PROVE  a = b
  <2>1. a - start \in Int /\ b - start \in Int
    BY <1>1
  <2>2. ((a - start) % CacheFrames) + 1 \in Slot /\ ((b - start) % CacheFrames) + 1 \in Slot
    <3>1. \A k \in Int : (k % CacheFrames) + 1 \in Slot
      BY <1>1 DEF Slot
    <3> QED
      BY <2>1, <3>1
  <2>3. ((a - start) % CacheFrames) + 1 = ((b - start) % CacheFrames) + 1
    BY <1>1, <1>3, <2>2 DEF IsInjective
  <2>4. (a - start) % CacheFrames = (b - start) % CacheFrames
    BY <1>1, <2>1, <2>3
  <2>5. (a - start) - (b - start) < CacheFrames /\ (b - start) - (a - start) < CacheFrames
    BY <1>1, <1>3
  <2>6. a - start = b - start
    BY <1>1, <2>1, <2>4, <2>5, ModUnique
  <2> QED
    BY <1>1, <2>6
<1>4. oldest = At(start + count) /\ oldest \in Slot
  <2>1. 1 \in Slot /\ 1 - 1 + count = count /\ (start + count) - start = count
    BY <1>1 DEF Slot
  <2>2. oldest = table[(count % CacheFrames) + 1]
    BY <2>1 DEF ShiftedPtrTable
  <2>3. (count % CacheFrames) + 1 \in Slot
    BY <1>1 DEF Slot
  <2> QED
    BY <1>1, <2>1, <2>2, <2>3
<1>5. oldest = At(last)
  <2>1. last - start = count + CacheFrames /\ (start + count) - start = count
    BY <1>1
  <2> QED
    BY <1>4, <2>1, ModRound
<1>6. last \in Int /\ last > end /\ last \in start + (count + 1) .. end + (count + 1)
  BY <1>1
<1> HIDE DEF At, oldest, last
<1>7. FreshIds(window, count + 1, oldest) = {last}
  <2>1. FreshIds(window, count + 1, oldest)
          = {id \in start + (count + 1) .. end + (count + 1) : id > end /\ At(id) = oldest}
    BY <1>2, <1>4
  <2>2. ASSUME NEW id \in start + (count + 1) .. end + (count + 1), At(id) = oldest
        PROVE  id = last
    <3>1. id \in Int /\ id - last < CacheFrames /\ last - id < CacheFrames
      BY <1>1, <1>6
    <3> QED
      BY <1>3, <1>5, <1>6, <2>2, <3>1
  <2> QED
    BY <1>5, <1>6, <2>1, <2>2
<1>8. ASSUME NEW slot \in Slot, slot # oldest
      PROVE  FreshIds(window, count + 1, slot) = FreshIds(window, count, slot)
  <2>1. ASSUME NEW id \in Int, At(id) = slot
        PROVE  id \in start + (count + 1) .. end + (count + 1)
                 <=> id \in start + count .. end + count
    <3>1. id # start + count /\ id # last
      BY <1>4, <1>5, <1>8, <2>1
    <3> QED
      BY <1>1, <3>1 DEF last
  <2>2. FreshIds(window, count + 1, slot)
          = {id \in start + (count + 1) .. end + (count + 1) : id > end /\ At(id) = slot}
    BY <1>2
  <2>3. FreshIds(window, count, slot)
          = {id \in start + count .. end + count : id > end /\ At(id) = slot}
    BY <1>2
  <2>4. start + count .. end + count \subseteq Int
        /\ start + (count + 1) .. end + (count + 1) \subseteq Int
    BY <1>1
  <2> QED
    BY <2>1, <2>2, <2>3, <2>4
<1>9. ASSUME NEW n \in Nat
      PROVE  /\ ShiftedFrames(window, n) = [slot \in Slot |-> ShiftedFrames(window, n)[slot]]
             /\ \A slot \in Slot : ShiftedFrames(window, n)[slot] =
                   IF FreshIds(window, n, slot) = {} THEN window.frames[slot]
                   ELSE RecycledFor(window.frames[slot],
                                    CHOOSE id \in FreshIds(window, n, slot) : TRUE)
  BY DEF ShiftedFrames
<1>10. new[oldest] = RecycledFor(old[oldest], last)
  <2>1. (CHOOSE id \in {last} : TRUE) = last
    OBVIOUS
  <2>2. new[oldest] = RecycledFor(window.frames[oldest], last)
    BY <1>4, <1>7, <1>9, <2>1
  <2>3. DOMAIN window.frames[oldest] = Fields
    BY <1>4 DEF AllShaped
  <2>4. \/ old[oldest] = window.frames[oldest]
        \/ \E id : old[oldest] = RecycledFor(window.frames[oldest], id)
    BY <1>4, <1>9
  <2> QED
    BY <2>2, <2>3, <2>4, RecycledTwice
<1>11. ASSUME NEW slot \in Slot, slot # oldest PROVE new[slot] = old[slot]
  BY <1>8, <1>9, <1>11
<1>12. /\ new = [slot \in Slot |-> new[slot]]
       /\ old = [slot \in Slot |-> old[slot]]
  BY <1>9
<1> HIDE DEF old, new
<1>13. [old EXCEPT ![oldest] = RecycledFor(@, last)] = new
  BY <1>4, <1>10, <1>11, <1>12
<1> QED
  BY <1>13 DEF old, new, oldest, last

LEMMA ShiftedOnceMore ==
    ASSUME NEW window, IsWindow(window), AllShaped(window), NEW count \in Nat
    PROVE  ShiftPtrTable(Shifted(window, count)) = Shifted(window, count + 1)
<1> DEFINE v == Shifted(window, count)
           w == ShiftPtrTable(v)
           u == Shifted(window, count + 1)
           table == ShiftedPtrTable(window.ptrTable, count)
           tableNow == ShiftedPtrTable(window.ptrTable, count + 1)
           framesThen == ShiftedFrames(window, count)
           framesNow == ShiftedFrames(window, count + 1)
<1>1. IsWindow(v) /\ MovedTo(v, window, count, table, framesThen)
  BY ShiftedIsWindow, ShiftedMoves
<1>2. MovedTo(u, window, count + 1, tableNow, framesNow)
  BY ShiftedMoves
<1>3. MovedTo(w, v, 1, NextTable(v.ptrTable),
              [v.frames EXCEPT ![v.ptrTable[1]] = RecycledFor(@, v.end + 1)])
  BY <1>1, ShiftPtrTableMoves
<1>4. window.start \in Int /\ window.end \in Int /\ window.displayId \in Int
  BY CacheFramesAssumption DEF IsWindow
<1>5. NextTable(table) = tableNow
  BY NextTableRotates
<1>6. [framesThen EXCEPT ![table[1]] = RecycledFor(@, window.end + count + 1)] = framesNow
  BY NextFrames
<1> HIDE DEF v, w, u, table, tableNow, framesThen, framesNow
<1>7. /\ v.ptrTable = table /\ v.frames = framesThen
      /\ v.start = window.start + count /\ v.end = window.end + count
      /\ v.displayId = IF DisplayLeft(window, window.start + count)
                         THEN window.start + count ELSE window.displayId
      /\ v.displayFrame = IF DisplayLeft(window, window.start + count)
                            THEN table[1] ELSE window.displayFrame
      /\ DOMAIN v = DOMAIN window
  BY <1>1 DEF MovedTo
<1>8. MovedTo(w, v, 1, tableNow, framesNow)
  BY <1>3, <1>5, <1>6, <1>7
<1>9. w.start = u.start /\ w.end = u.end /\ w.ptrTable = u.ptrTable /\ w.frames = u.frames
  BY <1>2, <1>4, <1>7, <1>8 DEF MovedTo
<1>10. w.displayId = u.displayId /\ w.displayFrame = u.displayFrame
  <2>1. CASE window.displayId < window.start + count + 1
    <3>1. v.displayId < v.start + 1
      BY <1>4, <1>7, <2>1 DEF DisplayLeft
    <3>2. w.displayId = v.start + 1 /\ w.displayFrame = tableNow[1]
      BY <1>8, <3>1 DEF MovedTo, DisplayLeft
    <3>3. u.displayId = window.start + (count + 1) /\ u.displayFrame = tableNow[1]
      BY <1>2, <1>4, <2>1 DEF MovedTo, DisplayLeft
    <3> QED
      BY <1>4, <1>7, <3>2, <3>3
  <2>2. CASE ~(window.displayId < window.start + count + 1)
    <3>1. ~DisplayLeft(window, window.start + count)
      BY <1>4, <2>2 DEF DisplayLeft
    <3>2. v.displayId = window.displayId /\ v.displayFrame = window.displayFrame
      BY <1>7, <3>1
    <3>3. w.displayId = window.displayId /\ w.displayFrame = window.displayFrame
      BY <1>4, <1>7, <1>8, <2>2, <3>2 DEF MovedTo, DisplayLeft
    <3>4. u.displayId = window.displayId /\ u.displayFrame = window.displayFrame
      BY <1>2, <1>4, <2>2 DEF MovedTo, DisplayLeft
    <3> QED
      BY <3>3, <3>4
  <2> QED
    BY <2>1, <2>2
<1>11. /\ w = [field \in DOMAIN window |-> w[field]]
       /\ u = [field \in DOMAIN window |-> u[field]]
  BY <1>2, <1>7, <1>8 DEF MovedTo
<1>12. \A field \in DOMAIN window : w[field] = u[field]
  BY <1>9, <1>10 DEF IsWindow
<1>13. w = u
  BY <1>11, <1>12
<1> QED
  BY <1>13 DEF w, v, u

LEMMA ShiftedByNone ==
    ASSUME NEW window, IsWindow(window), AllShaped(window),
           window = [field \in DOMAIN window |-> window[field]],
           window.frames = [slot \in Slot |-> window.frames[slot]]
    PROVE  Shifted(window, 0) = window
<1> DEFINE u == Shifted(window, 0)
           table == ShiftedPtrTable(window.ptrTable, 0)
           framesNow == ShiftedFrames(window, 0)
<1>1. MovedTo(u, window, 0, table, framesNow)
  BY ShiftedMoves
<1>2. /\ window.start \in Int /\ window.end \in Int /\ window.displayId \in Int
      /\ window.displayId >= window.start
      /\ window.ptrTable \in [Slot -> Slot]
  BY CacheFramesAssumption DEF IsWindow, IsTable
<1>3. table = window.ptrTable
  <2>1. ASSUME NEW i \in Slot PROVE table[i] = window.ptrTable[i]
    <3>1. i - 1 + 0 = i - 1 /\ i - 1 \in 0 .. CacheFrames - 1 /\ (i - 1) + 1 = i
      BY CacheFramesAssumption DEF Slot
    <3>2. (i - 1) % CacheFrames = i - 1
      BY <3>1, ModSmall, CacheFramesAssumption
    <3>3. table[i] = window.ptrTable[((i - 1 + 0) % CacheFrames) + 1]
      BY DEF ShiftedPtrTable
    <3> QED
      BY <3>1, <3>2, <3>3
  <2>2. table = [i \in Slot |-> table[i]]
    BY DEF ShiftedPtrTable
  <2> HIDE DEF table
  <2> QED
    BY <1>2, <2>1, <2>2
<1>4. framesNow = window.frames
  <2>1. ASSUME NEW slot \in Slot PROVE FreshIds(window, 0, slot) = {}
    BY <1>2 DEF FreshIds
  <2> QED
    BY <2>1 DEF ShiftedFrames
<1> HIDE DEF u, table, framesNow
<1>5. ~DisplayLeft(window, window.start + 0)
  BY <1>2 DEF DisplayLeft
<1>6. /\ u.frames = window.frames /\ u.ptrTable = window.ptrTable
      /\ u.start = window.start /\ u.end = window.end
      /\ u.displayId = window.displayId /\ u.displayFrame = window.displayFrame
      /\ u = [field \in DOMAIN window |-> u[field]]
  BY <1>1, <1>2, <1>3, <1>4, <1>5 DEF MovedTo
<1>7. \A field \in DOMAIN window : u[field] = window[field]
  BY <1>6 DEF IsWindow
<1>8. u = window
  BY <1>6, <1>7
<1> QED
  BY <1>8 DEF u

(* shiftPtrTable, called any number of times, leaves what Shifted says,    *)
(* also when frames are recycled several times in one gap.                 *)
LEMMA ShiftLoopShifts ==
    ASSUME NEW window, IsWindow(window), AllShaped(window),
           window = [field \in DOMAIN window |-> window[field]],
           window.frames = [slot \in Slot |-> window.frames[slot]],
           NEW count \in Nat
    PROVE  ShiftLoop(window, count) = Shifted(window, count)
<1> DEFINE Run(f) == f = [i \in 0 .. count |->
                            IF i = 0 THEN window ELSE ShiftPtrTable(f[i - 1])]
           loop == CHOOSE f : Run(f)
           g == [i \in 0 .. count |-> Shifted(window, i)]
<1>1. Run(g)
  <2>1. ASSUME NEW i \in 0 .. count
        PROVE  g[i] = IF i = 0 THEN window ELSE ShiftPtrTable(g[i - 1])
    <3>1. CASE i = 0
      BY <3>1, ShiftedByNone
    <3>2. CASE i # 0
      <4>1. i - 1 \in Nat /\ i - 1 \in 0 .. count /\ (i - 1) + 1 = i
        BY <3>2
      <4>2. ShiftPtrTable(Shifted(window, i - 1)) = Shifted(window, (i - 1) + 1)
        BY <4>1, ShiftedOnceMore
      <4> QED
        BY <3>2, <4>1, <4>2
    <3> QED
      BY <3>1, <3>2
  <2> QED
    BY <2>1
<1>2. Run(loop)
  BY <1>1
<1>3. ShiftLoop(window, count) = loop[count]
  BY DEF ShiftLoop
<1> HIDE DEF loop
<1>4. \A i \in 0 .. count : loop[i] = IF i = 0 THEN window ELSE ShiftPtrTable(loop[i - 1])
  BY <1>2
<1>5. \A i \in 0 .. count : g[i] = IF i = 0 THEN window ELSE ShiftPtrTable(g[i - 1])
  BY <1>1
<1>6. \A i \in 0 .. count : loop[i] = g[i]
  <2> HIDE DEF g
  <2>1. loop[0] = g[0]
    BY <1>4, <1>5
  <2>2. ASSUME NEW i \in 1 .. count, loop[i - 1] = g[i - 1] PROVE loop[i] = g[i]
    BY <1>4, <1>5, <2>2
  <2>3. InStep(loop, g, count)
    BY <2>1, <2>2 DEF InStep
  <2> QED
    BY <2>3, LoopsAgree
<1> QED
  BY <1>3, <1>6

(* The model's shift is the loop of the code, from every window that the   *)
(* cache reaches.                                                          *)
THEOREM ShiftIsTheLoop == Spec => []ShiftedIsShiftLoop
<1>1. WindowInv /\ AllCount(frames) => ShiftedIsShiftLoop
  <2> SUFFICES ASSUME WindowInv, AllCount(frames), mergeType = "SYNCID_LINEUP",
                      displaySyncFrameInitialize, NEW count \in 0 .. 2 * CacheFrames + 1
               PROVE  Shifted(Window, count) = ShiftLoop(Window, count)
    BY DEF ShiftedIsShiftLoop
  <2>1. IsWindow(Window)
    BY DEF WindowInv
  <2>2. AllShaped(Window) /\ count \in Nat
    BY CacheFramesAssumption DEF AllShaped, Window, AllCount, Counts
  <2>3. /\ Window = [field \in DOMAIN Window |-> Window[field]]
        /\ Window.frames = [slot \in Slot |-> Window.frames[slot]]
    BY DEF Window, AllCount
  <2> QED
    BY <2>1, <2>2, <2>3, ShiftLoopShifts
<1>2. Init => AllCount(frames)
  BY EmptyFrameCounts DEF Init, AllCount
<1>3. AllCount(frames) /\ [Next]_vars => AllCount(frames)'
  BY StepCounts
<1>4. Init => WindowInv
  BY IdentityIsTable DEF Init, WindowInv
<1>5. WindowInv /\ [Next]_vars => WindowInv'
  BY StepWindow
<1> QED
  BY <1>1, <1>2, <1>3, <1>4, <1>5, PTL DEF Spec

-------------------------------------------------------------------------------
(* What the frames hold, and when they are displayed.                      *)
(*                                                                         *)
(* The theorems from here on are about sessions of one merge type in which *)
(* the feedback callback succeeds: a change of the merge type takes frames *)
(* over that hold an older rendering, and a callback that fails loses the  *)
(* message that a frame was reset for.                                     *)
(*                                                                         *)
(* A frame of a syncId that is or may become the display frame is related  *)
(* to what the machines sent for that syncId (IsOf).  That is inductive    *)
(* with two more facts: what is queued is what received speaks of, so that *)
(* decodeAll leaves nothing behind that reset would throw away; and no     *)
(* machine has sent anything for a syncId beyond the newest of the window, *)
(* so that a recycled frame has nothing to hold.                           *)

(* What a frame has of a machine, decoded or queued.                       *)
Held(frame, m) == frame.fb[m] \cup frame.chans[m].queue

(* The fields that the steps below read have their shape, and queues hold  *)
(* only what the machines in received have sent.                           *)
Collects(frame) ==
    /\ Counts(frame)
    /\ DOMAIN frame.chans = Machine /\ DOMAIN frame.fb = Machine
    /\ DOMAIN frame.statusAll = Machine /\ DOMAIN frame.progressAll = Machine
    /\ frame.messagesAll = 0 => \A m \in Machine : frame.progressAll[m] = 0
    /\ \A m \in Machine : DOMAIN frame.chans[m] = DOMAIN EmptyChans
    /\ \A m \in Machine : frame.chans[m].queue # {} => m \in frame.received
    /\ frame.messagesTotal = IF frame.received = {} THEN 0 ELSE 1
    /\ frame.messagesAll \in 0 .. 2

(* A frame on which no machine has been heard.                             *)
Unheard(frame) ==
    /\ frame.receivedAll = {}
    /\ frame.messagesAll = 0
    /\ ~frame.merged
    /\ frame.coarseAll = Machine
    /\ frame.statusAll = [m \in Machine |-> "FINISHED"]
    /\ frame.progressAll = [m \in Machine |-> 0]

LEMMA EmptyFrameCollects == Collects(EmptyFrame) /\ Unheard(EmptyFrame)
BY EmptyFrameCounts DEF Collects, Unheard, EmptyFrame, EmptyChans

-------------------------------------------------------------------------------
(* chans after push of msg.                                                *)
ChansPushed(chans, msg, new) ==
    /\ DOMAIN new = DOMAIN EmptyChans
    /\ new.queue = IF msg.status = "STARTED" THEN {msg.data} ELSE chans.queue \cup {msg.data}
    /\ new.ids = IF msg.actionId = NoActionId THEN chans.ids ELSE Append(chans.ids, msg.actionId)
    /\ msg.status = "STARTED" => new.started = TRUE /\ new.coarse = ~msg.coarseDone
    /\ msg.coarseDone => ~new.coarse
    /\ msg.status # "STARTED" => new.status = msg.status /\ new.started = chans.started
    /\ new.progress = IF msg.status = "STARTED" THEN 0 ELSE msg.progress

LEMMA PushChansEffect ==
    ASSUME NEW chans, DOMAIN chans = DOMAIN EmptyChans, NEW msg
    PROVE  ChansPushed(chans, msg, PushChans(chans, msg))
BY DEF ChansPushed, PushChans, EmptyChans, ResetChans

(* frame after push of msg, field by field, with new for the machine's     *)
(* chans.                                                                  *)
FramePushed(frame, msg, new, g) ==
    LET m == msg.machine
        starts == msg.status = "STARTED"
    IN  /\ g.chans = [frame.chans EXCEPT ![m] = new]
        /\ g.fb = IF starts THEN [frame.fb EXCEPT ![m] = {}] ELSE frame.fb
        /\ g.received = frame.received \cup {m}
        /\ g.receivedAll = frame.receivedAll \cup {m}
        /\ g.messagesTotal = 1
        /\ g.messagesAll = Least(frame.messagesAll + 1, 2)
        /\ g.merged = frame.merged
        /\ g.coarseAll = IF new.coarse
                           THEN IF starts THEN frame.coarseAll \cup {m} ELSE frame.coarseAll
                           ELSE frame.coarseAll \ {m}
        /\ g.statusAll = [frame.statusAll EXCEPT ![m] =
                            IF new.started THEN "STARTED" ELSE new.status]
        /\ g.progressAll = [frame.progressAll EXCEPT ![m] =
                              IF g.tunnel \in {NoMachine, m} THEN new.progress ELSE @]
        /\ g.status = CalcCurrentFrameStatus(g)
        /\ g.mySyncId = frame.mySyncId /\ g.feedbackActive = frame.feedbackActive

LEMMA PushFrameEffect ==
    ASSUME NEW frame, Collects(frame), NEW msg, msg.machine \in Machine,
           NEW staged, NEW slow
    PROVE  /\ FramePushed(frame, msg, PushChans(frame.chans[msg.machine], msg),
                          PushFrame(frame, msg, staged, slow))
           /\ PushFrame(frame, msg, staged, slow).tunnel =
                IF msg.status = "STARTED" THEN staged ELSE frame.tunnel
<1> DEFINE m == msg.machine
           chans == PushChans(frame.chans[m], msg)
           g == PushFrame(frame, msg, staged, slow)
           pushed == [frame EXCEPT !.chans[m] = PushChans(@, msg)]
           started == IF msg.status = "STARTED" THEN StartOver(pushed, m, staged) ELSE pushed
           counted == CountMessage(started, m)
           tracked == TrackGc(counted, m, slow)
           next == [tracked EXCEPT
              !.coarseAll = IF tracked.chans[m].coarse THEN @ ELSE @ \ {m},
              !.progressAll[m] = IF tracked.tunnel \in {NoMachine, m}
                                   THEN tracked.chans[m].progress ELSE @,
              !.statusAll[m] = IF tracked.chans[m].started THEN "STARTED"
                                                           ELSE tracked.chans[m].status]
<1>1. g = [next EXCEPT !.status = CalcCurrentFrameStatus(next)]
  BY DEF PushFrame, TrackProgress
<1>2. /\ DOMAIN pushed = Fields
      /\ pushed.chans = [frame.chans EXCEPT ![m] = chans]
      /\ pushed.fb = frame.fb
      /\ pushed.received = frame.received
      /\ pushed.receivedAll = frame.receivedAll
      /\ pushed.messagesAll = frame.messagesAll
      /\ pushed.merged = frame.merged
      /\ pushed.coarseAll = frame.coarseAll
      /\ pushed.statusAll = frame.statusAll
      /\ pushed.progressAll = frame.progressAll
      /\ pushed.mySyncId = frame.mySyncId /\ pushed.feedbackActive = frame.feedbackActive
      /\ pushed.tunnel = frame.tunnel
  BY DEF Collects, Counts, Fields, EmptyFrame
<1> HIDE DEF pushed
<1>3. /\ DOMAIN started = Fields
      /\ started.chans = pushed.chans
      /\ started.fb = IF msg.status = "STARTED" THEN [frame.fb EXCEPT ![m] = {}] ELSE frame.fb
      /\ started.received = frame.received
      /\ started.receivedAll \cup {m} = frame.receivedAll \cup {m}
      /\ started.messagesAll = frame.messagesAll
      /\ started.merged = frame.merged
      /\ started.coarseAll = IF msg.status = "STARTED" THEN frame.coarseAll \cup {m}
                                                       ELSE frame.coarseAll
      /\ started.statusAll = frame.statusAll
      /\ started.progressAll = frame.progressAll
      /\ started.mySyncId = frame.mySyncId /\ started.feedbackActive = frame.feedbackActive
      /\ started.tunnel = IF msg.status = "STARTED" THEN staged ELSE frame.tunnel
  BY <1>2 DEF StartOver, Fields, EmptyFrame
<1> HIDE DEF started
<1>4. /\ DOMAIN counted = Fields
      /\ counted.chans = pushed.chans
      /\ counted.fb = started.fb
      /\ counted.received = frame.received \cup {m}
      /\ counted.receivedAll = frame.receivedAll \cup {m}
      /\ counted.messagesTotal = 1
      /\ counted.messagesAll = Least(frame.messagesAll + 1, 2)
      /\ counted.merged = frame.merged
      /\ counted.coarseAll = started.coarseAll
      /\ counted.statusAll = frame.statusAll
      /\ counted.progressAll = frame.progressAll
      /\ counted.mySyncId = frame.mySyncId /\ counted.feedbackActive = frame.feedbackActive
      /\ counted.tunnel = started.tunnel
  BY <1>3 DEF CountMessage, Fields, EmptyFrame
<1> HIDE DEF counted
<1>5. /\ DOMAIN tracked = Fields
      /\ tracked.chans = pushed.chans
      /\ tracked.fb = started.fb
      /\ tracked.received = frame.received \cup {m}
      /\ tracked.receivedAll = frame.receivedAll \cup {m}
      /\ tracked.messagesTotal = 1
      /\ tracked.messagesAll = Least(frame.messagesAll + 1, 2)
      /\ tracked.merged = frame.merged
      /\ tracked.coarseAll = started.coarseAll
      /\ tracked.statusAll = frame.statusAll
      /\ tracked.progressAll = frame.progressAll
      /\ tracked.mySyncId = frame.mySyncId /\ tracked.feedbackActive = frame.feedbackActive
      /\ tracked.tunnel = started.tunnel
  BY <1>4 DEF TrackGc, Fields, EmptyFrame
<1> HIDE DEF tracked
<1>6. tracked.chans[m] = chans
  BY <1>2, <1>5 DEF Collects
<1>7. /\ DOMAIN next = Fields
      /\ next.chans = pushed.chans
      /\ next.fb = started.fb
      /\ next.received = frame.received \cup {m}
      /\ next.receivedAll = frame.receivedAll \cup {m}
      /\ next.messagesTotal = 1
      /\ next.messagesAll = Least(frame.messagesAll + 1, 2)
      /\ next.merged = frame.merged
      /\ next.coarseAll = IF chans.coarse THEN started.coarseAll ELSE started.coarseAll \ {m}
      /\ next.statusAll = [frame.statusAll EXCEPT ![m] =
                             IF chans.started THEN "STARTED" ELSE chans.status]
      /\ next.progressAll = [frame.progressAll EXCEPT ![m] =
                               IF started.tunnel \in {NoMachine, m} THEN chans.progress ELSE @]
      /\ next.mySyncId = frame.mySyncId /\ next.feedbackActive = frame.feedbackActive
      /\ next.tunnel = started.tunnel
  BY <1>5, <1>6 DEF Fields, EmptyFrame
<1> HIDE DEF next, g, chans
<1>8. /\ g.chans = next.chans /\ g.fb = next.fb
      /\ g.received = next.received /\ g.receivedAll = next.receivedAll
      /\ g.messagesTotal = next.messagesTotal /\ g.messagesAll = next.messagesAll
      /\ g.merged = next.merged
      /\ g.coarseAll = next.coarseAll /\ g.statusAll = next.statusAll
      /\ g.progressAll = next.progressAll
      /\ g.mySyncId = next.mySyncId /\ g.feedbackActive = next.feedbackActive
      /\ g.tunnel = next.tunnel
      /\ g.status = CalcCurrentFrameStatus(next)
  BY <1>1, <1>7 DEF Fields, EmptyFrame
<1>9. CalcCurrentFrameStatus(g) = CalcCurrentFrameStatus(next)
  BY <1>8 DEF CalcCurrentFrameStatus
<1>10. started.coarseAll \ {m} = frame.coarseAll \ {m}
  BY <1>3
<1>11. FramePushed(frame, msg, chans, g)
  <2>1. /\ g.chans = [frame.chans EXCEPT ![m] = chans]
        /\ g.fb = IF msg.status = "STARTED" THEN [frame.fb EXCEPT ![m] = {}] ELSE frame.fb
        /\ g.statusAll = [frame.statusAll EXCEPT ![m] =
                            IF chans.started THEN "STARTED" ELSE chans.status]
        /\ g.status = CalcCurrentFrameStatus(g)
    BY <1>2, <1>3, <1>7, <1>8, <1>9
  <2>4. g.progressAll = [frame.progressAll EXCEPT ![m] =
                           IF g.tunnel \in {NoMachine, m} THEN chans.progress ELSE @]
    BY <1>7, <1>8
  <2>2. g.coarseAll = IF chans.coarse
                        THEN IF msg.status = "STARTED" THEN frame.coarseAll \cup {m}
                                                       ELSE frame.coarseAll
                        ELSE frame.coarseAll \ {m}
    BY <1>3, <1>7, <1>8, <1>10
  <2>3. /\ g.received = frame.received \cup {m}
        /\ g.receivedAll = frame.receivedAll \cup {m}
        /\ g.messagesTotal = 1 /\ g.messagesAll = Least(frame.messagesAll + 1, 2)
        /\ g.merged = frame.merged
        /\ g.mySyncId = frame.mySyncId /\ g.feedbackActive = frame.feedbackActive
    BY <1>7, <1>8
  <2> QED
    BY <2>1, <2>2, <2>3, <2>4 DEF FramePushed
<1>12. g.tunnel = IF msg.status = "STARTED" THEN staged ELSE frame.tunnel
  BY <1>3, <1>7, <1>8
<1> QED
  BY <1>11, <1>12 DEF g, chans

LEMMA PushFrameCollects ==
    ASSUME NEW frame, Collects(frame), NEW msg, msg.machine \in Machine,
           NEW staged, NEW slow
    PROVE  Collects(PushFrame(frame, msg, staged, slow))
<1> DEFINE g == PushFrame(frame, msg, staged, slow)
           m == msg.machine
           chans == PushChans(frame.chans[m], msg)
<1>1. Counts(g)
  BY PushFrameCounts DEF Collects
<1>2. FramePushed(frame, msg, chans, g)
  BY PushFrameEffect
<1>3. ChansPushed(frame.chans[m], msg, chans)
  BY PushChansEffect DEF Collects
<1> HIDE DEF g, chans
<1>4. /\ DOMAIN g.chans = Machine
      /\ DOMAIN g.fb = Machine
      /\ DOMAIN g.statusAll = Machine /\ DOMAIN g.progressAll = Machine
  BY <1>2 DEF FramePushed, Collects
<1>5. \A n \in Machine : /\ DOMAIN g.chans[n] = DOMAIN EmptyChans
                         /\ g.chans[n].queue # {} => n \in g.received
  BY <1>2, <1>3 DEF FramePushed, ChansPushed, Collects
<1>6. g.messagesAll \in 1 .. 2
  BY <1>2 DEF FramePushed, Collects, Least
<1> QED
  BY <1>1, <1>2, <1>4, <1>5, <1>6 DEF FramePushed, Collects, g

(* A STARTED message replaces what the frame has of its machine, any other *)
(* one is added to it.                                                     *)
LEMMA PushFrameHeld ==
    ASSUME NEW frame, Collects(frame), NEW msg, msg.machine \in Machine,
           NEW staged, NEW slow, NEW m \in Machine
    PROVE  Held(PushFrame(frame, msg, staged, slow), m) =
             IF m # msg.machine THEN Held(frame, m)
             ELSE IF msg.status = "STARTED" THEN {msg.data}
             ELSE Held(frame, m) \cup {msg.data}
<1> DEFINE g == PushFrame(frame, msg, staged, slow)
           chans == PushChans(frame.chans[msg.machine], msg)
<1>1. FramePushed(frame, msg, chans, g)
  BY PushFrameEffect
<1>2. ChansPushed(frame.chans[msg.machine], msg, chans)
  BY PushChansEffect DEF Collects
<1> HIDE DEF g, chans
<1>3. m # msg.machine => Held(g, m) = Held(frame, m)
  BY <1>1 DEF FramePushed, Held, Collects
<1>4. g.chans[msg.machine] = chans
  BY <1>1 DEF FramePushed, Collects
<1>5. g.fb[msg.machine] = IF msg.status = "STARTED" THEN {} ELSE frame.fb[msg.machine]
  BY <1>1 DEF FramePushed, Collects
<1>6. Held(g, msg.machine) = IF msg.status = "STARTED" THEN {msg.data}
                             ELSE Held(frame, msg.machine) \cup {msg.data}
  BY <1>2, <1>4, <1>5 DEF ChansPushed, Held
<1> QED
  BY <1>3, <1>6 DEF g

-------------------------------------------------------------------------------
(* What machine m sent for s, according to sent.                           *)
SentFor(sent, m, s) == IF s \in SyncId THEN sent[m][s] ELSE {}

(* The frame of s holds what was sent for s, and nothing else; what it     *)
(* says of the coarse passes is founded on more than a first message; and  *)
(* a machine's progress was in a message, unless the machine starts over   *)
(* while the frame takes its progress from the tunnel machine.             *)
IsOf(sent, frame, s) ==
    \A m \in Machine :
        /\ IF SentFor(sent, m, s) = {} THEN m \notin frame.receivedAll
           ELSE m \in frame.receivedAll /\ Held(frame, m) = SentFor(sent, m, s)
        /\ m \notin frame.coarseAll => Cardinality(SentFor(sent, m, s)) > 1
        /\ ~Restarts =>
              /\ frame.progressAll[m] \in Nat
              /\ \/ frame.progressAll[m] = 0
                 \/ frame.progressAll[m] < Cardinality(SentFor(sent, m, s))

(* msg, from a machine that has sent so far what sent says, is the first   *)
(* message of a rendering or the next one; and what has been sent then.    *)
Continues(sent, msg) ==
    LET before == sent[msg.machine][msg.syncId]
    IN  /\ msg.machine \in Machine
        /\ msg.syncId \in SyncId
        /\ IsFiniteSet(before)
        /\ \/ /\ msg.status = "STARTED" /\ ~msg.coarseDone /\ msg.progress = 0
              /\ ~Restarts => before = {}
           \/ /\ msg.status # "STARTED" /\ msg.coarseDone
              /\ before # {} /\ msg.data \notin before
              /\ msg.progress = Cardinality(before)

RecordAfter(sent, msg) ==
    [sent EXCEPT ![msg.machine][msg.syncId] =
        IF msg.status = "STARTED" THEN {msg.data} ELSE @ \cup {msg.data}]

IsRecord(sent) ==
    DOMAIN sent = Machine /\ \A m \in Machine : DOMAIN sent[m] = SyncId

LEMMA AfterSentFor ==
    ASSUME NEW sent, IsRecord(sent), NEW msg, Continues(sent, msg),
           NEW m \in Machine, NEW s
    PROVE  SentFor(RecordAfter(sent, msg), m, s) =
             IF m # msg.machine \/ s # msg.syncId THEN SentFor(sent, m, s)
             ELSE IF msg.status = "STARTED" THEN {msg.data}
             ELSE SentFor(sent, m, s) \cup {msg.data}
BY DEF IsRecord, Continues, SentFor, RecordAfter

LEMMA PushFrameIsOf ==
    ASSUME NEW sent, IsRecord(sent), NEW msg, Continues(sent, msg),
           NEW frame, Collects(frame), IsOf(sent, frame, msg.syncId), NEW staged, NEW slow
    PROVE  IsOf(RecordAfter(sent, msg), PushFrame(frame, msg, staged, slow), msg.syncId)
<1> DEFINE g == PushFrame(frame, msg, staged, slow)
           s == msg.syncId
           chans == PushChans(frame.chans[msg.machine], msg)
           now == RecordAfter(sent, msg)
<1> SUFFICES ASSUME NEW m \in Machine
             PROVE  /\ IF SentFor(now, m, s) = {} THEN m \notin g.receivedAll
                       ELSE m \in g.receivedAll /\ Held(g, m) = SentFor(now, m, s)
                    /\ m \notin g.coarseAll => Cardinality(SentFor(now, m, s)) > 1
                    /\ ~Restarts =>
                          /\ g.progressAll[m] \in Nat
                          /\ \/ g.progressAll[m] = 0
                             \/ g.progressAll[m] < Cardinality(SentFor(now, m, s))
  BY DEF IsOf
<1>1. msg.machine \in Machine
  BY DEF Continues
<1>2. FramePushed(frame, msg, chans, g)
  BY <1>1, PushFrameEffect
<1>3. ChansPushed(frame.chans[msg.machine], msg, chans)
  BY <1>1, PushChansEffect DEF Collects
<1>4. Held(g, m) = IF m # msg.machine THEN Held(frame, m)
                   ELSE IF msg.status = "STARTED" THEN {msg.data}
                   ELSE Held(frame, m) \cup {msg.data}
  BY <1>1, PushFrameHeld
<1>5. SentFor(now, m, s) = IF m # msg.machine THEN SentFor(sent, m, s)
                           ELSE IF msg.status = "STARTED" THEN {msg.data}
                           ELSE SentFor(sent, m, s) \cup {msg.data}
  BY AfterSentFor
<1> HIDE DEF g, chans, now
<1>6. CASE m # msg.machine
  BY <1>2, <1>4, <1>5, <1>6 DEF FramePushed, IsOf
<1>9. g.progressAll[msg.machine] \in {frame.progressAll[msg.machine], chans.progress}
  BY <1>1, <1>2 DEF FramePushed, Collects
<1>7. CASE m = msg.machine /\ msg.status = "STARTED"
  <2>1. ~Restarts => frame.progressAll[m] = 0
    <3>1. ~Restarts => SentFor(sent, m, s) = {}
      BY <1>7 DEF Continues, SentFor
    <3>2. SentFor(sent, m, s) = {} => Cardinality(SentFor(sent, m, s)) = 0
      BY FS_EmptySet
    <3> QED
      BY <3>1, <3>2 DEF IsOf
  <2>2. chans.progress = 0
    BY <1>3, <1>7 DEF ChansPushed
  <2>3. ~Restarts => g.progressAll[m] \in Nat /\ g.progressAll[m] = 0
    BY <1>7, <1>9, <2>1, <2>2
  <2> QED
    BY <1>2, <1>3, <1>4, <1>5, <1>7, <2>3 DEF FramePushed, ChansPushed, Continues
<1>8. CASE m = msg.machine /\ msg.status # "STARTED"
  <2> DEFINE before == SentFor(sent, m, s)
  <2>1. before # {} /\ IsFiniteSet(before) /\ msg.data \notin before
    BY <1>8 DEF Continues, SentFor
  <2>2. Cardinality(before) \in Nat /\ Cardinality(before) # 0
    BY <2>1, FS_CardinalityType, FS_EmptySet
  <2>3. Cardinality(before \cup {msg.data}) = Cardinality(before) + 1
    BY <2>1, FS_AddElement
  <2>4. Cardinality(SentFor(now, m, s)) = Cardinality(before) + 1
    BY <1>5, <1>8, <2>3
  <2>5. chans.progress = Cardinality(before)
    BY <1>3, <1>8 DEF ChansPushed, Continues, SentFor
  <2>6. ~Restarts => /\ frame.progressAll[m] \in Nat
                     /\ frame.progressAll[m] = 0 \/ frame.progressAll[m] < Cardinality(before)
    BY DEF IsOf
  <2>7. ~Restarts => /\ g.progressAll[m] \in Nat
                     /\ g.progressAll[m] < Cardinality(SentFor(now, m, s))
    BY <1>8, <1>9, <2>2, <2>4, <2>5, <2>6
  <2>8. Cardinality(SentFor(now, m, s)) > 1
    BY <2>2, <2>4
  <2>9. m \in frame.receivedAll /\ Held(frame, m) = before
    BY <2>1 DEF IsOf
  <2>10. m \in g.receivedAll /\ Held(g, m) = SentFor(now, m, s)
    BY <1>2, <1>4, <1>5, <1>8, <2>9 DEF FramePushed
  <2> QED
    BY <1>5, <1>8, <2>7, <2>8, <2>10
<1> QED
  BY <1>6, <1>7, <1>8

(* The progress that a frame shows of a machine does not drop, and it says *)
(* that it has started only before it has any.                             *)
ShowsNoLess(frame, g) ==
    /\ \A m \in Machine : /\ frame.progressAll[m] \in Nat /\ g.progressAll[m] \in Nat
                          /\ frame.progressAll[m] <= g.progressAll[m]
    /\ \/ g.status # "STARTED" \/ frame.status = "STARTED"
       \/ \A m \in Machine : frame.progressAll[m] = 0

LEMMA PushFrameShowsNoLess ==
    ASSUME ~Restarts, NEW sent, NEW msg, Continues(sent, msg),
           NEW frame, Collects(frame), IsOf(sent, frame, msg.syncId), NEW staged, NEW slow
    PROVE  ShowsNoLess(frame, PushFrame(frame, msg, staged, slow))
<1> DEFINE g == PushFrame(frame, msg, staged, slow)
           m == msg.machine
           chans == PushChans(frame.chans[m], msg)
           before == SentFor(sent, m, msg.syncId)
<1>1. m \in Machine
  BY DEF Continues
<1>2. FramePushed(frame, msg, chans, g) /\ ChansPushed(frame.chans[m], msg, chans)
  BY <1>1, PushFrameEffect, PushChansEffect DEF Collects
<1> HIDE DEF g, chans
<1>3. \A n \in Machine : frame.progressAll[n] \in Nat
  BY DEF IsOf
<1>4. /\ g.progressAll[m] \in {frame.progressAll[m], chans.progress}
      /\ \A n \in Machine : n # m => g.progressAll[n] = frame.progressAll[n]
  BY <1>1, <1>2 DEF FramePushed, Collects
<1>5. /\ IsFiniteSet(before)
      /\ IF msg.status = "STARTED" THEN msg.progress = 0 /\ before = {}
                                   ELSE msg.progress = Cardinality(before)
  BY DEF Continues, SentFor
<1>6. /\ Cardinality(before) \in Nat /\ (before = {} => Cardinality(before) = 0)
      /\ frame.progressAll[m] = 0 \/ frame.progressAll[m] < Cardinality(before)
  BY <1>1, <1>5, FS_CardinalityType, FS_EmptySet DEF IsOf
<1> HIDE DEF before
<1>7. chans.progress \in Nat /\ frame.progressAll[m] <= chans.progress
  BY <1>1, <1>2, <1>3, <1>5, <1>6 DEF ChansPushed
<1>8. ASSUME NEW n \in Machine
      PROVE  /\ frame.progressAll[n] \in Nat /\ g.progressAll[n] \in Nat
             /\ frame.progressAll[n] <= g.progressAll[n]
  <2>1. frame.progressAll[n] \in Nat /\ frame.progressAll[n] <= frame.progressAll[n]
    BY <1>3
  <2>2. CASE n # m
    BY <1>4, <2>1, <2>2
  <2>3. CASE n = m
    BY <1>4, <1>7, <2>1, <2>3
  <2> QED
    BY <2>2, <2>3
<1>9. g.status # "STARTED" \/ \A n \in Machine : frame.progressAll[n] = 0
  <2>1. g.status = "STARTED" => g.messagesAll = 1
    BY <1>2 DEF FramePushed, CalcCurrentFrameStatus
  <2>2. g.messagesAll = 1 => frame.messagesAll = 0
    BY <1>2 DEF FramePushed, Collects, Least
  <2> QED
    BY <2>1, <2>2 DEF Collects
<1> QED
  BY <1>8, <1>9 DEF ShowsNoLess, g

-------------------------------------------------------------------------------
(* Resets, and the operations of an image that is sent.  A frame that is   *)
(* recycled for syncId keeps the ids of the messages that it throws away.  *)
Recycled(frame, syncId, active, g) ==
    /\ g.mySyncId = syncId
    /\ g.feedbackActive = active
    /\ g.tunnel = frame.tunnel
    /\ \A m \in Machine : g.chans[m].ids = frame.chans[m].ids

LEMMA RecycledFrame ==
    ASSUME NEW frame, Collects(frame), NEW syncId, NEW active
    PROVE  LET g == ResetFeedback(ResetAllReceivedMessagesCount(
                      ResetWholeHistory(frame, syncId)), active)
           IN  /\ Collects(g) /\ Unheard(g) /\ g.active = 0
               /\ Recycled(frame, syncId, active, g)
<1> DEFINE last == ResetLastHistory(frame)
           whole == ResetWholeHistory(frame, syncId)
           g == ResetFeedback(ResetAllReceivedMessagesCount(whole), active)
<1>1. Counts(g)
  BY ResetWholeHistoryCounts, ResetAllReceivedMessagesCountCounts, ResetFeedbackCounts
     DEF Collects
<1>2. /\ DOMAIN last = Fields
      /\ last.chans = [m \in Machine |-> ResetChans(frame.chans[m])]
      /\ last.received = {} /\ last.messagesTotal = 0
      /\ last.fb = frame.fb
      /\ last.messagesAll = frame.messagesAll
      /\ last.tunnel = frame.tunnel
  BY DEF ResetLastHistory, Collects, Counts, Fields, EmptyFrame
<1> HIDE DEF last
<1>3. /\ DOMAIN whole = Fields
      /\ whole.chans = last.chans
      /\ whole.fb = frame.fb
      /\ whole.received = {} /\ whole.messagesTotal = 0
      /\ whole.receivedAll = {}
      /\ whole.coarseAll = Machine
      /\ whole.statusAll = [m \in Machine |-> "FINISHED"]
      /\ whole.progressAll = [m \in Machine |-> 0]
      /\ whole.active = 0
      /\ whole.merged = FALSE
      /\ whole.mySyncId = syncId /\ whole.tunnel = frame.tunnel
  BY <1>2 DEF ResetWholeHistory, last, Fields, EmptyFrame
<1> HIDE DEF whole
<1>4. /\ g.chans = last.chans
      /\ g.fb = frame.fb
      /\ g.received = {} /\ g.messagesTotal = 0
      /\ g.receivedAll = {}
      /\ g.coarseAll = Machine
      /\ g.statusAll = [m \in Machine |-> "FINISHED"]
      /\ g.progressAll = [m \in Machine |-> 0]
      /\ g.active = 0
      /\ g.merged = FALSE
      /\ g.messagesAll = 0
      /\ g.mySyncId = syncId /\ g.feedbackActive = active /\ g.tunnel = frame.tunnel
  BY <1>3 DEF ResetFeedback, ResetAllReceivedMessagesCount, Fields, EmptyFrame
<1> HIDE DEF g
<1>5. \A m \in Machine : /\ DOMAIN last.chans[m] = DOMAIN EmptyChans
                         /\ last.chans[m].queue = {}
                         /\ last.chans[m].ids = frame.chans[m].ids
  BY <1>2 DEF ResetChans, EmptyChans
<1>6. Collects(g)
  <2>1. DOMAIN g.chans = Machine /\ DOMAIN g.fb = Machine /\ DOMAIN g.statusAll = Machine
    BY <1>2, <1>4 DEF Collects
  <2>2. g.messagesAll \in 0 .. 2
    BY <1>4
  <2> QED
    BY <1>1, <1>4, <1>5, <2>1, <2>2 DEF Collects
<1>7. Unheard(g)
  BY <1>4 DEF Unheard
<1>8. Recycled(frame, syncId, active, g)
  BY <1>4, <1>5 DEF Recycled
<1> QED
  BY <1>4, <1>6, <1>7, <1>8 DEF g, whole

LEMMA RecycledForUnheard ==
    ASSUME NEW frame, Collects(frame), NEW syncId
    PROVE  /\ Collects(RecycledFor(frame, syncId)) /\ Unheard(RecycledFor(frame, syncId))
           /\ RecycledFor(frame, syncId).active = 0
BY RecycledFrame DEF RecycledFor

(* A frame is decoded, merged and reset: what it holds stays, and nothing  *)
(* that the client has been told changes.                                  *)
SentFrame(frame, request, sameReso) ==
    ResetLastHistory(Merge(DecodeAll(frame), request, sameReso))

ShowsSame(frame, g) ==
    /\ \A m \in Machine : Held(g, m) = Held(frame, m)
    /\ g.receivedAll = frame.receivedAll
    /\ g.active = frame.active
    /\ g.coarseAll = frame.coarseAll
    /\ g.messagesAll = frame.messagesAll
    /\ g.statusAll = frame.statusAll
    /\ g.progressAll = frame.progressAll
    /\ g.status = frame.status
    /\ g.mySyncId = frame.mySyncId
    /\ g.feedbackActive = frame.feedbackActive
    /\ g.tunnel = frame.tunnel

(* The messages are decoded, and their ids told.                           *)
SentOut(frame, sameReso, g) ==
    /\ g.merged = IF Merges(DecodeAll(frame), sameReso) THEN TRUE ELSE frame.merged
    /\ g.fb = DecodeAll(frame).fb
    /\ g.received = {}
    /\ \A m \in Machine :
          /\ g.chans[m].queue = {}
          /\ g.chans[m].ids = IF m \in frame.received THEN <<>> ELSE frame.chans[m].ids

LEMMA SentFrameShowsSame ==
    ASSUME NEW frame, Collects(frame), NEW request, NEW sameReso
    PROVE  LET g == SentFrame(frame, request, sameReso)
           IN  /\ Collects(g)
               /\ ShowsSame(frame, g)
               /\ frame.messagesTotal = 0 => g.merged = frame.merged
               /\ SentOut(frame, sameReso, g)
<1> DEFINE decoded == DecodeAll(frame)
           collected == IF decoded.messagesTotal = 0 THEN decoded ELSE CollectGarbage(decoded)
           merged == Merge(decoded, request, sameReso)
           g == ResetLastHistory(merged)
           Same(f) == /\ DOMAIN f = Fields
                      /\ f.receivedAll = frame.receivedAll
                      /\ f.active = frame.active
                      /\ f.coarseAll = frame.coarseAll
                      /\ f.messagesAll = frame.messagesAll
                      /\ f.statusAll = frame.statusAll
                      /\ f.progressAll = frame.progressAll
                      /\ f.status = frame.status
                      /\ f.mySyncId = frame.mySyncId
                      /\ f.feedbackActive = frame.feedbackActive
                      /\ f.tunnel = frame.tunnel
<1>1. Counts(g)
  BY DecodeAllCounts, MergeCounts, ResetLastHistoryCounts DEF Collects
<1>2. /\ Same(decoded)
      /\ decoded.messagesTotal = frame.messagesTotal
      /\ decoded.merged = frame.merged
  BY DEF DecodeAll, Collects, Counts, Fields, EmptyFrame
<1>3. \A m \in Machine : decoded.fb[m] = Held(frame, m)
  <2> SUFFICES ASSUME NEW m \in Machine PROVE decoded.fb[m] = Held(frame, m)
    OBVIOUS
  <2>1. CASE frame.messagesTotal = 0
    <3>1. frame.chans[m].queue = {}
      BY <2>1 DEF Collects
    <3> QED
      BY <2>1, <3>1 DEF DecodeAll, Held
  <2>2. CASE frame.messagesTotal # 0
    <3>1. decoded.fb = [n \in Machine |-> IF n \in frame.received
                                            THEN frame.fb[n] \cup frame.chans[n].queue
                                            ELSE frame.fb[n]]
      BY <2>2 DEF DecodeAll, Collects, Counts, Fields, EmptyFrame
    <3>2. m \notin frame.received => frame.chans[m].queue = {}
      BY DEF Collects
    <3> HIDE DEF decoded
    <3> QED
      BY <3>1, <3>2 DEF Held
  <2> QED
    BY <2>1, <2>2
<1>4. /\ DOMAIN decoded.fb = Machine
      /\ DOMAIN decoded.chans = Machine
      /\ \A m \in Machine : DOMAIN decoded.chans[m] = DOMAIN EmptyChans
  BY DEF DecodeAll, DecodeChans, Collects, Counts, Fields, EmptyFrame
<1>12. \A m \in Machine :
         decoded.chans[m].ids = IF m \in frame.received THEN <<>> ELSE frame.chans[m].ids
  BY DEF DecodeAll, DecodeChans, EmptyChans, Collects, Counts, Fields, EmptyFrame
<1> HIDE DEF decoded
<1>5. /\ Same(collected)
      /\ collected.fb = decoded.fb
      /\ collected.chans = decoded.chans
      /\ collected.merged = decoded.merged
  BY <1>2 DEF CollectGarbage, Fields, EmptyFrame
<1> HIDE DEF collected
<1>6. merged = IF Merges(decoded, sameReso)
                 THEN [collected EXCEPT
                         !.merged = TRUE,
                         !.partialMergeStartTileId = NextStartTileId(@, request, TotalTiles)]
                 ELSE collected
  BY DEF Merge, collected
<1> HIDE DEF merged
<1>7. /\ Same(merged)
      /\ merged.fb = decoded.fb
      /\ merged.chans = decoded.chans
      /\ frame.messagesTotal = 0 => merged.merged = frame.merged
      /\ merged.merged = IF Merges(decoded, sameReso) THEN TRUE ELSE frame.merged
  BY <1>2, <1>5, <1>6 DEF Merges, Fields, EmptyFrame
<1>8. /\ Same(g)
      /\ g.fb = decoded.fb
      /\ g.chans = [m \in Machine |-> ResetChans(decoded.chans[m])]
      /\ g.received = {} /\ g.messagesTotal = 0
      /\ g.merged = merged.merged
  BY <1>7 DEF ResetLastHistory, Fields, EmptyFrame
<1> HIDE DEF g
<1>9. \A m \in Machine : /\ DOMAIN g.chans[m] = DOMAIN EmptyChans
                         /\ g.chans[m].queue = {}
                         /\ g.chans[m].ids = decoded.chans[m].ids
  BY <1>8 DEF ResetChans, EmptyChans
<1>10. Collects(g)
  BY <1>1, <1>4, <1>8, <1>9 DEF Collects
<1>11. ShowsSame(frame, g)
  BY <1>3, <1>8, <1>9 DEF ShowsSame, Held
<1>13. SentOut(frame, sameReso, g)
  BY <1>7, <1>8, <1>9, <1>12 DEF SentOut, decoded
<1> QED
  BY <1>7, <1>8, <1>10, <1>11, <1>13 DEF SentFrame, g, merged, decoded

LEMMA ShowsSameIsOf ==
    ASSUME NEW sent, NEW frame, NEW g, NEW s, ShowsSame(frame, g), IsOf(sent, frame, s)
    PROVE  IsOf(sent, g, s) /\ (IsReadyAll(g) <=> IsReadyAll(frame))
BY DEF ShowsSame, IsOf, IsReadyAll

LEMMA UnheardIsOf ==
    ASSUME NEW sent, NEW frame, Unheard(frame), NEW s,
           \A m \in Machine : SentFor(sent, m, s) = {}
    PROVE  IsOf(sent, frame, s)
BY DEF Unheard, IsOf

-------------------------------------------------------------------------------
(* The inductive invariant.  Every rendering begins with a STARTED message,*)
(* syncIds only grow, and the messages of a machine are numbered.          *)
Senders ==
    /\ DOMAIN mcrt = Machine /\ IsRecord(rendered)
    /\ \A m \in Machine :
          /\ mcrt[m].syncId \in SyncId \cup {-1}
          /\ mcrt[m].data \in Nat /\ mcrt[m].progress \in Nat
          /\ mcrt[m].syncId = -1 => mcrt[m].status = "FINISHED"
          /\ mcrt[m].syncId # -1 => rendered[m][mcrt[m].syncId] # {}
          /\ mcrt[m].syncId # -1 =>
                Cardinality(rendered[m][mcrt[m].syncId]) = mcrt[m].progress + 1
          /\ \A s \in SyncId : /\ rendered[m][s] # {} => s <= mcrt[m].syncId
                               /\ rendered[m][s] \subseteq 1 .. mcrt[m].data

(* The slot of a syncId that the merge type's frames are for, and these    *)
(* syncIds.                                                                *)
NewestId == IF mergeType = "SYNCID_LINEUP" THEN endSyncFrameId ELSE displaySyncFrameId
LiveSlot(s) == IF mergeType = "SYNCID_LINEUP" THEN SlotOf(ptrTable, startSyncFrameId, s) ELSE 1

(* A frame that waits behind the display frame is neither complete nor     *)
(* merged.                                                                 *)
Contents ==
    /\ mergeType \in MergeType
    /\ DOMAIN frames = Slot /\ \A slot \in Slot : Collects(frames[slot])
    /\ mergeType # "SYNCID_LINEUP" => displayFrame = 1
    /\ displaySyncFrameId \in Int
    /\ IF displaySyncFrameInitialize
         THEN /\ mergeType # "SYNCID_LINEUP" => displaySyncFrameId \in SyncId
              /\ \A m \in Machine : mcrt[m].syncId <= NewestId
              /\ mergeType # "SEAMLESS_COMBINE" =>
                   \A s \in displaySyncFrameId .. NewestId :
                      /\ IsOf(rendered, frames[LiveSlot(s)], s)
                      /\ s # displaySyncFrameId =>
                            ~IsReadyAll(frames[LiveSlot(s)]) /\ ~frames[LiveSlot(s)].merged
              /\ mergeType = "SEAMLESS_COMBINE" =>
                   \A m \in Machine : mcrt[m].syncId # -1 =>
                      Held(frames[1], m) = rendered[m][mcrt[m].syncId]
         ELSE /\ \A m \in Machine : mcrt[m].syncId = -1
              /\ mergeType = "SYNCID_LINEUP" => displayFrame = 0
              /\ \A slot \in Slot : Unheard(frames[slot])

ContentsInv == WindowInv /\ Senders /\ Contents

-------------------------------------------------------------------------------
(* A message as its sender makes it.                                       *)
Sends(msg) ==
    /\ Continues(rendered, msg)
    /\ rendered' = RecordAfter(rendered, msg)
    /\ mcrt' = [mcrt EXCEPT ![msg.machine] =
                  [syncId |-> msg.syncId, status |-> msg.status,
                   progress |-> msg.progress, data |-> msg.data]]
    /\ mcrt[msg.machine].syncId <= msg.syncId
    /\ msg.status # "STARTED" => msg.syncId = mcrt[msg.machine].syncId
    /\ msg.data = mcrt[msg.machine].data + 1 /\ msg.progress \in Nat
    /\ msg.actionId = IF ActionIds THEN msg.data ELSE NoActionId
    /\ ~Restarts /\ msg.status = "STARTED" => mcrt[msg.machine].syncId < msg.syncId

LEMMA IdIsInt == \A s \in SyncId : s \in Nat /\ s \in Int /\ s # -1
BY SyncIdAssumption

LEMMA SentIsFinite ==
    ASSUME Senders, NEW m \in Machine, NEW s \in SyncId
    PROVE  IsFiniteSet(rendered[m][s])
<1>1. mcrt[m].data \in Nat /\ rendered[m][s] \subseteq 1 .. mcrt[m].data
  BY DEF Senders
<1>2. IsFiniteSet(1 .. mcrt[m].data)
  <2>1. 1 \in Int /\ mcrt[m].data \in Int
    BY <1>1
  <2> QED
    BY <2>1, FS_Interval
<1> QED
  BY <1>1, <1>2, FS_Subset

(* Every message that is received has been made that way.                  *)
LEMMA ReceivedMessage ==
    ASSUME Senders, ReceiveMessage
    PROVE  \E msg, slow, callbackOutcome :
              /\ Sends(msg)
              /\ callbackOutcome \in CallbackOutcomes
              /\ Push(msg, slow, callbackOutcome)
<1> PICK m \in Machine, slow \in BOOLEAN, callbackOutcome \in CallbackOutcomes :
        \/ \E s \in SyncId : ReceiveStarted(m, s, slow, callbackOutcome)
        \/ \E status \in LaterStatuses : ReceiveLater(m, status, slow, callbackOutcome)
  BY DEF ReceiveMessage
<1>1. CASE \E s \in SyncId : ReceiveStarted(m, s, slow, callbackOutcome)
  <2> PICK s \in SyncId : ReceiveStarted(m, s, slow, callbackOutcome)
    BY <1>1
  <2> DEFINE msg == Message(m, s, "STARTED", 0)
  <2>1. /\ msg.machine = m /\ msg.syncId = s /\ msg.status = "STARTED"
        /\ msg.progress = 0 /\ msg.data = mcrt[m].data + 1 /\ msg.coarseDone = (0 > 0)
        /\ msg.actionId = IF ActionIds THEN msg.data ELSE NoActionId
    BY DEF Message
  <2>2. Push(msg, slow, callbackOutcome) /\ StartedMessage(m, s)
    BY DEF ReceiveStarted
  <2> HIDE DEF msg
  <2>3. mcrt[m].syncId \in Int /\ s \in Int /\ ~(0 > 0)
    BY IdIsInt DEF Senders
  <2>5. /\ mcrt[m].syncId <= s
        /\ ~Restarts => mcrt[m].syncId < s
    BY <2>2, <2>3 DEF StartedMessage
  <2>8. ~Restarts => rendered[m][s] = {}
    BY <2>3, <2>5 DEF Senders
  <2>9. IsFiniteSet(rendered[m][s])
    BY SentIsFinite
  <2>10. rendered' = RecordAfter(rendered, msg)
    BY <2>1, <2>2 DEF StartedMessage, RecordAfter
  <2>4. Continues(rendered, msg) /\ rendered' = RecordAfter(rendered, msg)
    BY <2>1, <2>3, <2>8, <2>9, <2>10 DEF Continues
  <2>6. mcrt' = [mcrt EXCEPT ![msg.machine] =
                  [syncId |-> msg.syncId, status |-> msg.status,
                   progress |-> msg.progress, data |-> msg.data]]
    BY <2>2 DEF Push
  <2>7. Sends(msg)
    BY <2>1, <2>4, <2>5, <2>6 DEF Sends
  <2> QED
    BY <2>2, <2>7
<1>2. CASE \E status \in LaterStatuses : ReceiveLater(m, status, slow, callbackOutcome)
  <2> PICK status \in LaterStatuses : ReceiveLater(m, status, slow, callbackOutcome)
    BY <1>2
  <2> DEFINE s == mcrt[m].syncId
             progress == mcrt[m].progress + 1
             msg == Message(m, s, status, progress)
  <2>1. Push(msg, slow, callbackOutcome) /\ LaterMessage(m)
    BY DEF ReceiveLater
  <2>2. /\ msg.machine = m /\ msg.syncId = s /\ msg.status = status
        /\ msg.progress = progress /\ msg.data = mcrt[m].data + 1
        /\ msg.coarseDone = (progress > 0)
        /\ msg.actionId = IF ActionIds THEN msg.data ELSE NoActionId
    BY DEF Message
  <2> HIDE DEF msg
  <2>3. s \in SyncId /\ rendered[m][s] # {} /\ rendered[m][s] \subseteq 1 .. mcrt[m].data
    BY <2>1 DEF LaterMessage, Senders
  <2>4. mcrt[m].data \in Nat /\ s \in Int
    BY <2>3, IdIsInt DEF Senders
  <2>5. IsFiniteSet(rendered[m][s])
    BY <2>3, SentIsFinite
  <2>12. progress = Cardinality(rendered[m][s])
    BY <2>3, IdIsInt DEF Senders
  <2>11. mcrt[m].data + 1 \notin rendered[m][s]
    BY <2>3, <2>4
  <2>6. progress \in Nat /\ progress > 0
    BY DEF Senders
  <2>7. status # "STARTED"
    BY InputAssumption
  <2>8. Continues(rendered, msg) /\ rendered' = RecordAfter(rendered, msg)
    BY <2>1, <2>2, <2>3, <2>5, <2>6, <2>7, <2>11, <2>12
       DEF LaterMessage, Continues, RecordAfter
  <2>9. mcrt' = [mcrt EXCEPT ![msg.machine] =
                  [syncId |-> msg.syncId, status |-> msg.status,
                   progress |-> msg.progress, data |-> msg.data]]
    BY <2>1 DEF Push
  <2>10. Sends(msg)
    BY <2>2, <2>4, <2>6, <2>7, <2>8, <2>9 DEF Sends
  <2> QED
    BY <2>1, <2>10
<1> QED
  BY <1>1, <1>2

LEMMA SendersStep ==
    ASSUME Senders, NEW msg, Sends(msg)
    PROVE  Senders'
<1> DEFINE m == msg.machine
           s == msg.syncId
<1>1. /\ m \in Machine /\ s \in SyncId /\ s \in Int /\ s # -1 /\ msg.progress \in Nat
      /\ mcrt[m].syncId \in Int /\ mcrt[m].data \in Nat
  BY IdIsInt DEF Sends, Continues, Senders
<1>2. /\ mcrt' = [mcrt EXCEPT ![m] = [syncId |-> s, status |-> msg.status,
                                      progress |-> msg.progress, data |-> msg.data]]
      /\ rendered' = [rendered EXCEPT ![m][s] =
                        IF msg.status = "STARTED" THEN {msg.data} ELSE @ \cup {msg.data}]
      /\ mcrt[m].syncId <= s /\ msg.data = mcrt[m].data + 1
  BY DEF Sends, RecordAfter
<1>3. DOMAIN mcrt' = Machine /\ IsRecord(rendered')
  BY <1>2 DEF Senders, IsRecord
<1>4. ASSUME NEW n \in Machine, n # m
      PROVE  mcrt'[n] = mcrt[n] /\ rendered'[n] = rendered[n]
  BY <1>2, <1>4 DEF Senders, IsRecord
<1>5. /\ mcrt'[m].syncId = s /\ mcrt'[m].data = mcrt[m].data + 1
      /\ mcrt'[m].progress = msg.progress
      /\ rendered'[m][s] = IF msg.status = "STARTED" THEN {msg.data}
                           ELSE rendered[m][s] \cup {msg.data}
      /\ \A id \in SyncId : id # s => rendered'[m][id] = rendered[m][id]
  BY <1>1, <1>2 DEF Senders, IsRecord
<1>6. ASSUME NEW id \in SyncId
      PROVE  /\ rendered'[m][id] # {} => id <= s
             /\ rendered'[m][id] \subseteq 1 .. mcrt[m].data + 1
  <2>1. id \in Int /\ rendered[m][id] \subseteq 1 .. mcrt[m].data
    BY <1>1, IdIsInt DEF Senders
  <2>2. rendered[m][id] # {} => id <= mcrt[m].syncId
    BY <1>1 DEF Senders
  <2>3. CASE id = s
    <3>1. rendered'[m][s] \subseteq {msg.data} \cup rendered[m][s]
      BY <1>5
    <3>2. msg.data \in 1 .. mcrt[m].data + 1 /\ s <= s
      BY <1>1, <1>2, IdIsInt
    <3>3. rendered[m][s] \subseteq 1 .. mcrt[m].data + 1
      BY <1>1, <2>1, <2>3
    <3> QED
      BY <2>3, <3>1, <3>2, <3>3
  <2>4. CASE id # s
    <3>1. rendered'[m][id] = rendered[m][id]
      BY <1>5, <2>4
    <3>2. 1 .. mcrt[m].data \subseteq 1 .. mcrt[m].data + 1
      BY <1>1
    <3>3. mcrt[m].syncId \in Int /\ s \in Int /\ mcrt[m].syncId <= s
      BY <1>1, <1>2, IdIsInt
    <3>4. rendered[m][id] # {} => id <= s
      BY <2>1, <2>2, <3>3
    <3> QED
      BY <2>1, <3>1, <3>2, <3>4
  <2> QED
    BY <2>3, <2>4
<1>7. ASSUME NEW n \in Machine
      PROVE  /\ mcrt'[n].syncId \in SyncId \cup {-1}
             /\ mcrt'[n].data \in Nat /\ mcrt'[n].progress \in Nat
             /\ mcrt'[n].syncId = -1 => mcrt'[n].status = "FINISHED"
             /\ mcrt'[n].syncId # -1 => rendered'[n][mcrt'[n].syncId] # {}
             /\ mcrt'[n].syncId # -1 =>
                   Cardinality(rendered'[n][mcrt'[n].syncId]) = mcrt'[n].progress + 1
             /\ \A id \in SyncId : /\ rendered'[n][id] # {} => id <= mcrt'[n].syncId
                                   /\ rendered'[n][id] \subseteq 1 .. mcrt'[n].data
  <2>1. CASE n # m
    BY <1>4, <2>1 DEF Senders
  <2>2. CASE n = m
    <3>1. mcrt'[m].data \in Nat /\ mcrt'[m].progress \in Nat
      BY <1>1, <1>5
    <3>2. rendered'[m][s] # {}
      BY <1>5
    <3>3. \A id \in SyncId : /\ rendered'[m][id] # {} => id <= mcrt'[m].syncId
                             /\ rendered'[m][id] \subseteq 1 .. mcrt'[m].data
      BY <1>5, <1>6
    <3>4. Cardinality(rendered'[m][s]) = mcrt'[m].progress + 1
      <4> DEFINE before == rendered[m][s]
      <4>1. IsFiniteSet(before) /\ Cardinality(before) \in Nat
        BY <1>1, SentIsFinite, FS_CardinalityType
      <4>2. CASE msg.status = "STARTED"
        <5>1. msg.progress = 0
          BY <4>2 DEF Sends, Continues
        <5>2. Cardinality({msg.data}) = 1
          BY FS_Singleton
        <5> QED
          BY <1>5, <4>2, <5>1, <5>2
      <4>3. CASE msg.status # "STARTED"
        <5>1. msg.data \notin before /\ msg.progress = Cardinality(before)
          BY <4>3 DEF Sends, Continues
        <5> QED
          BY <1>5, <4>1, <4>3, <5>1, FS_AddElement, ZenonT(60)
      <4> QED
        BY <4>2, <4>3
    <3> QED
      BY <1>1, <1>5, <2>2, <3>1, <3>2, <3>3, <3>4
  <2> QED
    BY <2>1, <2>2
<1> QED
  BY <1>3, <1>7 DEF Senders

-------------------------------------------------------------------------------
(* The window: the frames of the ids that stay in it are the same frames,  *)
(* and those of the ids that come in have not been heard on.               *)
FrameAt(window, s) == window.frames[SlotOf(window.ptrTable, window.start, s)]

AllCollect(table) == DOMAIN table = Slot /\ \A slot \in Slot : Collects(table[slot])

LEMMA WindowSlots ==
    ASSUME NEW window, IsWindow(window), NEW s \in window.start .. window.end
    PROVE  /\ s \in Int
           /\ SlotOf(window.ptrTable, window.start, s) \in Slot
           /\ \A id \in window.start .. window.end :
                 SlotOf(window.ptrTable, window.start, id)
                   = SlotOf(window.ptrTable, window.start, s) => id = s
<1>1. window.start \in Int /\ window.end = window.start + CacheFrames - 1
  BY DEF IsWindow
<1>2. ASSUME NEW id \in window.start .. window.end
      PROVE  id \in Int /\ id - window.start + 1 \in Slot
  BY <1>1, CacheFramesAssumption DEF Slot
<1>3. IsTable(window.ptrTable)
  BY DEF IsWindow
<1>4. SlotOf(window.ptrTable, window.start, s) \in Slot
  BY <1>2, <1>3 DEF SlotOf, IsTable
<1>5. ASSUME NEW id \in window.start .. window.end,
             SlotOf(window.ptrTable, window.start, id)
               = SlotOf(window.ptrTable, window.start, s)
      PROVE  id = s
  <2>1. id - window.start + 1 = s - window.start + 1
    BY <1>2, <1>3, <1>5 DEF SlotOf, IsTable, IsInjective
  <2> QED
    BY <1>1, <1>2, <2>1
<1> QED
  BY <1>2, <1>4, <1>5

ShiftKeeps(window, w) ==
    /\ AllCollect(w.frames)
    /\ w.displayId # window.displayId => window.displayId < w.displayId /\ w.displayId = w.start
    /\ \A s \in w.displayId .. w.end :
          IF s <= window.end THEN s >= window.displayId /\ FrameAt(w, s) = FrameAt(window, s)
          ELSE Unheard(FrameAt(w, s)) /\ FrameAt(w, s).active = 0

LEMMA ShiftedKeeps ==
    ASSUME NEW window, IsWindow(window), AllCollect(window.frames), NEW count \in Nat
    PROVE  ShiftKeeps(window, Shifted(window, count))
<1> DEFINE table == ShiftedPtrTable(window.ptrTable, count)
           start == window.start + count
           RecycledIds(slot) == {id \in start .. window.end + count :
                                   id > window.end /\ SlotOf(table, start, id) = slot}
           recycled == [slot \in Slot |->
                          IF RecycledIds(slot) = {} THEN window.frames[slot]
                          ELSE RecycledFor(window.frames[slot],
                                           CHOOSE id \in RecycledIds(slot) : TRUE)]
           moved == [window EXCEPT !.frames = recycled, !.ptrTable = table,
                                   !.start = start, !.end = @ + count]
           w == Shifted(window, count)
<1>1. w = WithDisplayInside(moved)
  BY DEF Shifted
<1>2. /\ moved.frames = recycled
      /\ moved.ptrTable = table
      /\ moved.start = start
      /\ moved.end = window.end + count
      /\ moved.displayId = window.displayId
      /\ DOMAIN moved = DOMAIN window
  BY DEF IsWindow
<1>3. IsWindow(w) /\ w.end = window.end + count
  BY ShiftedIsWindow
<1> HIDE DEF moved
<1>4. /\ w.frames = recycled
      /\ w.ptrTable = table
      /\ w.start = start
      /\ w.displayId = IF window.displayId < start THEN start ELSE window.displayId
  BY <1>1, <1>2 DEF WithDisplayInside, IsWindow
<1>5. /\ window.start \in Int /\ window.end \in Int /\ window.displayId \in Int
      /\ start \in Int /\ w.displayId \in start .. w.end
      /\ window.end = window.start + CacheFrames - 1
  BY <1>3, <1>4, CacheFramesAssumption DEF IsWindow
<1> HIDE DEF w
<1>6. ASSUME NEW slot \in Slot, RecycledIds(slot) # {}
      PROVE  /\ Collects(recycled[slot]) /\ Unheard(recycled[slot])
             /\ recycled[slot].active = 0
  <2> DEFINE id == CHOOSE id \in RecycledIds(slot) : TRUE
  <2>1. recycled[slot] = RecycledFor(window.frames[slot], id)
    BY <1>6
  <2> HIDE DEF id, recycled
  <2> QED
    BY <2>1, RecycledForUnheard DEF AllCollect
<1>7. AllCollect(w.frames)
  <2> SUFFICES ASSUME NEW slot \in Slot PROVE Collects(recycled[slot])
    BY <1>4 DEF AllCollect
  <2>1. CASE RecycledIds(slot) = {}
    BY <2>1 DEF AllCollect
  <2> QED
    BY <1>6, <2>1
<1>8. ASSUME NEW s \in w.displayId .. w.end
      PROVE  IF s <= window.end THEN s >= window.displayId /\ FrameAt(w, s) = FrameAt(window, s)
             ELSE Unheard(FrameAt(w, s)) /\ FrameAt(w, s).active = 0
  <2> DEFINE slot == SlotOf(table, start, s)
  <2>1. s \in start .. w.end /\ s \in Int /\ s >= window.displayId
    BY <1>3, <1>4, <1>5
  <2>2. /\ slot \in Slot
        /\ \A id \in start .. w.end : SlotOf(table, start, id) = slot => id = s
    BY <1>3, <1>4, <2>1, WindowSlots
  <2>3. FrameAt(w, s) = recycled[slot]
    BY <1>4 DEF FrameAt
  <2> HIDE DEF table
  <2>4. CASE s <= window.end
    <3>1. RecycledIds(slot) = {}
      BY <1>3, <1>5, <2>2, <2>4
    <3>2. FrameAt(w, s) = window.frames[slot]
      BY <2>2, <2>3, <3>1
    <3>3. slot = SlotOf(window.ptrTable, window.start, s)
      <4>1. s \in window.start + count .. window.start + CacheFrames - 1
        BY <1>5, <2>1, <2>4
      <4> QED
        BY <1>5, <4>1, RotationKeepsSlot DEF table
    <3> QED
      BY <2>1, <2>4, <3>2, <3>3 DEF FrameAt
  <2>5. CASE ~(s <= window.end)
    <3>1. s \in RecycledIds(slot)
      BY <1>3, <1>5, <2>1, <2>5
    <3> QED
      BY <1>6, <2>2, <2>3, <2>5, <3>1
  <2> QED
    BY <2>4, <2>5
<1>9. w.displayId # window.displayId => window.displayId < w.displayId /\ w.displayId = w.start
  BY <1>4, <1>5
<1> QED
  BY <1>7, <1>8, <1>9 DEF ShiftKeeps, w

LEMMA UnheardIsNotReady ==
    ASSUME NEW frame, Collects(frame), Unheard(frame)
    PROVE  ~IsReadyAll(frame)
<1>1. frame.active = 0
  BY FS_EmptySet DEF Collects, Unheard, Counts, ActiveIsCount
<1>2. Cardinality(Machine) # 0
  BY MachineAssumption, FS_EmptySet
<1> QED
  BY <1>1, <1>2 DEF IsReadyAll

LEMMA ReadyHasHeardAll ==
    ASSUME NEW frame, Collects(frame)
    PROVE  IsReadyAll(frame) <=> frame.receivedAll = Machine
<1>1. /\ frame.receivedAll \subseteq Machine
      /\ frame.active = Cardinality(frame.receivedAll)
  BY DEF Collects, Counts, ActiveIsCount
<1>2. IsFiniteSet(Machine)
  BY MachineAssumption
<1>3. Cardinality(frame.receivedAll) = Cardinality(Machine) => frame.receivedAll = Machine
  BY <1>1, <1>2, FS_Subset
<1> QED
  BY <1>1, <1>3 DEF IsReadyAll

(* Nothing has been sent for an id past the newest one.                    *)
LEMMA NothingBeyond ==
    ASSUME Senders, NEW newest \in Int, \A m \in Machine : mcrt[m].syncId <= newest,
           NEW s \in Int, s > newest, NEW m \in Machine
    PROVE  SentFor(rendered, m, s) = {}
<1>1. mcrt[m].syncId \in Int /\ mcrt[m].syncId <= newest
  BY IdIsInt DEF Senders
<1>2. s \in SyncId /\ rendered[m][s] # {} => s <= mcrt[m].syncId
  BY DEF Senders
<1> QED
  BY <1>1, <1>2 DEF SentFor

(* What a window holds that has been made ready for the message of syncId, *)
(* w, in the terms of the window before.                                   *)
ReadyFor(w, syncId) ==
    /\ IsWindow(w)
    /\ AllCollect(w.frames)
    /\ syncId \in w.displayId .. w.end
    /\ \A m \in Machine : mcrt[m].syncId <= w.end
    /\ \A s \in w.displayId .. w.end :
          /\ IsOf(rendered, FrameAt(w, s), s)
          /\ IF displaySyncFrameInitialize /\ s = displaySyncFrameId
               THEN FrameAt(w, s) = frames[displayFrame]
               ELSE ~IsReadyAll(FrameAt(w, s)) /\ ~FrameAt(w, s).merged
    /\ displaySyncFrameInitialize /\ w.displayId # displaySyncFrameId =>
          displaySyncFrameId < w.displayId /\ w.displayId = w.start

LEMMA WindowForIsReady ==
    ASSUME ContentsInv, mergeType = "SYNCID_LINEUP", NEW syncId \in SyncId,
           displaySyncFrameInitialize => displaySyncFrameId <= syncId
    PROVE  ReadyFor(WindowFor(syncId), syncId)
<1> DEFINE w == WindowFor(syncId)
<1>1. /\ syncId \in Int /\ IsWindow(w) /\ syncId \in w.start .. w.end
      /\ w.start \in Int /\ w.end \in Int /\ w.displayId \in Int
  <2>1. syncId \in Int
    BY IdIsInt
  <2>2. IsWindow(w) /\ syncId \in w.start .. w.end
    BY <2>1, WindowForIsWindow DEF ContentsInv
  <2> QED
    BY <2>1, <2>2, CacheFramesAssumption DEF IsWindow
<1>2. AllCollect(frames)
  BY DEF ContentsInv, Contents, AllCollect
<1>3. ASSUME NEW frame, Collects(frame), Unheard(frame), NEW s,
             \A m \in Machine : SentFor(rendered, m, s) = {}
      PROVE  IsOf(rendered, frame, s) /\ ~IsReadyAll(frame) /\ ~frame.merged
  BY <1>3, UnheardIsOf, UnheardIsNotReady DEF Unheard
<1>4. CASE ~displaySyncFrameInitialize
  <2> DEFINE first == InitialWindow(syncId)
  <2>1. /\ first.frames = frames
        /\ first.ptrTable = ptrTable
        /\ first.start = syncId
        /\ first.end = syncId + CacheFrames - 1
        /\ first.displayId = syncId
    BY DEF InitialWindow, Window
  <2>2. w = first
    BY <1>1, <1>4, <2>1, CacheFramesAssumption DEF WindowFor
  <2> HIDE DEF w, first
  <2>3. \A m \in Machine : mcrt[m].syncId = -1
    BY <1>4 DEF ContentsInv, Contents
  <2>4. ASSUME NEW s \in w.displayId .. w.end
        PROVE  /\ IsOf(rendered, FrameAt(w, s), s)
               /\ ~IsReadyAll(FrameAt(w, s)) /\ ~FrameAt(w, s).merged
    <3>1. s \in Int /\ s > -1 /\ SlotOf(w.ptrTable, w.start, s) \in Slot
      BY <1>1, <2>1, <2>2, WindowSlots, IdIsInt
    <3>2. \A m \in Machine : SentFor(rendered, m, s) = {}
      BY <2>3, <3>1, NothingBeyond DEF ContentsInv
    <3>3. Collects(FrameAt(w, s)) /\ Unheard(FrameAt(w, s))
      BY <1>2, <1>4, <2>1, <2>2, <3>1 DEF FrameAt, AllCollect, ContentsInv, Contents
    <3> QED
      BY <1>3, <3>2, <3>3
  <2>5. \A m \in Machine : mcrt[m].syncId <= w.end
    BY <1>1, <2>1, <2>2, <2>3, IdIsInt, CacheFramesAssumption
  <2>6. syncId \in w.displayId .. w.end
    BY <1>1, <2>1, <2>2
  <2>7. AllCollect(w.frames)
    BY <1>2, <2>1, <2>2
  <2>8. IsWindow(w)
    BY <1>1
  <2> QED
    BY <1>4, <2>4, <2>5, <2>6, <2>7, <2>8 DEF ReadyFor, w
<1>5. CASE displaySyncFrameInitialize
  <2>1. IsWindow(Window)
    BY <1>5 DEF ContentsInv, WindowInv
  <2>2. /\ Window.frames = frames /\ Window.ptrTable = ptrTable
        /\ Window.start = startSyncFrameId /\ Window.end = endSyncFrameId
        /\ Window.displayId = displaySyncFrameId /\ Window.displayFrame = displayFrame
    BY DEF Window
  <2>3. endSyncFrameId \in Int /\ displaySyncFrameId \in Int
    BY <2>1, <2>2, CacheFramesAssumption DEF IsWindow
  <2>4. /\ \A m \in Machine : mcrt[m].syncId <= endSyncFrameId
        /\ \A s \in displaySyncFrameId .. endSyncFrameId :
             /\ IsOf(rendered, FrameAt(Window, s), s)
             /\ s # displaySyncFrameId =>
                  ~IsReadyAll(FrameAt(Window, s)) /\ ~FrameAt(Window, s).merged
    BY <1>5, <2>2 DEF ContentsInv, Contents, NewestId, LiveSlot, FrameAt
  <2>5. FrameAt(Window, displaySyncFrameId) = frames[displayFrame]
    BY <2>1, <2>2 DEF FrameAt, IsWindow
  <2>6. ShiftKeeps(Window, w) /\ endSyncFrameId <= w.end
    <3>1. CASE syncId > endSyncFrameId
      <4>1. syncId - endSyncFrameId \in Nat
        BY <1>1, <2>3, <3>1
      <4>2. w = Shifted(Window, syncId - endSyncFrameId)
        BY <1>5, <2>2, <3>1 DEF WindowFor
      <4> QED
        BY <1>1, <1>2, <2>1, <2>2, <2>3, <3>1, <4>1, <4>2, ShiftedKeeps
    <3>2. CASE ~(syncId > endSyncFrameId)
      <4>1. w = Window
        BY <1>5, <2>2, <3>2 DEF WindowFor
      <4> HIDE DEF w
      <4> QED
        BY <1>2, <2>2, <2>3, <4>1 DEF ShiftKeeps
    <3> QED
      BY <3>1, <3>2
  <2> HIDE DEF w
  <2>7. ASSUME NEW s \in w.displayId .. w.end
        PROVE  /\ IsOf(rendered, FrameAt(w, s), s)
               /\ IF s = displaySyncFrameId THEN FrameAt(w, s) = frames[displayFrame]
                  ELSE ~IsReadyAll(FrameAt(w, s)) /\ ~FrameAt(w, s).merged
    <3>1. s \in Int /\ displaySyncFrameId <= endSyncFrameId
      BY <1>1, <2>1, <2>2, CacheFramesAssumption DEF IsWindow
    <3>2. CASE s <= endSyncFrameId
      <4>1. s \in displaySyncFrameId .. endSyncFrameId /\ FrameAt(w, s) = FrameAt(Window, s)
        BY <2>2, <2>3, <2>6, <3>1, <3>2 DEF ShiftKeeps
      <4> QED
        BY <2>4, <2>5, <4>1
    <3>3. CASE ~(s <= endSyncFrameId)
      <4>1. Unheard(FrameAt(w, s))
        BY <2>2, <2>6, <3>3 DEF ShiftKeeps
      <4>2. SlotOf(w.ptrTable, w.start, s) \in Slot
        <5>1. s \in w.start .. w.end
          BY <1>1, <3>1 DEF IsWindow
        <5> QED
          BY <1>1, <5>1, WindowSlots
      <4>3. Collects(FrameAt(w, s))
        BY <2>6, <4>2 DEF ShiftKeeps, AllCollect, FrameAt
      <4>4. \A m \in Machine : SentFor(rendered, m, s) = {}
        BY <2>3, <2>4, <3>1, <3>3, NothingBeyond DEF ContentsInv
      <4>5. s # displaySyncFrameId
        BY <2>3, <3>1, <3>3
      <4> QED
        BY <1>3, <4>1, <4>3, <4>4, <4>5
    <3> QED
      BY <3>2, <3>3
  <2>8. \A m \in Machine : mcrt[m].syncId <= w.end
    <3> SUFFICES ASSUME NEW m \in Machine PROVE mcrt[m].syncId <= w.end
      OBVIOUS
    <3>1. mcrt[m].syncId \in Int
      BY IdIsInt DEF ContentsInv, Senders
    <3> QED
      BY <1>1, <2>3, <2>4, <2>6, <3>1
  <2>9. syncId \in w.displayId .. w.end
    BY <1>1, <1>5, <2>2, <2>6 DEF ShiftKeeps
  <2> QED
    BY <1>1, <1>5, <2>2, <2>6, <2>7, <2>8, <2>9 DEF ReadyFor, ShiftKeeps, w
<1> QED
  BY <1>4, <1>5

-------------------------------------------------------------------------------
(* The three merge types' pushes keep the invariant, and what they do to   *)
(* the display: it moves forward, in SYNCID_LINEUP to a complete frame or  *)
(* because its own frame was recycled; a frame that it moves to has not    *)
(* been merged; and a frame that it stays at shows no less progress.       *)
DisplayStep ==
    displaySyncFrameInitialize =>
        \/ displaySyncFrameId' = displaySyncFrameId
        \/ /\ displaySyncFrameId < displaySyncFrameId'
           /\ mergeType = "SYNCID_LINEUP" =>
                \/ displaySyncFrameId < startSyncFrameId'
                \/ \A m \in Machine : rendered'[m][displaySyncFrameId'] # {}

MergedStep ==
    mergeType # "SEAMLESS_COMBINE" /\ frames'[displayFrame'].merged =>
        /\ displaySyncFrameInitialize
        /\ displaySyncFrameId' = displaySyncFrameId
        /\ frames[displayFrame].merged

ProgressStep ==
    /\ ~Restarts /\ displaySyncFrameInitialize /\ mergeType # "SEAMLESS_COMBINE"
    /\ displaySyncFrameId' = displaySyncFrameId
    => ShowsNoLess(frames[displayFrame], frames'[displayFrame'])

LEMMA ShowsNoLessOfSame ==
    ASSUME ~Restarts, NEW sent, NEW frame, NEW s, IsOf(sent, frame, s), NEW g,
           g.progressAll = frame.progressAll, g.status = frame.status
    PROVE  ShowsNoLess(frame, g)
<1>1. \A m \in Machine : /\ frame.progressAll[m] \in Nat
                         /\ frame.progressAll[m] <= frame.progressAll[m]
  BY DEF IsOf
<1> QED
  BY <1>1 DEF ShowsNoLess

(* The frame that an image is sent of.                                     *)
LEMMA DisplayedFrame ==
    ASSUME ContentsInv, displayFrame # 0
    PROVE  /\ displayFrame \in Slot
           /\ displaySyncFrameInitialize =>
                displayFrame = LiveSlot(displaySyncFrameId) /\ displaySyncFrameId <= NewestId
<1>1. 1 \in Slot
  BY CacheFramesAssumption DEF Slot
<1>2. CASE mergeType # "SYNCID_LINEUP"
  BY <1>1, <1>2 DEF ContentsInv, Contents, LiveSlot, NewestId
<1>3. CASE mergeType = "SYNCID_LINEUP"
  <2>1. displaySyncFrameInitialize /\ IsWindow(Window)
    BY <1>3 DEF ContentsInv, Contents, WindowInv
  <2>2. /\ Window.ptrTable = ptrTable /\ Window.start = startSyncFrameId
        /\ Window.end = endSyncFrameId /\ Window.displayId = displaySyncFrameId
        /\ Window.displayFrame = displayFrame
    BY DEF Window
  <2>3. /\ displaySyncFrameId \in startSyncFrameId .. endSyncFrameId
        /\ displayFrame = SlotOf(ptrTable, startSyncFrameId, displaySyncFrameId)
    BY <2>1, <2>2 DEF IsWindow
  <2>4. displayFrame \in Slot
    BY <2>1, <2>2, <2>3, WindowSlots
  <2>5. displaySyncFrameId <= endSyncFrameId
    BY <2>1, <2>2, <2>3, CacheFramesAssumption DEF IsWindow
  <2> QED
    BY <1>3, <2>3, <2>4, <2>5 DEF LiveSlot, NewestId
<1> QED
  BY <1>2, <1>3

LEMMA DisplayedIsOf ==
    ASSUME ContentsInv, displaySyncFrameInitialize, mergeType # "SEAMLESS_COMBINE"
    PROVE  /\ displayFrame \in Slot
           /\ IsOf(rendered, frames[displayFrame], displaySyncFrameId)
<1>1. displayFrame # 0 /\ displaySyncFrameId \in Int
  <2>1. CASE mergeType # "SYNCID_LINEUP"
    BY <2>1 DEF ContentsInv, Contents
  <2>2. CASE mergeType = "SYNCID_LINEUP"
    <3>1. IsWindow(Window)
      BY <2>2 DEF ContentsInv, WindowInv
    <3>2. /\ Window.ptrTable = ptrTable /\ Window.start = startSyncFrameId
          /\ Window.end = endSyncFrameId /\ Window.displayId = displaySyncFrameId
          /\ Window.displayFrame = displayFrame
      BY DEF Window
    <3>3. /\ displaySyncFrameId \in startSyncFrameId .. endSyncFrameId
          /\ displayFrame = SlotOf(ptrTable, startSyncFrameId, displaySyncFrameId)
      BY <3>1, <3>2 DEF IsWindow
    <3>4. displayFrame \in Slot
      BY <3>1, <3>2, <3>3, WindowSlots
    <3> QED
      BY <3>4 DEF Slot, ContentsInv, Contents
  <2> QED
    BY <2>1, <2>2
<1>2. /\ displayFrame \in Slot
      /\ displayFrame = LiveSlot(displaySyncFrameId) /\ displaySyncFrameId <= NewestId
  BY <1>1, DisplayedFrame
<1>3. NewestId \in Int
  BY <1>1, CacheFramesAssumption
     DEF ContentsInv, NewestId, WindowInv, IsWindow, Window
<1>4. displaySyncFrameId \in displaySyncFrameId .. NewestId
  BY <1>1, <1>2, <1>3
<1> QED
  BY <1>2, <1>4 DEF ContentsInv, Contents

LEMMA LineUpContents ==
    ASSUME ContentsInv, mergeType = "SYNCID_LINEUP", mergeType' = mergeType,
           NEW msg, Sends(msg), NEW slow, LineUp(msg, slow)
    PROVE  Contents' /\ DisplayStep /\ MergedStep /\ ProgressStep
<1> DEFINE s == msg.syncId
           w == WindowFor(s)
           slot == SlotOf(w.ptrTable, w.start, s)
           frame == w.frames[slot]
           pushed == PushFrame(frame, msg, tunnelStaged, slow)
           moves == ~IsReadyAll(frame) /\ IsReadyAll(pushed) /\ w.displayId < s
           At(id) == SlotOf(w.ptrTable, w.start, id)
<1>1. /\ Continues(rendered, msg) /\ rendered' = RecordAfter(rendered, msg) /\ IsRecord(rendered)
      /\ msg.machine \in Machine /\ s \in SyncId
      /\ mcrt' = [mcrt EXCEPT ![msg.machine] =
                    [syncId |-> s, status |-> msg.status,
                     progress |-> msg.progress, data |-> msg.data]]
  BY DEF Sends, Continues, ContentsInv, Senders
<1>2. /\ displaySyncFrameInitialize => displaySyncFrameId <= s
      /\ displaySyncFrameInitialize' = TRUE
      /\ frames' = [w.frames EXCEPT ![slot] = pushed]
      /\ ptrTable' = w.ptrTable
      /\ startSyncFrameId' = w.start
      /\ endSyncFrameId' = w.end
      /\ displaySyncFrameId' = IF moves THEN s ELSE w.displayId
      /\ displayFrame' = IF moves THEN slot ELSE w.displayFrame
  BY DEF LineUp
<1>3. ReadyFor(w, s)
  BY <1>1, <1>2, WindowForIsReady
<1> HIDE DEF w
<1>4. /\ IsWindow(w) /\ AllCollect(w.frames)
      /\ s \in Int /\ w.displayId \in Int /\ w.start \in Int /\ w.end \in Int
      /\ w.displayId <= s /\ s <= w.end /\ w.start <= w.displayId
      /\ displaySyncFrameInitialize => displaySyncFrameId \in Int
  BY <1>1, <1>3, IdIsInt, CacheFramesAssumption
     DEF ReadyFor, IsWindow, ContentsInv, Contents
<1>5. /\ slot \in Slot /\ w.displayFrame = At(w.displayId)
      /\ \A id \in w.start .. w.end : At(id) \in Slot /\ (At(id) = slot => id = s)
  <2>1. s \in w.start .. w.end
    BY <1>4
  <2> QED
    BY <1>4, <2>1, WindowSlots DEF IsWindow
<1>6. Collects(frame) /\ Collects(pushed)
  BY <1>1, <1>4, <1>5, PushFrameCollects DEF AllCollect
<1>7. frame = FrameAt(w, s)
  BY DEF FrameAt
<1>8. FramePushed(frame, msg, PushChans(frame.chans[msg.machine], msg), pushed)
  BY <1>1, <1>6, PushFrameEffect
<1>9. /\ IsOf(rendered', pushed, s)
      /\ ~Restarts => ShowsNoLess(frame, pushed)
  <2>1. IsOf(rendered, frame, s)
    BY <1>3, <1>4, <1>7 DEF ReadyFor
  <2> HIDE DEF frame
  <2> QED
    BY <1>1, <1>6, <2>1, PushFrameIsOf, PushFrameShowsNoLess
<1> HIDE DEF pushed, frame
<1>10. AllCollect(frames')
  BY <1>2, <1>4, <1>5, <1>6 DEF AllCollect
<1>11. frames'[slot] = pushed
  BY <1>2, <1>4, <1>5 DEF AllCollect
<1>12. ASSUME NEW id \in w.displayId .. w.end, id # s
       PROVE  /\ IsOf(rendered', frames'[At(id)], id)
              /\ frames'[At(id)] = FrameAt(w, id)
  <2>1. At(id) \in Slot /\ At(id) # slot
    BY <1>4, <1>5, <1>12
  <2>2. frames'[At(id)] = FrameAt(w, id)
    BY <1>2, <1>4, <2>1 DEF AllCollect, FrameAt
  <2>3. IsOf(rendered, FrameAt(w, id), id)
    BY <1>3 DEF ReadyFor
  <2>4. \A m \in Machine : SentFor(rendered', m, id) = SentFor(rendered, m, id)
    BY <1>1, <1>12, AfterSentFor
  <2> QED
    BY <2>2, <2>3, <2>4 DEF IsOf
<1>13. displaySyncFrameId' \in Int /\ w.displayId <= displaySyncFrameId' /\ displaySyncFrameId' <= s
  BY <1>2, <1>4
<1>14. displaySyncFrameInitialize => displaySyncFrameId <= w.displayId
  BY <1>3, <1>4 DEF ReadyFor
<1>15. ASSUME NEW id \in w.displayId .. w.end
       PROVE  IF displaySyncFrameInitialize /\ id = displaySyncFrameId
                THEN FrameAt(w, id) = frames[displayFrame]
                ELSE ~IsReadyAll(FrameAt(w, id)) /\ ~FrameAt(w, id).merged
  BY <1>3 DEF ReadyFor
<1>16. ASSUME NEW id \in displaySyncFrameId' .. w.end
       PROVE  /\ IsOf(rendered', frames'[At(id)], id)
              /\ id # displaySyncFrameId' => ~IsReadyAll(frames'[At(id)]) /\ ~frames'[At(id)].merged
  <2>1. id \in w.displayId .. w.end /\ id \in Int
    BY <1>4, <1>13
  <2>2. CASE id = s
    <3>1. frames'[At(id)] = pushed
      BY <1>11, <2>2
    <3>2. ASSUME id # displaySyncFrameId'
          PROVE  ~IsReadyAll(pushed) /\ ~pushed.merged
      <4>1. ~moves /\ w.displayId < s
        BY <1>2, <1>4, <2>2, <3>2
      <4>2. ~IsReadyAll(frame) /\ ~frame.merged
        BY <1>4, <1>7, <1>14, <1>15, <2>1, <2>2, <4>1
      <4> QED
        BY <1>8, <4>1, <4>2 DEF FramePushed
    <3> QED
      BY <1>9, <2>2, <3>1, <3>2
  <2>3. CASE id # s
    BY <1>4, <1>12, <1>13, <1>14, <1>15, <2>1, <2>3
  <2> QED
    BY <2>2, <2>3
<1>17. \A m \in Machine : mcrt'[m].syncId <= w.end
  BY <1>1, <1>3, <1>4 DEF ReadyFor, ContentsInv, Senders
<1>18. Contents'
  BY <1>2, <1>10, <1>13, <1>16, <1>17
     DEF Contents, ContentsInv, NewestId, LiveSlot, AllCollect
<1>19. DisplayStep
  <2> SUFFICES ASSUME displaySyncFrameInitialize, displaySyncFrameId' # displaySyncFrameId,
                      ~(displaySyncFrameId < w.start)
               PROVE  /\ displaySyncFrameId < displaySyncFrameId'
                      /\ \A m \in Machine : rendered'[m][displaySyncFrameId'] # {}
    BY <1>2, <1>3, <1>4, <1>13, <1>14 DEF DisplayStep, ReadyFor
  <2>1. w.displayId = displaySyncFrameId
    BY <1>3, <1>4 DEF ReadyFor
  <2>2. moves /\ displaySyncFrameId' = s
    BY <1>2, <2>1
  <2>3. pushed.receivedAll = Machine
    BY <1>6, <2>2, ReadyHasHeardAll
  <2>4. \A m \in Machine : SentFor(rendered', m, s) # {}
    BY <1>9, <2>3 DEF IsOf
  <2> QED
    BY <1>1, <1>4, <2>1, <2>2, <2>4 DEF SentFor
<1>20. MergedStep
  <2> SUFFICES ASSUME frames'[displayFrame'].merged
               PROVE  /\ displaySyncFrameInitialize
                      /\ displaySyncFrameId' = displaySyncFrameId
                      /\ frames[displayFrame].merged
    BY DEF MergedStep
  <2> DEFINE id == displaySyncFrameId'
  <2>1. displayFrame' = At(id) /\ id \in w.displayId .. w.end /\ id \in Int
    BY <1>2, <1>4, <1>5, <1>13
  <2>2. frames'[At(id)].merged => FrameAt(w, id).merged
    <3>1. CASE id = s
      BY <1>7, <1>8, <1>11, <3>1 DEF FramePushed
    <3>2. CASE id # s
      BY <1>12, <2>1, <3>2
    <3> QED
      BY <3>1, <3>2
  <2>3. FrameAt(w, id).merged
    BY <2>1, <2>2
  <2> QED
    BY <1>15, <2>1, <2>3
<1>21. ProgressStep
  <2> SUFFICES ASSUME ~Restarts, displaySyncFrameInitialize,
                      displaySyncFrameId' = displaySyncFrameId
               PROVE  ShowsNoLess(frames[displayFrame], frames'[displayFrame'])
    BY DEF ProgressStep
  <2> DEFINE id == displaySyncFrameId
  <2>1. displayFrame' = At(id) /\ id \in w.displayId .. w.end
    BY <1>2, <1>4, <1>5, <1>13
  <2>2. frames[displayFrame] = FrameAt(w, id)
    BY <1>15, <2>1
  <2>3. CASE id = s
    BY <1>7, <1>9, <1>11, <2>1, <2>2, <2>3
  <2>4. CASE id # s
    <3>1. IsOf(rendered', frames'[At(id)], id) /\ frames'[At(id)] = FrameAt(w, id)
      BY <1>12, <2>1, <2>4
    <3> QED
      BY <2>1, <2>2, <3>1, ShowsNoLessOfSame
  <2> QED
    BY <2>3, <2>4
<1> QED
  BY <1>18, <1>19, <1>20, <1>21

LEMMA DropOlderContents ==
    ASSUME ContentsInv, mergeType # "SEAMLESS_COMBINE", mergeType' = mergeType,
           NEW msg, Sends(msg), DropOlder(msg)
    PROVE  Contents' /\ DisplayStep /\ MergedStep /\ ProgressStep
<1>1. /\ rendered' = RecordAfter(rendered, msg) /\ IsRecord(rendered) /\ Continues(rendered, msg)
      /\ msg.syncId \in SyncId /\ msg.syncId \in Int
      /\ mcrt' = [mcrt EXCEPT ![msg.machine] =
                    [syncId |-> msg.syncId, status |-> msg.status,
                     progress |-> msg.progress, data |-> msg.data]]
  BY IdIsInt DEF Sends, Continues, ContentsInv, Senders
<1>2. /\ displaySyncFrameInitialize /\ msg.syncId < displaySyncFrameId
      /\ frames' = frames /\ displayFrame' = displayFrame
      /\ displaySyncFrameInitialize' = displaySyncFrameInitialize
      /\ displaySyncFrameId' = displaySyncFrameId
      /\ ptrTable' = ptrTable /\ startSyncFrameId' = startSyncFrameId
      /\ endSyncFrameId' = endSyncFrameId
  BY DEF DropOlder, displayVars, windowVars
<1>3. NewestId' = NewestId /\ NewestId \in Int /\ displaySyncFrameId <= NewestId
      /\ displaySyncFrameId \in Int
  BY <1>2, CacheFramesAssumption
     DEF NewestId, ContentsInv, Contents, WindowInv, IsWindow, Window
<1>4. ASSUME NEW s \in displaySyncFrameId .. NewestId
      PROVE  LiveSlot(s)' = LiveSlot(s) /\ \A m \in Machine :
               SentFor(rendered', m, s) = SentFor(rendered, m, s)
  <2>1. s # msg.syncId
    BY <1>1, <1>2, <1>3
  <2> QED
    BY <1>1, <1>2, <2>1, AfterSentFor DEF LiveSlot
<1>5. \A s \in displaySyncFrameId .. NewestId :
        IsOf(rendered, frames[LiveSlot(s)], s) =>
          IsOf(rendered', frames'[LiveSlot(s)'], s)
  BY <1>2, <1>4 DEF IsOf
<1>6. \A m \in Machine : mcrt'[m].syncId <= NewestId
  BY <1>1, <1>2, <1>3 DEF ContentsInv, Contents, Senders
<1>7. Contents'
  BY <1>2, <1>3, <1>4, <1>5, <1>6 DEF ContentsInv, Contents
<1>8. ProgressStep
  BY <1>2, DisplayedIsOf, ShowsNoLessOfSame DEF ProgressStep
<1> QED
  BY <1>2, <1>7, <1>8 DEF DisplayStep, MergedStep

LEMMA PickupContents ==
    ASSUME ContentsInv, mergeType = "PICKUP_LATEST", mergeType' = mergeType,
           NEW msg, Sends(msg), NEW slow,
           PickupNewer(msg, slow, TRUE) \/ PickupSame(msg, slow)
    PROVE  Contents' /\ DisplayStep /\ MergedStep /\ ProgressStep
<1> DEFINE s == msg.syncId
           before == IF displaySyncFrameInitialize /\ displaySyncFrameId = s THEN frames[1]
                     ELSE StartedFor(s)
           pushed == PushFrame(before, msg, tunnelStaged, slow)
<1>1. /\ Continues(rendered, msg) /\ rendered' = RecordAfter(rendered, msg) /\ IsRecord(rendered)
      /\ msg.machine \in Machine /\ s \in SyncId /\ s \in Int /\ 1 \in Slot
      /\ mcrt' = [mcrt EXCEPT ![msg.machine] =
                    [syncId |-> s, status |-> msg.status,
                     progress |-> msg.progress, data |-> msg.data]]
  BY IdIsInt, CacheFramesAssumption DEF Sends, Continues, ContentsInv, Senders, Slot
<1>2. AllCollect(frames) /\ displayFrame = 1 /\ displaySyncFrameId \in Int
  BY DEF ContentsInv, Contents, AllCollect
<1>3. /\ displaySyncFrameInitialize' = TRUE
      /\ displaySyncFrameId' = s
      /\ frames' = [frames EXCEPT ![1] = pushed]
      /\ displaySyncFrameInitialize => displaySyncFrameId <= s
      /\ displayFrame' = displayFrame
  BY <1>1, <1>2 DEF PickupNewer, PickupSame, PushInto, displayVars
<1>4. ASSUME ~(displaySyncFrameInitialize /\ displaySyncFrameId = s)
      PROVE  /\ Collects(before) /\ ~before.merged /\ IsOf(rendered, before, s)
  <2>1. before = StartedFor(s)
    BY <1>4
  <2>2. Collects(before) /\ Unheard(before)
    BY <1>1, <1>2, <2>1, RecycledFrame DEF StartedFor, AllCollect
  <2>3. \A m \in Machine : SentFor(rendered, m, s) = {}
    <3> DEFINE newest == IF displaySyncFrameInitialize THEN displaySyncFrameId ELSE -1
    <3>1. newest \in Int /\ newest < s /\ \A m \in Machine : mcrt[m].syncId <= newest
      BY <1>1, <1>2, <1>3, <1>4, IdIsInt DEF ContentsInv, Contents, NewestId
    <3> HIDE DEF newest
    <3> QED
      BY <1>1, <3>1, NothingBeyond DEF ContentsInv
  <2> HIDE DEF before
  <2> QED
    BY <2>2, <2>3, UnheardIsOf DEF Unheard
<1>5. ASSUME displaySyncFrameInitialize, displaySyncFrameId = s
      PROVE  /\ before = frames[1] /\ Collects(before) /\ IsOf(rendered, before, s)
  BY <1>1, <1>2, <1>5 DEF ContentsInv, Contents, NewestId, LiveSlot
<1> HIDE DEF before
<1>6. Collects(before) /\ IsOf(rendered, before, s)
  BY <1>4, <1>5
<1>7. /\ Collects(pushed) /\ IsOf(rendered', pushed, s) /\ pushed.merged = before.merged
      /\ ~Restarts => ShowsNoLess(before, pushed)
  <2>1. Collects(pushed)
    BY <1>1, <1>6, PushFrameCollects
  <2>2. IsOf(rendered', pushed, s)
    BY <1>1, <1>6, PushFrameIsOf
  <2>3. FramePushed(before, msg, PushChans(before.chans[msg.machine], msg), pushed)
    BY <1>1, <1>6, PushFrameEffect
  <2>4. ~Restarts => ShowsNoLess(before, pushed)
    BY <1>1, <1>6, PushFrameShowsNoLess
  <2> HIDE DEF pushed
  <2> QED
    BY <2>1, <2>2, <2>3, <2>4 DEF FramePushed
<1> HIDE DEF pushed
<1>8. AllCollect(frames') /\ frames'[1] = pushed
  BY <1>1, <1>2, <1>3, <1>7 DEF AllCollect
<1>9. \A m \in Machine : mcrt'[m].syncId <= s
  <2> SUFFICES ASSUME NEW m \in Machine, m # msg.machine PROVE mcrt[m].syncId <= s
    BY <1>1 DEF ContentsInv, Senders
  <2>1. mcrt[m].syncId \in Int
    BY IdIsInt DEF ContentsInv, Senders
  <2> QED
    BY <1>1, <1>2, <1>3, <2>1, IdIsInt DEF ContentsInv, Contents, NewestId
<1>10. Contents'
  BY <1>1, <1>2, <1>3, <1>7, <1>8, <1>9
     DEF ContentsInv, Contents, AllCollect, NewestId, LiveSlot
<1>11. DisplayStep
  BY <1>1, <1>2, <1>3 DEF DisplayStep
<1>12. MergedStep
  BY <1>2, <1>3, <1>4, <1>5, <1>7, <1>8 DEF MergedStep
<1>13. ProgressStep
  BY <1>2, <1>3, <1>5, <1>7, <1>8 DEF ProgressStep
<1> QED
  BY <1>10, <1>11, <1>12, <1>13

LEMMA SeamlessContents ==
    ASSUME ContentsInv, mergeType' = mergeType,
           NEW msg, Sends(msg), NEW slow, PushSeamlessCombine(msg, slow)
    PROVE  Contents' /\ DisplayStep /\ MergedStep /\ ProgressStep
<1> DEFINE s == msg.syncId
           pushed == PushFrame(frames[1], msg, tunnelStaged, slow)
<1>1. /\ Continues(rendered, msg) /\ rendered' = RecordAfter(rendered, msg) /\ IsRecord(rendered)
      /\ msg.machine \in Machine /\ s \in SyncId /\ s \in Int /\ 1 \in Slot
      /\ mcrt' = [mcrt EXCEPT ![msg.machine] =
                    [syncId |-> s, status |-> msg.status,
                     progress |-> msg.progress, data |-> msg.data]]
      /\ msg.status # "STARTED" => s = mcrt[msg.machine].syncId
  BY IdIsInt, CacheFramesAssumption DEF Sends, Continues, ContentsInv, Senders, Slot
<1>2. /\ mergeType = "SEAMLESS_COMBINE" /\ AllCollect(frames)
      /\ displayFrame = 1 /\ displaySyncFrameId \in Int
  BY DEF ContentsInv, Contents, AllCollect, PushSeamlessCombine
<1>3. /\ displaySyncFrameInitialize' = TRUE
      /\ displaySyncFrameId' = IF displaySyncFrameInitialize /\ s < displaySyncFrameId
                                 THEN displaySyncFrameId ELSE s
      /\ frames' = [frames EXCEPT ![1] = pushed]
      /\ displayFrame' = displayFrame
  BY <1>1, <1>2 DEF PushSeamlessCombine, PushInto
<1>4. Collects(pushed)
  BY <1>1, <1>2, PushFrameCollects DEF AllCollect
<1>5. \A m \in Machine :
        Held(pushed, m) = IF m # msg.machine THEN Held(frames[1], m)
                          ELSE IF msg.status = "STARTED" THEN {msg.data}
                          ELSE Held(frames[1], m) \cup {msg.data}
  BY <1>1, <1>2, PushFrameHeld DEF AllCollect
<1> HIDE DEF pushed
<1>6. AllCollect(frames') /\ frames'[1] = pushed
  BY <1>1, <1>2, <1>3, <1>4 DEF AllCollect
<1>7. ASSUME NEW m \in Machine
      PROVE  mcrt'[m].syncId <= displaySyncFrameId'
  <2>1. mcrt[m].syncId \in Int
    BY IdIsInt DEF ContentsInv, Senders
  <2>2. mcrt[m].syncId <= IF displaySyncFrameInitialize THEN displaySyncFrameId ELSE s
    BY <1>1, <1>2, IdIsInt DEF ContentsInv, Contents, NewestId
  <2>3. mcrt'[m].syncId = IF m = msg.machine THEN s ELSE mcrt[m].syncId
    BY <1>1 DEF ContentsInv, Senders
  <2> QED
    BY <1>1, <1>2, <1>3, <2>1, <2>2, <2>3
<1>8. ASSUME NEW m \in Machine, mcrt'[m].syncId # -1
      PROVE  Held(pushed, m) = rendered'[m][mcrt'[m].syncId]
  <2>1. CASE m # msg.machine
    <3>1. mcrt'[m] = mcrt[m] /\ rendered'[m] = rendered[m] /\ mcrt[m].syncId # -1
      BY <1>1, <1>8, <2>1 DEF RecordAfter, IsRecord, ContentsInv, Senders
    <3>2. displaySyncFrameInitialize
      BY <3>1 DEF ContentsInv, Contents
    <3> QED
      BY <1>2, <1>5, <2>1, <3>1, <3>2 DEF ContentsInv, Contents
  <2>2. CASE m = msg.machine /\ msg.status = "STARTED"
    BY <1>1, <1>5, <2>2 DEF RecordAfter, IsRecord, ContentsInv, Senders
  <2>3. CASE m = msg.machine /\ msg.status # "STARTED"
    <3>1. mcrt[m].syncId = s /\ s # -1
      BY <1>1, <2>3, IdIsInt
    <3>2. Held(frames[1], m) = rendered[m][s]
      BY <1>2, <3>1 DEF ContentsInv, Contents
    <3>3. mcrt'[m].syncId = s /\ rendered'[m][s] = rendered[m][s] \cup {msg.data}
      BY <1>1, <2>3 DEF RecordAfter, IsRecord, ContentsInv, Senders
    <3> QED
      BY <1>5, <2>3, <3>2, <3>3
  <2> QED
    BY <2>1, <2>2, <2>3
<1>9. Contents'
  BY <1>1, <1>2, <1>3, <1>6, <1>7, <1>8 DEF ContentsInv, Contents, AllCollect, NewestId
<1>10. DisplayStep
  BY <1>1, <1>2, <1>3 DEF DisplayStep
<1> QED
  BY <1>2, <1>9, <1>10 DEF MergedStep, ProgressStep

-------------------------------------------------------------------------------
(* The other actions, and the step.                                        *)
LEMMA PushContents ==
    ASSUME CallbackOutcomes \subseteq {TRUE}, ContentsInv, NEW msg, Sends(msg), NEW slow,
           NEW callbackOutcome \in CallbackOutcomes, Push(msg, slow, callbackOutcome)
    PROVE  Contents' /\ DisplayStep /\ MergedStep /\ ProgressStep
<1>1. mergeType' = mergeType /\ callbackOutcome = TRUE
  BY DEF Push, settingVars
<1>2. CASE PushSeamlessCombine(msg, slow)
  BY <1>1, <1>2, SeamlessContents
<1>3. CASE PushPickupLatest(msg, slow, callbackOutcome)
  BY <1>1, <1>3, PickupContents, DropOlderContents DEF PushPickupLatest
<1>4. CASE PushSyncidLineup(msg, slow)
  BY <1>1, <1>4, LineUpContents, DropOlderContents DEF PushSyncidLineup
<1> QED
  BY <1>2, <1>3, <1>4 DEF Push

LEMMA SendImageContents ==
    ASSUME ContentsInv, NEW request, NEW sameReso, SendImage(request, sameReso)
    PROVE  Contents' /\ ProgressStep
<1> DEFINE frame == frames[displayFrame]
           g == SentFrame(frame, request, sameReso)
<1>1. /\ displayFrame # 0
      /\ frames' = [frames EXCEPT ![displayFrame] = g]
      /\ ptrTable' = ptrTable /\ startSyncFrameId' = startSyncFrameId
      /\ endSyncFrameId' = endSyncFrameId /\ displayFrame' = displayFrame
      /\ displaySyncFrameInitialize' = displaySyncFrameInitialize
      /\ displaySyncFrameId' = displaySyncFrameId
      /\ mergeType' = mergeType /\ mcrt' = mcrt /\ rendered' = rendered
  BY DEF SendImage, SentFrame, windowVars, displayVars, settingVars, mcrtVars
<1>2. displayFrame \in Slot /\ AllCollect(frames)
  BY <1>1, DisplayedFrame DEF ContentsInv, Contents, AllCollect
<1>3. /\ Collects(g)
      /\ ShowsSame(frame, g)
      /\ frame.messagesTotal = 0 => g.merged = frame.merged
  BY <1>2, SentFrameShowsSame DEF AllCollect
<1> HIDE DEF g
<1>4. /\ AllCollect(frames') /\ frames'[displayFrame] = g
      /\ \A slot \in Slot : slot # displayFrame => frames'[slot] = frames[slot]
  BY <1>1, <1>2, <1>3 DEF AllCollect
<1>7. ProgressStep
  BY <1>1, <1>3, <1>4, DisplayedIsOf, ShowsNoLessOfSame DEF ProgressStep, ShowsSame
<1>5. CASE ~displaySyncFrameInitialize
  <2>1. ASSUME NEW slot \in Slot PROVE Unheard(frames'[slot])
    <3>1. Unheard(frames[slot])
      BY <1>5 DEF ContentsInv, Contents
    <3>2. CASE slot # displayFrame
      BY <1>4, <3>1, <3>2
    <3>3. CASE slot = displayFrame
      <4>1. frame.messagesTotal = 0
        BY <1>2, <3>1, <3>3
           DEF AllCollect, Collects, Counts, ActiveIsCount, Unheard
      <4> QED
        BY <1>3, <1>4, <3>1, <3>3, <4>1 DEF ShowsSame, Unheard
    <3> QED
      BY <3>2, <3>3
  <2> QED
    BY <1>1, <1>4, <1>5, <1>7, <2>1 DEF ContentsInv, Contents, AllCollect
<1>6. CASE displaySyncFrameInitialize
  <2>1. NewestId' = NewestId /\ \A s : LiveSlot(s)' = LiveSlot(s)
    BY <1>1 DEF NewestId, LiveSlot
  <2>2. displayFrame = LiveSlot(displaySyncFrameId)
    BY <1>1, <1>6, DisplayedFrame
  <2>3. ASSUME NEW s \in displaySyncFrameId .. NewestId, mergeType # "SEAMLESS_COMBINE"
        PROVE  /\ IsOf(rendered, frames'[LiveSlot(s)], s)
               /\ s # displaySyncFrameId =>
                    ~IsReadyAll(frames'[LiveSlot(s)]) /\ ~frames'[LiveSlot(s)].merged
    <3>1. /\ IsOf(rendered, frames[LiveSlot(s)], s)
          /\ s # displaySyncFrameId =>
                ~IsReadyAll(frames[LiveSlot(s)]) /\ ~frames[LiveSlot(s)].merged
      BY <1>6, <2>3 DEF ContentsInv, Contents
    <3>2. CASE s = displaySyncFrameId
      BY <1>3, <1>4, <2>2, <3>1, <3>2, ShowsSameIsOf
    <3>3. CASE s # displaySyncFrameId
      <4>1. mergeType = "SYNCID_LINEUP"
        BY <2>3, <3>3 DEF ContentsInv, Contents, NewestId, MergeType
      <4>2. IsWindow(Window)
        BY <1>6, <4>1 DEF ContentsInv, WindowInv
      <4>3. /\ Window.ptrTable = ptrTable /\ Window.start = startSyncFrameId
            /\ Window.end = endSyncFrameId /\ Window.displayId = displaySyncFrameId
        BY DEF Window
      <4>4. /\ s \in startSyncFrameId .. endSyncFrameId
            /\ displaySyncFrameId \in startSyncFrameId .. endSyncFrameId
        BY <2>3, <4>1, <4>2, <4>3, CacheFramesAssumption DEF IsWindow, NewestId
      <4>5. LiveSlot(s) \in Slot /\ LiveSlot(s) # displayFrame
        BY <2>2, <3>3, <4>1, <4>2, <4>3, <4>4, WindowSlots DEF LiveSlot
      <4> QED
        BY <1>4, <3>1, <4>5
    <3> QED
      BY <3>2, <3>3
  <2>4. ASSUME mergeType = "SEAMLESS_COMBINE"
        PROVE  \A m \in Machine : Held(frames'[1], m) = Held(frames[1], m)
    BY <1>3, <1>4, <2>4 DEF ShowsSame, ContentsInv, Contents
  <2> QED
    BY <1>1, <1>4, <1>6, <1>7, <2>1, <2>3, <2>4 DEF ContentsInv, Contents, AllCollect
<1> QED
  BY <1>5, <1>6

LEMMA InitContents == Init => ContentsInv
<1> SUFFICES ASSUME Init PROVE ContentsInv
  OBVIOUS
<1>1. WindowInv
  BY IdentityIsTable DEF Init, WindowInv
<1>2. Senders
  BY DEF Init, Senders, IsRecord
<1>3. Contents
  BY EmptyFrameCollects, MergeTypeAssumption DEF Init, Contents
<1> QED
  BY <1>1, <1>2, <1>3 DEF ContentsInv

LEMMA UntouchedContents ==
    ASSUME ContentsInv, UNCHANGED <<frames, windowVars, displayVars, mergeType, mcrtVars>>
    PROVE  Contents' /\ Senders'
<1>1. \A s : LiveSlot(s)' = LiveSlot(s)
  BY DEF LiveSlot, windowVars
<1> QED
  BY <1>1
     DEF ContentsInv, Contents, Senders, NewestId, windowVars, displayVars, mcrtVars

(* With one merge type the last disjunct of Next does nothing.             *)
LEMMA StepContents ==
    ASSUME MergeTypes = {}, CallbackOutcomes \subseteq {TRUE}, ContentsInv, [Next]_vars
    PROVE  ContentsInv' /\ DisplayStep /\ ProgressStep
<1>1. WindowInv'
  BY StepWindow DEF ContentsInv
<1>2. CASE ReceiveMessage
  <2>1. PICK msg, slow, callbackOutcome :
           /\ Sends(msg)
           /\ callbackOutcome \in CallbackOutcomes
           /\ Push(msg, slow, callbackOutcome)
    BY <1>2, ReceivedMessage DEF ContentsInv
  <2>2. Senders'
    BY <2>1, SendersStep DEF ContentsInv
  <2>3. Contents' /\ DisplayStep /\ ProgressStep
    BY <2>1, PushContents
  <2> QED
    BY <1>1, <2>2, <2>3 DEF ContentsInv
<1>3. CASE \E request \in Requests, sameReso \in BOOLEAN : SendImage(request, sameReso)
  <2>1. Contents' /\ ProgressStep
    BY <1>3, SendImageContents
  <2>2. Senders' /\ DisplayStep
    BY <1>3 DEF SendImage, ContentsInv, Senders, DisplayStep, mcrtVars, displayVars
  <2> QED
    BY <1>1, <2>1, <2>2 DEF ContentsInv
<1>4. CASE \/ \E value \in Feedbacks : SetFeedback(value)
           \/ \E machine \in Tunnels : StageTunnel(machine)
           \/ UNCHANGED vars
  <2>1. UNCHANGED <<frames, windowVars, displayVars, mergeType, mcrtVars>>
    BY <1>4 DEF SetFeedback, StageTunnel, vars, settingVars
  <2>2. ProgressStep
    BY <2>1, DisplayedIsOf, ShowsNoLessOfSame DEF ProgressStep, displayVars
  <2> QED
    BY <1>1, <2>1, <2>2, UntouchedContents DEF ContentsInv, DisplayStep, displayVars
<1> QED
  BY <1>2, <1>3, <1>4 DEF Next

LEMMA ContentsInvariant ==
    ASSUME MergeTypes = {}, CallbackOutcomes \subseteq {TRUE}
    PROVE  Spec => []ContentsInv
<1>1. ContentsInv /\ [Next]_vars => ContentsInv'
  BY StepContents
<1> QED
  BY <1>1, InitContents, PTL DEF Spec

-------------------------------------------------------------------------------
LEMMA LiveFramesAreOf ==
    ASSUME ContentsInv, NEW live \in LiveFrames
    PROVE  live[2] \in SyncId /\ IsOf(rendered, live[1], live[2])
<1>1. displaySyncFrameInitialize /\ mergeType # "SEAMLESS_COMBINE"
  BY DEF LiveFrames
<1>2. CASE mergeType = "SYNCID_LINEUP"
  <2>1. PICK s \in SyncId \cap (displaySyncFrameId .. endSyncFrameId) :
            live = <<frames[SlotOf(ptrTable, startSyncFrameId, s)], s>>
    BY <1>1, <1>2 DEF LiveFrames
  <2> QED
    BY <1>1, <1>2, <2>1 DEF ContentsInv, Contents, NewestId, LiveSlot
<1>3. CASE mergeType # "SYNCID_LINEUP"
  <2>1. live = <<frames[1], displaySyncFrameId>>
    BY <1>1, <1>3 DEF LiveFrames
  <2> QED
    BY <1>1, <1>3, <2>1 DEF ContentsInv, Contents, NewestId, LiveSlot
<1> QED
  BY <1>2, <1>3

(* push, decodeAll, merge and the resets together neither lose a message   *)
(* of the rendering that a live frame collects nor let an older one stay.  *)
THEOREM FramesAlwaysHoldTheirRenderings ==
    ASSUME MergeTypes = {}, CallbackOutcomes \subseteq {TRUE}
    PROVE  Spec => []FramesHoldTheirRenderings
<1>1. ContentsInv => FramesHoldTheirRenderings
  BY LiveFramesAreOf
     DEF FramesHoldTheirRenderings, HoldsRenderings, IsOf, SentFor, Held
<1> QED
  BY <1>1, ContentsInvariant, PTL

(* The same of the one frame of SEAMLESS_COMBINE, machine by machine.      *)
THEOREM SeamlessAlwaysHoldsNewest ==
    ASSUME MergeTypes = {}, CallbackOutcomes \subseteq {TRUE}
    PROVE  Spec => []SeamlessHoldsNewest
<1>1. ContentsInv => SeamlessHoldsNewest
  <2> SUFFICES ASSUME ContentsInv, mergeType = "SEAMLESS_COMBINE",
                      displaySyncFrameInitialize, NEW m \in Machine, mcrt[m].syncId # -1
               PROVE  /\ displaySyncFrameId >= mcrt[m].syncId
                      /\ Held(frames[1], m) = rendered[m][mcrt[m].syncId]
    BY DEF SeamlessHoldsNewest, Held
  <2>1. mcrt[m].syncId \in Int /\ displaySyncFrameId \in Int
    BY IdIsInt DEF ContentsInv, Contents, Senders
  <2> QED
    BY <2>1 DEF ContentsInv, Contents, NewestId
<1> QED
  BY <1>1, ContentsInvariant, PTL

(* The client is told that the coarse pass of a frame is over only after   *)
(* every machine has gone past it, through restarts and recycled frames.   *)
THEOREM CoarsePassAlwaysEndsWithAll ==
    ASSUME MergeTypes = {}, CallbackOutcomes \subseteq {TRUE}
    PROVE  Spec => []CoarsePassEndsWithAll
<1>1. ContentsInv => CoarsePassEndsWithAll
  BY LiveFramesAreOf DEF CoarsePassEndsWithAll, IsCoarsePassDone, IsOf, SentFor
<1> QED
  BY <1>1, ContentsInvariant, PTL

(* In SYNCID_LINEUP the display has reached every frame that all machines  *)
(* have begun.                                                             *)
THEOREM NoCompleteFrameIsEverOverlooked ==
    ASSUME MergeTypes = {}, CallbackOutcomes \subseteq {TRUE}
    PROVE  Spec => []NoCompleteFrameIsOverlooked
<1>1. ContentsInv => NoCompleteFrameIsOverlooked
  <2> SUFFICES ASSUME ContentsInv, mergeType = "SYNCID_LINEUP", NEW s \in SyncId,
                      \A m \in Machine : rendered[m][s] # {},
                      ~(displaySyncFrameId >= s)
               PROVE  FALSE
    BY DEF NoCompleteFrameIsOverlooked
  <2>1. PICK m \in Machine : TRUE
    BY MachineAssumption
  <2>2. s \in Int /\ mcrt[m].syncId \in Int /\ s <= mcrt[m].syncId /\ s > -1
        /\ displaySyncFrameId \in Int
    BY IdIsInt DEF ContentsInv, Contents, Senders
  <2>3. displaySyncFrameInitialize
    BY <2>2 DEF ContentsInv, Contents
  <2>4. IsWindow(Window)
    BY <2>3 DEF ContentsInv, WindowInv
  <2>5. /\ Window.ptrTable = ptrTable /\ Window.start = startSyncFrameId
        /\ Window.end = endSyncFrameId /\ Window.displayId = displaySyncFrameId
    BY DEF Window
  <2>6. endSyncFrameId \in Int /\ startSyncFrameId \in Int
        /\ startSyncFrameId <= displaySyncFrameId
    BY <2>4, <2>5, CacheFramesAssumption DEF IsWindow
  <2>7. mcrt[m].syncId <= endSyncFrameId
    BY <2>3 DEF ContentsInv, Contents, NewestId
  <2>8. s \in displaySyncFrameId .. endSyncFrameId /\ s \in startSyncFrameId .. endSyncFrameId
        /\ s # displaySyncFrameId
    BY <2>2, <2>6, <2>7
  <2> DEFINE frame == frames[LiveSlot(s)]
  <2>9. IsOf(rendered, frame, s) /\ ~IsReadyAll(frame)
    BY <2>3, <2>8 DEF ContentsInv, Contents, NewestId
  <2>10. LiveSlot(s) \in Slot
    BY <2>4, <2>5, <2>8, WindowSlots DEF LiveSlot
  <2>11. Collects(frame)
    BY <2>10 DEF ContentsInv, Contents
  <2>12. frame.receivedAll = Machine
    BY <2>9, <2>11 DEF IsOf, SentFor, Collects, Counts
  <2> QED
    BY <2>9, <2>11, <2>12, ReadyHasHeardAll
<1> QED
  BY <1>1, ContentsInvariant, PTL

(* A step of the display is forward and, in SYNCID_LINEUP, to a frame that *)
(* all machines have begun unless the window has left its frame behind.    *)
THEOREM DisplayAlwaysMovesForward ==
    ASSUME MergeTypes = {}, CallbackOutcomes \subseteq {TRUE}
    PROVE  Spec => DisplayMoves
<1>1. ContentsInv /\ [Next]_vars =>
        [(displaySyncFrameInitialize /\ displaySyncFrameId' # displaySyncFrameId
          /\ mergeType' = mergeType) =>
           /\ displaySyncFrameId < displaySyncFrameId'
           /\ mergeType = "SYNCID_LINEUP" =>
                \/ displaySyncFrameId < startSyncFrameId'
                \/ \A m \in Machine : rendered'[m][displaySyncFrameId'] # {}]_vars
  BY StepContents DEF DisplayStep
<1> QED
  BY <1>1, ContentsInvariant, PTL DEF Spec, DisplayMoves

-------------------------------------------------------------------------------
(* The sum of the progress of all machines.                                *)
LEMMA SumIsMade ==
    ASSUME NEW frame, \A m \in Machine : frame.progressAll[m] \in Nat
    PROVE  \E t : /\ SumsUp(Machine, frame.progressAll, t)
                  /\ ProgressTotal(frame) = IF frame.status = "STARTED" THEN 0 ELSE t[Machine]
<1> DEFINE t == CHOOSE t : t = [s \in SUBSET Machine |->
                   IF s = {} THEN 0
                   ELSE LET x == CHOOSE x \in s : TRUE
                        IN  frame.progressAll[x] + t[s \ {x}]]
<1>1. ProgressTotal(frame) = IF frame.status = "STARTED" THEN 0 ELSE t[Machine]
  BY DEF ProgressTotal, MapThenSumSet, MapThenFoldSet
<1>2. t = CHOOSE u : SumsUp(Machine, frame.progressAll, u)
  BY DEF SumsUp, AnyOf
<1>3. \E u : SumsUp(Machine, frame.progressAll, u)
  <2> DEFINE f == frame.progressAll
  <2>1. \A m \in Machine : f[m] \in Nat
    OBVIOUS
  <2> HIDE DEF f
  <2>2. \E u : SumsUp(Machine, f, u)
    BY <2>1, MachineAssumption, SumExists
  <2> QED
    BY <2>2 DEF f
<1>4. SumsUp(Machine, frame.progressAll, t)
  BY <1>2, <1>3
<1> QED
  BY <1>1, <1>4

LEMMA ProgressTotalGrows ==
    ASSUME NEW frame, NEW g, ShowsNoLess(frame, g)
    PROVE  ProgressTotal(g) >= ProgressTotal(frame)
<1> DEFINE old == frame.progressAll
           new == g.progressAll
<1>1. \A m \in Machine : old[m] \in Nat /\ new[m] \in Nat /\ old[m] <= new[m]
  BY DEF ShowsNoLess
<1>2. PICK t : /\ SumsUp(Machine, old, t)
               /\ ProgressTotal(frame) = IF frame.status = "STARTED" THEN 0 ELSE t[Machine]
  BY <1>1, SumIsMade
<1>3. PICK u : /\ SumsUp(Machine, new, u)
               /\ ProgressTotal(g) = IF g.status = "STARTED" THEN 0 ELSE u[Machine]
  BY <1>1, SumIsMade
<1>4. /\ t[Machine] \in Nat /\ u[Machine] \in Nat /\ t[Machine] <= u[Machine]
      /\ (\A m \in Machine : old[m] = 0) => t[Machine] = 0
  <2> HIDE DEF old, new
  <2> QED
    BY <1>1, <1>2, <1>3, MachineAssumption, SumGrows
<1>5. \/ g.status # "STARTED" \/ frame.status = "STARTED"
      \/ t[Machine] = 0
  BY <1>4 DEF ShowsNoLess
<1> HIDE DEF old, new
<1> QED
  BY <1>2, <1>3, <1>4, <1>5

(* What the client is shown of the progress of a frame does not go back    *)
(* while the frame is displayed (mProgressAll and mStatus), whatever part  *)
(* of the machines has started, and whether the progress of all counts or  *)
(* that of the tunnel machine.                                             *)
THEOREM ProgressNeverGoesBack ==
    ASSUME MergeTypes = {}, CallbackOutcomes \subseteq {TRUE}, Restarts = FALSE
    PROVE  Spec => ProgressNeverDrops
<1>1. ContentsInv /\ [Next]_vars =>
        [(displaySyncFrameInitialize /\ mergeType # "SEAMLESS_COMBINE"
          /\ <<displayFrame', displaySyncFrameId'>> = <<displayFrame, displaySyncFrameId>>) =>
           ProgressTotal(frames'[displayFrame']) >= ProgressTotal(frames[displayFrame])]_vars
  <2> SUFFICES ASSUME ContentsInv, [Next]_vars,
                      displaySyncFrameInitialize, mergeType # "SEAMLESS_COMBINE",
                      displaySyncFrameId' = displaySyncFrameId
               PROVE  ProgressTotal(frames'[displayFrame']) >= ProgressTotal(frames[displayFrame])
    OBVIOUS
  <2>1. ShowsNoLess(frames[displayFrame], frames'[displayFrame'])
    BY StepContents DEF ProgressStep
  <2> QED
    BY <2>1, ProgressTotalGrows
<1> QED
  BY <1>1, ContentsInvariant, PTL DEF Spec, ProgressNeverDrops

-------------------------------------------------------------------------------
(* The output image.  While the machines do not start over, what they have *)
(* sent for a syncId only grows, so that a tile that a merge left alone    *)
(* still shows a part of it.                                               *)
Displayed == mergeType # "SEAMLESS_COMBINE" /\ displaySyncFrameInitialize

ImageOfFrame ==
    /\ DOMAIN image = Tile
    /\ Displayed /\ frames[displayFrame].merged =>
          \A t \in Tile, m \in Machine :
             image[t][m] \subseteq SentFor(rendered, m, displaySyncFrameId)

LEMMA SentForGrows ==
    ASSUME Restarts = FALSE, Senders, NEW msg, Sends(msg), NEW m \in Machine, NEW s
    PROVE  SentFor(rendered, m, s) \subseteq SentFor(rendered', m, s)
<1>1. IsRecord(rendered) /\ Continues(rendered, msg) /\ rendered' = RecordAfter(rendered, msg)
  BY DEF Senders, Sends
<1>2. SentFor(rendered', m, s) =
             IF m # msg.machine \/ s # msg.syncId THEN SentFor(rendered, m, s)
             ELSE IF msg.status = "STARTED" THEN {msg.data}
             ELSE SentFor(rendered, m, s) \cup {msg.data}
  BY <1>1, AfterSentFor
<1>3. ASSUME m = msg.machine, s = msg.syncId, msg.status = "STARTED"
      PROVE  SentFor(rendered, m, s) = {}
  <2>1. mcrt[m].syncId \in Int /\ s \in Int /\ s > mcrt[m].syncId
    BY <1>1, <1>3, IdIsInt DEF Sends, Senders, Continues
  <2>2. s \in SyncId /\ rendered[m][s] # {} => s <= mcrt[m].syncId
    BY DEF Senders
  <2> QED
    BY <2>1, <2>2 DEF SentFor
<1> QED
  BY <1>2, <1>3

LEMMA PushKeepsImage ==
    ASSUME Restarts = FALSE, ContentsInv, ImageOfFrame, MergedStep,
           NEW msg, Sends(msg), NEW slow, NEW callbackOutcome,
           Push(msg, slow, callbackOutcome)
    PROVE  ImageOfFrame'
<1>1. image' = image /\ mergeType' = mergeType
  BY DEF Push, settingVars
<1>2. SUFFICES ASSUME Displayed', frames'[displayFrame'].merged,
                      NEW t \in Tile, NEW m \in Machine
               PROVE  image[t][m] \subseteq SentFor(rendered', m, displaySyncFrameId')
  BY <1>1 DEF ImageOfFrame
<1>3. /\ Displayed /\ displaySyncFrameId' = displaySyncFrameId
      /\ frames[displayFrame].merged
  BY <1>1, <1>2 DEF MergedStep, Displayed
<1>4. image[t][m] \subseteq SentFor(rendered, m, displaySyncFrameId)
  BY <1>3 DEF ImageOfFrame
<1> QED
  BY <1>3, <1>4, SentForGrows DEF ContentsInv

(* An accumulation shows, on the tiles that it refreshes, what the frame   *)
(* holds.                                                                  *)
LEMMA AccumulateShows ==
    ASSUME NEW frame, NEW table, NEW tiles, NEW machines, NEW t \in Tile, NEW m \in Machine,
           NEW shown, m \in frame.receivedAll => frame.fb[m] = shown,
           t \notin tiles => table[t][m] \subseteq shown
    PROVE  Accumulate(frame, table, tiles, machines)[t][m] \subseteq shown
<1>1. m \in Contributors(frame, machines) => m \in frame.receivedAll
  BY DEF Contributors
<1>2. CASE t \in tiles
  <2>1. Accumulate(frame, table, tiles, machines)[t][m] =
          IF m \in Contributors(frame, machines) THEN frame.fb[m] ELSE {}
    BY <1>2 DEF Accumulate
  <2> QED
    BY <1>1, <2>1
<1>3. CASE t \notin tiles
  <2>1. Accumulate(frame, table, tiles, machines)[t] = table[t]
    BY <1>3 DEF Accumulate
  <2> QED
    BY <1>3, <2>1
<1> QED
  BY <1>2, <1>3

LEMMA MergedImageShows ==
    ASSUME NEW frame, NEW table, NEW request, NEW sameReso, Merges(frame, sameReso),
           NEW t \in Tile, NEW m \in Machine, NEW shown,
           m \in frame.receivedAll => frame.fb[m] = shown,
           frame.merged => table[t][m] \subseteq shown
    PROVE  MergedImage(frame, table, request, sameReso)[t][m] \subseteq shown
<1> DEFINE begun == IF frame.merged THEN table
                    ELSE Accumulate(frame, table, Tile, {frame.first})
           tiles == PartialMergeTiles(frame.partialMergeStartTileId, request, TotalTiles)
<1>1. MergedImage(frame, table, request, sameReso) = Accumulate(frame, begun, tiles, Machine)
  BY DEF MergedImage
<1>2. begun[t][m] \subseteq shown
  BY AccumulateShows
<1> HIDE DEF begun
<1> QED
  BY <1>1, <1>2, AccumulateShows

(* What is sent is of the display frame's syncId alone.                    *)
LEMMA SendImageShows ==
    ASSUME ContentsInv, ImageOfFrame, mergeType # "SEAMLESS_COMBINE",
           NEW request, NEW sameReso, SendImage(request, sameReso)
    PROVE  \/ image' = image /\ frames'[displayFrame].merged = frames[displayFrame].merged
           \/ /\ displaySyncFrameId \in SyncId /\ DOMAIN image' = Tile
              /\ \A t \in Tile, m \in Machine :
                    image'[t][m] \subseteq SentFor(rendered, m, displaySyncFrameId)
<1> DEFINE frame == frames[displayFrame]
           decoded == DecodeAll(frame)
           g == SentFrame(frame, request, sameReso)
<1>1. /\ displayFrame # 0
      /\ frames' = [frames EXCEPT ![displayFrame] = g]
      /\ image' = MergedImage(decoded, image, request, sameReso)
  BY DEF SendImage, SentFrame
<1>2. displayFrame \in Slot /\ Collects(frame) /\ DOMAIN frames = Slot
  BY <1>1, DisplayedFrame DEF ContentsInv, Contents
<1>3. /\ decoded.receivedAll = frame.receivedAll /\ decoded.merged = frame.merged
      /\ decoded.messagesTotal = frame.messagesTotal
      /\ DOMAIN decoded = Fields
  BY <1>2 DEF DecodeAll, Collects, Counts, Fields, EmptyFrame
<1>4. CASE Merges(decoded, sameReso)
  <2>1. frame.messagesTotal # 0 /\ frame.received # {}
    BY <1>2, <1>3, <1>4 DEF Merges, Collects
  <2>2. PICK n \in Machine : n \in frame.receivedAll
    BY <1>2, <2>1 DEF Collects, Counts, ActiveIsCount
  <2>3. displaySyncFrameInitialize
    BY <1>2, <2>2 DEF ContentsInv, Contents, Unheard
  <2>4. IsOf(rendered, frame, displaySyncFrameId)
    <3>1. displayFrame = LiveSlot(displaySyncFrameId) /\ displaySyncFrameId <= NewestId
      BY <1>1, <2>3, DisplayedFrame
    <3>2. displaySyncFrameId \in Int /\ NewestId \in Int
      BY <2>3, CacheFramesAssumption
         DEF ContentsInv, Contents, NewestId, WindowInv, IsWindow, Window
    <3> QED
      BY <2>3, <3>1, <3>2 DEF ContentsInv, Contents
  <2>5. displaySyncFrameId \in SyncId
    BY <2>2, <2>4 DEF IsOf, SentFor
  <2>6. ASSUME NEW m \in Machine, m \in frame.receivedAll
        PROVE  decoded.fb[m] = SentFor(rendered, m, displaySyncFrameId)
    <3>1. decoded.fb = [k \in Machine |-> IF k \in frame.received
                                            THEN frame.fb[k] \cup frame.chans[k].queue
                                            ELSE frame.fb[k]]
      BY <1>2, <2>1 DEF DecodeAll, Collects, Counts, Fields, EmptyFrame
    <3>2. m \notin frame.received => frame.chans[m].queue = {}
      BY <1>2 DEF Collects
    <3>3. Held(frame, m) = SentFor(rendered, m, displaySyncFrameId)
      BY <2>4, <2>6 DEF IsOf
    <3> HIDE DEF decoded
    <3> QED
      BY <3>1, <3>2, <3>3 DEF Held
  <2>7. ASSUME NEW t \in Tile, NEW m \in Machine
        PROVE  image'[t][m] \subseteq SentFor(rendered, m, displaySyncFrameId)
    <3>1. decoded.merged => image[t][m] \subseteq SentFor(rendered, m, displaySyncFrameId)
      BY <1>3, <2>3 DEF ImageOfFrame, Displayed
    <3>2. m \in decoded.receivedAll =>
            decoded.fb[m] = SentFor(rendered, m, displaySyncFrameId)
      BY <1>3, <2>6
    <3> HIDE DEF decoded
    <3> QED
      BY <1>1, <1>4, <3>1, <3>2, MergedImageShows
  <2>8. DOMAIN image' = Tile
    BY <1>1, <1>4 DEF MergedImage, Accumulate
  <2> QED
    BY <2>5, <2>7, <2>8
<1>5. CASE ~Merges(decoded, sameReso)
  <2>1. image' = image
    BY <1>1, <1>5 DEF MergedImage
  <2>2. g.merged = frame.merged
    <3> DEFINE collected == IF decoded.messagesTotal = 0 THEN decoded ELSE CollectGarbage(decoded)
               merged == Merge(decoded, request, sameReso)
    <3> HIDE DEF decoded
    <3>1. merged = collected
      BY <1>5 DEF Merge
    <3>2. collected.merged = frame.merged /\ DOMAIN collected = Fields
      BY <1>3 DEF CollectGarbage, Fields, EmptyFrame
    <3> HIDE DEF collected, merged
    <3>3. ResetLastHistory(merged).merged = frame.merged
      BY <3>1, <3>2 DEF ResetLastHistory, Fields, EmptyFrame
    <3> QED
      BY <3>3 DEF SentFrame, merged, decoded
  <2> HIDE DEF g
  <2> QED
    BY <1>1, <1>2, <2>1, <2>2
<1> QED
  BY <1>4, <1>5

LEMMA StepImage ==
    ASSUME MergeTypes = {}, CallbackOutcomes \subseteq {TRUE}, Restarts = FALSE,
           ContentsInv, ImageOfFrame, [Next]_vars
    PROVE  ImageOfFrame'
<1>1. CASE ReceiveMessage
  <2>1. PICK msg, slow, callbackOutcome :
           /\ Sends(msg)
           /\ callbackOutcome \in CallbackOutcomes
           /\ Push(msg, slow, callbackOutcome)
    BY <1>1, ReceivedMessage DEF ContentsInv
  <2>2. MergedStep
    BY <2>1, PushContents
  <2> QED
    BY <2>1, <2>2, PushKeepsImage
<1>2. CASE \E request \in Requests, sameReso \in BOOLEAN : SendImage(request, sameReso)
  <2>1. PICK request \in Requests, sameReso \in BOOLEAN : SendImage(request, sameReso)
    BY <1>2
  <2>2. /\ UNCHANGED <<mergeType, displayFrame, displaySyncFrameInitialize,
                       displaySyncFrameId, rendered>>
    BY <2>1 DEF SendImage, displayVars, settingVars, mcrtVars
  <2>3. CASE mergeType = "SEAMLESS_COMBINE"
    BY <2>1, <2>2, <2>3 DEF SendImage, MergedImage, Accumulate, ImageOfFrame, Displayed
  <2>4. CASE mergeType # "SEAMLESS_COMBINE"
    BY <2>1, <2>2, <2>4, SendImageShows DEF ImageOfFrame, Displayed
  <2> QED
    BY <2>3, <2>4
<1>3. CASE \/ \E value \in Feedbacks : SetFeedback(value)
           \/ \E machine \in Tunnels : StageTunnel(machine)
           \/ UNCHANGED vars
  BY <1>3 DEF SetFeedback, StageTunnel, vars, settingVars, displayVars, mcrtVars,
              ImageOfFrame, Displayed
<1> QED
  BY <1>1, <1>2, <1>3 DEF Next

(* An image that is sent shows, on every tile, data of the display syncId  *)
(* only, although a partial merge refreshes some of the tiles: mergeFirstFb*)
(* resets them all the first time.  A machine that starts over on the same *)
(* syncId leaves its old data on the other tiles, hence Restarts = FALSE.  *)
THEOREM ImagesAreOfOneFrame ==
    ASSUME MergeTypes = {}, CallbackOutcomes \subseteq {TRUE}, Restarts = FALSE
    PROVE  Spec => ImageIsOfOneFrame
<1>1. Init => ImageOfFrame
  BY DEF Init, ImageOfFrame, Displayed
<1>2. ContentsInv /\ ImageOfFrame /\ [Next]_vars => ImageOfFrame'
  BY StepImage
<1>3. ContentsInv /\ ImageOfFrame /\ [Next]_vars =>
        [(image' # image /\ mergeType # "SEAMLESS_COMBINE") =>
           \A t \in Tile, m \in Machine :
             image'[t][m] \subseteq rendered[m][displaySyncFrameId]]_vars
  <2> SUFFICES ASSUME ContentsInv, ImageOfFrame, Next, image' # image,
                      mergeType # "SEAMLESS_COMBINE"
               PROVE  \A t \in Tile, m \in Machine :
                         image'[t][m] \subseteq rendered[m][displaySyncFrameId]
    BY DEF vars
  <2>1. PICK request \in Requests, sameReso \in BOOLEAN : SendImage(request, sameReso)
    BY ReceivedMessage
       DEF Next, ContentsInv, Push, SetFeedback, StageTunnel
  <2> QED
    BY <2>1, SendImageShows DEF SentFor
<1> QED
  BY <1>1, <1>2, <1>3, ContentsInvariant, PTL DEF Spec, ImageIsOfOneFrame

-------------------------------------------------------------------------------
(* The status of the one frame of PICKUP_LATEST and SEAMLESS_COMBINE.  A   *)
(* machine that has not sent an image since it started counts as started,  *)
(* whatever it reports.                                                    *)
Reports(frame, last) ==
    /\ \A m \in Machine :
          IF m \in frame.receivedAll THEN frame.statusAll[m] \in {"STARTED", last[m].status}
          ELSE frame.statusAll[m] = "FINISHED"
    /\ frame.messagesAll = 0 => frame.receivedAll = {}
    /\ frame.messagesAll = 1 => \A m \in frame.receivedAll : last[m].status = "STARTED"
    /\ frame.receivedAll # {} => frame.status = CalcCurrentFrameStatus(frame)

ReportsInv ==
    /\ mergeType # "SYNCID_LINEUP"
    /\ mergeType = "PICKUP_LATEST" /\ displaySyncFrameInitialize => Reports(frames[1], mcrt)
    /\ mergeType = "SEAMLESS_COMBINE" =>
          /\ Reports(frames[1], mcrt)
          /\ \A m \in Machine : mcrt[m].syncId # -1 => m \in frames[1].receivedAll

LEMMA PushFrameReports ==
    ASSUME Senders, NEW msg, Sends(msg), NEW frame, Collects(frame),
           msg.machine \notin frame.receivedAll => msg.status = "STARTED",
           Reports(frame, mcrt), NEW staged, NEW slow
    PROVE  LET g == PushFrame(frame, msg, staged, slow)
           IN  /\ Reports(g, mcrt')
               /\ g.receivedAll = frame.receivedAll \cup {msg.machine}
<1> DEFINE g == PushFrame(frame, msg, staged, slow)
           m == msg.machine
           chans == PushChans(frame.chans[m], msg)
<1>1. /\ Continues(rendered, msg) /\ m \in Machine
      /\ mcrt' = [mcrt EXCEPT ![m] = [syncId |-> msg.syncId, status |-> msg.status,
                                      progress |-> msg.progress, data |-> msg.data]]
  BY DEF Sends, Continues
<1>2. FramePushed(frame, msg, chans, g)
  BY <1>1, PushFrameEffect
<1>3. ChansPushed(frame.chans[m], msg, chans)
  BY <1>1, PushChansEffect DEF Collects
<1>4. /\ mcrt'[m].status = msg.status
      /\ \A n \in Machine : n # m => mcrt'[n] = mcrt[n]
  BY <1>1 DEF Senders
<1> HIDE DEF g, chans
<1>5. g.statusAll[m] \in {"STARTED", msg.status}
  BY <1>1, <1>2, <1>3 DEF FramePushed, ChansPushed, Collects
<1>6. \A n \in Machine : n # m => g.statusAll[n] = frame.statusAll[n]
  BY <1>2 DEF FramePushed, Collects
<1>7. g.receivedAll = frame.receivedAll \cup {m} /\ g.status = CalcCurrentFrameStatus(g)
      /\ g.messagesAll = Least(frame.messagesAll + 1, 2) /\ frame.messagesAll \in 0 .. 2
  BY <1>2 DEF FramePushed, Collects
<1>8. g.messagesAll # 0 /\ (g.messagesAll = 1 => frame.messagesAll = 0)
  BY <1>7 DEF Least
<1>9. g.messagesAll = 1 => g.receivedAll = {m} /\ msg.status = "STARTED"
  BY <1>7, <1>8 DEF Reports
<1> QED
  BY <1>4, <1>5, <1>6, <1>7, <1>8, <1>9 DEF Reports, g

LEMMA PickupReports ==
    ASSUME ContentsInv, ReportsInv, mergeType = "PICKUP_LATEST",
           NEW msg, Sends(msg), NEW slow,
           PickupNewer(msg, slow, TRUE) \/ PickupSame(msg, slow)
    PROVE  Reports(frames'[1], mcrt')
<1> DEFINE s == msg.syncId
           before == IF displaySyncFrameInitialize /\ displaySyncFrameId = s THEN frames[1]
                     ELSE StartedFor(s)
<1>1. /\ s \in SyncId /\ s \in Int /\ 1 \in Slot
      /\ DOMAIN frames = Slot /\ Collects(frames[1]) /\ displaySyncFrameId \in Int
  BY IdIsInt, CacheFramesAssumption DEF Sends, Continues, ContentsInv, Contents, Slot
<1>2. /\ frames'[1] = PushFrame(before, msg, tunnelStaged, slow)
      /\ displaySyncFrameInitialize => displaySyncFrameId <= s
  BY <1>1 DEF PickupNewer, PickupSame, PushInto
<1>3. ASSUME ~(displaySyncFrameInitialize /\ displaySyncFrameId = s)
      PROVE  Collects(before) /\ IsOf(rendered, before, s) /\ Reports(before, mcrt)
  <2>1. before = StartedFor(s)
    BY <1>3
  <2>2. Collects(before) /\ Unheard(before)
    BY <1>1, <2>1, RecycledFrame DEF StartedFor
  <2>3. \A m \in Machine : SentFor(rendered, m, s) = {}
    <3> DEFINE newest == IF displaySyncFrameInitialize THEN displaySyncFrameId ELSE -1
    <3>1. newest \in Int /\ newest < s /\ \A m \in Machine : mcrt[m].syncId <= newest
      BY <1>1, <1>2, <1>3, IdIsInt DEF ContentsInv, Contents, NewestId
    <3> HIDE DEF newest
    <3> QED
      BY <1>1, <3>1, NothingBeyond DEF ContentsInv
  <2> HIDE DEF before
  <2> QED
    BY <2>2, <2>3, UnheardIsOf DEF Unheard, Reports
<1>4. ASSUME displaySyncFrameInitialize, displaySyncFrameId = s
      PROVE  Collects(before) /\ IsOf(rendered, before, s) /\ Reports(before, mcrt)
  BY <1>1, <1>4 DEF ContentsInv, Contents, NewestId, LiveSlot, ReportsInv
<1> HIDE DEF before
<1>5. Collects(before) /\ IsOf(rendered, before, s) /\ Reports(before, mcrt)
  BY <1>3, <1>4
<1>6. msg.machine \notin before.receivedAll => msg.status = "STARTED"
  BY <1>1, <1>5 DEF IsOf, Sends, Continues, SentFor
<1> QED
  BY <1>2, <1>5, <1>6, PushFrameReports DEF ContentsInv

(* In SEAMLESS_COMBINE no message is dropped.                              *)
LEMMA SeamlessReports ==
    ASSUME ContentsInv, ReportsInv,
           NEW msg, Sends(msg), NEW slow, PushSeamlessCombine(msg, slow)
    PROVE  /\ Reports(frames'[1], mcrt')
           /\ \A m \in Machine : mcrt'[m].syncId # -1 => m \in frames'[1].receivedAll
<1>1. /\ mergeType = "SEAMLESS_COMBINE" /\ 1 \in Slot /\ DOMAIN frames = Slot
      /\ Collects(frames[1])
  BY CacheFramesAssumption DEF PushSeamlessCombine, ContentsInv, Contents, Slot
<1>2. frames'[1] = PushFrame(frames[1], msg, tunnelStaged, slow)
  BY <1>1 DEF PushSeamlessCombine, PushInto
<1>3. /\ Reports(frames[1], mcrt)
      /\ \A m \in Machine : mcrt[m].syncId # -1 => m \in frames[1].receivedAll
  BY <1>1 DEF ReportsInv
<1>4. /\ msg.machine \in Machine /\ msg.syncId # -1
      /\ msg.status # "STARTED" => msg.syncId = mcrt[msg.machine].syncId
      /\ \A m \in Machine : m # msg.machine => mcrt'[m] = mcrt[m]
  BY IdIsInt DEF Sends, Continues, ContentsInv, Senders
<1>5. msg.machine \notin frames[1].receivedAll => msg.status = "STARTED"
  BY <1>3, <1>4
<1>6. /\ Reports(frames'[1], mcrt')
      /\ frames'[1].receivedAll = frames[1].receivedAll \cup {msg.machine}
  BY <1>1, <1>2, <1>3, <1>5, PushFrameReports DEF ContentsInv
<1> QED
  BY <1>3, <1>4, <1>6

(* A machine whose message is dropped has sent nothing for the frame.      *)
LEMMA DropOlderReports ==
    ASSUME ContentsInv, ReportsInv, mergeType = "PICKUP_LATEST",
           NEW msg, Sends(msg), DropOlder(msg)
    PROVE  Reports(frames'[1], mcrt')
<1> DEFINE m == msg.machine
           id == displaySyncFrameId
<1>1. /\ m \in Machine /\ msg.syncId \in Int /\ mcrt[m].syncId \in Int
      /\ mcrt[m].syncId <= msg.syncId
      /\ \A n \in Machine : n # m => mcrt'[n] = mcrt[n]
  BY IdIsInt DEF Sends, Continues, ContentsInv, Senders
<1>2. /\ displaySyncFrameInitialize /\ msg.syncId < id /\ frames' = frames
      /\ id \in SyncId /\ id \in Int
      /\ IsOf(rendered, frames[1], id) /\ Reports(frames[1], mcrt)
  BY IdIsInt DEF DropOlder, ContentsInv, Contents, ReportsInv, NewestId, LiveSlot
<1>3. rendered[m][id] = {}
  <2>1. rendered[m][id] # {} => id <= mcrt[m].syncId
    BY <1>1, <1>2 DEF ContentsInv, Senders
  <2> QED
    BY <1>1, <1>2, <2>1
<1>4. m \notin frames[1].receivedAll
  BY <1>1, <1>2, <1>3 DEF IsOf, SentFor
<1>5. frames[1].receivedAll \subseteq Machine
  BY CacheFramesAssumption DEF ContentsInv, Contents, Collects, Counts, Slot
<1> QED
  BY <1>1, <1>2, <1>4, <1>5 DEF Reports

LEMMA StepReports ==
    ASSUME MergeTypes = {}, CallbackOutcomes \subseteq {TRUE},
           ContentsInv, ReportsInv, [Next]_vars
    PROVE  ReportsInv'
<1>1. CASE ReceiveMessage
  <2>1. PICK msg, slow, callbackOutcome :
           /\ Sends(msg)
           /\ callbackOutcome \in CallbackOutcomes
           /\ Push(msg, slow, callbackOutcome)
    BY <1>1, ReceivedMessage DEF ContentsInv
  <2>2. mergeType' = mergeType /\ callbackOutcome = TRUE
    BY <2>1 DEF Push, settingVars
  <2>3. CASE mergeType = "PICKUP_LATEST"
    <3>1. PushPickupLatest(msg, slow, callbackOutcome)
      BY <2>1, <2>3 DEF Push, PushSeamlessCombine, PushSyncidLineup
    <3> QED
      BY <2>1, <2>2, <2>3, <3>1, PickupReports, DropOlderReports
         DEF PushPickupLatest, ReportsInv
  <2>4. CASE mergeType = "SEAMLESS_COMBINE"
    <3>1. PushSeamlessCombine(msg, slow)
      BY <2>1, <2>4 DEF Push, PushPickupLatest, PushSyncidLineup
    <3> QED
      BY <2>1, <2>2, <2>4, <3>1, SeamlessReports DEF ReportsInv
  <2>5. mergeType \in {"PICKUP_LATEST", "SEAMLESS_COMBINE"}
    BY DEF ReportsInv, ContentsInv, Contents, MergeType
  <2> QED
    BY <2>2, <2>3, <2>4, <2>5 DEF ReportsInv
<1>2. CASE \E request \in Requests, sameReso \in BOOLEAN : SendImage(request, sameReso)
  <2>1. PICK request \in Requests, sameReso \in BOOLEAN : SendImage(request, sameReso)
    BY <1>2
  <2> DEFINE g == SentFrame(frames[1], request, sameReso)
  <2>2. displayFrame = 1 /\ 1 \in Slot /\ DOMAIN frames = Slot /\ Collects(frames[1])
    BY CacheFramesAssumption DEF ContentsInv, Contents, ReportsInv, Slot
  <2>3. frames'[1] = g /\ mcrt' = mcrt /\ mergeType' = mergeType
        /\ displaySyncFrameInitialize' = displaySyncFrameInitialize
    BY <2>1, <2>2 DEF SendImage, SentFrame, displayVars, settingVars, mcrtVars
  <2>4. ShowsSame(frames[1], g)
    BY <2>2, SentFrameShowsSame
  <2> HIDE DEF g
  <2>5. /\ Reports(frames[1], mcrt) => Reports(g, mcrt)
        /\ g.receivedAll = frames[1].receivedAll
    BY <2>4 DEF ShowsSame, Reports, CalcCurrentFrameStatus
  <2> QED
    BY <2>3, <2>5 DEF ReportsInv
<1>3. CASE \/ \E value \in Feedbacks : SetFeedback(value)
           \/ \E machine \in Tunnels : StageTunnel(machine)
           \/ UNCHANGED vars
  BY <1>3 DEF SetFeedback, StageTunnel, vars, settingVars, displayVars, mcrtVars, ReportsInv
<1> QED
  BY <1>1, <1>2, <1>3 DEF Next

(* No machine that still renders hides behind FINISHED, and what the       *)
(* client is told to be cancelled or failed has a machine that said so,    *)
(* in the frame of PICKUP_LATEST and in that of SEAMLESS_COMBINE.          *)
(* In SYNCID_LINEUP a machine goes on to the next syncId while its frame   *)
(* waits, so that its last message is not about the frame.                 *)
THEOREM StatusAlwaysAgreesWithReports ==
    ASSUME MergeTypes = {}, CallbackOutcomes \subseteq {TRUE},
           "SYNCID_LINEUP" \notin InitialMergeTypes
    PROVE  Spec => []StatusAgreesWithReports
<1>1. Init => ReportsInv
  <2> SUFFICES ASSUME Init PROVE ReportsInv
    OBVIOUS
  <2>1. frames[1] = EmptyFrame /\ \A m \in Machine : mcrt[m].syncId = -1
    BY CacheFramesAssumption DEF Init, Slot
  <2>2. Reports(frames[1], mcrt)
    BY <2>1, EmptyFrameCollects DEF Reports, Unheard
  <2> QED
    BY <2>1, <2>2 DEF Init, ReportsInv
<1>2. ContentsInv /\ ReportsInv /\ [Next]_vars => ReportsInv'
  BY StepReports
<1>3. ASSUME ContentsInv, Reports(frames[1], mcrt), frames[1].receivedAll # {}
      PROVE  AgreesWithReports(frames[1])
  <2> DEFINE frame == frames[1]
             R == {mcrt[m].status : m \in frame.receivedAll}
  <2>1. frame.receivedAll \subseteq Machine
    BY <1>3, CacheFramesAssumption DEF ContentsInv, Contents, Collects, Counts, Slot
  <2>2. PICK n \in frame.receivedAll : TRUE
    BY <1>3
  <2>3. frame.status = CalcCurrentFrameStatus(frame)
    BY <1>3 DEF Reports
  <2>4. ASSUME frame.status = "FINISHED" PROVE R = {"FINISHED"}
    <3>1. \A m \in Machine : frame.statusAll[m] = "FINISHED"
      BY <2>3, <2>4 DEF CalcCurrentFrameStatus
    <3> QED
      BY <1>3, <2>1, <2>2, <3>1 DEF Reports
  <2>5. ASSUME NEW status \in {"ERROR", "CANCELLED"}, frame.status = status
        PROVE  status \in R
    <3>1. PICK m \in Machine : frame.statusAll[m] = status
      BY <2>3, <2>5 DEF CalcCurrentFrameStatus
    <3> QED
      BY <1>3, <2>5, <3>1 DEF Reports
  <2>6. ASSUME frame.status = "STARTED" PROVE R = {"STARTED"}
    <3>1. frame.messagesAll = 1
      BY <2>3, <2>6 DEF CalcCurrentFrameStatus
    <3> QED
      BY <1>3, <2>1, <2>2, <3>1 DEF Reports
  <2> QED
    BY <2>4, <2>5, <2>6 DEF AgreesWithReports
<1>4. ContentsInv /\ ReportsInv => StatusAgreesWithReports
  <2> SUFFICES ASSUME ContentsInv, ReportsInv PROVE StatusAgreesWithReports
    OBVIOUS
  <2>1. \A live \in LiveFrames : live[1] = frames[1] /\ Reports(frames[1], mcrt)
    BY DEF LiveFrames, ReportsInv, ContentsInv, Contents, MergeType
  <2>2. mergeType = "SEAMLESS_COMBINE" => Reports(frames[1], mcrt)
    BY DEF ReportsInv
  <2>3. Reports(frames[1], mcrt) => AgreesWithReports(frames[1])
    BY <1>3 DEF AgreesWithReports
  <2> QED
    BY <2>1, <2>2, <2>3 DEF StatusAgreesWithReports
<1> QED
  BY <1>1, <1>2, <1>4, ContentsInvariant, PTL DEF Spec
===============================================================================
