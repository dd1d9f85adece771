-------------------------- MODULE ProgressiveFeedback --------------------------
(***************************************************************************)
(* Image feedback for adaptive sampling: the merge computation sends the   *)
(* records of its MergeActionTrackers back, so that every MCRT computation *)
(* can repeat on its own copy what the merge did to its data.              *)
(*                                                                         *)
(* The MCRT side of feedback is outside the repository's sources.  It      *)
(* begins a new copy with each rendering, and takes a record for the       *)
(* syncId that it renders and no other.                                    *)
(***************************************************************************)
EXTENDS FbMsgMultiFrames

CONSTANT MaxInFlight    \* bound: feedback messages on their way to one machine

VARIABLES
    inFlight,           \* the feedback messages sent to each machine
    replica             \* the copy that each machine has rebuilt

feedbackVars == <<inFlight, replica>>
allVars == <<vars, feedbackVars>>

EmptyReplica == [fb |-> {}, image |-> [t \in Tile |-> {}]]

Replay(copy, data) == DecodeLoop(copy, data)

(* A machine takes a record: it replays one of the syncId that it renders. *)
Taken(copy, syncId, record) ==
    IF record.syncId = syncId THEN Replay(copy, record.data) ELSE copy

FeedbackInit ==
    /\ Init
    /\ inFlight = [m \in Machine |-> <<>>]
    /\ replica = [m \in Machine |-> EmptyReplica]

FrameStep ==
    /\ Next
    /\ replica' = [m \in Machine |->
                     IF mcrt'[m] # mcrt[m] /\ mcrt'[m].status = "STARTED"
                       THEN EmptyReplica
                       ELSE replica[m]]
    /\ UNCHANGED inFlight

(* encodeMergeActionTracker of the display frame, one part per machine.    *)
SendFeedback ==
    /\ displayFrame # 0
    /\ LET frame   == frames[displayFrame]
           encoded == EncodedTrackers(frame, trackers[displayFrame])
       IN  /\ frame.feedbackActive
           /\ \A m \in frame.receivedAll : Len(inFlight[m]) < MaxInFlight
           /\ inFlight' = [m \in Machine |->
                IF m \in frame.receivedAll
                  THEN Append(inFlight[m], [syncId |-> frame.mySyncId, data |-> encoded[m]])
                  ELSE inFlight[m]]
           /\ trackers' = [trackers EXCEPT ![displayFrame] = ResetEncoded(frame, @)]
    /\ UNCHANGED <<frames, windowVars, displayVars, settingVars, mcrtVars, image, replica>>

ReceiveFeedback(m) ==
    /\ inFlight[m] # <<>>
    /\ inFlight' = [inFlight EXCEPT ![m] = Tail(@)]
    /\ replica' = [replica EXCEPT ![m] = Taken(@, mcrt[m].syncId, Head(inFlight[m]))]
    /\ UNCHANGED vars

FeedbackNext ==
    \/ FrameStep
    \/ SendFeedback
    \/ \E m \in Machine : ReceiveFeedback(m)

FeedbackSpec == FeedbackInit /\ [][FeedbackNext]_allVars

-------------------------------------------------------------------------------
(* The machines whose current rendering is on the display frame, when that *)
(* frame takes part in feedback.                                           *)
Followers ==
    IF frames[1].feedbackActive /\ displaySyncFrameInitialize
      THEN {m \in frames[1].receivedAll : mcrt[m].syncId = displaySyncFrameId}
      ELSE {}

(* A machine's copy once it has taken the records, and once it has taken,  *)
(* beside those on their way to it, the one that is being written.         *)
TakenAll(copy, syncId, records) ==
    LET After[n \in 0 .. Len(records)] ==
          IF n = 0 THEN copy ELSE Taken(After[n - 1], syncId, records[n])
    IN  After[Len(records)]

Expected(m) ==
    Replay(TakenAll(replica[m], mcrt[m].syncId, inFlight[m]), trackers[1][m].data)

(* The merge computation's view of machine m.                              *)
Actual(m) ==
    [fb |-> frames[1].fb[m],
     image |-> [t \in Tile |-> IF frames[1].merged THEN image[t][m] ELSE {}]]

OfRendering(copy, m) ==
    LET own == rendered[m][mcrt[m].syncId]
    IN  [fb |-> copy.fb \cap own, image |-> [t \in Tile |-> copy.image[t] \cap own]]

(* The records lead each machine to what the merge computation has of its  *)
(* current rendering, through images that are sent, messages that are      *)
(* dropped, new scene updates and feedback that is switched.               *)
FeedbackRebuildsRendering ==
    \A m \in Followers : OfRendering(Expected(m), m) = Actual(m)
===============================================================================
