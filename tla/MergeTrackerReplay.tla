-------------------------- MODULE MergeTrackerReplay --------------------------
(***************************************************************************)
(* One machine's data at the merge computation, the MergeActionTracker     *)
(* that records what is done to it, and the MCRT computation that repeats  *)
(* the recorded operations on its own copy when the encoded record         *)
(* arrives.  Records travel in order and are not lost.                     *)
(***************************************************************************)
EXTENDS PartialMergeSweep, MergeActionTracker

CONSTANTS
    MaxActionId,    \* bound: sendImageActionIds are 0 .. MaxActionId
    MaxRecord,      \* bound: a record of this many codes is sent first
    MaxPending      \* bound: records that have been sent and not replayed

ASSUME MaxActionIdAssumption == MaxActionId \in Nat

ActionId == 0 .. MaxActionId

VARIABLES
    tracker,        \* the MergeActionTracker of the machine
    merger,         \* what the merge computation has: fb and image
    nextId,         \* the next sendImageActionId of the machine
    sent,           \* encoded records on their way to the MCRT computation
    replica         \* what the MCRT computation has rebuilt: fb and image

replayVars == <<vars, tracker, merger, nextId, sent, replica>>

(* fb: the messages decoded into the machine's frame buffer;  image[t]:    *)
(* those that tile t of the merged image was last merged from.             *)
Copy == [fb : SUBSET ActionId, image : [Tile -> SUBSET ActionId]]
EmptyCopy == [fb |-> {}, image |-> [t \in Tile |-> {}]]

Replay(copy, data) == DecodeLoop(copy, data)

ReplayInit ==
    /\ Init
    /\ tracker = EmptyTracker
    /\ merger = EmptyCopy
    /\ nextId = 0
    /\ sent = <<>>
    /\ replica = EmptyCopy

(* FbMsgMultiChans::decodeAll with the ids of the messages that were       *)
(* received since the last one.  Ids that are skipped belong to messages   *)
(* that were dropped.                                                      *)
Decode(ids) ==
    /\ ids # {}
    /\ \A id \in ids : id >= nextId
    /\ merger' = DecodeMessages(merger, ids)
    /\ tracker' = TrackDecode(tracker, Upwards(ids))
    /\ nextId' = 1 + CHOOSE last \in ids : \A id \in ids : id <= last
    /\ UNCHANGED <<vars, sent, replica>>

MergeFull ==
    /\ FullMergeStep
    /\ merger' = MergeTiles(merger, Tile)
    /\ tracker' = TrackMergeFull(tracker)
    /\ UNCHANGED <<nextId, sent, replica>>

MergePartial(request) ==
    LET tiles == PartialMergeTiles(partialMergeStartTileId, request, TotalTiles)
    IN  /\ PartialMergeStep(request)
        /\ merger' = MergeTiles(merger, tiles)
        /\ tracker' = TrackMergePartial(tracker, tiles)
        /\ UNCHANGED <<nextId, sent, replica>>

(* encodeData: the record is closed and sent, and a new one is begun.      *)
(* made is history: what the merge computation has at that time.           *)
EncodeData ==
    /\ tracker.data # <<>>
    /\ Len(sent) < MaxPending
    /\ sent' = Append(sent, [data |-> tracker.data, made |-> merger])
    /\ tracker' = ResetEncode(tracker)
    /\ UNCHANGED <<vars, merger, nextId, replica>>

(* decodeDataOnMCRTComputation, and the operations it leads to.            *)
ReplayRecord ==
    /\ sent # <<>>
    /\ replica' = Replay(replica, Head(sent).data)
    /\ sent' = Tail(sent)
    /\ UNCHANGED <<vars, tracker, merger, nextId>>

Merge == MergeFull \/ \E request \in Requests : MergePartial(request)

ReplayNext ==
    \/ /\ Len(tracker.data) < MaxRecord
       /\ (\E ids \in SUBSET ActionId : Decode(ids)) \/ Merge
    \/ EncodeData
    \/ ReplayRecord

ReplaySpec == ReplayInit /\ [][ReplayNext]_replayVars

-------------------------------------------------------------------------------
(* Nothing is lost, invented or reordered between the merge and its        *)
(* repetition: at any time, replaying the records in flight and then the   *)
(* one being written leads the MCRT computation from what it has to what   *)
(* the merge computation has ("simulating exactly the same merge           *)
(* operation", MergeActionTracker.h:24).                                   *)
ReplicaIsOnItsWay ==
    LET Arrived[n \in 0 .. Len(sent)] ==
          IF n = 0 THEN replica ELSE Replay(Arrived[n - 1], sent[n].data)
    IN  Replay(Arrived[Len(sent)], tracker.data) = merger

Lagging == INSTANCE LaggingCopy WITH
    Value <- Copy, Initially <- EmptyCopy,
    source <- merger, snapshots <- [i \in DOMAIN sent |-> sent[i].made]

(* The MCRT computation shows the states of the merge computation at every *)
(* encodeData, in order, and no other ones.                                *)
ImplementsLaggingCopy == Lagging!Spec
===============================================================================
