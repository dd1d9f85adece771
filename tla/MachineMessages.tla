---------------------------- MODULE MachineMessages ----------------------------
(***************************************************************************)
(* The messages of several machines on one frame of the merge computation, *)
(* from their arrival to the image that is sent: what waits is decoded,    *)
(* latency logs and vector packets travel on with the image.               *)
(*                                                                         *)
(* The code can decode messages when the image is made (DecodeMode DELAY)  *)
(* or as they arrive (ONTHEFLY).  The frame of this module delays; direct  *)
(* is what the other mode makes of the same messages.                      *)
(***************************************************************************)
EXTENDS FbMsgMultiChans

CONSTANTS
    Sender,         \* the MCRT computations
    NoSender,       \* mFirstMachineId -1
    Contents,       \* the sequences of buffers that a message may hold
    MaxMessages     \* bound: messages of a behaviour

ASSUME SenderAssumption == IsFiniteSet(Sender) /\ NoSender \notin Sender

(* The buffers of different names go to different planes: the computations *)
(* name them after what they hold, and decodeAll of the code decodes all   *)
(* names in parallel.                                                      *)
Buffer == [name : STRING, type : STRING, reso : Reso, pixels : SUBSET Pixel]

ASSUME ContentsAssumption ==
    \A content, other \in Contents :
        /\ content \in Seq(Buffer)
        /\ \A i \in DOMAIN content, j \in DOMAIN other :
             content[i].name # other[j].name =>
                PlanesOf(content[i]) \cap PlanesOf(other[j]) = {}

VARIABLES
    machines,       \* mMessage and mFb of the frame
    direct,         \* the same with DecodeMode ONTHEFLY
    received,       \* mReceived: the machines heard since the last image
    receivedAll,    \* mReceivedAll: those heard on this frame
    first,          \* mFirstMachineId
    encodedOnce,    \* mEncodeLatencyLogCountTotal > 0, mSnapshotStartTimeTotal > 0
    messages,       \* the number of messages so far
    vecPackets,     \* the newest vector packet of each machine's rendering
    upstream        \* what the images that were sent carried, in order

messageVars == <<machines, direct, received, receivedAll, first, encodedOnce,
                 messages, vecPackets, upstream>>

MessagesInit ==
    /\ machines = [m \in Sender |-> NewMachine]
    /\ direct = machines
    /\ received = {}
    /\ receivedAll = {}
    /\ first = NoSender
    /\ encodedOnce = FALSE
    /\ messages = 0
    /\ vecPackets = [m \in Sender |-> 0]
    /\ upstream = <<>>

Numbered(content, id) ==
    [i \in DOMAIN content |->
        [name |-> content[i].name, type |-> content[i].type, reso |-> content[i].reso,
         pixels |-> content[i].pixels, id |-> id]]

(* A machine begins a rendering with STARTED, and may begin it again.      *)
Receive(m, status, content) ==
    LET id == messages + 1
        msg == [status |-> status, progress |-> 1, snapshotStartTime |-> id,
                buffers |-> Numbered(content, id)]
        started == status = "STARTED"
        hasVecPacket == \E i \in DOMAIN content : content[i].name = VecPacket
        others == IF started THEN receivedAll \ {m} ELSE receivedAll
    IN  /\ messages < MaxMessages
        /\ started \/ m \in receivedAll
        /\ machines' = [machines EXCEPT ![m] = Push(@, msg, TRUE, FALSE)]
        /\ direct' = [direct EXCEPT ![m] = Push(@, msg, FALSE, FALSE)]
        /\ received' = received \cup {m}
        /\ receivedAll' = receivedAll \cup {m}
        /\ first' = IF others = {} THEN m ELSE first
        /\ messages' = id
        /\ vecPackets' = [vecPackets EXCEPT ![m] =
                            IF hasVecPacket THEN id ELSE IF started THEN 0 ELSE @]
        /\ UNCHANGED <<encodedOnce, upstream>>

(* encodeLatencyLog of the frame: at first only the log of the machine     *)
(* that was heard first.                                                   *)
EncodeLatencyLog ==
    LET encoded == IF encodedOnce THEN received
                   ELSE IF receivedAll = {} THEN {} ELSE {first}
    IN  [m \in encoded |-> EncodeLatencyLogOf(machines[m])]

EncodeVecPacket ==
    LET encoded == {m \in received : machines[m].hasVecPacket}
    IN  [m \in encoded |-> EncodeVecPacketOf(machines[m])]

(* getSnapshotStartTime: at first that of the machine that was heard       *)
(* first, later the least one.                                             *)
SnapshotStartTime ==
    IF encodedOnce THEN LET times == {machines[m].snapshotStartTime : m \in received}
                        IN  CHOOSE t \in times : \A u \in times : t <= u
    ELSE IF receivedAll = {} THEN 0 ELSE machines[first].snapshotStartTime

(* resetLastHistory, after the image is sent.                              *)
ResetLastMessages(all) == [m \in Sender |-> Reset(all[m])]

SendImageOfFrame ==
    /\ received # {}
    /\ upstream' = Append(upstream, [logs |-> EncodeLatencyLog, packets |-> EncodeVecPacket,
                                     startTime |-> SnapshotStartTime,
                                     newest |-> vecPackets, sent |-> messages])
    /\ machines' = ResetLastMessages(
                     [m \in Sender |-> IF m \in received THEN DecodeAll(machines[m])
                                                         ELSE machines[m]])
    /\ direct' = ResetLastMessages(direct)
    /\ received' = {}
    /\ encodedOnce' = TRUE
    /\ UNCHANGED <<receivedAll, first, messages, vecPackets>>

(* resetWholeHistory: the frame is used for a newer scene update.  What    *)
(* waited is lost.                                                         *)
ReuseFrame ==
    /\ receivedAll # {}
    /\ machines' = ResetLastMessages(machines)
    /\ direct' = ResetLastMessages(direct)
    /\ received' = {}
    /\ receivedAll' = {}
    /\ first' = NoSender
    /\ encodedOnce' = FALSE
    /\ vecPackets' = [m \in Sender |-> 0]
    /\ UNCHANGED <<messages, upstream>>

MessagesNext ==
    \/ \E m \in Sender, status \in {"STARTED", "RENDERING"}, content \in Contents :
         Receive(m, status, content)
    \/ SendImageOfFrame
    \/ ReuseFrame

MessagesSpec == MessagesInit /\ [][MessagesNext]_messageVars

-------------------------------------------------------------------------------
(* Decoding late makes no difference: whatever messages wait, in whatever  *)
(* buffers and after whatever change of size, the frame buffer will be the *)
(* one that decoding at once would have made.                              *)
DelayedDecodeIsDirect ==
    \A m \in receivedAll : DecodeAll(machines[m]).fb = direct[m].fb

(* A latency log or a vector packet is sent on once at most, and a vector  *)
(* packet only while it is the newest of its machine's rendering           *)
(* (FbMsgMultiChans.cc:159 keeps the latest).  The snapshot time of an     *)
(* image is that of a message that came after the image before.            *)
UpstreamIsFresh ==
    LET LogIds(i) == UNION {{upstream[i].logs[m][k] : k \in DOMAIN upstream[i].logs[m]} :
                               m \in DOMAIN upstream[i].logs}
        PacketIds(i) == UNION {upstream[i].packets[m] : m \in DOMAIN upstream[i].packets}
    IN  /\ \A i, j \in DOMAIN upstream :
             i < j => /\ LogIds(i) \cap LogIds(j) = {}
                      /\ PacketIds(i) \cap PacketIds(j) = {}
                      /\ upstream[i].sent < upstream[j].startTime
        /\ \A i \in DOMAIN upstream :
             \A m \in DOMAIN upstream[i].packets :
               upstream[i].packets[m] = {upstream[i].newest[m]}
===============================================================================
