---------------------------- MODULE GlobalNodeInfo ----------------------------
(***************************************************************************)
(* How what the MCRT computations say of themselves spreads.  Every MCRT   *)
(* computation has its McrtNodeInfo (a McrtNodeInfoMapItem), encodes what  *)
(* changed and sends it to the merge computation;  the GlobalNodeInfo      *)
(* there decodes it and passes it on to the GlobalNodeInfo of the client,  *)
(* which shows values and comments.  In the other direction the merge      *)
(* computation asks an MCRT computation of which it hears for the first    *)
(* time to measure its clock (McrtControl, ClockDelta) and tells its host  *)
(* the result.                                                             *)
(*                                                                         *)
(* The channels are first-in first-out and lose nothing.                   *)
(***************************************************************************)
EXTENDS McrtNodeInfo

CONSTANTS
    Machine,            \* the machineIds of the MCRT computations
    MergeItem,          \* stands for the origin of a mergeGenericComment
    Host,               \* the hosts they run on
    Number,             \* the values that are set
    ReportedPhase,      \* the phases of render prep that are reported
    Activity,           \* what the MCRT computations do, one of these in a behaviour
    MaxMessages,        \* bound: so many messages wait in a channel
    MaxInputs,          \* bound: so often something is set in a behaviour
    ConcurrentSets      \* another thread may set values while one encodes

ASSUME ConstantsAssumption ==
    /\ Host # {} /\ NoHost \notin Host
    /\ MergeItem \notin Machine
    /\ ReportedPhase \subseteq Phase
    /\ Activity \subseteq {"values", "stages", "comments", "clocks"}
    /\ ConcurrentSets \in BOOLEAN

NoEncoding == <<>>

VARIABLES
    activity,       \* chosen at the start
    hostOf,         \* where the MCRT computations run
    nodes,          \* McrtNodeInfo of each MCRT computation
    encoding,       \* what encodeTable has copied and not yet cleared
    toMerge,        \* messages of each MCRT computation to the merge computation
    merge,          \* GlobalNodeInfo of the merge computation
    toClient,       \* messages to the client
    client,         \* GlobalNodeInfo of the client
    commands,       \* MCRT-control commands to each MCRT computation
    measuring,      \* MCRT computations connected to the ClockDelta server
    clockOffset,    \* LatencyClockOffset of each MCRT computation
    said,           \* history: the comments made, in order
    heard,          \* history: the comments the client was given, in order
    reported,       \* history: the stage and count last reported
    inputs          \* how often something was set

mcrtVars == <<nodes, encoding>>
channels == <<toMerge, toClient, commands>>
history  == <<said, heard, reported, inputs>>
vars == <<activity, hostOf, mcrtVars, merge, client, channels, measuring, clockOffset, history>>

Origin == Machine \cup {MergeItem}

(* Only where clocks are measured does it matter who shares a host.        *)
Placements ==
    LET all == [Machine -> Host]
    IN  IF activity = "clocks" THEN all ELSE {CHOOSE placement \in all : TRUE}

Init ==
    /\ activity \in Activity
    /\ hostOf \in Placements
    /\ nodes = [m \in Machine |-> SetValue(NewInfo, FALSE, "hostName", hostOf[m])]
    /\ encoding = [m \in Machine |-> NoEncoding]
    /\ toMerge = [m \in Machine |-> <<>>]
    /\ merge = [nodes |-> <<>>, comment |-> <<>>]
    /\ toClient = <<>>
    /\ client = [nodes |-> <<>>]
    /\ commands = [m \in Machine |-> <<>>]
    /\ measuring = {}
    /\ clockOffset = [m \in Machine |-> 0]
    /\ said = [o \in Origin |-> <<>>]
    /\ heard = [o \in Origin |-> <<>>]
    /\ reported = [m \in Machine |-> [stage |-> NotActive, count |-> 0]]
    /\ inputs = 0

-------------------------------------------------------------------------------
(* What the threads of an MCRT computation set.                            *)
Input(kind, m) ==
    /\ activity = kind
    /\ inputs < MaxInputs
    /\ encoding[m] = NoEncoding \/ ConcurrentSets
    /\ inputs' = inputs + 1
    /\ UNCHANGED <<activity, hostOf, encoding, toMerge, merge, toClient, client,
                   commands, measuring, clockOffset, heard>>

SetLoad(m) ==
    /\ Input("values", m)
    /\ \E key \in {"cpuTotal", "coreUsage"}, new \in Number :
          nodes' = [nodes EXCEPT ![m] = SetValue(@, FALSE, key, new)]
    /\ UNCHANGED <<said, reported>>

(* The stages of a phase follow one another as render prep does its work:  *)
(* the start with the total, some progress, the end.  Every report has a   *)
(* count of its own.                                                       *)
NextStages(stage) ==
    IF StepOf(stage) \in {"NOT_ACTIVE", "DONE"}
      THEN {Stage(p, "START") : p \in ReportedPhase}
      ELSE {Stage(PhaseOf(stage), "PROCESS"), Stage(PhaseOf(stage), "DONE")}

ReportStage(m) ==
    /\ Input("stages", m)
    /\ \E stage \in NextStages(reported[m].stage) :
          /\ nodes' = [nodes EXCEPT ![m] = SetRenderPrepStats(@, stage, inputs')]
          /\ reported' = [reported EXCEPT ![m] = [stage |-> stage, count |-> inputs']]
    /\ UNCHANGED said

Comment(o) == <<o, Len(said[o]) + 1>>

SayComment(m) ==
    /\ Input("comments", m)
    /\ nodes' = [nodes EXCEPT ![m] = EnqGenericComment(@, <<Comment(m)>>)]
    /\ said' = [said EXCEPT ![m] = Append(@, Comment(m))]
    /\ UNCHANGED reported

-------------------------------------------------------------------------------
(* McrtNodeInfoMapItem::encode.  encodeTable copies the item's array and   *)
(* then clears it, which are two steps to another thread.  A message is a  *)
(* table with the changes of every origin that it has an item of.          *)
BeginEncode(m) ==
    LET flushed == FlushEncodeData(nodes[m])
    IN  /\ encoding[m] = NoEncoding
        /\ Len(toMerge[m]) < MaxMessages
        /\ flushed.array # <<>>
        /\ nodes' = [nodes EXCEPT ![m] = flushed]
        /\ encoding' = [encoding EXCEPT ![m] = flushed.array]
        /\ UNCHANGED <<activity, hostOf, merge, client, channels, measuring, clockOffset, history>>

Cleared(info) == [info EXCEPT !.array = <<>>]

EndEncode(m) ==
    /\ encoding[m] # NoEncoding
    /\ nodes' = [nodes EXCEPT ![m] = Cleared(@)]
    /\ toMerge' = [toMerge EXCEPT ![m] = Append(@, [o \in {m} |-> encoding[m]])]
    /\ encoding' = [encoding EXCEPT ![m] = NoEncoding]
    /\ UNCHANGED <<activity, hostOf, merge, toClient, client, commands, measuring,
                   clockOffset, history>>

-------------------------------------------------------------------------------
(* GlobalNodeInfo::decode, at the merge computation and at the client: an  *)
(* MCRT computation not known yet gets a new McrtNodeInfo.                 *)
InfoAt(known, o) == IF o \in DOMAIN known THEN known[o] ELSE NewInfo

ChangesOf(message, o) == IF o \in DOMAIN message THEN message[o] ELSE <<>>

DecodeMessage(known, decodeOnly, message) ==
    [m \in DOMAIN known \cup (DOMAIN message \ {MergeItem}) |->
        DecodeInfo(InfoAt(known, m), decodeOnly, ChangesOf(message, m))]

ClockDeltaClient(m) == [cmd |-> "clockDeltaClient", nodeId |-> m]
ClockOffset(host, ms) == [cmd |-> "clockOffset", hostName |-> host, offsetMs |-> ms]

(* MsgSendHandler: a command reaches every MCRT computation.               *)
SentToAll(command) == [m \in Machine |-> Append(commands[m], command)]

(* At the merge computation a first message adds the McrtNodeInfo and has  *)
(* its clock measured; the message is decoded after that, which the thread *)
(* of the ClockDelta server may precede.                                   *)
HasMsgSendHandler == activity = "clocks"

MergeMeets(m) ==
    /\ HasMsgSendHandler
    /\ toMerge[m] # <<>>
    /\ m \notin DOMAIN merge.nodes
    /\ merge' = [merge EXCEPT !.nodes = [n \in DOMAIN @ \cup {m} |-> InfoAt(@, n)]]
    /\ commands' = SentToAll(ClockDeltaClient(m))
    /\ UNCHANGED <<activity, hostOf, mcrtVars, toMerge, toClient, client, measuring,
                   clockOffset, history>>

MergeDecode(m) ==
    /\ toMerge[m] # <<>>
    /\ m \in DOMAIN merge.nodes \/ ~HasMsgSendHandler
    /\ merge' = [merge EXCEPT !.nodes = DecodeMessage(@, FALSE, Head(toMerge[m]))]
    /\ toMerge' = [toMerge EXCEPT ![m] = Tail(@)]
    /\ UNCHANGED <<activity, hostOf, mcrtVars, toClient, client, commands, measuring,
                   clockOffset, history>>

(* enqMergeGenericComment at the merge computation.                        *)
MergeSays ==
    /\ activity = "comments"
    /\ inputs < MaxInputs
    /\ inputs' = inputs + 1
    /\ merge' = [merge EXCEPT !.comment = Append(@, Comment(MergeItem))]
    /\ said' = [said EXCEPT ![MergeItem] = Append(@, Comment(MergeItem))]
    /\ UNCHANGED <<activity, hostOf, mcrtVars, client, channels, measuring, clockOffset,
                   heard, reported>>

(* GlobalNodeInfo::encode: an item for every MCRT computation of which     *)
(* something changed, and one for the merge computation's comments.        *)
MessageOf(flushed, comment) ==
    LET changed  == {m \in DOMAIN flushed : flushed[m].array # <<>>}
        comments == IF comment = <<>> THEN {} ELSE {MergeItem}
    IN  [o \in changed \cup comments |->
            IF o = MergeItem THEN <<Entry("genericComment", comment)>> ELSE flushed[o].array]

MergeEncode ==
    LET flushed == [m \in DOMAIN merge.nodes |-> FlushEncodeData(merge.nodes[m])]
        message == MessageOf(flushed, merge.comment)
    IN  /\ DOMAIN message # {}
        /\ Len(toClient) < MaxMessages
        /\ toClient' = Append(toClient, message)
        /\ merge' = [nodes   |-> [m \in DOMAIN flushed |-> Cleared(flushed[m])],
                     comment |-> <<>>]
        /\ UNCHANGED <<activity, hostOf, mcrtVars, client, toMerge, commands, measuring,
                       clockOffset, history>>

(* The client decodes a message and takes the comments at once             *)
(* (ClientReceiverFb::decodeAuxInfo and processGenericComment).  Those of  *)
(* the merge computation wait in a queue of their own, which is empty      *)
(* between two messages.                                                   *)
CommentsFor(message, o) == DecodeInfo(NewInfo, TRUE, ChangesOf(message, o)).comment

DeqGenericComment(known) == [m \in DOMAIN known |-> [known[m] EXCEPT !.comment = <<>>]]

ClientDecode ==
    LET decoded  == DecodeMessage(client.nodes, TRUE, Head(toClient))
        queue(o) == IF o = MergeItem THEN CommentsFor(Head(toClient), o)
                                     ELSE InfoAt(decoded, o).comment
    IN  /\ toClient # <<>>
        /\ client' = [nodes |-> DeqGenericComment(decoded)]
        /\ heard' = [o \in Origin |-> heard[o] \o queue(o)]
        /\ toClient' = Tail(toClient)
        /\ UNCHANGED <<activity, hostOf, mcrtVars, merge, toMerge, commands, measuring,
                       clockOffset, said, reported, inputs>>

-------------------------------------------------------------------------------
(* McrtControl::run: a command is for one machineId, or for one host.      *)
(* ClockDelta::clientMain connects, or fails and is not called again.      *)
RunClockDeltaClient(m, command) ==
    /\ command.cmd = "clockDeltaClient"
    /\ IF command.nodeId = m THEN measuring' \in {measuring, measuring \cup {m}}
                             ELSE UNCHANGED measuring
    /\ UNCHANGED clockOffset

(* Faulty variant: every MCRT computation takes the offset.                *)
RunClockOffset_AnyHost(m, command) ==
    /\ command.cmd = "clockOffset"
    /\ clockOffset' = [clockOffset EXCEPT ![m] = command.offsetMs]
    /\ UNCHANGED measuring

RunClockOffset(m, command) ==
    /\ command.cmd = "clockOffset"
    /\ clockOffset' = IF command.hostName = hostOf[m]
                        THEN [clockOffset EXCEPT ![m] = command.offsetMs] ELSE clockOffset
    /\ UNCHANGED measuring

RunCommand(m) ==
    /\ commands[m] # <<>>
    /\ \/ RunClockDeltaClient(m, Head(commands[m]))
       \/ RunClockOffset(m, Head(commands[m]))
    /\ commands' = [commands EXCEPT ![m] = Tail(@)]
    /\ UNCHANGED <<activity, hostOf, mcrtVars, merge, toMerge, toClient, client, history>>

(* The ClockDelta server has measured m and calls setClockDeltaTimeShift:  *)
(* the first McrtNodeInfo with that hostName takes the values, and its     *)
(* host is told the offset.  With no such McrtNodeInfo the measurement is  *)
(* lost.                                                                   *)
WithShift(info, shift) ==
    SetValue(SetValue(info, FALSE, "clockTimeShift", shift),
             FALSE, "lastRunClockOffsetTime", 1)

ServeClock(m, shift) ==
    LET sameHost == {n \in DOMAIN merge.nodes : merge.nodes[n].value.hostName = hostOf[m]}
    IN  /\ m \in measuring
        /\ measuring' = measuring \ {m}
        /\ IF sameHost = {} THEN UNCHANGED <<merge, commands>>
           ELSE \E n \in sameHost :
                  /\ merge' = [merge EXCEPT !.nodes[n] = WithShift(@, shift)]
                  /\ commands' = SentToAll(ClockOffset(hostOf[m], -shift))
        /\ UNCHANGED <<activity, hostOf, mcrtVars, toMerge, toClient, client, clockOffset, history>>

-------------------------------------------------------------------------------
MachineNext(m) ==
    \/ SetLoad(m) \/ ReportStage(m) \/ SayComment(m)
    \/ BeginEncode(m) \/ EndEncode(m)
    \/ MergeMeets(m) \/ MergeDecode(m)
    \/ RunCommand(m)
    \/ \E shift \in Number : ServeClock(m, shift)

Next == (\E m \in Machine : MachineNext(m)) \/ MergeSays \/ MergeEncode \/ ClientDecode

(* Every computation goes on sending and receiving.                        *)
Fairness ==
    /\ \A m \in Machine : WF_vars(BeginEncode(m)) /\ WF_vars(EndEncode(m))
                           /\ WF_vars(MergeMeets(m)) /\ WF_vars(MergeDecode(m))
    /\ WF_vars(MergeEncode) /\ WF_vars(ClientDecode)

Spec == Init /\ [][Next]_vars /\ Fairness

-------------------------------------------------------------------------------
(* The state has its type: an MCRT computation is known to the client only *)
(* after the merge computation, and then by its host; a comment never      *)
(* waits at the client, whose queue stays empty.                           *)
TypeOK ==
    /\ activity \in Activity
    /\ hostOf \in [Machine -> Host]
    /\ DOMAIN client.nodes \subseteq DOMAIN merge.nodes
    /\ DOMAIN merge.nodes \subseteq Machine
    /\ \A m \in DOMAIN merge.nodes : merge.nodes[m].value.hostName \in {NoHost, hostOf[m]}
    /\ \A m \in DOMAIN client.nodes :
          /\ client.nodes[m].value.hostName = hostOf[m]
          /\ client.nodes[m].array = <<>> /\ client.nodes[m].comment = <<>>
    /\ measuring \subseteq DOMAIN merge.nodes
    /\ inputs \in 0 .. MaxInputs

(* What info becomes once the receiver has decoded what a channel has for  *)
(* it of o.                                                                *)
AfterMessages(o, info, messages) ==
    LET After[n \in 0 .. Len(messages)] ==
          IF n = 0 THEN info ELSE DecodeInfo(After[n - 1], TRUE, ChangesOf(messages[n], o))
    IN  After[Len(messages)]

(* What the merge computation and the client will know of m once they have *)
(* decoded what was sent and what waits to be.                             *)
AtMerge(m) ==
    DecodeInfo(AfterMessages(m, InfoAt(merge.nodes, m), toMerge[m]), TRUE, nodes[m].array)

AtClient(m) ==
    DecodeInfo(AfterMessages(m, InfoAt(client.nodes, m), toClient), TRUE,
               InfoAt(merge.nodes, m).array)

(* Nothing that an MCRT computation sets is lost or overtaken on its way:  *)
(* the merge computation will have its values once it has decoded what was *)
(* sent and what waits to be, and likewise the client those of the merge   *)
(* computation.  Only changes travel, so one that is dropped or decoded    *)
(* out of order stays wrong (InfoCodec set, encodeTable and decode).       *)
ValuesAreOnTheirWay ==
    \A m \in Machine :
       /\ \A key \in Key \ ClockKey : AtMerge(m).value[key] = nodes[m].value[key]
       /\ AtClient(m).value = InfoAt(merge.nodes, m).value

(* What the declaration of the array promises, "// MTsafe : associative    *)
(* array" (InfoCodec.h:71): encodeTable may run while another thread sets  *)
(* values, and what that one sets is sent.                                 *)
NoChangeIsLost == ValuesAreOnTheirWay

(* Every comment reaches the client's user once and in the order in which  *)
(* it was made, whatever is flushed and encoded in between                 *)
(* (enqGenericComment, flushEncodeData, deqGenericComment).                *)
CommentsOnTheirWay(m) == AtClient(m).comment \o AtMerge(m).comment \o nodes[m].comment

CommentsArriveOnceInOrder ==
    /\ \A m \in Machine : said[m] = heard[m] \o CommentsOnTheirWay(m)
    /\ said[MergeItem] =
          heard[MergeItem] \o AfterMessages(MergeItem, NewInfo, toClient).comment \o merge.comment

(* The clocks agree with what is shown of them: an MCRT computation that   *)
(* has run its commands has the offset that undoes the shift shown for an  *)
(* McrtNodeInfo of its host, or none (setClockDeltaTimeShift,              *)
(* sendClockOffsetToMcrt, McrtControl::run).                               *)
OffsetAfterCommands(m) ==
    LET forHost == {i \in DOMAIN commands[m] : /\ commands[m][i].cmd = "clockOffset"
                                               /\ commands[m][i].hostName = hostOf[m]}
        last    == CHOOSE i \in forHost : \A j \in forHost : j <= i
    IN  IF forHost = {} THEN clockOffset[m] ELSE commands[m][last].offsetMs

ClocksAgree ==
    \A m \in Machine :
       OffsetAfterCommands(m) \in
          {0} \cup {-merge.nodes[n].value.clockTimeShift :
                      n \in {n \in DOMAIN merge.nodes : hostOf[n] = hostOf[m]}}

(* In the end the client shows of every MCRT computation what it last set  *)
(* and reported: no change waits for ever, not even one that a flush has   *)
(* to take out of the work area first.                                     *)
ClientCatchesUp ==
    <>[](\A m \in Machine :
            /\ m \in DOMAIN client.nodes
            /\ \A key \in Key \ ClockKey : client.nodes[m].value[key] = nodes[m].value[key]
            /\ client.nodes[m].value.renderPrepStatsStage = reported[m].stage
            /\ heard[m] = said[m])
===============================================================================
