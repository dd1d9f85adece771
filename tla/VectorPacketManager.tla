--------------------------- MODULE VectorPacketManager ---------------------------
(***************************************************************************)
(* Path visualisation in the client (VectorPacketManager).  Each MCRT      *)
(* computation (a rank) sends packets of line segments.  A packet is kept  *)
(* as it arrived and decoded anew whenever the telemetry panel is drawn;   *)
(* the user's choice of a current line is made during that one pass over   *)
(* the lines: the next or the previous one with a valid end, or the one    *)
(* nearest to a pixel.                                                     *)
(*                                                                         *)
(* A line is [start, end]: each a point or NoPoint, an end that clipping   *)
(* made and that cannot be current.  Points lie on a line of pixels, their *)
(* distance stands for its square.  A packet is the sequence of the lines  *)
(* that can be decoded from it.  The NAIVE selectType and runDecode, both  *)
(* for debugging, are left out.                                            *)
(*                                                                         *)
(* The thread that reads the image draws and runs the user's commands; the *)
(* one that decodes messages pushes packets meanwhile, without a lock.  A  *)
(* push changes the packet and mDecodeCounter of a rank, which the pass    *)
(* over it reads when it begins and counts up when it ends, and nothing    *)
(* else of it: the rest of a pass is taken as one step, at its end.  A     *)
(* push is one step as well.                                               *)
(***************************************************************************)
EXTENDS Integers, Sequences, FiniteSetsExt

CONSTANTS
    RankId,             \* the MCRT computations
    Packet,             \* the packets each of them may send
    Pixel,              \* the points of lines
    MousePixel,         \* those that the user picks
    PickThreshDist,     \* how far a pick may be from a point
    MaxInputs           \* bound: packets, resets and requests of a behaviour

NoPoint == -1
NoLineId == -1          \* ~0 in the code, of which both make a negative int
NoPacket == <<>>        \* packets are kept as sequences of at most one
NoLine == [start |-> NoPoint, end |-> NoPoint]
Line == [start : Pixel \cup {NoPoint}, end : Pixel \cup {NoPoint}]
Far == 1000000          \* ~0: no distance yet
DecodeCurrLineMode == {"NO_ACTION", "NEXT", "PREV", "PICK"}

ASSUME PacketAssumption ==
    /\ RankId \subseteq Nat /\ 0 \in RankId
    /\ Pixel \cup MousePixel \subseteq 0 .. Far - 1
    /\ DOMAIN Packet = RankId /\ \A r \in RankId : Packet[r] \subseteq Seq(Line)
    /\ {PickThreshDist, MaxInputs} \subseteq Nat

VARIABLES
    table,              \* mTable: the ranks that sent something
    activeCurrLineMode, \* mActiveCurrLineMode
    onlyDrawCurrRank,   \* mOnlyDrawCurrRank
    currRankId,         \* mCurrRankId
    todo,               \* the ranks that the draw in progress has yet to decode
    decoding,           \* the pass in progress, if any: its rank, the packet and
                        \* freshness it began with, whether data came or went since
    lost,               \* history: ranks whose last packet came during a pass
    inputs              \* how many packets, resets and requests there were

pathVisVars ==
    <<table, activeCurrLineMode, onlyDrawCurrRank, currRankId, todo, decoding, lost, inputs>>

-------------------------------------------------------------------------------
(* DrawLine: mCurrLine.                                                    *)

HasStart(line) == line.start # NoPoint
HasEnd(line) == line.end # NoPoint
IsCurrPosValid(line) == HasStart(line) \/ HasEnd(line)

(* set() makes the start current when it is valid.                         *)
SetCurrLine(rank, line) ==
    [rank EXCEPT !.line = line, !.currLineId = rank.total, !.atStart = HasStart(line),
                 !.valid = TRUE]

AdjustCurrPos(rank) ==
    IF ~rank.active THEN rank
    ELSE [rank EXCEPT !.atStart =
            IF rank.atStart THEN HasStart(rank.line) \/ ~HasEnd(rank.line)
                            ELSE ~HasEnd(rank.line) /\ HasStart(rank.line)]

-------------------------------------------------------------------------------
(* Rank.                                                                   *)

NewRank ==
    [data |-> NoPacket, fresh |-> TRUE, total |-> 0, lineId |-> NoLineId,
     line |-> NoLine, currLineId |-> 0, atStart |-> TRUE, active |-> FALSE, valid |-> FALSE,
     mode |-> "NO_ACTION", pick |-> 0, dist |-> Far]

PushData(rank, packet) == [rank EXCEPT !.data = <<packet>>, !.fresh = TRUE]

(* Faulty variant: the request is not passed on.                           *)
NextStep_Stay(rank, line) ==
    IF IsCurrPosValid(line) /\ (rank.total = rank.lineId \/ ~rank.valid)
      THEN SetCurrLine(rank, line) ELSE rank

(* The NEXT pass: a line that is not valid passes the request on to the    *)
(* one after it; the first valid line is kept in case none follows.        *)
NextStep(rank, line) ==
    CASE rank.total = rank.lineId /\ IsCurrPosValid(line) -> SetCurrLine(rank, line)
      [] rank.total = rank.lineId /\ ~IsCurrPosValid(line) -> [rank EXCEPT !.lineId = @ + 1]
      [] OTHER -> IF IsCurrPosValid(line) /\ ~rank.valid THEN SetCurrLine(rank, line) ELSE rank

(* The PREV pass.                                                          *)
PrevStep(rank, line) ==
    IF IsCurrPosValid(line) /\
           (rank.lineId = NoLineId \/ rank.total <= rank.lineId \/ ~rank.valid)
      THEN SetCurrLine(rank, line) ELSE rank

Distance(p, q) == IF p < q THEN q - p ELSE p - q

IsPickCandidate(rank, point) ==
    /\ point # NoPoint
    /\ Distance(rank.pick, point) <= PickThreshDist
    /\ Distance(rank.pick, point) <= rank.dist

(* The PICK pass: first the start, then the end of each line.              *)
PickEnd(rank, line, point, atStart) ==
    IF IsPickCandidate(rank, point)
      THEN [SetCurrLine(rank, line) EXCEPT !.dist = Distance(rank.pick, point), !.atStart = atStart]
      ELSE rank

PickStep(rank, line) ==
    PickEnd(PickEnd(rank, line, line.start, TRUE), line, line.end, FALSE)

(* The action of the decoder for one line.                                 *)
LineAction(rank, line) ==
    LET chosen == CASE rank.mode = "NO_ACTION" -> rank
                    [] rank.mode = "NEXT" -> NextStep(rank, line)
                    [] rank.mode = "PREV" -> PrevStep(rank, line)
                    [] rank.mode = "PICK" -> PickStep(rank, line)
    IN  [chosen EXCEPT !.total = @ + 1]

(* Faulty variant: new data leaves the current line alone.                 *)
BeforePass_KeepLine(rank) ==
    IF rank.mode = "NO_ACTION" THEN rank
    ELSE [rank EXCEPT !.valid = FALSE, !.dist = IF rank.mode = "PICK" THEN Far ELSE @]

(* Before the pass: new data has no current line, and a request replaces   *)
(* the one there is.                                                       *)
BeforePass(rank) ==
    CASE rank.fresh -> [rank EXCEPT !.lineId = NoLineId, !.active = FALSE, !.valid = FALSE]
      [] ~rank.fresh /\ rank.mode = "NO_ACTION" -> rank
      [] OTHER -> [rank EXCEPT !.valid = FALSE, !.dist = IF rank.mode = "PICK" THEN Far ELSE @]

(* After it: the request is done, with or without a line.                  *)
AfterPass(rank) ==
    [rank EXCEPT !.fresh = FALSE,
                 !.mode = "NO_ACTION",
                 !.lineId = IF rank.mode = "NO_ACTION" THEN @
                            ELSE IF rank.valid THEN rank.currLineId ELSE NoLineId]

Highlights(rank) == rank.active /\ rank.total > 0 /\ rank.valid

(* The pass: the decoder calls the action for one line after the other.    *)
Pass(rank, lines) ==
    LET After[n \in 0 .. Len(lines)] ==
          IF n = 0 THEN rank ELSE LineAction(After[n - 1], lines[n])
    IN  After[Len(lines)]

(* What decode() makes of a rank whose packet has these lines.             *)
Decode(rank, lines) ==
    LET ready == [BeforePass(rank) EXCEPT !.total = 0]
        passed == AfterPass(Pass(ready, lines))
    IN  IF Highlights(passed) THEN AdjustCurrPos(passed) ELSE passed

DeltaCurrLineId(rank, delta) ==
    LET id == rank.lineId + delta
    IN  [rank EXCEPT !.lineId = IF id < 0 THEN rank.total - 1
                                ELSE IF id >= rank.total THEN 0 ELSE id]

SetPickCurrLineParam(rank, pixel) == [rank EXCEPT !.mode = "PICK", !.pick = pixel]

-------------------------------------------------------------------------------
(* Manager.                                                                *)

PathVisInit ==
    /\ table = <<>>
    /\ activeCurrLineMode = FALSE
    /\ onlyDrawCurrRank = FALSE
    /\ currRankId = 0
    /\ todo = {} /\ decoding = {} /\ lost = {}
    /\ inputs = 0

Managed == <<activeCurrLineMode, onlyDrawCurrRank, currRankId>>
Draw == <<todo, decoding, lost>>

IsDecoding(r) == \E pass \in decoding : pass.rank = r

(* Data comes or goes under a pass over one of the ranks.                  *)
Overtake(ranks) ==
    decoding' = {[pass EXCEPT !.raced = @ \/ pass.rank \in ranks] : pass \in decoding}

(* Data of a rank arrives; the first data creates the rank, which a draw   *)
(* in progress may come across or not.                                     *)
ReceivePacket(r, packet) ==
    /\ inputs < MaxInputs
    /\ inputs' = inputs + 1
    /\ table' = [k \in DOMAIN table \cup {r} |->
                   IF k # r THEN table[k]
                   ELSE PushData(IF r \in DOMAIN table THEN table[r] ELSE NewRank, packet)]
    /\ todo' \in IF r \in DOMAIN table \/ todo = {} THEN {todo} ELSE {todo, todo \cup {r}}
    /\ Overtake({r})
    /\ lost' = IF IsDecoding(r) THEN lost \cup {r} ELSE lost \ {r}
    /\ UNCHANGED Managed

(* A new frame starts.                                                     *)
ResetPushedData ==
    /\ inputs < MaxInputs
    /\ inputs' = inputs + 1
    /\ table' = [r \in DOMAIN table |-> [table[r] EXCEPT !.data = NoPacket]]
    /\ Overtake(DOMAIN table)
    /\ UNCHANGED <<Managed, todo, lost>>

SkipDraw(r) == onlyDrawCurrRank /\ r # currRankId

(* decodeAll: the telemetry panel is drawn.                                *)
DecodeAll ==
    /\ todo = {} /\ todo' = DOMAIN table
    /\ UNCHANGED <<table, Managed, decoding, lost, inputs>>

(* The draw comes to a rank; one without data is left alone.               *)
DecodeStarts(r) ==
    /\ decoding = {} /\ r \in todo
    /\ IF table[r].data = NoPacket
         THEN todo' = todo \ {r} /\ UNCHANGED decoding
         ELSE /\ decoding' = {[rank |-> r, packet |-> table[r].data[1],
                                fresh |-> table[r].fresh, raced |-> FALSE]}
              /\ UNCHANGED todo
    /\ UNCHANGED <<table, Managed, lost, inputs>>

(* The lines that a pass decodes.  A rank that is skipped decodes its      *)
(* packet without its lines.  Data that comes or goes frees the packet     *)
(* that the pass still reads, of which anything may be left.               *)
LinesOf(pass) ==
    IF SkipDraw(pass.rank) THEN {<<>>}
    ELSE IF pass.raced THEN Packet[pass.rank] \cup {pass.packet, <<>>} ELSE {pass.packet}

(* The pass ends.  mDecodeCounter is read after the packet, so data that   *)
(* came in between makes the rank fresh for a pass over the old packet.    *)
DecodeEnds(pass) ==
    /\ pass \in decoding
    /\ \E lines \in LinesOf(pass), fresh \in {pass.fresh, table[pass.rank].fresh} :
         table' = [table EXCEPT ![pass.rank] = Decode([@ EXCEPT !.fresh = fresh], lines)]
    /\ decoding' = {}
    /\ todo' = todo \ {pass.rank}
    /\ UNCHANGED <<Managed, lost, inputs>>

(* The commands of a rank that need its current line mode.  No command     *)
(* runs during a draw.                                                     *)
RankCommand(r) ==
    /\ todo = {}
    /\ inputs < MaxInputs /\ inputs' = inputs + 1
    /\ r \in DOMAIN table /\ table[r].active
    /\ \/ \E mode \in {"NEXT", "PREV"} :
            table' = [table EXCEPT ![r] =
                        [DeltaCurrLineId(@, IF mode = "NEXT" THEN 1 ELSE -1) EXCEPT !.mode = mode]]
       \/ \E pixel \in MousePixel : table' = [table EXCEPT ![r] = SetPickCurrLineParam(@, pixel)]
       \/ table' = [table EXCEPT ![r].atStart = ~@]
    /\ UNCHANGED <<Managed, Draw>>

WithActive(ranks) ==
    table' = [r \in DOMAIN table |-> [table[r] EXCEPT !.active = r \in ranks]]

(* The mode is what the current rank says, as new data ends it there.      *)
ToggleActiveCurrLineMode ==
    LET mode == IF currRankId \in DOMAIN table THEN table[currRankId].active
                                               ELSE activeCurrLineMode
    IN  /\ todo = {}
        /\ activeCurrLineMode' = ~mode
        /\ onlyDrawCurrRank' = ~mode
        /\ currRankId' = IF mode THEN currRankId ELSE 0
        /\ WithActive(IF mode THEN {} ELSE {0})
        /\ UNCHANGED <<Draw, inputs>>

MaxRankId == IF DOMAIN table = {} THEN 0 ELSE Max(DOMAIN table)

DeltaCurrentRankId(delta) ==
    LET id == currRankId + delta
    IN  /\ todo = {}
        /\ currRankId' = IF id < 0 THEN MaxRankId ELSE IF id > MaxRankId THEN 0 ELSE id
        /\ IF activeCurrLineMode THEN WithActive({currRankId'}) ELSE UNCHANGED table
        /\ UNCHANGED <<activeCurrLineMode, onlyDrawCurrRank, Draw, inputs>>

ToggleOnlyDrawCurrentRank ==
    /\ todo = {}
    /\ onlyDrawCurrRank' = ~onlyDrawCurrRank
    /\ UNCHANGED <<table, activeCurrLineMode, currRankId, Draw, inputs>>

PathVisNext ==
    \/ \E r \in RankId : \E packet \in Packet[r] : ReceivePacket(r, packet)
    \/ ResetPushedData
    \/ DecodeAll
    \/ \E r \in RankId : DecodeStarts(r)
    \/ \E pass \in decoding : DecodeEnds(pass)
    \/ \E r \in RankId : RankCommand(r)
    \/ ToggleActiveCurrLineMode
    \/ \E delta \in {1, -1} : DeltaCurrentRankId(delta)
    \/ ToggleOnlyDrawCurrentRank

PathVisSpec == PathVisInit /\ [][PathVisNext]_pathVisVars

-------------------------------------------------------------------------------
(* The line that a draw highlights is a line of the packet that the rank  *)
(* holds, however packets, draws, choices and changes of the rank follow   *)
(* each other: new data has other lines, and a line of the old data means  *)
(* nothing in it (VectorPacketManager.cc:396).  The exception is a packet  *)
(* that came during the pass over the one before, until the next packet:   *)
(* mDecodeCounter, which the packet reset, is counted up when the pass     *)
(* ends (VectorPacketManager.cc:436), so that no draw takes it for new.    *)
CurrentLineIsOfShownPacket ==
    \A r \in DOMAIN table \ lost :
        (table[r].data # NoPacket /\ ~table[r].fresh /\ Highlights(table[r])) =>
            /\ table[r].currLineId < Len(table[r].data[1])
            /\ table[r].line = table[r].data[1][table[r].currLineId + 1]

(* What each request looks for, said of the whole packet: NEXT goes to the *)
(* first valid line from the requested one on, and round to the first one  *)
(* of all; PREV to the last valid line up to the requested one, and to     *)
(* some valid line if there is none; PICK to a valid end within the        *)
(* threshold that no other one is nearer than.                             *)
Asked(rank, after) ==
    LET lines == rank.data[1]
        valid == {id \in 0 .. Len(lines) - 1 : IsCurrPosValid(lines[id + 1])}
        from == {id \in valid : id >= rank.lineId /\ rank.lineId # NoLineId /\ ~rank.fresh}
        upTo == {id \in valid : id <= rank.lineId \/ rank.lineId = NoLineId \/ rank.fresh}
        ends(line) == {line.start, line.end} \ {NoPoint}
        near(point) == Distance(rank.pick, point)
        inReach == {d \in {near(point) : point \in UNION {ends(lines[id + 1]) : id \in valid}} :
                      d <= PickThreshDist}
    IN  CASE rank.mode = "NO_ACTION" -> TRUE
          [] rank.mode = "NEXT" ->
               after.lineId = IF from # {} THEN Min(from)
                              ELSE IF valid # {} THEN Min(valid) ELSE NoLineId
          [] rank.mode = "PREV" ->
               IF upTo # {} THEN after.lineId = Max(upTo)
               ELSE IF valid # {} THEN after.lineId \in valid ELSE after.lineId = NoLineId
          [] rank.mode = "PICK" ->
               IF inReach = {} THEN after.lineId = NoLineId
               ELSE /\ after.lineId \in valid
                    /\ Min(inReach) = near(IF after.atStart THEN lines[after.lineId + 1].start
                                                            ELSE lines[after.lineId + 1].end)

(* The single pass over the lines that a draw makes finds what the request *)
(* asks for, unless data comes or goes under it, and in any case the       *)
(* vertex that it marks is a valid end of the line.  (A pick in new data   *)
(* is compared with the distance of the last pick, which only later draws  *)
(* reset.)                                                                 *)
SelectionIsTheOneAsked ==
    [][\A pass \in decoding : DecodeEnds(pass) =>
         LET rank == table[pass.rank]
             after == table'[pass.rank]
         IN  /\ pass.raced \/ SkipDraw(pass.rank) \/ (rank.mode = "PICK" /\ rank.fresh)
                  \/ Asked(rank, after)
             /\ Highlights(after) => IF after.atStart THEN HasStart(after.line)
                                                      ELSE HasEnd(after.line)]_pathVisVars
===============================================================================
