--------------------------- MODULE ClientPartsProofs ---------------------------
(***************************************************************************)
(* Parts of the client: path visualisation and the delivery of images,     *)
(* proved for any ranks, packets, buffers, values and sizes, and the       *)
(* recorder, for any machines and records of any length.                   *)
(*                                                                         *)
(* Path visualisation: the state of a rank after the first n lines of its  *)
(* packet says what the request would give if there were no more lines.    *)
(* In the same way, the recorder's pass over its items is said of the      *)
(* first n of them.                                                        *)
(***************************************************************************)
EXTENDS FrameDelivery, VectorPacketManager, InfoRecSession, LoopTheorems

(* Types of a rank.                                                        *)
RankState ==
    [data : {NoPacket} \cup {<<p>> : p \in Seq(Line)}, fresh : BOOLEAN, total : Nat,
     lineId : Nat \cup {NoLineId}, line : Line, currLineId : Nat, atStart : BOOLEAN,
     active : BOOLEAN, valid : BOOLEAN, mode : DecodeCurrLineMode, pick : 0 .. Far - 1,
     dist : Nat]

(* The points of lines, and the distances between them.                    *)
LEMMA FarIsFar == Far \in Nat \ {0}
BY SMT DEF Far

LEMMA PointsAreNear ==
    ASSUME NEW p \in 0 .. Far - 1, NEW q \in Pixel
    PROVE  Distance(p, q) \in 0 .. Far - 1
<1>1. q \in 0 .. Far - 1
  BY PacketAssumption
<1> QED
  BY <1>1, FarIsFar DEF Distance

LEMMA SetCurrLineSets ==
    ASSUME NEW rank \in RankState, NEW line \in Line
    PROVE  /\ SetCurrLine(rank, line) \in RankState
           /\ SetCurrLine(rank, line) =
                [rank EXCEPT !.line = line, !.currLineId = rank.total,
                             !.atStart = HasStart(line), !.valid = TRUE]
BY DEF SetCurrLine, RankState, HasStart

LEMMA PickEndType ==
    ASSUME NEW rank \in RankState, NEW line \in Line, NEW atStart \in BOOLEAN,
           NEW point \in {line.start, line.end}
    PROVE  PickEnd(rank, line, point, atStart) \in RankState
<1>1. CASE IsPickCandidate(rank, point)
  <2>1. point \in Pixel /\ rank.pick \in 0 .. Far - 1
    BY <1>1 DEF IsPickCandidate, Line, RankState
  <2>2. Distance(rank.pick, point) \in Nat
    BY <2>1, PointsAreNear, FarIsFar
  <2>3. SetCurrLine(rank, line) \in RankState
    BY SetCurrLineSets
  <2>4. [SetCurrLine(rank, line) EXCEPT !.dist = Distance(rank.pick, point),
                                        !.atStart = atStart] \in RankState
    BY <2>2, <2>3 DEF RankState
  <2> QED
    BY <1>1, <2>4 DEF PickEnd
<1>2. CASE ~ IsPickCandidate(rank, point)
  BY <1>2 DEF PickEnd
<1> QED
  BY <1>1, <1>2

LEMMA NextStepType ==
    ASSUME NEW rank \in RankState, NEW line \in Line
    PROVE  NextStep(rank, line) \in RankState
<1>1. SetCurrLine(rank, line) \in RankState
  BY SetCurrLineSets
<1>2. ASSUME rank.total = rank.lineId PROVE [rank EXCEPT !.lineId = @ + 1] \in RankState
  BY <1>2 DEF RankState
<1> QED
  BY <1>1, <1>2 DEF NextStep

LEMMA LineActionType ==
    ASSUME NEW rank \in RankState, NEW line \in Line
    PROVE  LineAction(rank, line) \in RankState
<1>1. PickStep(rank, line) \in RankState
  <2>1. PickEnd(rank, line, line.start, TRUE) \in RankState
    BY PickEndType
  <2> QED
    BY <2>1, PickEndType DEF PickStep
<1>2. PrevStep(rank, line) \in RankState
  BY SetCurrLineSets DEF PrevStep
<1>3. NextStep(rank, line) \in RankState
  BY NextStepType
<1>4. rank.mode \in DecodeCurrLineMode
  BY DEF RankState
<1> DEFINE chosen == CASE rank.mode = "NO_ACTION" -> rank
                       [] rank.mode = "NEXT" -> NextStep(rank, line)
                       [] rank.mode = "PREV" -> PrevStep(rank, line)
                       [] rank.mode = "PICK" -> PickStep(rank, line)
<1>5. chosen \in RankState
  BY <1>1, <1>2, <1>3, <1>4 DEF DecodeCurrLineMode
<1>6. LineAction(rank, line) = [chosen EXCEPT !.total = @ + 1]
  BY DEF LineAction
<1> HIDE DEF chosen
<1> QED
  BY <1>5, <1>6, SMTT(30) DEF RankState

(* The pass over a packet, as a function of the number of its lines.       *)
IsPass(f, rank, lines) ==
    /\ f \in [0 .. Len(lines) -> RankState]
    /\ f[0] = rank
    /\ \A n \in 1 .. Len(lines) : f[n] = LineAction(f[n - 1], lines[n])
    /\ Pass(rank, lines) = f[Len(lines)]

LEMMA PassRuns ==
    ASSUME NEW rank \in RankState, NEW lines \in Seq(Line)
    PROVE  \E f : IsPass(f, rank, lines)
<1> DEFINE L == Len(lines)
           step == [p \in RankState \X (1 .. L) |-> LineAction(p[1], lines[p[2]])]
           Run(f) == f = [n \in 0 .. L |->
                            IF n = 0 THEN rank ELSE LineAction(f[n - 1], lines[n])]
           After == CHOOSE f : Run(f)
<1>1. L \in Nat /\ \A n \in 1 .. L : lines[n] \in Line
  BY LenProperties, ElementOfSeq
<1>2. step \in [RankState \X (1 .. L) -> RankState]
  BY <1>1, LineActionType
<1> HIDE DEF step
<1>3. PICK g : IsRun(g, RankState, rank, step, L)
  BY <1>1, <1>2, LoopRuns
<1>4. /\ g \in [0 .. L -> RankState]
      /\ g[0] = rank
      /\ \A n \in 1 .. L : g[n] = LineAction(g[n - 1], lines[n])
  <2>1. g \in [0 .. L -> RankState] /\ g[0] = rank
    BY <1>3 DEF IsRun
  <2>2. ASSUME NEW n \in 1 .. L PROVE g[n] = LineAction(g[n - 1], lines[n])
    <3>1. g[n] = step[<<g[n - 1], n>>]
      BY <1>3 DEF IsRun
    <3>2. n - 1 \in 0 .. L
      BY <1>1
    <3>3. <<g[n - 1], n>> \in RankState \X (1 .. L)
      BY <2>1, <3>2
    <3> QED
      BY <3>1, <3>3 DEF step
  <2> QED
    BY <2>1, <2>2
<1>5. Run(g)
  <2>1. g = [n \in 0 .. L |-> g[n]]
    BY <1>4
  <2>2. \A n \in 0 .. L : g[n] = IF n = 0 THEN rank ELSE LineAction(g[n - 1], lines[n])
    BY <1>1, <1>4
  <2> QED
    BY <2>1, <2>2
<1>6. Run(After)
  BY <1>5
<1>7. Pass(rank, lines) = After[L]
  BY DEF Pass
<1> HIDE DEF After
<1>8. \A n \in 0 .. L : After[n] = IF n = 0 THEN rank ELSE LineAction(After[n - 1], lines[n])
  BY <1>6
<1>9. \A n \in 0 .. L : After[n] = g[n]
  <2>1. After[0] = g[0]
    BY <1>1, <1>4, <1>8
  <2>2. ASSUME NEW n \in 1 .. L, After[n - 1] = g[n - 1] PROVE After[n] = g[n]
    <3>1. n \in 0 .. L /\ n # 0
      BY <1>1
    <3> QED
      BY <1>4, <1>8, <2>2, <3>1
  <2>3. InStep(After, g, L)
    BY <1>1, <2>1, <2>2 DEF InStep
  <2> QED
    BY <2>3, LoopsAgree
<1>10. IsPass(g, rank, lines)
  BY <1>1, <1>4, <1>7, <1>9 DEF IsPass
<1> QED
  BY <1>10

-------------------------------------------------------------------------------
(* What the pass never changes, and what it may choose.                    *)
Kept(rank, after) ==
    /\ after.data = rank.data /\ after.fresh = rank.fresh /\ after.active = rank.active
    /\ after.mode = rank.mode /\ after.pick = rank.pick

Goes(rank, after, n) ==
    /\ Kept(rank, after)
    /\ after.total = rank.total + n
    /\ rank.mode # "NEXT" => after.lineId = rank.lineId
    /\ rank.mode = "NO_ACTION" =>
         /\ after.valid = rank.valid /\ after.line = rank.line
         /\ after.currLineId = rank.currLineId /\ after.atStart = rank.atStart

SameLine(rank, after) ==
    /\ after.valid = rank.valid
    /\ after.currLineId = rank.currLineId
    /\ after.line = rank.line

TakesLine(rank, after, line) ==
    /\ after.valid
    /\ after.currLineId = rank.total
    /\ after.line = line
    /\ IsCurrPosValid(line)

(* A current line is one of the first n lines and has a valid end.         *)
IsOfLines(rank, lines, n) ==
    rank.valid => /\ rank.currLineId < n
                  /\ rank.line = lines[rank.currLineId + 1]
                  /\ IsCurrPosValid(rank.line)

LEMMA SetCurrLineTakes ==
    ASSUME NEW rank \in RankState, NEW line \in Line, IsCurrPosValid(line),
           NEW after, after = SetCurrLine(rank, line)
    PROVE  /\ after \in RankState /\ Kept(rank, after) /\ TakesLine(rank, after, line)
           /\ after.total = rank.total /\ after.lineId = rank.lineId
           /\ after.dist = rank.dist /\ after.atStart = HasStart(line)
<1>1. after = [rank EXCEPT !.line = line, !.currLineId = rank.total,
                           !.atStart = HasStart(line), !.valid = TRUE]
  BY SetCurrLineSets
<1>2. after \in RankState
  BY SetCurrLineSets
<1> QED
  BY <1>1, <1>2 DEF Kept, TakesLine, RankState

LEMMA PickEndTakes ==
    ASSUME NEW rank \in RankState, NEW line \in Line, NEW atStart \in BOOLEAN,
           NEW point \in {line.start, line.end}, IsPickCandidate(rank, point),
           NEW after, after = PickEnd(rank, line, point, atStart)
    PROVE  /\ after \in RankState /\ Kept(rank, after) /\ TakesLine(rank, after, line)
           /\ after.total = rank.total /\ after.lineId = rank.lineId
           /\ after.dist = Distance(rank.pick, point) /\ after.atStart = atStart
<1> DEFINE set == SetCurrLine(rank, line)
<1>1. IsCurrPosValid(line)
  BY DEF IsPickCandidate, IsCurrPosValid, HasStart, HasEnd
<1>2. /\ set \in RankState /\ Kept(rank, set) /\ TakesLine(rank, set, line)
      /\ set.total = rank.total /\ set.lineId = rank.lineId
  BY <1>1, SetCurrLineTakes
<1>3. after = [set EXCEPT !.dist = Distance(rank.pick, point), !.atStart = atStart]
  BY DEF PickEnd
<1>4. after \in RankState
  BY PickEndType
<1> HIDE DEF set
<1>5. /\ after.dist = Distance(rank.pick, point) /\ after.atStart = atStart
      /\ Kept(set, after) /\ SameLine(set, after)
      /\ after.total = set.total /\ after.lineId = set.lineId
  BY <1>2, <1>3 DEF RankState, Kept, SameLine
<1> QED
  BY <1>2, <1>4, <1>5 DEF Kept, SameLine, TakesLine

LEMMA PickEndGoes ==
    ASSUME NEW rank \in RankState, NEW line \in Line, NEW atStart \in BOOLEAN,
           NEW point \in {line.start, line.end},
           NEW after, after = PickEnd(rank, line, point, atStart)
    PROVE  /\ after \in RankState /\ Kept(rank, after)
           /\ after.total = rank.total /\ after.lineId = rank.lineId
           /\ SameLine(rank, after) \/ TakesLine(rank, after, line)
<1>1. CASE IsPickCandidate(rank, point)
  BY <1>1, PickEndTakes
<1>2. CASE ~ IsPickCandidate(rank, point)
  <2>1. after = rank
    BY <1>2 DEF PickEnd
  <2> QED
    BY <2>1 DEF Kept, SameLine
<1> QED
  BY <1>1, <1>2

LEMMA FirstEndType ==
    ASSUME NEW rank \in RankState, NEW line \in Line
    PROVE  LET first == PickEnd(rank, line, line.start, TRUE)
           IN  first \in RankState /\ first.total = rank.total
<1> DEFINE first == PickEnd(rank, line, line.start, TRUE)
<1>1. /\ first \in RankState /\ Kept(rank, first)
      /\ first.total = rank.total /\ first.lineId = rank.lineId
      /\ SameLine(rank, first) \/ TakesLine(rank, first, line)
  BY PickEndGoes
<1> QED
  BY <1>1

(* One line: the rank stays, or this line becomes its current line.        *)
LEMMA LineActionIs ==
    ASSUME NEW rank \in RankState, NEW line \in Line
    PROVE  \E chosen \in RankState :
             /\ LineAction(rank, line) = [chosen EXCEPT !.total = @ + 1]
             /\ chosen = CASE rank.mode = "NO_ACTION" -> rank
                           [] rank.mode = "NEXT" -> NextStep(rank, line)
                           [] rank.mode = "PREV" -> PrevStep(rank, line)
                           [] rank.mode = "PICK" -> PickStep(rank, line)
             /\ Goes(rank, chosen, 0)
             /\ SameLine(rank, chosen) \/ TakesLine(rank, chosen, line)
<1> DEFINE chosen == CASE rank.mode = "NO_ACTION" -> rank
                       [] rank.mode = "NEXT" -> NextStep(rank, line)
                       [] rank.mode = "PREV" -> PrevStep(rank, line)
                       [] rank.mode = "PICK" -> PickStep(rank, line)
           Good == /\ chosen \in RankState /\ Goes(rank, chosen, 0)
                   /\ SameLine(rank, chosen) \/ TakesLine(rank, chosen, line)
<1>1. LineAction(rank, line) = [chosen EXCEPT !.total = @ + 1]
  BY DEF LineAction
<1>2. rank.mode \in DecodeCurrLineMode /\ rank.total \in Nat /\ rank.total + 0 = rank.total
  BY DEF RankState
<1>3. Good
  <2>1. CASE rank.mode = "NO_ACTION"
    <3>1. chosen = rank
      BY <2>1
    <3> HIDE DEF chosen
    <3> QED
      BY <1>2, <3>1 DEF Goes, Kept, SameLine
  <2>2. CASE rank.mode = "NEXT"
    <3>1. chosen = NextStep(rank, line)
      BY <2>2
    <3>2. chosen \in RankState
      BY <3>1, NextStepType
    <3> HIDE DEF chosen
    <3>3. CASE chosen = SetCurrLine(rank, line) /\ IsCurrPosValid(line)
      BY <1>2, <2>2, <3>2, <3>3, SetCurrLineTakes DEF Goes
    <3>4. CASE chosen = rank
      BY <1>2, <2>2, <3>4 DEF Goes, Kept, SameLine
    <3>5. CASE chosen = [rank EXCEPT !.lineId = @ + 1]
      BY <1>2, <2>2, <3>2, <3>5 DEF Goes, Kept, SameLine, RankState
    <3> QED
      BY <3>1, <3>3, <3>4, <3>5 DEF NextStep
  <2>3. CASE rank.mode = "PREV"
    <3>1. chosen = PrevStep(rank, line)
      BY <2>3
    <3> HIDE DEF chosen
    <3>2. CASE chosen = SetCurrLine(rank, line) /\ IsCurrPosValid(line)
      BY <1>2, <2>3, <3>2, SetCurrLineTakes DEF Goes
    <3>3. CASE chosen = rank
      BY <1>2, <2>3, <3>3 DEF Goes, Kept, SameLine
    <3> QED
      BY <3>1, <3>2, <3>3 DEF PrevStep
  <2>4. CASE rank.mode = "PICK"
    <3> DEFINE first == PickEnd(rank, line, line.start, TRUE)
    <3>1. chosen = PickEnd(first, line, line.end, FALSE)
      BY <2>4 DEF PickStep
    <3>2. /\ first \in RankState /\ Kept(rank, first)
          /\ first.total = rank.total /\ first.lineId = rank.lineId
          /\ SameLine(rank, first) \/ TakesLine(rank, first, line)
      BY PickEndGoes
    <3> HIDE DEF first, chosen
    <3>3. /\ chosen \in RankState /\ Kept(first, chosen)
          /\ chosen.total = first.total /\ chosen.lineId = first.lineId
          /\ SameLine(first, chosen) \/ TakesLine(first, chosen, line)
      <4>1. line.end \in {line.start, line.end} /\ FALSE \in BOOLEAN
        OBVIOUS
      <4> QED
        BY <3>1, <3>2, <4>1, PickEndGoes, ZenonT(60)
    <3>4. Kept(rank, chosen)
      BY <3>2, <3>3 DEF Kept
    <3>5. SameLine(rank, chosen) \/ TakesLine(rank, chosen, line)
      BY <3>2, <3>3 DEF SameLine, TakesLine
    <3> QED
      BY <1>2, <2>4, <3>2, <3>3, <3>4, <3>5 DEF Goes
  <2> QED
    BY <1>2, <2>1, <2>2, <2>3, <2>4 DEF DecodeCurrLineMode
<1> HIDE DEF chosen
<1> QED
  BY <1>1, <1>3 DEF chosen

LEMMA LineActionChooses ==
    ASSUME NEW rank \in RankState, NEW line \in Line,
           NEW after, after = LineAction(rank, line)
    PROVE  /\ Goes(rank, after, 1)
           /\ SameLine(rank, after) \/ TakesLine(rank, after, line)
<1>1. PICK chosen \in RankState :
        /\ after = [chosen EXCEPT !.total = @ + 1]
        /\ Goes(rank, chosen, 0)
        /\ SameLine(rank, chosen) \/ TakesLine(rank, chosen, line)
  BY LineActionIs
<1>2. /\ after.total = chosen.total + 1 /\ after.lineId = chosen.lineId
      /\ after.atStart = chosen.atStart
      /\ Kept(chosen, after) /\ SameLine(chosen, after)
  BY <1>1 DEF RankState, Kept, SameLine
<1>3. rank.total \in Nat
  BY DEF RankState
<1> QED
  BY <1>1, <1>2, <1>3 DEF Goes, Kept, SameLine, TakesLine

(* The whole pass, begun with no line counted.                             *)
Starts(rank) == rank \in RankState /\ rank.total = 0

LEMMA PassGoes ==
    ASSUME NEW rank, Starts(rank), NEW lines \in Seq(Line), NEW f, IsPass(f, rank, lines)
    PROVE  \A n \in 0 .. Len(lines) : f[n] \in RankState /\ Goes(rank, f[n], n)
<1> DEFINE L == Len(lines)
           T == {n \in Nat : n <= L => f[n] \in RankState /\ Goes(rank, f[n], n)}
<1>1. L \in Nat /\ \A n \in 1 .. L : lines[n] \in Line
  BY LenProperties, ElementOfSeq
<1>2. /\ f[0] = rank /\ \A n \in 0 .. L : f[n] \in RankState
      /\ \A n \in 1 .. L : f[n] = LineAction(f[n - 1], lines[n])
  BY <1>1 DEF IsPass
<1>3. 0 \in T
  BY <1>2 DEF Goes, Kept, Starts, RankState
<1>4. ASSUME NEW n \in Nat, n \in T PROVE n + 1 \in T
  <2> SUFFICES ASSUME n + 1 <= L PROVE f[n + 1] \in RankState /\ Goes(rank, f[n + 1], n + 1)
    OBVIOUS
  <2>1. f[n] \in RankState /\ Goes(rank, f[n], n)
    BY <1>1, <1>4
  <2>2. n + 1 \in 1 .. L /\ n + 1 \in 0 .. L /\ (n + 1) - 1 = n
    BY <1>1
  <2>3. lines[n + 1] \in Line
    BY <1>1, <2>2
  <2>4. f[n + 1] = LineAction(f[n], lines[n + 1])
    BY <1>2, <2>2
  <2>5. f[n + 1] \in RankState /\ Goes(f[n], f[n + 1], 1)
    BY <1>2, <2>1, <2>2, <2>3, <2>4, LineActionChooses
  <2> QED
    BY <2>1, <2>5 DEF Goes, Kept, Starts, RankState
<1>5. Nat \subseteq T
  BY <1>3, <1>4, NatSetInduction
<1> QED
  BY <1>1, <1>5

LEMMA PassChooses ==
    ASSUME NEW rank, Starts(rank), ~ rank.valid,
           NEW lines \in Seq(Line), NEW f, IsPass(f, rank, lines)
    PROVE  \A n \in 0 .. Len(lines) : IsOfLines(f[n], lines, n)
<1> DEFINE L == Len(lines)
           T == {n \in Nat : n <= L => IsOfLines(f[n], lines, n)}
<1>1. L \in Nat /\ \A n \in 1 .. L : lines[n] \in Line
  BY LenProperties, ElementOfSeq
<1>2. /\ f[0] = rank /\ \A n \in 1 .. L : f[n] = LineAction(f[n - 1], lines[n])
  BY <1>1 DEF IsPass
<1>3. 0 \in T
  BY <1>2 DEF IsOfLines
<1>4. ASSUME NEW n \in Nat, n \in T PROVE n + 1 \in T
  <2> SUFFICES ASSUME n + 1 <= L PROVE IsOfLines(f[n + 1], lines, n + 1)
    OBVIOUS
  <2>1. n + 1 \in 1 .. L /\ n \in 0 .. L /\ n + 1 \in 0 .. L /\ (n + 1) - 1 = n
    BY <1>1
  <2>2. lines[n + 1] \in Line /\ f[n + 1] = LineAction(f[n], lines[n + 1])
    BY <1>1, <1>2, <2>1
  <2>3. f[n] \in RankState /\ f[n].total = n /\ f[n + 1] \in RankState
    BY <2>1, PassGoes DEF Goes, Starts, RankState
  <2>4. SameLine(f[n], f[n + 1]) \/ TakesLine(f[n], f[n + 1], lines[n + 1])
    BY <2>2, <2>3, LineActionChooses
  <2>5. IsOfLines(f[n], lines, n)
    BY <1>1, <1>4
  <2>6. f[n].currLineId \in Nat
    BY <2>3 DEF RankState
  <2>7. CASE SameLine(f[n], f[n + 1])
    BY <2>5, <2>6, <2>7 DEF IsOfLines, SameLine
  <2>8. CASE TakesLine(f[n], f[n + 1], lines[n + 1])
    BY <2>3, <2>8 DEF IsOfLines, TakesLine
  <2> QED
    BY <2>4, <2>7, <2>8
<1>5. Nat \subseteq T
  BY <1>3, <1>4, NatSetInduction
<1> QED
  BY <1>1, <1>5

-------------------------------------------------------------------------------
(* The lines that can be current, among the first n.                       *)
ValidIds(lines, n) == {id \in 0 .. n - 1 : IsCurrPosValid(lines[id + 1])}
IsLeast(x, S) == x \in S /\ \A y \in S : x <= y
IsGreatest(x, S) == x \in S /\ \A y \in S : y <= x

LEMMA ValidIdsGrow ==
    ASSUME NEW lines, NEW n \in Nat
    PROVE  /\ \A id \in ValidIds(lines, n) : id \in Nat /\ id < n
           /\ \A id : id \in ValidIds(lines, n + 1) <=>
                        id \in ValidIds(lines, n) \/ (id = n /\ IsCurrPosValid(lines[n + 1]))
BY DEF ValidIds

LEMMA MinIsLeast ==
    ASSUME NEW S \in SUBSET Int, NEW x, IsLeast(x, S)
    PROVE  Min(S) = x
<1>1. ASSUME NEW y \in S, IsLeast(y, S) PROVE y = x
  BY <1>1 DEF IsLeast
<1>2. Min(S) = CHOOSE y \in S : IsLeast(y, S)
  BY DEF Min, IsLeast
<1> QED
  BY <1>1, <1>2 DEF IsLeast

LEMMA MaxIsGreatest ==
    ASSUME NEW S \in SUBSET Int, NEW x, IsGreatest(x, S)
    PROVE  Max(S) = x
<1>1. ASSUME NEW y \in S, IsGreatest(y, S) PROVE y = x
  BY <1>1 DEF IsGreatest
<1>2. Max(S) = CHOOSE y \in S : IsGreatest(y, S)
  BY DEF Max, IsGreatest
<1> QED
  BY <1>1, <1>2 DEF IsGreatest

(* NEXT: before the requested line the first valid one is kept; from there *)
(* on the request moves with the pass until it meets a valid one.          *)
LEMMA NextAction ==
    ASSUME NEW rank \in RankState, NEW line \in Line, rank.mode = "NEXT",
           NEW after, after = LineAction(rank, line)
    PROVE  /\ after.lineId = IF rank.total = rank.lineId /\ ~ IsCurrPosValid(line)
                               THEN rank.lineId + 1 ELSE rank.lineId
           /\ IF IsCurrPosValid(line) /\ (rank.total = rank.lineId \/ ~ rank.valid)
                THEN after.valid /\ after.currLineId = rank.total
                ELSE after.valid = rank.valid /\ after.currLineId = rank.currLineId
<1>1. PICK chosen \in RankState :
        after = [chosen EXCEPT !.total = @ + 1] /\ chosen = NextStep(rank, line)
  BY LineActionIs
<1>2. /\ after.lineId = chosen.lineId /\ after.valid = chosen.valid
      /\ after.currLineId = chosen.currLineId
  BY <1>1 DEF RankState
<1>3. CASE IsCurrPosValid(line) /\ (rank.total = rank.lineId \/ ~ rank.valid)
  <2>1. chosen = SetCurrLine(rank, line)
    BY <1>1, <1>3 DEF NextStep
  <2> QED
    BY <1>2, <1>3, <2>1, SetCurrLineTakes DEF TakesLine
<1>4. CASE rank.total = rank.lineId /\ ~ IsCurrPosValid(line)
  <2>1. chosen = [rank EXCEPT !.lineId = @ + 1]
    BY <1>1, <1>4 DEF NextStep
  <2> QED
    BY <1>2, <1>4, <2>1 DEF RankState
<1>5. CASE ~ (IsCurrPosValid(line) /\ (rank.total = rank.lineId \/ ~ rank.valid))
           /\ rank.total # rank.lineId
  <2>1. chosen = rank
    BY <1>1, <1>5 DEF NextStep
  <2> QED
    BY <1>2, <1>5, <2>1
<1> QED
  BY <1>3, <1>4, <1>5

FromIds(asked, lines, n) == {id \in ValidIds(lines, n) : id >= asked /\ asked # NoLineId}

NextFinds(rank, asked, lines, n) ==
    LET from == FromIds(asked, lines, n)
    IN  /\ rank.valid <=> ValidIds(lines, n) # {}
        /\ from = {} =>
             /\ rank.valid => IsLeast(rank.currLineId, ValidIds(lines, n))
             /\ rank.lineId = IF asked = NoLineId \/ n <= asked THEN asked ELSE n
        /\ from # {} => IsLeast(rank.currLineId, from) /\ rank.lineId = rank.currLineId

LEMMA NextFindsOn ==
    ASSUME NEW rank \in RankState, NEW lines, NEW n \in Nat, NEW asked \in Nat \cup {NoLineId},
           rank.total = n, rank.mode = "NEXT", lines[n + 1] \in Line,
           NextFinds(rank, asked, lines, n),
           NEW after \in RankState, after = LineAction(rank, lines[n + 1])
    PROVE  NextFinds(after, asked, lines, n + 1)
<1> DEFINE valid == ValidIds(lines, n)
           valid1 == ValidIds(lines, n + 1)
           from == FromIds(asked, lines, n)
           from1 == FromIds(asked, lines, n + 1)
           good == IsCurrPosValid(lines[n + 1])
<1>1. /\ after.lineId = IF n = rank.lineId /\ ~ good THEN rank.lineId + 1 ELSE rank.lineId
      /\ IF good /\ (n = rank.lineId \/ ~ rank.valid)
           THEN after.valid /\ after.currLineId = n
           ELSE after.valid = rank.valid /\ after.currLineId = rank.currLineId
  BY NextAction
<1>2. /\ \A id \in valid : id \in Nat /\ id < n
      /\ \A id : id \in valid1 <=> id \in valid \/ (id = n /\ good)
  BY ValidIdsGrow
<1>3. \A id : /\ id \in from <=> id \in valid /\ id >= asked /\ asked # NoLineId
              /\ id \in from1 <=> id \in valid1 /\ id >= asked /\ asked # NoLineId
  BY DEF FromIds
<1>4. /\ rank.valid <=> valid # {}
      /\ from = {} => /\ rank.valid => IsLeast(rank.currLineId, valid)
                      /\ rank.lineId = IF asked = NoLineId \/ n <= asked THEN asked ELSE n
      /\ from # {} => IsLeast(rank.currLineId, from) /\ rank.lineId = rank.currLineId
  BY DEF NextFinds
<1>5. rank.valid \in BOOLEAN /\ after.valid \in BOOLEAN /\ rank.currLineId \in Nat
      /\ NoLineId = -1
  BY DEF RankState, NoLineId
<1> SUFFICES /\ after.valid <=> valid1 # {}
             /\ from1 = {} =>
                  /\ after.valid => IsLeast(after.currLineId, valid1)
                  /\ after.lineId = IF asked = NoLineId \/ n + 1 <= asked THEN asked ELSE n + 1
             /\ from1 # {} => IsLeast(after.currLineId, from1) /\ after.lineId = after.currLineId
  BY DEF NextFinds
<1> HIDE DEF valid, valid1, from, from1, good
<1>6. CASE from # {}
  <2>1. rank.lineId \in from /\ rank.lineId \in valid /\ rank.lineId < n /\ rank.valid
    <3>1. rank.lineId \in from
      BY <1>4, <1>6 DEF IsLeast
    <3>2. rank.lineId \in valid
      BY <1>3, <3>1
    <3> QED
      BY <1>2, <1>4, <3>1, <3>2
  <2>2. after.valid /\ after.currLineId = rank.currLineId /\ after.lineId = rank.lineId
    <3>1. rank.lineId # n
      BY <2>1
    <3>2. /\ after.lineId = rank.lineId
          /\ after.valid = rank.valid /\ after.currLineId = rank.currLineId
      BY <1>1, <2>1, <3>1
    <3> QED
      BY <2>1, <3>2
  <2>3. IsLeast(rank.currLineId, from)
    BY <1>4, <1>6
  <2>4. \A id \in from1 : id \in from \/ id = n
    BY <1>2, <1>3
  <2>5. from \subseteq from1 /\ from1 # {} /\ valid1 # {}
    BY <1>2, <1>3, <1>6
  <2>6. IsLeast(rank.currLineId, from1)
    <3>1. rank.currLineId < n
      BY <1>4, <1>6, <2>1
    <3> QED
      BY <1>5, <2>3, <2>4, <2>5, <3>1 DEF IsLeast
  <2> QED
    BY <1>4, <1>6, <2>2, <2>5, <2>6
<1>7. CASE from = {} /\ good /\ asked # NoLineId /\ n >= asked
  <2>1. rank.lineId = n
    BY <1>4, <1>5, <1>7
  <2>2. after.valid /\ after.currLineId = n /\ after.lineId = n
    BY <1>1, <1>7, <2>1
  <2>3. \A id : id \in from1 <=> id = n
    BY <1>2, <1>3, <1>7
  <2>4. n \in valid1
    BY <1>2, <1>7
  <2> QED
    BY <2>2, <2>3, <2>4 DEF IsLeast
<1>8. CASE from = {} /\ ~ (good /\ asked # NoLineId /\ n >= asked)
  <2>1. from1 = {}
    BY <1>2, <1>3, <1>8
  <2>2. rank.lineId = IF asked = NoLineId \/ n <= asked THEN asked ELSE n
    BY <1>4, <1>8
  <2>3. after.lineId = IF asked = NoLineId \/ n + 1 <= asked THEN asked ELSE n + 1
    BY <1>1, <1>5, <1>8, <2>2
  <2>4. n = rank.lineId => ~ good
    BY <1>5, <1>8, <2>2
  <2>5. CASE good /\ ~ rank.valid
    <3>1. \A id : id \in valid1 <=> id = n
      BY <1>2, <1>4, <2>5
    <3>2. after.valid /\ after.currLineId = n
      BY <1>1, <2>5
    <3> QED
      BY <2>1, <2>3, <3>1, <3>2 DEF IsLeast
  <2>6. CASE ~ good
    <3>1. valid1 = valid
      BY <1>2, <2>6
    <3> QED
      BY <1>1, <1>4, <1>8, <2>1, <2>3, <2>6, <3>1
  <2>7. CASE good /\ rank.valid
    <3>1. after.valid = rank.valid /\ after.currLineId = rank.currLineId
      BY <1>1, <2>4, <2>7
    <3>2. IsLeast(rank.currLineId, valid)
      BY <1>4, <1>8, <2>7
    <3>3. IsLeast(rank.currLineId, valid1)
      <4>1. rank.currLineId \in valid /\ rank.currLineId < n
        BY <1>2, <3>2 DEF IsLeast
      <4> QED
        BY <1>2, <3>2, <4>1 DEF IsLeast
    <3>4. valid1 # {}
      BY <3>3 DEF IsLeast
    <3> QED
      BY <2>1, <2>3, <2>7, <3>1, <3>3, <3>4
  <2> QED
    BY <2>5, <2>6, <2>7
<1> QED
  BY <1>6, <1>7, <1>8, <1>5

LEMMA PassNext ==
    ASSUME NEW rank, Starts(rank), ~ rank.valid, rank.mode = "NEXT",
           NEW lines \in Seq(Line), NEW f, IsPass(f, rank, lines)
    PROVE  NextFinds(f[Len(lines)], rank.lineId, lines, Len(lines))
<1> DEFINE L == Len(lines)
           asked == rank.lineId
           T == {n \in Nat : n <= L => NextFinds(f[n], asked, lines, n)}
<1>1. L \in Nat /\ \A n \in 1 .. L : lines[n] \in Line
  BY LenProperties, ElementOfSeq
<1>2. f[0] = rank /\ \A n \in 1 .. L : f[n] = LineAction(f[n - 1], lines[n])
  BY <1>1 DEF IsPass
<1>3. asked \in Nat \cup {NoLineId}
  BY DEF Starts, RankState
<1>4. 0 \in T
  <2>1. ValidIds(lines, 0) = {} /\ FromIds(asked, lines, 0) = {}
    BY DEF ValidIds, FromIds
  <2>2. asked = NoLineId \/ 0 <= asked
    BY <1>3
  <2> QED
    BY <1>2, <2>1, <2>2 DEF NextFinds
<1>5. ASSUME NEW n \in Nat, n \in T PROVE n + 1 \in T
  <2> SUFFICES ASSUME n + 1 <= L PROVE NextFinds(f[n + 1], asked, lines, n + 1)
    OBVIOUS
  <2>1. n + 1 \in 1 .. L /\ n \in 0 .. L /\ n + 1 \in 0 .. L /\ (n + 1) - 1 = n
    BY <1>1
  <2>2. lines[n + 1] \in Line /\ f[n + 1] = LineAction(f[n], lines[n + 1])
    BY <1>1, <1>2, <2>1
  <2>3. /\ f[n] \in RankState /\ f[n].total = n /\ f[n].mode = "NEXT"
        /\ f[n + 1] \in RankState
    <3>1. f[n] \in RankState /\ f[n + 1] \in RankState /\ Goes(rank, f[n], n)
      BY <2>1, PassGoes
    <3>2. rank.total = 0
      BY DEF Starts
    <3> QED
      BY <3>1, <3>2 DEF Goes, Kept
  <2>4. NextFinds(f[n], asked, lines, n)
    BY <1>1, <1>5
  <2> HIDE DEF asked
  <2> QED
    BY <1>3, <2>2, <2>3, <2>4, NextFindsOn
<1>6. Nat \subseteq T
  BY <1>4, <1>5, NatSetInduction
<1> QED
  BY <1>1, <1>6

(* PREV: the last valid line so far that is not after the requested one,   *)
(* or the first valid line of all as long as there is none.                *)
LEMMA PrevAction ==
    ASSUME NEW rank \in RankState, NEW line \in Line, rank.mode = "PREV",
           NEW after, after = LineAction(rank, line)
    PROVE  IF IsCurrPosValid(line) /\
                (rank.lineId = NoLineId \/ rank.total <= rank.lineId \/ ~ rank.valid)
             THEN after.valid /\ after.currLineId = rank.total
             ELSE after.valid = rank.valid /\ after.currLineId = rank.currLineId
<1>1. PICK chosen \in RankState :
        after = [chosen EXCEPT !.total = @ + 1] /\ chosen = PrevStep(rank, line)
  BY LineActionIs
<1>2. after.valid = chosen.valid /\ after.currLineId = chosen.currLineId
  BY <1>1 DEF RankState
<1> DEFINE takes == IsCurrPosValid(line) /\
                      (rank.lineId = NoLineId \/ rank.total <= rank.lineId \/ ~ rank.valid)
<1>3. CASE takes
  <2>1. chosen = SetCurrLine(rank, line)
    BY <1>1, <1>3 DEF PrevStep
  <2> QED
    BY <1>2, <1>3, <2>1, SetCurrLineTakes DEF TakesLine
<1>4. CASE ~ takes
  <2>1. chosen = rank
    BY <1>1, <1>4 DEF PrevStep
  <2> QED
    BY <1>2, <1>4, <2>1
<1> QED
  BY <1>3, <1>4

UpToIds(asked, lines, n) == {id \in ValidIds(lines, n) : id <= asked \/ asked = NoLineId}

PrevFinds(rank, asked, lines, n) ==
    /\ rank.valid <=> ValidIds(lines, n) # {}
    /\ rank.valid => rank.currLineId \in ValidIds(lines, n)
    /\ UpToIds(asked, lines, n) # {} => IsGreatest(rank.currLineId, UpToIds(asked, lines, n))

LEMMA PrevFindsOn ==
    ASSUME NEW rank \in RankState, NEW lines, NEW n \in Nat, NEW asked \in Nat \cup {NoLineId},
           rank.total = n, rank.mode = "PREV", rank.lineId = asked, lines[n + 1] \in Line,
           PrevFinds(rank, asked, lines, n),
           NEW after \in RankState, after = LineAction(rank, lines[n + 1])
    PROVE  PrevFinds(after, asked, lines, n + 1)
<1> DEFINE valid == ValidIds(lines, n)
           valid1 == ValidIds(lines, n + 1)
           upTo == UpToIds(asked, lines, n)
           upTo1 == UpToIds(asked, lines, n + 1)
           good == IsCurrPosValid(lines[n + 1])
           takes == good /\ (asked = NoLineId \/ n <= asked \/ ~ rank.valid)
<1>1. IF takes THEN after.valid /\ after.currLineId = n
               ELSE after.valid = rank.valid /\ after.currLineId = rank.currLineId
  BY PrevAction
<1>2. /\ \A id \in valid : id \in Nat /\ id < n
      /\ \A id : id \in valid1 <=> id \in valid \/ (id = n /\ good)
  BY ValidIdsGrow
<1>3. \A id : /\ id \in upTo <=> id \in valid /\ (id <= asked \/ asked = NoLineId)
              /\ id \in upTo1 <=> id \in valid1 /\ (id <= asked \/ asked = NoLineId)
  BY DEF UpToIds
<1>4. /\ rank.valid <=> valid # {}
      /\ rank.valid => rank.currLineId \in valid
      /\ upTo # {} => IsGreatest(rank.currLineId, upTo)
  BY DEF PrevFinds
<1>5. rank.valid \in BOOLEAN /\ after.valid \in BOOLEAN
  BY DEF RankState
<1> SUFFICES /\ after.valid <=> valid1 # {}
             /\ after.valid => after.currLineId \in valid1
             /\ upTo1 # {} => IsGreatest(after.currLineId, upTo1)
  BY DEF PrevFinds
<1> HIDE DEF valid, valid1, upTo, upTo1, good
<1>6. CASE takes
  <2>1. after.valid /\ after.currLineId = n /\ n \in valid1
    BY <1>1, <1>2, <1>6
  <2>2. ASSUME upTo1 # {} PROVE IsGreatest(n, upTo1)
    <3>1. \A id \in upTo1 : id = n \/ (id \in upTo /\ id < n)
      BY <1>2, <1>3
    <3>2. n \in upTo1
      <4>1. CASE asked = NoLineId \/ n <= asked
        BY <1>3, <2>1, <4>1
      <4>2. CASE ~ rank.valid
        <5>1. valid = {}
          BY <1>4, <4>2
        <5>2. \A id \in upTo1 : id = n
          BY <1>2, <1>3, <5>1
        <5> QED
          BY <2>2, <5>2
      <4> QED
        BY <1>6, <4>1, <4>2
    <3>3. \A id \in upTo1 : id <= n
      <4> SUFFICES ASSUME NEW id \in upTo1 PROVE id <= n
        OBVIOUS
      <4>1. CASE id = n
        BY <4>1
      <4>2. CASE id \in upTo /\ id < n
        BY <1>2, <1>3, <4>2
      <4> QED
        BY <3>1, <4>1, <4>2
    <3> QED
      BY <3>2, <3>3 DEF IsGreatest
  <2> QED
    BY <2>1, <2>2
<1>7. CASE ~ takes
  <2>1. after.valid = rank.valid /\ after.currLineId = rank.currLineId
    BY <1>1, <1>7
  <2>2. valid1 # {} <=> valid # {}
    BY <1>2, <1>4, <1>7
  <2>3. upTo1 = upTo
    <3>1. CASE ~ good
      BY <1>2, <1>3, <3>1
    <3>2. CASE ~ (asked = NoLineId \/ n <= asked)
      <4>1. n \notin upTo1
        BY <1>3, <3>2
      <4>2. \A id : id \in upTo1 <=> id \in upTo
        BY <1>2, <1>3, <4>1
      <4> QED
        BY <4>2
    <3> QED
      BY <1>7, <3>1, <3>2
  <2>4. rank.valid => rank.currLineId \in valid1
    BY <1>2, <1>4
  <2> QED
    BY <1>4, <2>1, <2>2, <2>3, <2>4
<1> QED
  BY <1>6, <1>7

LEMMA PassPrev ==
    ASSUME NEW rank, Starts(rank), ~ rank.valid, rank.mode = "PREV",
           NEW lines \in Seq(Line), NEW f, IsPass(f, rank, lines)
    PROVE  PrevFinds(f[Len(lines)], rank.lineId, lines, Len(lines))
<1> DEFINE L == Len(lines)
           asked == rank.lineId
           T == {n \in Nat : n <= L => PrevFinds(f[n], asked, lines, n)}
<1>1. L \in Nat /\ \A n \in 1 .. L : lines[n] \in Line
  BY LenProperties, ElementOfSeq
<1>2. f[0] = rank /\ \A n \in 1 .. L : f[n] = LineAction(f[n - 1], lines[n])
  BY <1>1 DEF IsPass
<1>3. asked \in Nat \cup {NoLineId}
  BY DEF Starts, RankState
<1>4. 0 \in T
  <2>1. ValidIds(lines, 0) = {} /\ UpToIds(asked, lines, 0) = {}
    BY DEF ValidIds, UpToIds
  <2> QED
    BY <1>2, <2>1 DEF PrevFinds
<1>5. ASSUME NEW n \in Nat, n \in T PROVE n + 1 \in T
  <2> SUFFICES ASSUME n + 1 <= L PROVE PrevFinds(f[n + 1], asked, lines, n + 1)
    OBVIOUS
  <2>1. n + 1 \in 1 .. L /\ n \in 0 .. L /\ n + 1 \in 0 .. L /\ (n + 1) - 1 = n
    BY <1>1
  <2>2. lines[n + 1] \in Line /\ f[n + 1] = LineAction(f[n], lines[n + 1])
    BY <1>1, <1>2, <2>1
  <2>3. /\ f[n] \in RankState /\ f[n].total = n /\ f[n].mode = "PREV"
        /\ f[n].lineId = asked /\ f[n + 1] \in RankState
    <3>1. f[n] \in RankState /\ f[n + 1] \in RankState /\ Goes(rank, f[n], n)
      BY <2>1, PassGoes
    <3>2. rank.total = 0
      BY DEF Starts
    <3> QED
      BY <3>1, <3>2 DEF Goes, Kept
  <2>4. PrevFinds(f[n], asked, lines, n)
    BY <1>1, <1>5
  <2> HIDE DEF asked
  <2> QED
    BY <1>3, <2>2, <2>3, <2>4, PrevFindsOn
<1>6. Nat \subseteq T
  BY <1>4, <1>5, NatSetInduction
<1> QED
  BY <1>1, <1>6

(* PICK: the nearest of the valid ends so far that are within reach.       *)
Ends(lines, n) ==
    {q \in Pixel : \E id \in 0 .. n - 1 : q \in {lines[id + 1].start, lines[id + 1].end}}
Marked(rank, lines) ==
    IF rank.atStart THEN lines[rank.currLineId + 1].start ELSE lines[rank.currLineId + 1].end
OutOfReach(p, Q) == \A q \in Q : Distance(p, q) > PickThreshDist

PickFinds(rank, lines, Q, n) ==
    /\ ~ rank.valid => OutOfReach(rank.pick, Q) /\ rank.dist = Far
    /\ rank.valid =>
         /\ rank.currLineId < n
         /\ Marked(rank, lines) \in Q
         /\ rank.dist = Distance(rank.pick, Marked(rank, lines))
         /\ rank.dist <= PickThreshDist
         /\ \A q \in Q : Distance(rank.pick, q) <= PickThreshDist =>
                           rank.dist <= Distance(rank.pick, q)

(* One end of a line: NoPoint is none.                                     *)
LEMMA PickEndFinds ==
    ASSUME NEW rank \in RankState, NEW lines, NEW n \in Nat, NEW Q \in SUBSET Pixel,
           NEW line \in Line, line = lines[n + 1], rank.total = n,
           NEW k \in {n, n + 1}, PickFinds(rank, lines, Q, k),
           NEW atStart \in BOOLEAN, NEW point,
           point = IF atStart THEN line.start ELSE line.end,
           NEW after, after = PickEnd(rank, line, point, atStart)
    PROVE  PickFinds(after, lines, Q \cup ({point} \ {NoPoint}), n + 1)
<1> DEFINE more == Q \cup ({point} \ {NoPoint})
           far(q) == Distance(rank.pick, q)
<1>1. point \in {line.start, line.end} /\ point \in Pixel \cup {NoPoint}
  BY DEF Line
<1>2. after \in RankState /\ after.pick = rank.pick /\ rank.valid \in BOOLEAN
  <2>1. after \in RankState /\ Kept(rank, after)
    BY <1>1, PickEndGoes
  <2> QED
    BY <2>1 DEF Kept, RankState
<1>3. \A q \in Pixel : far(q) \in 0 .. Far - 1
  BY PointsAreNear DEF RankState
<1>4. Far \in Nat /\ PickThreshDist \in Nat /\ rank.dist \in Nat
  BY FarIsFar, PacketAssumption DEF RankState
<1>5. CASE IsPickCandidate(rank, point)
  <2>1. point # NoPoint /\ far(point) <= PickThreshDist /\ far(point) <= rank.dist
    BY <1>5 DEF IsPickCandidate
  <2>2. after.valid /\ after.currLineId = n /\ after.dist = far(point) /\ after.atStart = atStart
    BY <1>1, <1>5, PickEndTakes DEF TakesLine
  <2>3. Marked(after, lines) = point
    BY <2>2 DEF Marked
  <2>4. ASSUME NEW q \in more, far(q) <= PickThreshDist PROVE far(point) <= far(q)
    <3>1. q = point \/ q \in Q
      OBVIOUS
    <3>2. CASE q \in Q
      <4>1. ~ OutOfReach(rank.pick, Q)
        BY <1>3, <1>4, <2>4, <3>2 DEF OutOfReach
      <4>2. rank.valid
        BY <4>1 DEF PickFinds
      <4>3. rank.dist <= far(q)
        BY <2>4, <3>2, <4>2 DEF PickFinds
      <4>4. far(q) \in Nat /\ far(point) \in Nat
        BY <1>1, <1>3, <1>4, <2>1, <3>2
      <4> QED
        BY <1>4, <2>1, <4>3, <4>4
    <3>3. CASE q = point
      BY <1>1, <1>3, <1>4, <2>1, <3>3
    <3> QED
      BY <3>1, <3>2, <3>3
  <2> HIDE DEF far
  <2> QED
    BY <1>2, <2>1, <2>2, <2>3, <2>4 DEF PickFinds, far
<1>6. CASE ~ IsPickCandidate(rank, point)
  <2>1. after = rank
    BY <1>6 DEF PickEnd
  <2>2. point # NoPoint => far(point) > PickThreshDist \/ far(point) > rank.dist
    BY <1>1, <1>3, <1>4, <1>6 DEF IsPickCandidate
  <2>3. CASE rank.valid
    <3>1. ASSUME NEW q \in more, far(q) <= PickThreshDist PROVE rank.dist <= far(q)
      <4>1. CASE q \in Q
        BY <2>3, <3>1, <4>1 DEF PickFinds
      <4>2. CASE q \notin Q
        <5>1. q = point /\ point # NoPoint /\ far(point) \in Nat
          BY <1>1, <1>3, <1>4, <4>2
        <5> QED
          BY <1>4, <2>2, <3>1, <5>1
      <4> QED
        BY <4>1, <4>2
    <3>2. rank.currLineId < n + 1
      BY <2>3 DEF PickFinds, RankState
    <3> HIDE DEF far
    <3> QED
      BY <2>1, <2>3, <3>1, <3>2 DEF PickFinds, far
  <2>4. CASE ~ rank.valid
    <3>1. OutOfReach(rank.pick, Q) /\ rank.dist = Far
      BY <2>4 DEF PickFinds
    <3>2. ASSUME NEW q \in more PROVE far(q) > PickThreshDist
      <4>1. CASE q \in Q
        BY <3>1, <4>1 DEF OutOfReach
      <4>2. CASE q \notin Q
        <5>1. q = point /\ point # NoPoint /\ far(point) \in 0 .. Far - 1
          BY <1>1, <1>3, <4>2
        <5> QED
          BY <1>4, <2>2, <3>1, <5>1
      <4> QED
        BY <4>1, <4>2
    <3> QED
      BY <2>1, <2>4, <3>1, <3>2 DEF PickFinds, OutOfReach
  <2> QED
    BY <1>2, <2>3, <2>4
<1> QED
  BY <1>5, <1>6

LEMMA PickFindsOn ==
    ASSUME NEW rank \in RankState, NEW lines, NEW n \in Nat, rank.total = n, rank.mode = "PICK",
           NEW Q \in SUBSET Pixel, NEW line \in Line, line = lines[n + 1],
           PickFinds(rank, lines, Q, n),
           NEW after \in RankState, after = LineAction(rank, line)
    PROVE  PickFinds(after, lines, Q \cup ({line.start, line.end} \ {NoPoint}), n + 1)
<1> DEFINE first == PickEnd(rank, line, line.start, TRUE)
           Q1 == Q \cup ({line.start} \ {NoPoint})
           Q2 == Q1 \cup ({line.end} \ {NoPoint})
<1>1. PICK chosen \in RankState :
        after = [chosen EXCEPT !.total = @ + 1] /\ chosen = PickStep(rank, line)
  BY LineActionIs
<1>2. chosen = PickEnd(first, line, line.end, FALSE)
  BY <1>1 DEF PickStep
<1>3. first \in RankState /\ first.total = n
  <2>1. first \in RankState /\ first.total = rank.total
    BY FirstEndType
  <2> QED
    BY <2>1
<1>4. PickFinds(first, lines, Q1, n + 1)
  BY PickEndFinds
<1>5. Q1 \in SUBSET Pixel
  BY DEF Line
<1> HIDE DEF first, Q1
<1>6. PickFinds(chosen, lines, Q2, n + 1)
  BY <1>2, <1>3, <1>4, <1>5, PickEndFinds
<1>7. /\ after.pick = chosen.pick /\ after.valid = chosen.valid /\ after.dist = chosen.dist
      /\ after.currLineId = chosen.currLineId /\ after.atStart = chosen.atStart
  BY <1>1 DEF RankState
<1>8. Q2 = Q \cup ({line.start, line.end} \ {NoPoint})
  BY DEF Q1
<1> HIDE DEF Q2
<1> QED
  BY <1>6, <1>7, <1>8 DEF PickFinds, Marked

LEMMA PassPick ==
    ASSUME NEW rank, Starts(rank), ~ rank.valid, rank.mode = "PICK", rank.dist = Far,
           NEW lines \in Seq(Line), NEW f, IsPass(f, rank, lines)
    PROVE  PickFinds(f[Len(lines)], lines, Ends(lines, Len(lines)), Len(lines))
<1> DEFINE L == Len(lines)
           T == {n \in Nat : n <= L => PickFinds(f[n], lines, Ends(lines, n), n)}
<1>1. L \in Nat /\ \A n \in 1 .. L : lines[n] \in Line
  BY LenProperties, ElementOfSeq
<1>2. f[0] = rank /\ \A n \in 1 .. L : f[n] = LineAction(f[n - 1], lines[n])
  BY <1>1 DEF IsPass
<1>3. 0 \in T
  <2>1. Ends(lines, 0) = {}
    BY DEF Ends
  <2> QED
    BY <1>2, <2>1 DEF PickFinds, OutOfReach
<1>4. ASSUME NEW n \in Nat, n \in T PROVE n + 1 \in T
  <2> SUFFICES ASSUME n + 1 <= L PROVE PickFinds(f[n + 1], lines, Ends(lines, n + 1), n + 1)
    OBVIOUS
  <2>1. n + 1 \in 1 .. L /\ n \in 0 .. L /\ n + 1 \in 0 .. L /\ (n + 1) - 1 = n
    BY <1>1
  <2>2. lines[n + 1] \in Line /\ f[n + 1] = LineAction(f[n], lines[n + 1])
    BY <1>1, <1>2, <2>1
  <2>3. /\ f[n] \in RankState /\ f[n].total = n /\ f[n].mode = "PICK"
        /\ f[n + 1] \in RankState
    <3>1. f[n] \in RankState /\ f[n + 1] \in RankState /\ Goes(rank, f[n], n)
      BY <2>1, PassGoes
    <3>2. rank.total = 0
      BY DEF Starts
    <3> QED
      BY <3>1, <3>2 DEF Goes, Kept
  <2>4. PickFinds(f[n], lines, Ends(lines, n), n)
    BY <1>1, <1>4
  <2>5. Ends(lines, n + 1)
          = Ends(lines, n) \cup ({lines[n + 1].start, lines[n + 1].end} \ {NoPoint})
    <3>1. NoPoint \notin Pixel
      BY PacketAssumption DEF NoPoint
    <3>2. lines[n + 1].start \in Pixel \cup {NoPoint} /\ lines[n + 1].end \in Pixel \cup {NoPoint}
      BY <2>2 DEF Line
    <3>3. \A id : id \in 0 .. (n + 1) - 1 <=> id \in 0 .. n - 1 \/ id = n
      OBVIOUS
    <3>4. ASSUME NEW q
          PROVE  q \in Ends(lines, n + 1) <=>
                   q \in Ends(lines, n) \/ (q \in Pixel /\ q \in {lines[n + 1].start, lines[n + 1].end})
      BY <3>3 DEF Ends
    <3> QED
      BY <3>1, <3>2, <3>4
  <2>6. Ends(lines, n) \in SUBSET Pixel
    BY DEF Ends
  <2> DEFINE line == lines[n + 1]
             Q == Ends(lines, n)
  <2>7. PickFinds(f[n + 1], lines, Q \cup ({line.start, line.end} \ {NoPoint}), n + 1)
    <3> HIDE DEF Q
    <3>1. Q \in SUBSET Pixel /\ PickFinds(f[n], lines, Q, n)
      BY <2>4, <2>6 DEF Q
    <3> QED
      BY <2>2, <2>3, <3>1, PickFindsOn
  <2> QED
    BY <2>5, <2>7
<1>5. Nat \subseteq T
  BY <1>3, <1>4, NatSetInduction
<1> QED
  BY <1>1, <1>5

-------------------------------------------------------------------------------
(* A draw: what comes before the pass, the pass, and what comes after it.  *)
Ready(rank) == [BeforePass(rank) EXCEPT !.total = 0]
AskedId(rank) == IF rank.fresh THEN NoLineId ELSE rank.lineId
IsRequest(rank) == rank.fresh \/ rank.mode # "NO_ACTION"

LEMMA DataIsPacket ==
    ASSUME NEW rank \in RankState, rank.data # NoPacket
    PROVE  rank.data[1] \in Seq(Line)
<1>1. PICK p \in Seq(Line) : rank.data = <<p>>
  BY DEF RankState
<1> QED
  BY <1>1

LEMMA BeforePassIs ==
    ASSUME NEW rank \in RankState, NEW b, b = BeforePass(rank)
    PROVE  /\ b \in RankState /\ b.data = rank.data /\ b.mode = rank.mode
           /\ b.pick = rank.pick /\ b.lineId = AskedId(rank)
           /\ IsRequest(rank) => ~ b.valid
           /\ ~ IsRequest(rank) => SameLine(rank, b)
           /\ (~ rank.fresh /\ rank.mode = "PICK") => b.dist = Far
<1>1. CASE rank.fresh
  <2>1. b = [rank EXCEPT !.lineId = NoLineId, !.active = FALSE, !.valid = FALSE]
    BY <1>1 DEF BeforePass
  <2>2. /\ b \in RankState /\ b.data = rank.data /\ b.mode = rank.mode /\ b.pick = rank.pick
        /\ b.lineId = NoLineId /\ b.valid = FALSE
    BY <2>1 DEF RankState
  <2> QED
    BY <1>1, <2>2 DEF IsRequest, AskedId
<1>2. CASE ~ rank.fresh /\ rank.mode = "NO_ACTION"
  <2>1. b = rank
    BY <1>2 DEF BeforePass
  <2> QED
    BY <1>2, <2>1 DEF IsRequest, AskedId, SameLine
<1>3. CASE ~ rank.fresh /\ rank.mode # "NO_ACTION"
  <2> DEFINE dist == IF rank.mode = "PICK" THEN Far ELSE rank.dist
  <2>1. b = [rank EXCEPT !.valid = FALSE, !.dist = dist]
    BY <1>3 DEF BeforePass
  <2>2. dist \in Nat
    BY FarIsFar DEF RankState
  <2> HIDE DEF dist
  <2>3. b \in RankState /\ b.data = rank.data /\ b.mode = rank.mode /\ b.pick = rank.pick
        /\ b.lineId = rank.lineId /\ b.valid = FALSE /\ b.dist = dist
    BY <2>1, <2>2 DEF RankState
  <2> QED
    BY <1>3, <2>3 DEF IsRequest, AskedId, dist
<1> QED
  BY <1>1, <1>2, <1>3

LEMMA ReadyIs ==
    ASSUME NEW rank \in RankState, NEW ready, ready = Ready(rank)
    PROVE  /\ Starts(ready) /\ ready.data = rank.data /\ ready.mode = rank.mode
           /\ ready.pick = rank.pick /\ ready.lineId = AskedId(rank)
           /\ IsRequest(rank) => ~ ready.valid
           /\ ~ IsRequest(rank) => SameLine(rank, ready)
           /\ (~ rank.fresh /\ rank.mode = "PICK") => ready.dist = Far
<1> DEFINE b == BeforePass(rank)
<1>1. ready = [b EXCEPT !.total = 0]
  BY DEF Ready
<1>2. /\ b \in RankState /\ b.data = rank.data /\ b.mode = rank.mode
      /\ b.pick = rank.pick /\ b.lineId = AskedId(rank)
      /\ IsRequest(rank) => ~ b.valid
      /\ ~ IsRequest(rank) => SameLine(rank, b)
      /\ (~ rank.fresh /\ rank.mode = "PICK") => b.dist = Far
  BY BeforePassIs
<1> HIDE DEF b
<1>3. /\ ready \in RankState /\ ready.total = 0 /\ ready.data = b.data /\ ready.mode = b.mode
      /\ ready.pick = b.pick /\ ready.lineId = b.lineId /\ ready.dist = b.dist
      /\ SameLine(b, ready)
  BY <1>1, <1>2 DEF RankState, SameLine
<1> QED
  BY <1>2, <1>3 DEF Starts, SameLine

(* The state of a rank after its pass, before the request is ended.        *)
PassedTo(rank, lines, last) ==
    /\ last \in RankState /\ last.data = rank.data /\ last.mode = rank.mode
    /\ last.pick = rank.pick
    /\ last.total = Len(lines)
    /\ IsRequest(rank) => IsOfLines(last, lines, Len(lines))
    /\ ~ IsRequest(rank) => SameLine(rank, last)
    /\ rank.mode = "NEXT" => NextFinds(last, AskedId(rank), lines, Len(lines))
    /\ rank.mode = "PREV" => PrevFinds(last, AskedId(rank), lines, Len(lines))
    /\ (rank.mode = "PICK" /\ ~ rank.fresh) =>
         PickFinds(last, lines, Ends(lines, Len(lines)), Len(lines))

LEMMA PassGets ==
    ASSUME NEW rank \in RankState, NEW lines \in Seq(Line)
    PROVE  PassedTo(rank, lines, Pass(Ready(rank), lines))
<1> DEFINE ready == Ready(rank)
           L == Len(lines)
           last == Pass(ready, lines)
<1>1. /\ Starts(ready) /\ ready.data = rank.data /\ ready.mode = rank.mode
      /\ ready.pick = rank.pick /\ ready.lineId = AskedId(rank)
      /\ IsRequest(rank) => ~ ready.valid
      /\ ~ IsRequest(rank) => SameLine(rank, ready)
      /\ (~ rank.fresh /\ rank.mode = "PICK") => ready.dist = Far
  BY ReadyIs
<1> HIDE DEF ready
<1>2. PICK f : IsPass(f, ready, lines)
  BY <1>1, PassRuns DEF Starts
<1>3. L \in 0 .. L /\ L \in Nat /\ last = f[L]
  BY <1>2, LenProperties DEF IsPass
<1>4. last \in RankState /\ Goes(ready, last, L)
  BY <1>1, <1>2, <1>3, PassGoes
<1>5. IsRequest(rank) => IsOfLines(last, lines, L)
  BY <1>1, <1>2, <1>3, PassChooses
<1>6. rank.mode = "NEXT" => NextFinds(last, AskedId(rank), lines, L)
  BY <1>1, <1>2, <1>3, PassNext DEF IsRequest
<1>7. rank.mode = "PREV" => PrevFinds(last, AskedId(rank), lines, L)
  BY <1>1, <1>2, <1>3, PassPrev DEF IsRequest
<1>8. (rank.mode = "PICK" /\ ~ rank.fresh) => PickFinds(last, lines, Ends(lines, L), L)
  BY <1>1, <1>2, <1>3, PassPick DEF IsRequest
<1> HIDE DEF last
<1>9. /\ last.data = rank.data /\ last.mode = rank.mode /\ last.pick = rank.pick
      /\ last.total = L
  BY <1>1, <1>3, <1>4 DEF Goes, Kept, Starts
<1>10. ~ IsRequest(rank) => SameLine(rank, last)
  BY <1>1, <1>4 DEF Goes, SameLine, IsRequest
<1> QED
  BY <1>4, <1>5, <1>6, <1>7, <1>8, <1>9, <1>10 DEF PassedTo, last, ready

(* How a draw ends.                                                        *)
EndsAs(rank, last, after) ==
    /\ after \in RankState /\ after.data = last.data /\ ~ after.fresh
    /\ after.total = last.total /\ after.active = last.active
    /\ SameLine(last, after)
    /\ after.lineId = IF rank.mode = "NO_ACTION" THEN last.lineId
                      ELSE IF last.valid THEN last.currLineId ELSE NoLineId
    /\ after.atStart = IF ~ Highlights(after) THEN last.atStart
                       ELSE IF last.atStart THEN HasStart(last.line) \/ ~ HasEnd(last.line)
                                            ELSE ~ HasEnd(last.line) /\ HasStart(last.line)

LEMMA DecodeEndsAs ==
    ASSUME NEW rank \in RankState, NEW lines \in Seq(Line),
           NEW after, after = Decode(rank, lines)
    PROVE  \E last : PassedTo(rank, lines, last) /\ EndsAs(rank, last, after)
<1> DEFINE last == Pass(Ready(rank), lines)
           lineId == IF last.mode = "NO_ACTION" THEN last.lineId
                     ELSE IF last.valid THEN last.currLineId ELSE NoLineId
           passed == AfterPass(last)
<1>2. PassedTo(rank, lines, last)
  BY PassGets
<1>3. after = IF Highlights(passed) THEN AdjustCurrPos(passed) ELSE passed
  BY DEF Decode, Ready
<1>4. last \in RankState /\ last.mode = rank.mode
  BY <1>2 DEF PassedTo
<1>5. passed = [last EXCEPT !.fresh = FALSE, !.mode = "NO_ACTION", !.lineId = lineId]
  BY DEF AfterPass
<1>6. lineId \in Nat \cup {NoLineId}
  BY <1>4 DEF RankState
<1>7. lineId = IF rank.mode = "NO_ACTION" THEN last.lineId
               ELSE IF last.valid THEN last.currLineId ELSE NoLineId
  BY <1>4
<1> HIDE DEF last, lineId, passed
<1>8. /\ passed \in RankState /\ passed.data = last.data /\ passed.fresh = FALSE
      /\ passed.total = last.total /\ passed.active = last.active
      /\ SameLine(last, passed) /\ passed.lineId = lineId /\ passed.atStart = last.atStart
  BY <1>4, <1>5, <1>6 DEF RankState, DecodeCurrLineMode, SameLine
<1>9. CASE ~ Highlights(passed)
  <2>1. after = passed
    BY <1>3, <1>9
  <2> QED
    BY <1>2, <1>7, <1>8, <1>9, <2>1 DEF EndsAs
<1>10. CASE Highlights(passed)
  <2> DEFINE atStart == IF passed.atStart THEN HasStart(passed.line) \/ ~ HasEnd(passed.line)
                                          ELSE ~ HasEnd(passed.line) /\ HasStart(passed.line)
  <2>1. after = [passed EXCEPT !.atStart = atStart]
    BY <1>3, <1>10 DEF AdjustCurrPos, Highlights
  <2>2. atStart \in BOOLEAN
    BY DEF HasStart, HasEnd
  <2>3. atStart = IF last.atStart THEN HasStart(last.line) \/ ~ HasEnd(last.line)
                                  ELSE ~ HasEnd(last.line) /\ HasStart(last.line)
    BY <1>8 DEF SameLine
  <2> HIDE DEF atStart
  <2>4. /\ after \in RankState /\ after.data = passed.data /\ after.fresh = passed.fresh
        /\ after.total = passed.total /\ after.active = passed.active
        /\ SameLine(passed, after) /\ after.lineId = passed.lineId /\ after.atStart = atStart
    BY <1>8, <2>1, <2>2 DEF RankState, SameLine
  <2>5. Highlights(after)
    BY <1>10, <2>4 DEF Highlights, SameLine
  <2>6. EndsAs(rank, last, after)
    BY <1>7, <1>8, <2>3, <2>4, <2>5 DEF EndsAs, SameLine
  <2> QED
    BY <1>2, <2>6
<1> QED
  BY <1>9, <1>10

-------------------------------------------------------------------------------
(* The invariant: a current line has a valid end, and is one of the packet *)
(* it goes with, unless that came during a pass; and a pass under which    *)
(* nothing came or went is over the data of its rank.                      *)
PassRecord(ranks) ==
    [rank : ranks, packet : Seq(Line), fresh : BOOLEAN, raced : BOOLEAN]

EndOK(rank) == rank.valid => IsCurrPosValid(rank.line)

LineOK(rank) ==
    (rank.valid /\ rank.data # NoPacket /\ ~ rank.fresh) =>
      /\ rank.currLineId < Len(rank.data[1])
      /\ rank.line = rank.data[1][rank.currLineId + 1]

PassOK(pass) ==
    /\ pass \in PassRecord(DOMAIN table)
    /\ ~ pass.raced => /\ table[pass.rank].data = <<pass.packet>>
                       /\ table[pass.rank].fresh = pass.fresh
    /\ pass.raced => pass.rank \in lost \/ table[pass.rank].data = NoPacket

PathVisInv ==
    /\ todo \subseteq DOMAIN table /\ DOMAIN table \subseteq RankId
    /\ table \in [DOMAIN table -> RankState]
    /\ \A r \in DOMAIN table : EndOK(table[r])
    /\ \A r \in DOMAIN table \ lost : LineOK(table[r])
    /\ \A pass \in decoding : PassOK(pass)

LEMMA DecodeKeeps ==
    ASSUME NEW rank \in RankState, EndOK(rank), NEW lines \in Seq(Line),
           NEW after, after = Decode(rank, lines)
    PROVE  after \in RankState /\ after.data = rank.data /\ EndOK(after)
<1>1. PICK last : PassedTo(rank, lines, last) /\ EndsAs(rank, last, after)
  BY DecodeEndsAs
<1>2. /\ after \in RankState /\ after.data = rank.data /\ SameLine(last, after)
  BY <1>1 DEF PassedTo, EndsAs
<1>3. last.valid => IsCurrPosValid(last.line)
  <2>1. CASE IsRequest(rank)
    BY <1>1, <2>1 DEF PassedTo, IsOfLines
  <2>2. CASE ~ IsRequest(rank)
    BY <1>1, <2>2 DEF PassedTo, SameLine, EndOK
  <2> QED
    BY <2>1, <2>2
<1> QED
  BY <1>2, <1>3 DEF EndOK, SameLine

(* A pass over the packet of the rank, or over none of its lines.          *)
LEMMA DecodeKeepsLine ==
    ASSUME NEW rank \in RankState, LineOK(rank), NEW packet \in Seq(Line),
           rank.data = <<packet>>, NEW lines \in {packet, <<>>},
           NEW after, after = Decode(rank, lines)
    PROVE  LineOK(after)
<1>1. lines \in Seq(Line)
  BY EmptySeq
<1>2. PICK last : PassedTo(rank, lines, last) /\ EndsAs(rank, last, after)
  BY <1>1, DecodeEndsAs
<1>3. /\ after.data = rank.data /\ SameLine(last, after) /\ rank.data # NoPacket
      /\ rank.data[1] = packet
  BY <1>2 DEF PassedTo, EndsAs, NoPacket
<1>4. CASE IsRequest(rank) /\ last.valid
  <2>1. last.currLineId < Len(lines) /\ last.line = lines[last.currLineId + 1]
    BY <1>2, <1>4 DEF PassedTo, IsOfLines
  <2>2. last.currLineId \in Nat
    BY <1>2 DEF PassedTo, RankState
  <2>3. lines = packet
    BY <2>1, <2>2, EmptySeq
  <2> QED
    BY <1>3, <2>1, <2>3 DEF LineOK, SameLine
<1>5. CASE ~ IsRequest(rank)
  <2>1. SameLine(rank, last) /\ ~ rank.fresh
    BY <1>2, <1>5 DEF PassedTo, IsRequest
  <2> QED
    BY <1>3, <2>1 DEF LineOK, SameLine
<1>6. CASE ~ last.valid
  BY <1>3, <1>6 DEF LineOK, SameLine
<1> QED
  BY <1>4, <1>5, <1>6

LEMMA PathVisInitOK == PathVisInit => PathVisInv
<1> SUFFICES ASSUME PathVisInit PROVE PathVisInv
  OBVIOUS
<1>1. table = <<>> /\ DOMAIN table = {} /\ decoding = {} /\ todo = {}
  BY DEF PathVisInit
<1>2. table \in [DOMAIN table -> RankState]
  BY <1>1
<1> QED
  BY <1>1, <1>2 DEF PathVisInv

LEMMA ReceivePacketKeeps ==
    ASSUME PathVisInv, NEW r \in RankId, NEW packet \in Packet[r], ReceivePacket(r, packet)
    PROVE  PathVisInv'
<1> DEFINE old == IF r \in DOMAIN table THEN table[r] ELSE NewRank
           new == PushData(old, packet)
<1>1. NewRank \in RankState
  BY FarIsFar, SMT DEF NewRank, RankState, NoLine, Line, NoLineId, DecodeCurrLineMode
<1>2. old \in RankState
  BY <1>1 DEF PathVisInv
<1>3. packet \in Seq(Line)
  BY PacketAssumption
<1>4. EndOK(old)
  BY DEF PathVisInv, EndOK, NewRank
<1>5. /\ table' = [k \in DOMAIN table \cup {r} |-> IF k # r THEN table[k] ELSE new]
      /\ decoding' = {[pass EXCEPT !.raced = @ \/ pass.rank \in {r}] : pass \in decoding}
      /\ lost' = IF IsDecoding(r) THEN lost \cup {r} ELSE lost \ {r}
  BY DEF ReceivePacket, Overtake
<1>6. new = [old EXCEPT !.data = <<packet>>, !.fresh = TRUE]
  BY DEF PushData
<1> HIDE DEF old, new
<1>7. /\ new \in RankState /\ new.fresh = TRUE /\ new.valid = old.valid /\ new.line = old.line
  BY <1>2, <1>3, <1>6 DEF RankState
<1>8. EndOK(new) /\ LineOK(new)
  BY <1>4, <1>7 DEF EndOK, LineOK
<1>9. DOMAIN table' = DOMAIN table \cup {r}
  BY <1>5
<1>10. ASSUME NEW k \in DOMAIN table'
       PROVE  /\ table'[k] \in RankState /\ EndOK(table'[k])
              /\ k \notin lost' => LineOK(table'[k])
  BY <1>5, <1>7, <1>8, <1>9 DEF PathVisInv
<1>11. table' \in [DOMAIN table' -> RankState]
  BY <1>5, <1>9, <1>10
<1>12. todo' \subseteq DOMAIN table'
  BY <1>9 DEF ReceivePacket, PathVisInv
<1>13. ASSUME NEW after \in decoding' PROVE PassOK(after)'
  <2>1. PICK pass \in decoding : after = [pass EXCEPT !.raced = @ \/ pass.rank \in {r}]
    BY <1>5
  <2>2. PassOK(pass) /\ pass \in PassRecord(DOMAIN table)
    BY DEF PathVisInv, PassOK, PassRecord
  <2>3. /\ after \in PassRecord(DOMAIN table')
        /\ after.rank = pass.rank /\ after.packet = pass.packet /\ after.fresh = pass.fresh
        /\ after.raced = (pass.raced \/ pass.rank = r)
    BY <1>9, <2>1, <2>2 DEF PassRecord
  <2>4. CASE pass.rank = r
    <3>1. r \in lost'
      BY <1>5, <2>4 DEF IsDecoding
    <3> QED
      BY <2>3, <2>4, <3>1 DEF PassOK
  <2>5. CASE pass.rank # r
    <3>1. table'[pass.rank] = table[pass.rank] /\ (pass.rank \in lost' <=> pass.rank \in lost)
      BY <1>5, <2>2, <2>5 DEF PassRecord
    <3> QED
      BY <2>2, <2>3, <2>5, <3>1 DEF PassOK
  <2> QED
    BY <2>4, <2>5
<1> QED
  BY <1>9, <1>10, <1>11, <1>12, <1>13 DEF PathVisInv

(* What the commands change of a rank: never its line or its packet.       *)
LEMMA EachKeeps ==
    ASSUME PathVisInv, UNCHANGED Draw,
           table' = [r \in DOMAIN table |-> table'[r]],
           \A r \in DOMAIN table :
             /\ table'[r] \in RankState /\ SameLine(table[r], table'[r])
             /\ table'[r].fresh = table[r].fresh /\ table'[r].data = table[r].data
    PROVE  PathVisInv'
<1>1. DOMAIN table' = DOMAIN table
  OBVIOUS
<1>2. table' \in [DOMAIN table' -> RankState]
  BY <1>1
<1>3. ASSUME NEW r \in DOMAIN table
      PROVE  EndOK(table'[r]) /\ (r \notin lost => LineOK(table'[r]))
  BY DEF PathVisInv, EndOK, LineOK, SameLine
<1>4. ASSUME NEW pass \in decoding' PROVE PassOK(pass)'
  BY <1>1 DEF PathVisInv, PassOK, PassRecord, Draw
<1> QED
  BY <1>1, <1>2, <1>3, <1>4 DEF PathVisInv, Draw

LEMMA WithActiveKeeps ==
    ASSUME PathVisInv, NEW ranks, WithActive(ranks), UNCHANGED Draw
    PROVE  PathVisInv'
<1>1. table' = [r \in DOMAIN table |-> [table[r] EXCEPT !.active = r \in ranks]]
  BY DEF WithActive
<1>2. ASSUME NEW r \in DOMAIN table
      PROVE  /\ table'[r] \in RankState /\ SameLine(table[r], table'[r])
             /\ table'[r].fresh = table[r].fresh /\ table'[r].data = table[r].data
  <2> DEFINE rank == table[r]
             after == table'[r]
             active == r \in ranks
  <2>1. rank \in RankState
    BY DEF PathVisInv
  <2>2. after = [rank EXCEPT !.active = active]
    BY <1>1
  <2>3. active \in BOOLEAN
    OBVIOUS
  <2> HIDE DEF rank, after, active
  <2>4. /\ after \in RankState /\ SameLine(rank, after) /\ after.fresh = rank.fresh
        /\ after.data = rank.data
    BY <2>1, <2>2, <2>3 DEF RankState, SameLine
  <2> QED
    BY <2>4 DEF after, rank
<1>3. table' = [r \in DOMAIN table |-> table'[r]]
  BY <1>1
<1> QED
  BY <1>2, <1>3, EachKeeps

(* A step of the commands or of the draw that leaves the ranks alone.      *)
LEMMA SameTableKeeps ==
    ASSUME PathVisInv, UNCHANGED <<table, decoding, lost>>, todo' \subseteq DOMAIN table
    PROVE  PathVisInv'
BY DEF PathVisInv, PassOK

LEMMA RankCommandKeeps ==
    ASSUME PathVisInv, NEW r \in RankId, RankCommand(r)
    PROVE  PathVisInv'
<1> DEFINE rank == table[r]
<1>1. r \in DOMAIN table /\ rank \in RankState
  BY DEF PathVisInv, RankCommand
<1>2. PICK after :
        /\ table' = [table EXCEPT ![r] = after]
        /\ \/ \E mode \in {"NEXT", "PREV"} :
                after = [DeltaCurrLineId(rank, IF mode = "NEXT" THEN 1 ELSE -1) EXCEPT !.mode = mode]
           \/ \E pixel \in MousePixel : after = SetPickCurrLineParam(rank, pixel)
           \/ after = [rank EXCEPT !.atStart = ~ @]
  BY <1>1 DEF RankCommand, PathVisInv
<1>3. /\ after \in RankState /\ SameLine(rank, after) /\ after.fresh = rank.fresh
      /\ after.data = rank.data
  <2> HIDE DEF rank
  <2>1. CASE \E mode \in {"NEXT", "PREV"} :
               after = [DeltaCurrLineId(rank, IF mode = "NEXT" THEN 1 ELSE -1) EXCEPT !.mode = mode]
    <3>1. PICK mode \in {"NEXT", "PREV"} :
            after = [DeltaCurrLineId(rank, IF mode = "NEXT" THEN 1 ELSE -1) EXCEPT !.mode = mode]
      BY <2>1
    <3> DEFINE delta == IF mode = "NEXT" THEN 1 ELSE -1
               id == rank.lineId + delta
               lineId == IF id < 0 THEN rank.total - 1 ELSE IF id >= rank.total THEN 0 ELSE id
               moved == DeltaCurrLineId(rank, delta)
    <3>2. lineId \in Nat \cup {NoLineId}
      BY <1>1 DEF RankState, NoLineId
    <3>3. moved = [rank EXCEPT !.lineId = lineId] /\ after = [moved EXCEPT !.mode = mode]
      BY <3>1 DEF DeltaCurrLineId
    <3> HIDE DEF lineId, moved
    <3>4. /\ moved \in RankState /\ SameLine(rank, moved) /\ moved.fresh = rank.fresh
          /\ moved.data = rank.data
      BY <1>1, <3>2, <3>3 DEF RankState, SameLine
    <3>5. /\ after \in RankState /\ SameLine(moved, after) /\ after.fresh = moved.fresh
          /\ after.data = moved.data
      BY <3>3, <3>4 DEF RankState, SameLine, DecodeCurrLineMode
    <3> QED
      BY <3>4, <3>5 DEF SameLine
  <2>2. CASE \E pixel \in MousePixel : after = SetPickCurrLineParam(rank, pixel)
    <3>1. PICK pixel \in MousePixel : after = [rank EXCEPT !.mode = "PICK", !.pick = pixel]
      BY <2>2 DEF SetPickCurrLineParam
    <3>2. pixel \in 0 .. Far - 1
      BY PacketAssumption
    <3> QED
      BY <1>1, <3>1, <3>2 DEF RankState, SameLine, DecodeCurrLineMode
  <2>3. CASE after = [rank EXCEPT !.atStart = ~ @]
    BY <1>1, <2>3 DEF RankState, SameLine
  <2> QED
    BY <1>2, <2>1, <2>2, <2>3
<1>4. table \in [DOMAIN table -> RankState]
  BY DEF PathVisInv
<1>5. \A k \in DOMAIN table : table'[k] = IF k = r THEN after ELSE table[k]
  BY <1>2, <1>4
<1>6. table' = [k \in DOMAIN table |-> table'[k]]
  BY <1>2, <1>4
<1>7. ASSUME NEW k \in DOMAIN table
      PROVE  /\ table'[k] \in RankState /\ SameLine(table[k], table'[k])
             /\ table'[k].fresh = table[k].fresh /\ table'[k].data = table[k].data
  BY <1>3, <1>4, <1>5 DEF SameLine
<1> QED
  BY <1>6, <1>7, EachKeeps DEF RankCommand

LEMMA ResetPushedDataKeeps ==
    ASSUME PathVisInv, ResetPushedData
    PROVE  PathVisInv'
<1>1. /\ table' = [r \in DOMAIN table |-> [table[r] EXCEPT !.data = NoPacket]]
      /\ decoding' = {[pass EXCEPT !.raced = @ \/ pass.rank \in DOMAIN table] : pass \in decoding}
      /\ DOMAIN table' = DOMAIN table
  BY DEF ResetPushedData, Overtake
<1>2. ASSUME NEW r \in DOMAIN table
      PROVE  /\ table'[r] \in RankState /\ table'[r].data = NoPacket
             /\ EndOK(table'[r]) /\ LineOK(table'[r])
  <2> DEFINE rank == table[r]
             after == table'[r]
  <2>1. rank \in RankState /\ EndOK(rank) /\ after = [rank EXCEPT !.data = NoPacket]
    BY <1>1 DEF PathVisInv
  <2> HIDE DEF rank, after
  <2>2. after \in RankState /\ SameLine(rank, after) /\ after.data = NoPacket
    BY <2>1 DEF RankState, SameLine
  <2>3. EndOK(after) /\ LineOK(after)
    BY <2>1, <2>2 DEF EndOK, LineOK, SameLine
  <2> QED
    BY <2>2, <2>3 DEF after
<1>3. table' \in [DOMAIN table' -> RankState]
  BY <1>1, <1>2
<1>4. ASSUME NEW after \in decoding' PROVE PassOK(after)'
  <2>1. PICK pass \in decoding : after = [pass EXCEPT !.raced = @ \/ pass.rank \in DOMAIN table]
    BY <1>1
  <2>2. pass \in PassRecord(DOMAIN table)
    BY DEF PathVisInv, PassOK, PassRecord
  <2>3. after \in PassRecord(DOMAIN table') /\ after.rank = pass.rank /\ after.raced = TRUE
    BY <1>1, <2>1, <2>2 DEF PassRecord
  <2>4. table'[after.rank].data = NoPacket
    BY <1>2, <2>2, <2>3 DEF PassRecord
  <2> QED
    BY <2>3, <2>4 DEF PassOK
<1> QED
  BY <1>1, <1>2, <1>3, <1>4 DEF PathVisInv, ResetPushedData

LEMMA DecodeStartsKeeps ==
    ASSUME PathVisInv, NEW r \in RankId, DecodeStarts(r)
    PROVE  PathVisInv'
<1>0. r \in DOMAIN table /\ todo' \subseteq DOMAIN table
  BY DEF DecodeStarts, PathVisInv
<1>1. CASE table[r].data = NoPacket
  BY <1>0, <1>1, SameTableKeeps DEF DecodeStarts
<1>2. CASE table[r].data # NoPacket
  <2> DEFINE rank == table[r]
             pass == [rank |-> r, packet |-> rank.data[1], fresh |-> rank.fresh, raced |-> FALSE]
  <2>1. decoding' = {pass} /\ UNCHANGED <<table, lost>>
    BY <1>2 DEF DecodeStarts
  <2>2. rank \in RankState
    BY <1>0 DEF PathVisInv
  <2>3. rank.data[1] \in Seq(Line) /\ rank.data = <<rank.data[1]>> /\ rank.fresh \in BOOLEAN
    BY <1>2, <2>2, DataIsPacket DEF RankState
  <2>4. PassOK(pass)'
    BY <1>0, <2>1, <2>3 DEF PassOK, PassRecord
  <2> QED
    BY <1>0, <2>1, <2>4 DEF PathVisInv
<1> QED
  BY <1>1, <1>2

(* The state of a rank after a pass over it.                               *)
LEMMA DecodeEndsIs ==
    ASSUME PathVisInv, NEW pass \in decoding, DecodeEnds(pass)
    PROVE  LET r == pass.rank IN
           /\ r \in DOMAIN table /\ table'[r] \in RankState /\ EndOK(table'[r])
           /\ r \notin lost => LineOK(table'[r])
           /\ table' = [table EXCEPT ![r] = table'[r]]
           /\ ~ pass.raced => \E lines \in LinesOf(pass) : table'[r] = Decode(table[r], lines)
<1> DEFINE r == pass.rank
           rank == table[r]
           after == table'[r]
<1>1. PassOK(pass) /\ r \in DOMAIN table /\ r \in RankId
  BY DEF PathVisInv, PassOK, PassRecord
<1>2. rank \in RankState /\ EndOK(rank) /\ (r \notin lost => LineOK(rank))
  BY <1>1 DEF PathVisInv
<1>3. table \in [DOMAIN table -> RankState]
  BY DEF PathVisInv
<1>4. PICK lines \in LinesOf(pass), fresh \in {pass.fresh, rank.fresh} :
        table' = [table EXCEPT ![r] = Decode([rank EXCEPT !.fresh = fresh], lines)]
  BY DEF DecodeEnds
<1> DEFINE seen == [rank EXCEPT !.fresh = fresh]
<1>5. after = Decode(seen, lines) /\ table' = [table EXCEPT ![r] = after]
  BY <1>1, <1>3, <1>4
<1>6. lines \in Seq(Line)
  BY <1>1, EmptySeq, PacketAssumption DEF LinesOf, PassOK, PassRecord
<1> HIDE DEF rank, after, r
<1>7. /\ seen \in RankState /\ seen.data = rank.data /\ EndOK(seen)
      /\ fresh = rank.fresh => seen = rank
  BY <1>1, <1>2, <1>4 DEF RankState, EndOK, PassOK, PassRecord
<1> HIDE DEF seen
<1>8. after \in RankState /\ EndOK(after) /\ after.data = rank.data
  BY <1>5, <1>6, <1>7, DecodeKeeps
<1>9. CASE ~ pass.raced
  <2>1. rank.data = <<pass.packet>> /\ pass.packet \in Seq(Line) /\ fresh = rank.fresh
    BY <1>1, <1>4, <1>9 DEF PassOK, PassRecord, rank, r
  <2>2. after = Decode(rank, lines)
    BY <1>5, <1>7, <2>1
  <2>3. lines \in {pass.packet, <<>>}
    BY <1>9 DEF LinesOf
  <2>4. r \notin lost => LineOK(after)
    BY <1>2, <2>1, <2>2, <2>3, DecodeKeepsLine
  <2> QED
    BY <1>1, <1>5, <1>8, <1>9, <2>2, <2>4 DEF r, rank, after
<1>10. CASE pass.raced
  <2>1. r \notin lost => after.data = NoPacket
    BY <1>1, <1>8, <1>10 DEF PassOK, rank, r
  <2>2. r \notin lost => LineOK(after)
    BY <2>1 DEF LineOK
  <2> QED
    BY <1>1, <1>5, <1>8, <1>10, <2>2 DEF r, after
<1> QED
  BY <1>1, <1>9, <1>10 DEF PassOK, PassRecord

LEMMA DecodeEndsKeeps ==
    ASSUME PathVisInv, NEW pass \in decoding, DecodeEnds(pass)
    PROVE  PathVisInv'
<1> DEFINE r == pass.rank
<1>1. /\ r \in DOMAIN table /\ table'[r] \in RankState /\ EndOK(table'[r])
      /\ r \notin lost => LineOK(table'[r])
      /\ table' = [table EXCEPT ![r] = table'[r]]
  BY DecodeEndsIs
<1> HIDE DEF r
<1>2. /\ table \in [DOMAIN table -> RankState] /\ decoding' = {} /\ lost' = lost
      /\ todo' \subseteq DOMAIN table
  BY DEF PathVisInv, DecodeEnds
<1>3. DOMAIN table' = DOMAIN table /\ \A k \in DOMAIN table : k # r => table'[k] = table[k]
  BY <1>1, <1>2
<1>4. ASSUME NEW k \in DOMAIN table
      PROVE  /\ table'[k] \in RankState /\ EndOK(table'[k])
             /\ k \notin lost => LineOK(table'[k])
  BY <1>1, <1>3 DEF PathVisInv
<1>5. table' \in [DOMAIN table' -> RankState]
  BY <1>1, <1>2, <1>3, <1>4
<1> QED
  BY <1>2, <1>3, <1>4, <1>5 DEF PathVisInv

LEMMA PathVisNextKeeps ==
    ASSUME PathVisInv, [PathVisNext]_pathVisVars
    PROVE  PathVisInv'
<1>1. CASE \E r \in RankId : \E packet \in Packet[r] : ReceivePacket(r, packet)
  BY <1>1, ReceivePacketKeeps
<1>2. CASE ResetPushedData
  BY <1>2, ResetPushedDataKeeps
<1>3. CASE DecodeAll
  BY <1>3, SameTableKeeps DEF DecodeAll, PathVisInv
<1>4. CASE \E r \in RankId : DecodeStarts(r)
  BY <1>4, DecodeStartsKeeps
<1>5. CASE \E pass \in decoding : DecodeEnds(pass)
  BY <1>5, DecodeEndsKeeps
<1>6. CASE \E r \in RankId : RankCommand(r)
  BY <1>6, RankCommandKeeps
<1>7. CASE ToggleActiveCurrLineMode
  BY <1>7, WithActiveKeeps DEF ToggleActiveCurrLineMode
<1>8. CASE \E delta \in {1, -1} : DeltaCurrentRankId(delta)
  <2>1. UNCHANGED Draw /\ (WithActive({currRankId'}) \/ table' = table)
    BY <1>8 DEF DeltaCurrentRankId
  <2> QED
    BY <2>1, SameTableKeeps, WithActiveKeeps DEF Draw, PathVisInv
<1>9. CASE ToggleOnlyDrawCurrentRank \/ UNCHANGED pathVisVars
  BY <1>9, SameTableKeeps DEF ToggleOnlyDrawCurrentRank, pathVisVars, Draw, PathVisInv
<1> QED
  BY <1>1, <1>2, <1>3, <1>4, <1>5, <1>6, <1>7, <1>8, <1>9 DEF PathVisNext

(* No draw highlights a line of a packet that was replaced since, or of    *)
(* none (VectorPacketManager.cc:396), unless the packet that the rank      *)
(* holds came during a pass over the one before, however pushes, resets,   *)
(* the passes of draws and commands mix.                                   *)
THEOREM CurrentLineIsAlwaysOfShownPacket == PathVisSpec => []CurrentLineIsOfShownPacket
<1>1. PathVisInv => CurrentLineIsOfShownPacket
  BY DEF PathVisInv, LineOK, CurrentLineIsOfShownPacket, Highlights
<1>2. PathVisInv /\ [PathVisNext]_pathVisVars => PathVisInv'
  BY PathVisNextKeeps
<1> QED
  BY <1>1, <1>2, PathVisInitOK, PTL DEF PathVisSpec

-------------------------------------------------------------------------------
(* What a draw finds is what was asked for.                                *)
LEMMA DrawFinds ==
    ASSUME NEW rank \in RankState, rank.data # NoPacket,
           ~ (rank.mode = "PICK" /\ rank.fresh),
           NEW after, after = Decode(rank, rank.data[1])
    PROVE  Asked(rank, after)
<1> DEFINE lines == rank.data[1]
           L == Len(lines)
           valid == ValidIds(lines, L)
           from == {id \in valid : id >= rank.lineId /\ rank.lineId # NoLineId /\ ~ rank.fresh}
           upTo == {id \in valid : id <= rank.lineId \/ rank.lineId = NoLineId \/ rank.fresh}
           ends(line) == {line.start, line.end} \ {NoPoint}
           near(point) == Distance(rank.pick, point)
           points == UNION {ends(lines[id + 1]) : id \in valid}
           inReach == {d \in {near(point) : point \in points} : d <= PickThreshDist}
<1>2. lines \in Seq(Line) /\ L \in Nat
  BY DataIsPacket, LenProperties
<1>3. PICK last : PassedTo(rank, lines, last) /\ EndsAs(rank, last, after)
  BY <1>2, DecodeEndsAs
<1>4. /\ last \in RankState /\ last.pick = rank.pick /\ SameLine(last, after)
      /\ last.valid \in BOOLEAN /\ last.currLineId \in Nat
  BY <1>3 DEF PassedTo, EndsAs, RankState
<1>5. rank.mode # "NO_ACTION" =>
        after.lineId = IF last.valid THEN last.currLineId ELSE NoLineId
  BY <1>3 DEF EndsAs
<1>6. valid \in SUBSET Int /\ from \in SUBSET Int /\ upTo \in SUBSET Int
  BY DEF ValidIds
<1>7. from = FromIds(AskedId(rank), lines, L) /\ upTo = UpToIds(AskedId(rank), lines, L)
  BY DEF FromIds, UpToIds, AskedId
<1>8. rank.mode \in DecodeCurrLineMode
  BY DEF RankState
<1>9. ASSUME rank.mode = "NEXT"
      PROVE  after.lineId = IF from # {} THEN Min(from)
                            ELSE IF valid # {} THEN Min(valid) ELSE NoLineId
  <2>1. NextFinds(last, AskedId(rank), lines, L)
    BY <1>3, <1>9 DEF PassedTo
  <2>2. /\ last.valid <=> valid # {}
        /\ (from = {} /\ last.valid) => IsLeast(last.currLineId, valid)
        /\ from # {} => IsLeast(last.currLineId, from)
    BY <1>7, <2>1 DEF NextFinds
  <2> HIDE DEF valid, from
  <2>3. from # {} => last.valid
    BY <2>2 DEF from
  <2>4. from # {} => Min(from) = last.currLineId
    BY <1>6, <2>2, MinIsLeast
  <2>5. (from = {} /\ valid # {}) => Min(valid) = last.currLineId
    BY <1>6, <2>2, MinIsLeast
  <2> QED
    BY <1>5, <1>9, <2>2, <2>3, <2>4, <2>5
<1>10. ASSUME rank.mode = "PREV"
       PROVE  IF upTo # {} THEN after.lineId = Max(upTo)
              ELSE IF valid # {} THEN after.lineId \in valid ELSE after.lineId = NoLineId
  <2>1. PrevFinds(last, AskedId(rank), lines, L)
    BY <1>3, <1>10 DEF PassedTo
  <2>2. /\ last.valid <=> valid # {}
        /\ last.valid => last.currLineId \in valid
        /\ upTo # {} => IsGreatest(last.currLineId, upTo)
    BY <1>7, <2>1 DEF PrevFinds
  <2> HIDE DEF valid, upTo
  <2>3. upTo # {} => last.valid
    BY <2>2 DEF upTo
  <2>4. upTo # {} => Max(upTo) = last.currLineId
    BY <1>6, <2>2, MaxIsGreatest
  <2> QED
    BY <1>5, <1>10, <2>2, <2>3, <2>4
<1>11. ASSUME rank.mode = "PICK"
       PROVE  IF inReach = {} THEN after.lineId = NoLineId
              ELSE /\ after.lineId \in valid
                   /\ Min(inReach) = near(IF after.atStart THEN lines[after.lineId + 1].start
                                                           ELSE lines[after.lineId + 1].end)
  <2> DEFINE Q == Ends(lines, L)
             marked == Marked(last, lines)
  <2>1. PickFinds(last, lines, Q, L) /\ IsOfLines(last, lines, L)
    BY <1>3, <1>11 DEF PassedTo, IsRequest
  <2>2. NoPoint \notin Pixel
    BY PacketAssumption DEF NoPoint
  <2>3. \A id \in 0 .. L - 1 : lines[id + 1] \in Line
    <3> TAKE id \in 0 .. L - 1
    <3>1. id + 1 \in 1 .. L
      BY <1>2
    <3> QED
      BY <1>2, <3>1, ElementOfSeq
  <2>4. ASSUME NEW q PROVE q \in points <=> q \in Q
    <3>1. ASSUME q \in points PROVE q \in Q
      <4>1. PICK id \in valid : q \in ends(lines[id + 1])
        BY <3>1
      <4>2. id \in 0 .. L - 1 /\ lines[id + 1] \in Line
        BY <2>3 DEF ValidIds
      <4> QED
        BY <4>1, <4>2 DEF Ends, Line
    <3>2. ASSUME q \in Q PROVE q \in points
      <4>1. PICK id \in 0 .. L - 1 : q \in Pixel /\ q \in {lines[id + 1].start, lines[id + 1].end}
        BY <3>2 DEF Ends
      <4>2. q \in ends(lines[id + 1])
        BY <2>2, <4>1
      <4>3. id \in valid
        BY <2>2, <4>1 DEF ValidIds, IsCurrPosValid, HasStart, HasEnd
      <4> QED
        BY <4>2, <4>3
    <3> QED
      BY <3>1, <3>2
  <2>5. \A d : d \in inReach <=> d <= PickThreshDist /\ \E q \in Q : d = near(q)
    BY <2>4
  <2>6. Q \subseteq Pixel /\ \A q \in Q : near(q) \in Int
    BY PointsAreNear, FarIsFar DEF Ends, RankState
  <2>7. inReach \in SUBSET Int
    BY <2>5, <2>6
  <2> HIDE DEF inReach, Q, near
  <2>8. CASE ~ last.valid
    <3>1. \A q \in Q : Distance(rank.pick, q) > PickThreshDist
      BY <1>4, <2>1, <2>8 DEF PickFinds, OutOfReach
    <3>2. inReach = {}
      BY <2>5, <2>6, <3>1, PacketAssumption DEF near
    <3> QED
      BY <1>5, <1>11, <2>8, <3>2
  <2>9. CASE last.valid
    <3>1. /\ last.currLineId < L /\ marked \in Q /\ near(marked) <= PickThreshDist
          /\ \A q \in Q : near(q) <= PickThreshDist => near(marked) <= near(q)
      BY <1>4, <2>1, <2>9 DEF PickFinds, near
    <3>2. last.line = lines[last.currLineId + 1] /\ IsCurrPosValid(last.line)
      BY <2>1, <2>9 DEF IsOfLines
    <3>3. after.lineId = last.currLineId
      BY <1>5, <1>11, <2>9
    <3>4. last.currLineId \in valid
      BY <1>4, <3>1, <3>2 DEF ValidIds
    <3>5. IsLeast(near(marked), inReach)
      BY <2>5, <3>1 DEF IsLeast
    <3>6. Min(inReach) = near(marked) /\ inReach # {}
      BY <2>7, <3>5, MinIsLeast DEF IsLeast
    <3>7. marked # NoPoint
      BY <2>2, <2>6, <3>1
    <3>8. after.atStart = last.atStart
      <4>1. last.atStart \in BOOLEAN
        BY <1>4 DEF RankState
      <4>2. last.atStart => HasStart(last.line)
        BY <3>2, <3>7 DEF Marked, HasStart
      <4>3. ~ last.atStart => HasEnd(last.line)
        BY <3>2, <3>7 DEF Marked, HasEnd
      <4> QED
        BY <1>3, <4>1, <4>2, <4>3 DEF EndsAs
    <3>9. marked = IF after.atStart THEN lines[after.lineId + 1].start
                                    ELSE lines[after.lineId + 1].end
      BY <3>3, <3>8 DEF Marked
    <3> QED
      BY <3>3, <3>4, <3>6, <3>9
  <2> QED
    BY <1>4, <2>8, <2>9
<1> HIDE DEF from, upTo, inReach
<1>12. Asked(rank, after) <=>
         CASE rank.mode = "NO_ACTION" -> TRUE
           [] rank.mode = "NEXT" ->
                after.lineId = IF from # {} THEN Min(from)
                               ELSE IF valid # {} THEN Min(valid) ELSE NoLineId
           [] rank.mode = "PREV" ->
                IF upTo # {} THEN after.lineId = Max(upTo)
                ELSE IF valid # {} THEN after.lineId \in valid ELSE after.lineId = NoLineId
           [] rank.mode = "PICK" ->
                IF inReach = {} THEN after.lineId = NoLineId
                ELSE /\ after.lineId \in valid
                     /\ Min(inReach) = near(IF after.atStart THEN lines[after.lineId + 1].start
                                                             ELSE lines[after.lineId + 1].end)
  BY DEF Asked, from, upTo, inReach, ValidIds
<1> QED
  BY <1>8, <1>9, <1>10, <1>11, <1>12 DEF DecodeCurrLineMode

LEMMA DrawMarks ==
    ASSUME NEW rank \in RankState, EndOK(rank), NEW lines \in Seq(Line),
           NEW after, after = Decode(rank, lines), Highlights(after)
    PROVE  IF after.atStart THEN HasStart(after.line) ELSE HasEnd(after.line)
<1>1. PICK last : EndsAs(rank, last, after)
  BY DecodeEndsAs
<1>2. IsCurrPosValid(after.line)
  BY DecodeKeeps DEF EndOK, Highlights
<1>3. after.line = last.line
  BY <1>1 DEF EndsAs, SameLine
<1>4. after.atStart = IF last.atStart THEN HasStart(last.line) \/ ~ HasEnd(last.line)
                                      ELSE ~ HasEnd(last.line) /\ HasStart(last.line)
  BY <1>1 DEF EndsAs
<1>5. HasStart(last.line) \/ HasEnd(last.line)
  BY <1>2, <1>3 DEF IsCurrPosValid
<1> QED
  BY <1>3, <1>4, <1>5

LEMMA PassFinds ==
    ASSUME PathVisInv, NEW pass \in decoding, DecodeEnds(pass)
    PROVE  LET rank == table[pass.rank]
               after == table'[pass.rank]
           IN  /\ pass.raced \/ SkipDraw(pass.rank) \/ (rank.mode = "PICK" /\ rank.fresh)
                    \/ Asked(rank, after)
               /\ Highlights(after) => IF after.atStart THEN HasStart(after.line)
                                                        ELSE HasEnd(after.line)
<1> DEFINE r == pass.rank
           rank == table[r]
           after == table'[r]
<1>1. PassOK(pass) /\ r \in DOMAIN table /\ r \in RankId
  BY DEF PathVisInv, PassOK, PassRecord
<1>2. rank \in RankState /\ EndOK(rank) /\ table \in [DOMAIN table -> RankState]
  BY <1>1 DEF PathVisInv
<1>3. ASSUME ~ pass.raced, ~ SkipDraw(r), ~ (rank.mode = "PICK" /\ rank.fresh)
      PROVE  Asked(rank, after)
  <2>1. PICK lines \in LinesOf(pass) : after = Decode(rank, lines)
    BY <1>3, DecodeEndsIs
  <2>2. rank.data = <<pass.packet>>
    BY <1>1, <1>3 DEF PassOK, PassRecord
  <2>3. lines = rank.data[1] /\ rank.data # NoPacket
    BY <1>3, <2>1, <2>2 DEF LinesOf, NoPacket
  <2> QED
    BY <1>2, <1>3, <2>1, <2>3, DrawFinds
<1>4. ASSUME Highlights(after)
      PROVE  IF after.atStart THEN HasStart(after.line) ELSE HasEnd(after.line)
  <2>1. PICK lines \in LinesOf(pass), fresh \in {pass.fresh, rank.fresh} :
          table' = [table EXCEPT ![r] = Decode([rank EXCEPT !.fresh = fresh], lines)]
    BY DEF DecodeEnds
  <2>2. after = Decode([rank EXCEPT !.fresh = fresh], lines)
    BY <1>1, <1>2, <2>1
  <2>3. lines \in Seq(Line)
    BY <1>1, EmptySeq, PacketAssumption DEF LinesOf, PassOK, PassRecord
  <2> HIDE DEF rank, after, r
  <2>4. [rank EXCEPT !.fresh = fresh] \in RankState /\ EndOK([rank EXCEPT !.fresh = fresh])
    BY <1>1, <1>2, <2>1 DEF RankState, EndOK, PassOK, PassRecord
  <2> QED
    BY <1>4, <2>2, <2>3, <2>4, DrawMarks
<1> QED
  BY <1>3, <1>4

(* A pass of a draw under which nothing comes or goes moves the selection  *)
(* to the line that the request asks for, said of the whole packet: with a *)
(* request that may move while it lasts, it misses no line.  And whatever  *)
(* comes or goes, a valid end of the line is marked.                       *)
THEOREM SelectionIsAlwaysTheOneAsked == PathVisSpec => SelectionIsTheOneAsked
<1> DEFINE Found ==
      \A pass \in decoding : DecodeEnds(pass) =>
        LET rank == table[pass.rank]
            after == table'[pass.rank]
        IN  /\ pass.raced \/ SkipDraw(pass.rank) \/ (rank.mode = "PICK" /\ rank.fresh)
                 \/ Asked(rank, after)
            /\ Highlights(after) => IF after.atStart THEN HasStart(after.line)
                                                     ELSE HasEnd(after.line)
<1>1. PathVisInv => Found
  BY PassFinds
<1>2. PathVisInv /\ [PathVisNext]_pathVisVars => PathVisInv' /\ [Found]_pathVisVars
  BY <1>1, PathVisNextKeeps
<1> QED
  BY <1>2, PathVisInitOK, PTL DEF PathVisSpec, SelectionIsTheOneAsked

-------------------------------------------------------------------------------
(* The delivery of images.  Said is what a message leaves the client to    *)
(* expect: the frame, its progress and status, the size, whether the       *)
(* sender began anew unseen, and the image that the sender believes to be  *)
(* at the client.                                                          *)
Status == {"STARTED", "RENDERING", "FINISHED"}
Said ==
    [frame : Nat, progress : 0 .. 2, status : Status \cup {NoStatus},
     viewport : Viewport \cup {NoViewport}, unseen : BOOLEAN, image : Image]

NothingSaid ==
    [frame |-> 0, progress |-> 0, status |-> NoStatus, viewport |-> NoViewport,
     unseen |-> FALSE, image |-> NoImage]

PackedBuffer == [name : Buffer, active : BOOLEAN, data : Value]
SenderState ==
    [control : PrecisionControl, fb : Image, active : SUBSET Buffer,
     status : Status \cup {"ERROR"}, coarsePass : BOOLEAN,
     beautyHdriTest : HdriTestCondition, buffers : Seq(PackedBuffer)]
RenderState ==
    [frame : Nat \ {0}, coarsePass : BOOLEAN, progress : 0 .. 2, syncId : Nat,
     status : Status \cup {NoStatus}, viewport : Viewport,
     sentViewport : Viewport \cup {NoViewport}, unseenInit : BOOLEAN]
ClientState ==
    [frameId : Nat, lastFrameId : Nat, status : Status, progress : Progress,
     coarsePass : BOOLEAN, albedoInput : {NoAov, AlbedoAov},
     rezedViewport : Viewport \cup {NoViewport}, fbViewport : Viewport \cup {NoViewport},
     fb : Image, telemetryActive : BOOLEAN, newestSyncId : Nat, mergeKnown : BOOLEAN,
     clockDeltaRun : BOOLEAN]
Message ==
    [kind : {"info"}, aux : [syncId : Nat, merge : BOOLEAN]] \cup
    [kind : {"image"}, frameId : Nat, status : Status, coarsePass : BOOLEAN,
     progress : 0 .. 2, viewport : Viewport, albedoInput : {NoAov, AlbedoAov},
     buffers : SUBSET PackedBuffer]

(* What decoding a packed value gives, and what the client may have of an  *)
(* image.                                                                  *)
Fits(b, data, value) == data = value \/ Clipped(b, data, value)
Agrees(fb, image) ==
    \A b \in Buffer : Fits(b, fb[b], image[b]) \/ (b = Beauty /\ image[b] = NoValue)

(* The buffers of a message bring an image from base to image.             *)
IsDelta(buffers, base, image) ==
    /\ \A buff \in buffers : buff.active => Fits(buff.name, buff.data, image[buff.name])
    /\ \A b \in Buffer :
         image[b] # base[b] => \E buff \in buffers : buff.active /\ buff.name = b

(* A message of an image: from what was said before it to what it says.    *)
SaysImage(before, m, after) ==
    /\ m.frameId = after.frame /\ m.progress = after.progress
    /\ m.status = after.status /\ m.viewport = after.viewport
    /\ after.frame # 0 /\ before.frame <= after.frame
    /\ before.frame = after.frame => before.progress <= after.progress
    /\ m.status = "STARTED" =>
         /\ ~ after.unseen
         /\ IsDelta(m.buffers, NoImage, after.image)
         /\ before.frame = after.frame =>
              /\ before.status = "STARTED"
              /\ \A b \in Buffer : before.image[b] # NoValue => after.image[b] # NoValue
    /\ m.status # "STARTED" =>
         \/ /\ IsDelta(m.buffers, before.image, after.image)
            /\ after.viewport = before.viewport
            /\ after.unseen = before.unseen
         \/ /\ IsDelta(m.buffers, NoImage, after.image)
            /\ after.unseen = (after.viewport = before.viewport)

Says(before, m, after) ==
    \/ m.kind = "info" /\ after = before
    \/ m.kind = "image" /\ SaysImage(before, m, after)

(* The sender, after the last message.                                     *)
KeptCopy(said) ==
    /\ sender.fb = said.image /\ render.viewport = said.viewport
    /\ render.unseenInit = said.unseen
ResetCopy(said) ==
    /\ sender.fb = NoImage
    /\ render.unseenInit = (render.viewport = said.viewport)
SenderSaid(said) ==
    /\ render.sentViewport = said.viewport
    /\ \/ /\ render.frame = said.frame /\ render.status = said.status
          /\ render.progress = said.progress /\ render.status # NoStatus
          /\ KeptCopy(said)
       \/ /\ said.frame < render.frame /\ render.status = NoStatus
          /\ render.progress = 0
          /\ KeptCopy(said) \/ ResetCopy(said)

(* The client, before the first of the messages on their way.  While the   *)
(* frame is STARTED it has nothing in a buffer that has nothing: then a    *)
(* second STARTED message of the frame, which does not reset, is enough.   *)
NothingExtra(fb, said) ==
    said.status = "STARTED" =>
        \A b \in Buffer \ {Beauty} : fb[b] # NoValue => said.image[b] # NoValue
ClientIsAt(c, said) ==
    /\ c.frameId = said.frame /\ c.fbViewport = said.viewport
    /\ c.progress <= said.progress
    /\ IF said.frame = 0 THEN said = NothingSaid ELSE c.lastFrameId = said.frame
    /\ NothingExtra(c.fb, said)
ClientHas(c, isBroken, said) == (~ isBroken /\ ~ said.unseen) => Agrees(c.fb, said.image)

(* What was said, message by message.                                      *)
Told(said) ==
    /\ said \in Seq(Said) /\ Len(said) = Len(channel) + 1
    /\ ClientIsAt(client, said[1]) /\ ClientHas(client, broken, said[1])
    /\ \A i \in 1 .. Len(channel) : Says(said[i], channel[i], said[i + 1])
    /\ SenderSaid(said[Len(said)])

DeliveryTypeOK ==
    /\ sender \in SenderState /\ sender.buffers = <<>>
    /\ render \in RenderState
    /\ client \in ClientState
    /\ channel \in Seq(Message)
    /\ broken \in BOOLEAN

DeliveryInv == DeliveryTypeOK /\ \E said \in Seq(Said) : Told(said)

-------------------------------------------------------------------------------
(* Packing.  After some of the functions that pack: the image and the      *)
(* active buffers are those of ready, what was packed fits, and the        *)
(* buffers of names are packed if they are active.                         *)
PackedTo(s, ready, names) ==
    /\ s \in SenderState
    /\ s.fb = ready.fb /\ s.active = ready.active
    /\ s.beautyHdriTest = "NON_HDRI" => ready.fb[Beauty] # HdrValue
    /\ \A i \in DOMAIN s.buffers :
         s.buffers[i].active =>
           Fits(s.buffers[i].name, s.buffers[i].data, ready.fb[s.buffers[i].name])
    /\ \A b \in names \cap ready.active :
         \E i \in DOMAIN s.buffers : s.buffers[i].active /\ s.buffers[i].name = b

LEMMA CalcIsPrecision ==
    ASSUME NEW s \in SenderState, NEW b \in Buffer, NEW decision \in Precision
    PROVE  CalcPackTilePrecision(s, CoarsePrecision[b], FinePrecision[b], decision) \in Precision
<1>1. CoarsePrecision[b] \in Precision \cup {"RUNTIME_DECISION"} /\ FinePrecision[b] \in {"F32", "H16"}
  BY BufferAssumption
<1>2. s.control \in PrecisionControl
  BY DEF SenderState
<1> QED
  BY <1>1, <1>2 DEF CalcPackTilePrecision, CalcCoarsePassPrecision, PrecisionControl, Precision

(* 8 bits are only used when the buffer asks for them, or at run time.     *)
LEMMA EightBitsAreAsked ==
    ASSUME NEW s \in SenderState, NEW b \in Buffer, NEW decision \in Precision,
           CalcPackTilePrecision(s, CoarsePrecision[b], FinePrecision[b], decision) = "UC8"
    PROVE  \/ CoarsePrecision[b] = "UC8"
           \/ AsksAtRuntime(s, CoarsePrecision[b]) /\ decision = "UC8"
<1>1. CoarsePrecision[b] \in Precision \cup {"RUNTIME_DECISION"} /\ FinePrecision[b] \in {"F32", "H16"}
  BY BufferAssumption
<1>2. s.control \in PrecisionControl /\ s.coarsePass \in BOOLEAN
  BY DEF SenderState
<1> QED
  BY <1>1, <1>2 DEF CalcPackTilePrecision, CalcCoarsePassPrecision, PrecisionControl, Precision,
     AsksAtRuntime

LEMMA EncodedFits ==
    ASSUME NEW b, NEW v \in Value, NEW precision \in Precision,
           (precision = "UC8" /\ v = HdrValue) =>
             (b \in RenderOutput \cup {RenderBufferOdd} \/ CoarsePrecision[b] = "UC8")
    PROVE  Encoded(v, precision) \in Value /\ Fits(b, Encoded(v, precision), v)
BY DEF Encoded, Fits, Clipped, Value, NoValue, LowValue, FewHdrValue, HdrValue

LEMMA AddBufferPacks ==
    ASSUME NEW s, NEW ready, NEW names, PackedTo(s, ready, names),
           NEW b \in Buffer, NEW precision \in Precision,
           (precision = "UC8" /\ ready.fb[b] = HdrValue) =>
             (b \in RenderOutput \cup {RenderBufferOdd} \/ CoarsePrecision[b] = "UC8")
    PROVE  PackedTo(AddBuffer(s, b, precision), ready, names \cup {b})
<1> DEFINE buff == [name |-> b, active |-> b \in s.active, data |-> Encoded(s.fb[b], precision)]
           after == AddBuffer(s, b, precision)
<1>1. s \in SenderState /\ s.buffers \in Seq(PackedBuffer) /\ s.fb \in Image
  BY DEF PackedTo, SenderState
<1>2. s.fb[b] \in Value /\ s.fb[b] = ready.fb[b]
  BY <1>1 DEF PackedTo, Image
<1>3. Encoded(s.fb[b], precision) \in Value /\ Fits(b, Encoded(s.fb[b], precision), ready.fb[b])
  BY <1>2, EncodedFits
<1>4. buff \in PackedBuffer
  BY <1>3 DEF PackedBuffer
<1>5. after = [s EXCEPT !.buffers = Append(s.buffers, buff)]
  BY <1>1 DEF AddBuffer, SenderState
<1>6. /\ Append(s.buffers, buff) \in Seq(PackedBuffer)
      /\ DOMAIN Append(s.buffers, buff) = 1 .. Len(s.buffers) + 1
      /\ DOMAIN s.buffers = 1 .. Len(s.buffers) /\ Len(s.buffers) \in Nat
      /\ \A i \in DOMAIN s.buffers : Append(s.buffers, buff)[i] = s.buffers[i]
      /\ Append(s.buffers, buff)[Len(s.buffers) + 1] = buff
  BY <1>1, <1>4
<1>7. /\ after \in SenderState /\ after.buffers = Append(s.buffers, buff)
      /\ after.fb = s.fb /\ after.active = s.active /\ after.beautyHdriTest = s.beautyHdriTest
  BY <1>1, <1>5, <1>6 DEF SenderState
<1> HIDE DEF buff, after
<1>8. ASSUME NEW i \in DOMAIN after.buffers, after.buffers[i].active
      PROVE  Fits(after.buffers[i].name, after.buffers[i].data, ready.fb[after.buffers[i].name])
  <2>1. CASE i \in DOMAIN s.buffers
    <3>1. after.buffers[i] = s.buffers[i]
      BY <1>6, <1>7, <2>1
    <3> QED
      BY <1>8, <2>1, <3>1 DEF PackedTo
  <2>2. CASE i = Len(s.buffers) + 1
    <3>1. after.buffers[i] = buff
      BY <1>6, <1>7, <2>2
    <3>2. buff.name = b /\ buff.data = Encoded(s.fb[b], precision)
      BY DEF buff
    <3> QED
      BY <1>3, <3>1, <3>2
  <2> QED
    BY <1>6, <1>7, <2>1, <2>2
<1>9. ASSUME NEW c \in (names \cup {b}) \cap ready.active
      PROVE  \E i \in DOMAIN after.buffers : after.buffers[i].active /\ after.buffers[i].name = c
  <2>1. CASE c = b
    <3>1. buff.active /\ buff.name = c
      BY <1>9, <2>1 DEF buff, PackedTo
    <3> QED
      BY <1>6, <1>7, <3>1
  <2>2. CASE c \in names
    <3>1. PICK i \in DOMAIN s.buffers : s.buffers[i].active /\ s.buffers[i].name = c
      BY <1>9, <2>2 DEF PackedTo
    <3> QED
      BY <1>6, <1>7, <3>1
  <2> QED
    BY <1>9, <2>1, <2>2
<1> QED
  BY <1>7, <1>8, <1>9 DEF PackedTo, after

LEMMA BeautyPrecisionPacks ==
    ASSUME NEW s, NEW ready, NEW names, PackedTo(s, ready, names),
           NEW b \in Buffer, b \in {Beauty, RenderBufferOdd}
    PROVE  PackedTo(AddWithBeautyPrecision(s, b), ready, names \cup {b})
<1> DEFINE tested == IF AsksAtRuntime(s, CoarsePrecision[Beauty])
                       THEN WithBeautyHdriTest(s) ELSE s
           decision == HdriPrecision(tested.beautyHdriTest = "HDRI")
           precision == CalcPackTilePrecision(tested, CoarsePrecision[Beauty],
                                              FinePrecision[Beauty], decision)
<1>1. s \in SenderState /\ s.fb = ready.fb
  BY DEF PackedTo
<1>2. /\ WithBeautyHdriTest(s) \in SenderState
      /\ WithBeautyHdriTest(s).fb = s.fb /\ WithBeautyHdriTest(s).active = s.active
      /\ WithBeautyHdriTest(s).buffers = s.buffers
      /\ WithBeautyHdriTest(s).beautyHdriTest \in {"HDRI", "NON_HDRI"}
      /\ WithBeautyHdriTest(s).beautyHdriTest = "NON_HDRI" => ready.fb[Beauty] # HdrValue
      /\ WithBeautyHdriTest(s).coarsePass = s.coarsePass
      /\ WithBeautyHdriTest(s).control = s.control
  <2>1. CASE s.beautyHdriTest # "INIT"
    BY <1>1, <2>1 DEF WithBeautyHdriTest, SenderState, HdriTestCondition, PackedTo
  <2>2. CASE s.beautyHdriTest = "INIT"
    BY <1>1, <2>2 DEF WithBeautyHdriTest, SenderState, HdriTestCondition, BeautyHdriTest
  <2> QED
    BY <2>1, <2>2
<1>3. PackedTo(tested, ready, names)
  BY <1>1, <1>2 DEF PackedTo
<1>4. tested \in SenderState
  BY <1>3 DEF PackedTo
<1>5. Beauty \in Buffer
  BY BufferAssumption
<1>6. decision \in Precision
  BY DEF HdriPrecision, Precision
<1>7. precision \in Precision
  BY <1>4, <1>5, <1>6, CalcIsPrecision
<1>8. ASSUME precision = "UC8", ready.fb[b] = HdrValue
      PROVE  b \in RenderOutput \cup {RenderBufferOdd} \/ CoarsePrecision[b] = "UC8"
  <2>1. CASE b = RenderBufferOdd
    BY <2>1
  <2>2. CASE b = Beauty /\ CoarsePrecision[Beauty] # "UC8"
    <3>1. AsksAtRuntime(tested, CoarsePrecision[Beauty]) /\ decision = "UC8"
      BY <1>4, <1>5, <1>6, <1>8, <2>2, EightBitsAreAsked
    <3>2. AsksAtRuntime(s, CoarsePrecision[Beauty])
      BY <3>1, <1>2 DEF AsksAtRuntime
    <3>3. tested = WithBeautyHdriTest(s)
      BY <3>2
    <3>4. tested.beautyHdriTest # "HDRI"
      BY <3>1 DEF HdriPrecision
    <3> QED
      BY <1>2, <1>8, <2>2, <3>3, <3>4
  <2> QED
    BY <2>1, <2>2
<1>9. PackedTo(AddBuffer(tested, b, precision), ready, names \cup {b})
  <2> HIDE DEF tested, precision
  <2> QED
    BY <1>3, <1>7, <1>8, AddBufferPacks
<1> QED
  BY <1>9 DEF AddWithBeautyPrecision

LEMMA OwnPrecisionPacks ==
    ASSUME NEW s, NEW ready, NEW names, PackedTo(s, ready, names), NEW b \in Buffer
    PROVE  PackedTo(AddWithOwnPrecision(s, b), ready, names \cup {b})
<1> DEFINE precision == CalcPackTilePrecision(s, CoarsePrecision[b], FinePrecision[b], "F32")
<1>1. s \in SenderState
  BY DEF PackedTo
<1>2. precision \in Precision
  BY <1>1, CalcIsPrecision DEF Precision
<1>3. precision = "UC8" => CoarsePrecision[b] = "UC8"
  BY <1>1, EightBitsAreAsked DEF Precision
<1> HIDE DEF precision
<1>4. PackedTo(AddBuffer(s, b, precision), ready, names \cup {b})
  BY <1>2, <1>3, AddBufferPacks
<1> QED
  BY <1>4 DEF AddWithOwnPrecision, precision

LEMMA HeatMapPacks ==
    ASSUME NEW s, NEW ready, NEW names, PackedTo(s, ready, names), HeatMap \in Buffer
    PROVE  PackedTo(AddHeatMap(s), ready, names \cup {HeatMap})
BY AddBufferPacks DEF AddHeatMap, Precision

LEMMA AovPacks ==
    ASSUME NEW s, NEW ready, NEW names, PackedTo(s, ready, names),
           NEW aov \in RenderOutput, NEW isHdri \in BOOLEAN
    PROVE  PackedTo(AddAov(s, aov, isHdri), ready, names \cup {aov})
<1> DEFINE precision == CalcPackTilePrecision(s, CoarsePrecision[aov], FinePrecision[aov],
                                              HdriPrecision(isHdri))
<1>1. s \in SenderState /\ aov \in Buffer /\ s.active = ready.active
  BY DEF PackedTo, RenderOutput
<1>2. precision \in Precision
  BY <1>1, CalcIsPrecision DEF HdriPrecision, Precision
<1>3. CASE aov \notin s.active
  <2>1. (names \cup {aov}) \cap ready.active = names \cap ready.active
    BY <1>1, <1>3
  <2>2. AddAov(s, aov, isHdri) = s
    BY <1>3 DEF AddAov
  <2> QED
    BY <2>1, <2>2 DEF PackedTo
<1>4. CASE aov \in s.active
  <2>1. AddAov(s, aov, isHdri) = AddBuffer(s, aov, precision)
    BY <1>4 DEF AddAov
  <2> HIDE DEF precision
  <2>2. PackedTo(AddBuffer(s, aov, precision), ready, names \cup {aov})
    BY <1>1, <1>2, AddBufferPacks
  <2> QED
    BY <2>1, <2>2
<1> QED
  BY <1>3, <1>4

(* A message has every buffer that differs, as far as its precision goes.  *)
LEMMA PackedPacksAll ==
    ASSUME NEW ready \in SenderState, ready.buffers = <<>>, ready.beautyHdriTest = "INIT",
           NEW isHdri \in BOOLEAN
    PROVE  PackedTo(Packed(ready, isHdri), ready, Buffer)
<1> DEFINE beauty == AddBeautyBuff(ready)
           odd == IF RenderBufferOdd \in Buffer THEN AddRenderBufferOdd(beauty) ELSE beauty
           heat == IF HeatMap \in Buffer THEN AddHeatMap(odd) ELSE odd
           info == IF "PixelInfo" \in Buffer THEN AddPixelInfo(heat) ELSE heat
           weight == IF "Weight" \in Buffer THEN AddWeightBuffer(info) ELSE info
           all == IF RenderOutput = {} THEN weight ELSE AddAov(weight, AlbedoAov, isHdri)
<1>0. Beauty \in Buffer /\ RenderOutput \subseteq {AlbedoAov} /\ ready.active \subseteq Buffer
  BY BufferAssumption, DeliveryAssumption DEF SenderState
<1>1. PackedTo(ready, ready, {})
  BY DEF PackedTo
<1>2. PackedTo(beauty, ready, {Beauty})
  BY <1>0, <1>1, BeautyPrecisionPacks DEF AddBeautyBuff
<1> HIDE DEF beauty
<1>3. PackedTo(odd, ready, {Beauty} \cup (Buffer \cap {RenderBufferOdd}))
  <2>1. CASE RenderBufferOdd \in Buffer
    <3>1. PackedTo(AddRenderBufferOdd(beauty), ready, {Beauty} \cup {RenderBufferOdd})
      BY <1>2, <2>1, BeautyPrecisionPacks DEF AddRenderBufferOdd
    <3>2. Buffer \cap {RenderBufferOdd} = {RenderBufferOdd}
      BY <2>1
    <3> QED
      BY <2>1, <3>1, <3>2
  <2>2. CASE RenderBufferOdd \notin Buffer
    <3>1. {Beauty} \cup (Buffer \cap {RenderBufferOdd}) = {Beauty}
      BY <2>2
    <3> QED
      BY <1>2, <2>2, <3>1
  <2> QED
    BY <2>1, <2>2
<1> HIDE DEF odd
<1> DEFINE names3 == {Beauty} \cup (Buffer \cap {RenderBufferOdd})
           names4 == names3 \cup (Buffer \cap {HeatMap})
           names5 == names4 \cup (Buffer \cap {"PixelInfo"})
           names6 == names5 \cup (Buffer \cap {"Weight"})
<1>4. PackedTo(heat, ready, names4)
  <2>1. CASE HeatMap \in Buffer
    <3>1. PackedTo(AddHeatMap(odd), ready, names3 \cup {HeatMap})
      BY <1>3, <2>1, HeatMapPacks
    <3>2. names4 = names3 \cup {HeatMap}
      BY <2>1
    <3> QED
      BY <2>1, <3>1, <3>2
  <2>2. CASE HeatMap \notin Buffer
    <3>1. names4 = names3
      BY <2>2
    <3> QED
      BY <1>3, <2>2, <3>1
  <2> QED
    BY <2>1, <2>2
<1> HIDE DEF heat
<1>5. PackedTo(info, ready, names5)
  <2>1. CASE "PixelInfo" \in Buffer
    <3>1. PackedTo(AddPixelInfo(heat), ready, names4 \cup {"PixelInfo"})
      BY <1>4, <2>1, OwnPrecisionPacks DEF AddPixelInfo
    <3>2. names5 = names4 \cup {"PixelInfo"}
      BY <2>1
    <3> QED
      BY <2>1, <3>1, <3>2
  <2>2. CASE "PixelInfo" \notin Buffer
    <3>1. names5 = names4
      BY <2>2
    <3> QED
      BY <1>4, <2>2, <3>1
  <2> QED
    BY <2>1, <2>2
<1> HIDE DEF info
<1>6. PackedTo(weight, ready, names6)
  <2>1. CASE "Weight" \in Buffer
    <3>1. PackedTo(AddWeightBuffer(info), ready, names5 \cup {"Weight"})
      BY <1>5, <2>1, OwnPrecisionPacks DEF AddWeightBuffer
    <3>2. names6 = names5 \cup {"Weight"}
      BY <2>1
    <3> QED
      BY <2>1, <3>1, <3>2
  <2>2. CASE "Weight" \notin Buffer
    <3>1. names6 = names5
      BY <2>2
    <3> QED
      BY <1>5, <2>2, <3>1
  <2> QED
    BY <2>1, <2>2
<1> HIDE DEF weight
<1>7. PackedTo(all, ready, names6 \cup RenderOutput)
  <2>1. CASE RenderOutput = {}
    BY <1>6, <2>1
  <2>2. CASE RenderOutput # {}
    <3>1. RenderOutput = {AlbedoAov}
      BY <1>0, <2>2
    <3> QED
      BY <1>6, <2>2, <3>1, AovPacks
  <2> QED
    BY <2>1, <2>2
<1>8. names6 \cup RenderOutput = Buffer
  BY <1>0 DEF RenderOutput, BuiltInBuffer
<1>9. all = Packed(ready, isHdri)
  BY DEF Packed, beauty, odd, heat, info, weight
<1> QED
  BY <1>7, <1>8, <1>9

-------------------------------------------------------------------------------
(* Decoding a message.                                                     *)
ImageMessage == {m \in Message : m.kind = "image"}

LEMMA ImageMessageFields ==
    ASSUME NEW m \in ImageMessage
    PROVE  /\ m.frameId \in Nat /\ m.status \in Status /\ m.coarsePass \in BOOLEAN
           /\ m.progress \in 0 .. 2 /\ m.viewport \in Viewport
           /\ m.albedoInput \in {NoAov, AlbedoAov} /\ m.buffers \in SUBSET PackedBuffer
BY DEF ImageMessage, Message

(* The frame buffer of the client when the buffers come.                   *)
ReadyFb(c, m) == PrepareFb(TakeHeader(c, m), m)

LEMMA ReadyFbIs ==
    ASSUME NEW c \in ClientState, NEW m \in ImageMessage
    PROVE  /\ ReadyFb(c, m) \in ClientState
           /\ ReadyFb(c, m).frameId = m.frameId /\ ReadyFb(c, m).lastFrameId = m.frameId
           /\ ReadyFb(c, m).progress = m.progress /\ ReadyFb(c, m).fbViewport = m.viewport
           /\ ReadyFb(c, m).newestSyncId = c.newestSyncId
           /\ \A b \in Buffer :
                ReadyFb(c, m).fb[b] =
                  IF \/ m.viewport # c.fbViewport
                     \/ m.status = "STARTED" /\ m.frameId # c.lastFrameId /\ b # Beauty
                    THEN NoValue ELSE c.fb[b]
<1> DEFINE head == TakeHeader(c, m)
           sized == IF m.viewport # head.fbViewport THEN FbInit(head, m.viewport) ELSE head
           fb == IF StartsFrame(head, m) THEN ResetExceptColor(sized.fb) ELSE sized.fb
<1>0. /\ m.frameId \in Nat /\ m.status \in Status /\ m.coarsePass \in BOOLEAN
      /\ m.progress \in Progress /\ m.viewport \in Viewport
      /\ m.albedoInput \in {NoAov, AlbedoAov}
  BY ImageMessageFields DEF Progress
<1>1. /\ head \in ClientState /\ head.frameId = m.frameId /\ head.progress = m.progress
      /\ head.fbViewport = c.fbViewport /\ head.fb = c.fb
      /\ head.lastFrameId = c.lastFrameId /\ head.newestSyncId = c.newestSyncId
  BY <1>0 DEF ClientState, TakeHeader
<1> HIDE DEF head
<1>2. NoImage \in Image /\ \A b \in Buffer : NoImage[b] = NoValue
  BY DEF NoImage, Image, Value, NoValue
<1>3. /\ sized \in ClientState /\ sized.frameId = m.frameId /\ sized.progress = m.progress
      /\ sized.fbViewport = m.viewport /\ sized.newestSyncId = c.newestSyncId
      /\ sized.fb = IF m.viewport # c.fbViewport THEN NoImage ELSE c.fb
  BY <1>0, <1>1, <1>2 DEF ClientState, FbInit
<1>4. sized.fb \in Image
  BY <1>3 DEF ClientState
<1> HIDE DEF sized
<1>5. StartsFrame(head, m) <=> (m.status = "STARTED" /\ m.frameId # c.lastFrameId)
  BY <1>1 DEF StartsFrame
<1>6. fb \in Image
  BY <1>4 DEF ResetExceptColor, Image, Value, NoValue
<1>7. \A b \in Buffer :
        fb[b] = IF \/ m.viewport # c.fbViewport
                   \/ m.status = "STARTED" /\ m.frameId # c.lastFrameId /\ b # Beauty
                  THEN NoValue ELSE c.fb[b]
  BY <1>2, <1>3, <1>5 DEF ResetExceptColor
<1> HIDE DEF fb
<1>8. ReadyFb(c, m) = [sized EXCEPT !.rezedViewport = m.viewport, !.fb = fb,
                                    !.lastFrameId = head.frameId]
  BY <1>3 DEF ReadyFb, PrepareFb, head, sized, fb, ClientState
<1>9. /\ ReadyFb(c, m) \in ClientState /\ ReadyFb(c, m).fb = fb
      /\ ReadyFb(c, m).frameId = sized.frameId /\ ReadyFb(c, m).lastFrameId = head.frameId
      /\ ReadyFb(c, m).progress = sized.progress /\ ReadyFb(c, m).fbViewport = sized.fbViewport
      /\ ReadyFb(c, m).newestSyncId = sized.newestSyncId
  BY <1>0, <1>1, <1>3, <1>6, <1>8 DEF ClientState
<1> QED
  BY <1>1, <1>3, <1>7, <1>9

LEMMA DecodeBuffsIs ==
    ASSUME NEW c \in ClientState, NEW buffs \in SUBSET PackedBuffer
    PROVE  /\ DecodeBuffs(c, buffs) \in ClientState
           /\ DecodeBuffs(c, buffs) = [c EXCEPT !.fb = DecodeBuffs(c, buffs).fb]
           /\ \A b \in Buffer :
                \/ \E buff \in buffs : /\ buff.active /\ buff.name = b
                                       /\ DecodeBuffs(c, buffs).fb[b] = buff.data
                \/ /\ \A buff \in buffs : ~ (buff.active /\ buff.name = b)
                   /\ DecodeBuffs(c, buffs).fb[b] = c.fb[b]
<1> DEFINE of(b) == {buff \in buffs : buff.active /\ buff.name = b}
           chosen(b) == CHOOSE buff \in of(b) : TRUE
           fb == [b \in Buffer |-> IF of(b) = {} THEN c.fb[b] ELSE chosen(b).data]
<1>1. DecodeBuffs(c, buffs) = [c EXCEPT !.fb = fb]
  BY DEF DecodeBuffs, ClientState
<1>2. \A b \in Buffer : of(b) # {} => chosen(b) \in of(b)
  OBVIOUS
<1> HIDE DEF chosen
<1>3. ASSUME NEW b \in Buffer
      PROVE  /\ fb[b] \in Value
             /\ \/ \E buff \in buffs : buff.active /\ buff.name = b /\ fb[b] = buff.data
                \/ /\ \A buff \in buffs : ~ (buff.active /\ buff.name = b)
                   /\ fb[b] = c.fb[b]
  <2>1. CASE of(b) = {}
    BY <2>1 DEF ClientState, Image
  <2>2. CASE of(b) # {}
    <3>1. chosen(b) \in of(b)
      BY <1>2, <2>2
    <3>2. fb[b] = chosen(b).data
      BY <2>2
    <3> QED
      BY <3>1, <3>2 DEF PackedBuffer
  <2> QED
    BY <2>1, <2>2
<1>4. fb \in Image
  BY <1>3 DEF Image
<1> HIDE DEF fb, of
<1>5. /\ DecodeBuffs(c, buffs) \in ClientState
      /\ DecodeBuffs(c, buffs).fb = fb
  BY <1>1, <1>4 DEF ClientState
<1> QED
  BY <1>1, <1>3, <1>5

(* What fits nothing is nothing.                                           *)
LEMMA FitsNothing ==
    ASSUME NEW b, NEW data, NEW value, Fits(b, data, value), data # NoValue
    PROVE  value # NoValue
BY DEF Fits, Clipped, NoValue, LowValue, FewHdrValue, HdrValue

(* Wherever the decoding of a message ends, the client is at its frame.    *)
LEMMA DecodeIsAt ==
    ASSUME NEW c \in ClientState, NEW m \in ImageMessage,
           NEW before \in Said, NEW after \in Said,
           ClientIsAt(c, before), SaysImage(before, m, after),
           NEW buffs \in SUBSET m.buffers
    PROVE  /\ DecodeBuffs(ReadyFb(c, m), buffs) \in ClientState
           /\ ClientIsAt(DecodeBuffs(ReadyFb(c, m), buffs), after)
<1> DEFINE ready == ReadyFb(c, m)
           done == DecodeBuffs(ready, buffs)
<1>1. m.buffers \in SUBSET PackedBuffer /\ buffs \in SUBSET PackedBuffer
  BY ImageMessageFields
<1>2. ready \in ClientState
  BY ReadyFbIs
<1>3. /\ done \in ClientState /\ done = [ready EXCEPT !.fb = done.fb]
      /\ \A b \in Buffer :
           \/ \E buff \in buffs : buff.active /\ buff.name = b /\ done.fb[b] = buff.data
           \/ done.fb[b] = ready.fb[b]
  BY <1>1, <1>2, DecodeBuffsIs
<1> HIDE DEF done
<1>4. /\ done.frameId = m.frameId /\ done.lastFrameId = m.frameId
      /\ done.progress = m.progress /\ done.fbViewport = m.viewport
  BY <1>2, <1>3, ReadyFbIs DEF ClientState
<1>5. /\ done.frameId = after.frame /\ done.fbViewport = after.viewport
      /\ done.progress <= after.progress
      /\ after.frame # 0 /\ done.lastFrameId = after.frame
  BY <1>4 DEF SaysImage, Said
<1>6. ASSUME after.status = "STARTED", NEW b \in Buffer \ {Beauty}, done.fb[b] # NoValue
      PROVE  after.image[b] # NoValue
  <2>0. m.status = "STARTED" /\ IsDelta(m.buffers, NoImage, after.image)
    BY <1>6 DEF SaysImage
  <2>1. CASE \E buff \in buffs : buff.active /\ buff.name = b /\ done.fb[b] = buff.data
    <3>1. PICK buff \in buffs : buff.active /\ buff.name = b /\ done.fb[b] = buff.data
      BY <2>1
    <3>2. Fits(b, done.fb[b], after.image[b])
      BY <2>0, <3>1 DEF IsDelta
    <3> QED
      BY <1>6, <3>2, FitsNothing
  <2>2. CASE done.fb[b] = ready.fb[b]
    <3>1. m.viewport = c.fbViewport /\ m.frameId = c.lastFrameId /\ c.fb[b] # NoValue
      BY <1>6, <2>0, <2>2, ReadyFbIs
    <3>2. before.frame # 0
      <4>1. m.viewport # NoViewport
        BY ImageMessageFields, DeliveryAssumption
      <4> QED
        BY <3>1, <4>1 DEF ClientIsAt, NothingSaid
    <3>3. before.frame = after.frame
      BY <3>1, <3>2 DEF ClientIsAt, SaysImage
    <3>4. before.status = "STARTED" /\ (before.image[b] # NoValue => after.image[b] # NoValue)
      BY <2>0, <3>3 DEF SaysImage
    <3> QED
      BY <3>1, <3>4 DEF ClientIsAt, NothingExtra
  <2> QED
    BY <1>3, <2>1, <2>2
<1>7. ClientIsAt(done, after)
  BY <1>5, <1>6 DEF ClientIsAt, NothingExtra
<1> QED
  BY <1>3, <1>7 DEF done

(* A message that is decoded completely leaves its image at the client.    *)
LEMMA DecodeHas ==
    ASSUME NEW c \in ClientState, NEW m \in ImageMessage, NEW isBroken \in BOOLEAN,
           NEW before \in Said, NEW after \in Said,
           ClientIsAt(c, before), ClientHas(c, isBroken, before), SaysImage(before, m, after)
    PROVE  ClientHas(DecodeBuffs(ReadyFb(c, m), m.buffers),
                     isBroken /\ m.status # "STARTED", after)
<1> DEFINE ready == ReadyFb(c, m)
           done == DecodeBuffs(ready, m.buffers)
<1> SUFFICES ASSUME ~ (isBroken /\ m.status # "STARTED"), ~ after.unseen, NEW b \in Buffer
             PROVE  \/ Fits(b, done.fb[b], after.image[b])
                    \/ b = Beauty /\ after.image[b] = NoValue
  BY DEF ClientHas, Agrees
<1>1. m.buffers \in SUBSET PackedBuffer
  BY ImageMessageFields
<1>2. ready \in ClientState
  BY ReadyFbIs
<1>3. \/ \E buff \in m.buffers : buff.active /\ buff.name = b /\ done.fb[b] = buff.data
      \/ /\ \A buff \in m.buffers : ~ (buff.active /\ buff.name = b)
         /\ done.fb[b] = ready.fb[b]
  BY <1>1, <1>2, DecodeBuffsIs
<1> HIDE DEF done
<1>4. ready.fb[b] = IF \/ m.viewport # c.fbViewport
                       \/ m.status = "STARTED" /\ m.frameId # c.lastFrameId /\ b # Beauty
                      THEN NoValue ELSE c.fb[b]
  BY ReadyFbIs
<1> HIDE DEF ready
<1>5. \/ IsDelta(m.buffers, NoImage, after.image)
      \/ /\ m.status # "STARTED" /\ IsDelta(m.buffers, before.image, after.image)
         /\ after.viewport = before.viewport /\ after.unseen = before.unseen
  BY DEF SaysImage
<1>6. CASE \E buff \in m.buffers : buff.active /\ buff.name = b /\ done.fb[b] = buff.data
  BY <1>5, <1>6 DEF IsDelta
<1>7. NoImage[b] = NoValue
  BY DEF NoImage
<1>8. Fits(b, NoValue, NoValue)
  BY DEF Fits
<1>9. CASE /\ \A buff \in m.buffers : ~ (buff.active /\ buff.name = b)
           /\ done.fb[b] = ready.fb[b]
           /\ m.viewport # c.fbViewport
  <2>1. ~ (after.viewport = before.viewport)
    BY <1>9 DEF SaysImage, ClientIsAt
  <2>2. after.image[b] = NoValue
    BY <1>5, <1>7, <1>9, <2>1 DEF IsDelta
  <2> QED
    BY <1>4, <1>8, <1>9, <2>2
<1>10. CASE /\ \A buff \in m.buffers : ~ (buff.active /\ buff.name = b)
            /\ done.fb[b] = ready.fb[b]
            /\ m.viewport = c.fbViewport /\ m.status = "STARTED"
  <2>1. after.image[b] = NoValue
    BY <1>5, <1>7, <1>10 DEF IsDelta
  <2>2. CASE b = Beauty
    BY <2>1, <2>2
  <2>3. CASE b # Beauty /\ m.frameId # c.lastFrameId
    BY <1>4, <1>8, <1>10, <2>1, <2>3
  <2>4. CASE b # Beauty /\ m.frameId = c.lastFrameId
    <3>1. before.frame # 0
      <4>1. m.viewport # NoViewport
        BY ImageMessageFields, DeliveryAssumption
      <4> QED
        BY <1>10, <4>1 DEF ClientIsAt, NothingSaid
    <3>2. before.frame = after.frame
      BY <2>4, <3>1 DEF ClientIsAt, SaysImage
    <3>3. before.status = "STARTED" /\ (before.image[b] # NoValue => after.image[b] # NoValue)
      BY <1>10, <3>2 DEF SaysImage
    <3>4. c.fb[b] = NoValue
      BY <2>1, <2>4, <3>3 DEF ClientIsAt, NothingExtra
    <3> QED
      BY <1>4, <1>8, <1>10, <2>1, <2>4, <3>4
  <2> QED
    BY <2>2, <2>3, <2>4
<1>11. CASE /\ \A buff \in m.buffers : ~ (buff.active /\ buff.name = b)
            /\ done.fb[b] = ready.fb[b]
            /\ m.viewport = c.fbViewport /\ m.status # "STARTED"
  <2>1. after.viewport = before.viewport
    BY <1>11 DEF SaysImage, ClientIsAt
  <2>2. IsDelta(m.buffers, before.image, after.image) /\ after.unseen = before.unseen
    BY <1>11, <2>1 DEF SaysImage
  <2>3. after.image[b] = before.image[b]
    BY <1>11, <2>2 DEF IsDelta
  <2>4. Agrees(c.fb, before.image)
    BY <1>11, <2>2 DEF ClientHas
  <2>5. done.fb[b] = c.fb[b]
    BY <1>4, <1>11
  <2> QED
    BY <2>3, <2>4, <2>5 DEF Agrees
<1> QED
  BY <1>3, <1>6, <1>9, <1>10, <1>11

-------------------------------------------------------------------------------
(* What a message of the sender says.                                      *)
LEMMA SnapshotIsReady ==
    ASSUME NEW s \in SenderState, NEW status \in Status, NEW coarse \in BOOLEAN,
           NEW merged \in Image
    PROVE  LET ready == SnapshotDelta(SetHeaderInfoAndFbReset(s, status, coarse), merged)
               base == IF status = "STARTED" THEN NoImage ELSE s.fb
           IN  /\ ready \in SenderState /\ ready.buffers = <<>>
               /\ ready.beautyHdriTest = "INIT" /\ ready.fb = merged
               /\ ready.active = {b \in Buffer : merged[b] # base[b]}
<1> DEFINE set == [s EXCEPT !.status = status, !.coarsePass = coarse,
                            !.beautyHdriTest = "INIT", !.buffers = <<>>]
           made == SetHeaderInfoAndFbReset(s, status, coarse)
           base == IF status = "STARTED" THEN NoImage ELSE s.fb
           ready == SnapshotDelta(made, merged)
<1>1. NoImage \in Image
  BY DEF NoImage, Image, Value, NoValue
<1>2. <<>> \in Seq(PackedBuffer)
  OBVIOUS
<1>3. set \in SenderState /\ set.fb = s.fb /\ set.buffers = <<>> /\ set.beautyHdriTest = "INIT"
  BY <1>2 DEF SenderState, HdriTestCondition
<1>4. made = IF status = "STARTED" THEN [set EXCEPT !.fb = NoImage] ELSE set
  BY DEF SetHeaderInfoAndFbReset, FbReset
<1> HIDE DEF set, made
<1>5. /\ made \in SenderState /\ made.fb = base /\ made.buffers = <<>>
      /\ made.beautyHdriTest = "INIT"
  BY <1>1, <1>3, <1>4 DEF SenderState
<1>6. ready = [made EXCEPT !.fb = merged, !.active = {b \in Buffer : merged[b] # base[b]}]
  BY <1>5 DEF SnapshotDelta
<1> HIDE DEF base, ready
<1>7. /\ ready \in SenderState /\ ready.buffers = <<>> /\ ready.beautyHdriTest = "INIT"
      /\ ready.fb = merged /\ ready.active = {b \in Buffer : merged[b] # base[b]}
  BY <1>5, <1>6 DEF SenderState
<1> QED
  BY <1>7 DEF base, ready, made

LEMMA PackedIsDelta ==
    ASSUME NEW packed, NEW ready \in SenderState, NEW base,
           PackedTo(packed, ready, Buffer),
           ready.active = {b \in Buffer : ready.fb[b] # base[b]}
    PROVE  /\ {packed.buffers[i] : i \in DOMAIN packed.buffers} \in SUBSET PackedBuffer
           /\ IsDelta({packed.buffers[i] : i \in DOMAIN packed.buffers}, base, ready.fb)
           /\ [packed EXCEPT !.buffers = <<>>] \in SenderState
           /\ [packed EXCEPT !.buffers = <<>>].fb = ready.fb
           /\ [packed EXCEPT !.buffers = <<>>].buffers = <<>>
<1> DEFINE buffers == {packed.buffers[i] : i \in DOMAIN packed.buffers}
<1>1. packed \in SenderState /\ packed.fb = ready.fb
  BY DEF PackedTo
<1>2. packed.buffers \in Seq(PackedBuffer)
  BY <1>1 DEF SenderState
<1>3. buffers \in SUBSET PackedBuffer
  BY <1>2
<1>4. ASSUME NEW buff \in buffers, buff.active
      PROVE  Fits(buff.name, buff.data, ready.fb[buff.name])
  BY <1>4 DEF PackedTo
<1>5. ASSUME NEW b \in Buffer, ready.fb[b] # base[b]
      PROVE  \E buff \in buffers : buff.active /\ buff.name = b
  <2>1. b \in Buffer \cap ready.active
    BY <1>5
  <2>2. PICK i \in DOMAIN packed.buffers : packed.buffers[i].active /\ packed.buffers[i].name = b
    BY <2>1 DEF PackedTo
  <2> QED
    BY <2>2
<1>6. IsDelta(buffers, base, ready.fb)
  BY <1>4, <1>5 DEF IsDelta
<1>7. <<>> \in Seq(PackedBuffer)
  OBVIOUS
<1>8. /\ [packed EXCEPT !.buffers = <<>>] \in SenderState
      /\ [packed EXCEPT !.buffers = <<>>].fb = ready.fb
      /\ [packed EXCEPT !.buffers = <<>>].buffers = <<>>
  BY <1>1, <1>7 DEF SenderState
<1> QED
  BY <1>3, <1>6, <1>8

(* The record of what was said grows with the channel at its end, and      *)
(* shrinks at its beginning.                                               *)
LEMMA SaidMore ==
    ASSUME NEW said, Told(said), DeliveryTypeOK,
           NEW m \in Message, NEW after \in Said, Says(said[Len(said)], m, after),
           channel' = Append(channel, m), UNCHANGED <<client, broken>>, SenderSaid(after)'
    PROVE  Told(Append(said, after))'
<1> DEFINE more == Append(said, after)
<1>1. /\ said \in Seq(Said) /\ Len(said) = Len(channel) + 1
      /\ channel \in Seq(Message) /\ Len(channel) \in Nat
  BY DEF Told, DeliveryTypeOK
<1>2. /\ more \in Seq(Said) /\ Len(more) = Len(said) + 1
      /\ \A i \in 1 .. Len(said) : more[i] = said[i]
      /\ more[Len(said) + 1] = after
  BY <1>1
<1>3. /\ Len(channel') = Len(channel) + 1
      /\ \A i \in 1 .. Len(channel) : channel'[i] = channel[i]
      /\ channel'[Len(channel) + 1] = m
  BY <1>1
<1> HIDE DEF more
<1>4. ASSUME NEW i \in 1 .. Len(channel') PROVE Says(more[i], channel'[i], more[i + 1])
  <2>1. CASE i \in 1 .. Len(channel)
    <3>1. more[i] = said[i] /\ more[i + 1] = said[i + 1] /\ channel'[i] = channel[i]
      BY <1>1, <1>2, <1>3, <2>1
    <3> QED
      BY <2>1, <3>1 DEF Told
  <2>2. CASE i = Len(channel) + 1
    <3>1. more[i] = said[Len(said)] /\ more[i + 1] = after /\ channel'[i] = m
      BY <1>1, <1>2, <1>3, <2>2
    <3> QED
      BY <3>1
  <2> QED
    BY <1>1, <1>3, <2>1, <2>2
<1>5. more[1] = said[1] /\ more[Len(more)] = after /\ Len(more) = Len(channel') + 1
  BY <1>1, <1>2, <1>3
<1>6. ClientIsAt(client', more[1]) /\ ClientHas(client', broken', more[1])
  BY <1>5 DEF Told
<1>7. SenderSaid(more[Len(more)])'
  <2>1. more' = more
    BY DEF more
  <2> QED
    BY <1>5, <2>1
<1> QED
  BY <1>2, <1>4, <1>5, <1>6, <1>7 DEF Told, more

LEMMA SaidLess ==
    ASSUME NEW said, Told(said), DeliveryTypeOK, channel # <<>>,
           channel' = Tail(channel), UNCHANGED <<sender, render>>,
           ClientIsAt(client', said[2]), ClientHas(client', broken', said[2])
    PROVE  Told(Tail(said))'
<1> DEFINE less == Tail(said)
<1>1. /\ said \in Seq(Said) /\ Len(said) = Len(channel) + 1
      /\ channel \in Seq(Message) /\ Len(channel) \in Nat \ {0}
  BY DEF Told, DeliveryTypeOK
<1>2. /\ less \in Seq(Said) /\ Len(less) = Len(said) - 1
      /\ \A i \in 1 .. Len(said) - 1 : less[i] = said[i + 1]
  BY <1>1
<1>3. /\ Len(channel') = Len(channel) - 1
      /\ \A i \in 1 .. Len(channel) - 1 : channel'[i] = channel[i + 1]
  BY <1>1
<1> HIDE DEF less
<1>4. ASSUME NEW i \in 1 .. Len(channel') PROVE Says(less[i], channel'[i], less[i + 1])
  <2>1. less[i] = said[i + 1] /\ less[i + 1] = said[i + 2] /\ channel'[i] = channel[i + 1]
    <3>1. /\ i \in 1 .. Len(channel) - 1 /\ i \in 1 .. Len(said) - 1
          /\ i + 1 \in 1 .. Len(said) - 1 /\ (i + 1) + 1 = i + 2
      BY <1>1, <1>3
    <3> QED
      BY <1>2, <1>3, <3>1
  <2>2. i + 1 \in 1 .. Len(channel) /\ (i + 1) + 1 = i + 2
    BY <1>1, <1>3
  <2> QED
    BY <2>1, <2>2 DEF Told
<1>5. less[1] = said[2] /\ less[Len(less)] = said[Len(said)] /\ Len(less) = Len(channel') + 1
  BY <1>1, <1>2, <1>3
<1>6. SenderSaid(less[Len(less)])'
  <2>1. less' = less
    BY DEF less
  <2>2. SenderSaid(said[Len(said)])
    BY DEF Told
  <2> QED
    BY <1>5, <2>1, <2>2 DEF SenderSaid, KeptCopy, ResetCopy
<1> QED
  BY <1>2, <1>4, <1>5, <1>6 DEF Told, less

-------------------------------------------------------------------------------
(* The steps.                                                              *)
LEMMA DeliveryInitOK == DeliveryInit => DeliveryInv
<1> SUFFICES ASSUME DeliveryInit PROVE DeliveryInv
  OBVIOUS
<1> DEFINE said == <<NothingSaid>>
<1>1. NoImage \in Image /\ <<>> \in Seq(PackedBuffer) /\ <<>> \in Seq(Message)
  BY DEF NoImage, Image, Value, NoValue
<1>2. NothingSaid \in Said
  BY <1>1 DEF NothingSaid, Said
<1>3. said \in Seq(Said) /\ Len(said) = 1 /\ said[1] = NothingSaid
  BY <1>2
<1>4. \E control \in PrecisionControl : sender = NewSender(control)
  BY DeliveryAssumption DEF DeliveryInit
<1>5. /\ sender \in SenderState /\ sender.buffers = <<>> /\ sender.fb = NoImage
  BY <1>1, <1>4 DEF NewSender, SenderState, HdriTestCondition
<1>6. (CHOOSE v \in Viewport : TRUE) \in Viewport
  BY DeliveryAssumption
<1>7. /\ render \in RenderState /\ render.frame = FirstFrame /\ render.status = NoStatus
      /\ render.progress = 0 /\ render.sentViewport = NoViewport
      /\ render.unseenInit = FALSE /\ render.viewport # NoViewport
  <2>1. FirstFrame \in Nat
    BY DeliveryAssumption
  <2> QED
    BY <1>6, <2>1, DeliveryAssumption DEF DeliveryInit, RenderState
<1>8. PICK overlay \in BOOLEAN : client = NewClient(overlay)
  BY DEF DeliveryInit
<1>9. /\ client \in ClientState /\ client.frameId = 0 /\ client.fbViewport = NoViewport
      /\ client.fb = NoImage /\ client.progress \in {0, NotReceived}
  BY <1>1, <1>8 DEF NewClient, ClientState, Progress, Status, FirstLastFrameId
<1>10. channel = <<>> /\ broken = FALSE
  BY DEF DeliveryInit
<1>11. DeliveryTypeOK
  BY <1>1, <1>5, <1>7, <1>9, <1>10 DEF DeliveryTypeOK
<1>12. SenderSaid(NothingSaid)
  <2>1. 0 < FirstFrame
    BY DeliveryAssumption
  <2> QED
    BY <1>5, <1>7, <2>1 DEF SenderSaid, KeptCopy, ResetCopy, NothingSaid
<1>13. ClientIsAt(client, NothingSaid)
  BY <1>9 DEF ClientIsAt, NothingSaid, NothingExtra, NoStatus, NotReceived
<1>14. ClientHas(client, broken, NothingSaid)
  BY <1>9 DEF ClientHas, Agrees, Fits, NothingSaid
<1>15. Told(said)
  BY <1>3, <1>10, <1>12, <1>13, <1>14 DEF Told
<1> QED
  BY <1>3, <1>11, <1>15 DEF DeliveryInv

LEMMA BackendStartsKeeps == DeliveryInv /\ BackendStarts => DeliveryInv'
<1> SUFFICES ASSUME DeliveryInv, BackendStarts PROVE DeliveryInv'
  OBVIOUS
<1>1. PICK said \in Seq(Said) : Told(said)
  BY DEF DeliveryInv
<1>2. DeliveryTypeOK
  BY DEF DeliveryInv
<1>3. /\ render' \in RenderState /\ render' = [render EXCEPT !.syncId = render.syncId + 1]
      /\ UNCHANGED <<sender, channel, client, broken>>
  <2>1. /\ render' = [render EXCEPT !.syncId = render.syncId + 1]
        /\ UNCHANGED <<sender, channel, client, broken>>
    BY DEF BackendStarts
  <2>2. render \in RenderState /\ render.syncId + 1 \in Nat
    BY <1>2 DEF DeliveryTypeOK, RenderState
  <2> QED
    BY <2>1, <2>2 DEF RenderState
<1>4. /\ render'.frame = render.frame /\ render'.status = render.status
      /\ render'.progress = render.progress /\ render'.viewport = render.viewport
      /\ render'.sentViewport = render.sentViewport /\ render'.unseenInit = render.unseenInit
  BY <1>2, <1>3 DEF DeliveryTypeOK, RenderState
<1>5. SenderSaid(said[Len(said)])'
  BY <1>1, <1>3, <1>4 DEF Told, SenderSaid, KeptCopy, ResetCopy
<1>6. Told(said)'
  BY <1>1, <1>3, <1>5 DEF Told
<1> QED
  BY <1>2, <1>3, <1>6 DEF DeliveryInv, DeliveryTypeOK

LEMMA NextFrameType ==
    ASSUME NEW state \in RenderState, NEW frame \in Nat \ {0}, NEW viewport \in Viewport,
           NEW progress \in 0 .. 2, NEW unseen \in BOOLEAN
    PROVE  [state EXCEPT !.frame = frame, !.coarsePass = TRUE, !.progress = progress,
                         !.status = NoStatus, !.viewport = viewport,
                         !.unseenInit = unseen] \in RenderState
BY DEF RenderState

(* A change of the size resets the copy; it is unseen when the size is the *)
(* one that was said last.                                                 *)
LEMMA ShowNextFrameKeeps ==
    ASSUME DeliveryInv, NEW viewport \in Viewport, ShowNextFrame(viewport)
    PROVE  DeliveryInv'
<1>1. PICK said \in Seq(Said) : Told(said)
  BY DEF DeliveryInv
<1>2. DeliveryTypeOK
  BY DEF DeliveryInv
<1> DEFINE last == said[Len(said)]
           changes == viewport # render.viewport
           unseen == IF changes THEN viewport = render.sentViewport ELSE render.unseenInit
<1>3. last \in Said /\ SenderSaid(last)
  BY <1>1, <1>2 DEF Told, DeliveryTypeOK
<1>4. render \in RenderState /\ render.frame < render.syncId
  BY <1>2 DEF ShowNextFrame, DeliveryTypeOK
<1>5. render.syncId \in Nat \ {0} /\ render.unseenInit \in BOOLEAN
  BY <1>4 DEF RenderState
<1>6. unseen \in BOOLEAN
  <2>1. CASE changes
    BY <2>1, Zenon
  <2>2. CASE ~ changes
    BY <1>5, <2>2
  <2> QED
    BY <2>1, <2>2
<1>7. render' = [render EXCEPT
        !.frame = render.syncId, !.coarsePass = TRUE, !.progress = 0,
        !.status = NoStatus, !.viewport = viewport, !.unseenInit = unseen]
  BY DEF ShowNextFrame
<1>8. /\ sender' = IF changes THEN SenderInit(sender) ELSE sender
      /\ UNCHANGED <<channel, client, broken>>
  BY DEF ShowNextFrame
<1> HIDE DEF unseen
<1>9. /\ render' \in RenderState /\ render'.frame = render.syncId /\ render'.progress = 0
      /\ render'.status = NoStatus /\ render'.viewport = viewport
      /\ render'.sentViewport = render.sentViewport
      /\ render'.unseenInit = unseen
  <2>1. /\ render'.frame = render.syncId /\ render'.progress = 0
        /\ render'.status = NoStatus /\ render'.viewport = viewport
        /\ render'.sentViewport = render.sentViewport
        /\ render'.unseenInit = unseen
    BY <1>4, <1>7 DEF RenderState
  <2>2. render' \in RenderState
    <3>1. 0 \in 0 .. 2
      OBVIOUS
    <3> QED
      BY <3>1, <1>4, <1>5, <1>6, <1>7, NextFrameType
  <2> QED
    BY <2>1, <2>2
<1>10. /\ sender' \in SenderState /\ sender'.buffers = <<>>
      /\ sender'.fb = IF changes THEN NoImage ELSE sender.fb
  <2>1. NoImage \in Image
    BY DEF NoImage, Image, Value, NoValue
  <2> QED
    BY <1>2, <1>8, <2>1 DEF DeliveryTypeOK, SenderState, SenderInit
<1>11. last.frame < render'.frame
  <2>1. last.frame <= render.frame
    BY <1>3, <1>4 DEF SenderSaid, Said, RenderState
  <2> QED
    BY <1>3, <1>4, <1>9, <2>1 DEF Said, RenderState
<1>12. SenderSaid(last)'
  <2>1. last' = last
    OBVIOUS
  <2> HIDE DEF last
  <2>2. CASE changes
    <3>1. unseen = (viewport = last.viewport)
      BY <1>3, <2>2 DEF unseen, SenderSaid
    <3> QED
      BY <1>3, <1>9, <1>10, <1>11, <2>1, <2>2, <3>1 DEF SenderSaid, ResetCopy
  <2>3. CASE ~ changes
    <3>1. KeptCopy(last) \/ ResetCopy(last)
      BY <1>3 DEF SenderSaid
    <3>2. unseen = render.unseenInit
      BY <2>3 DEF unseen
    <3>3. (KeptCopy(last) \/ ResetCopy(last))'
      BY <1>9, <1>10, <2>1, <2>3, <3>1, <3>2 DEF KeptCopy, ResetCopy
    <3> QED
      BY <1>3, <1>9, <1>11, <2>1, <3>3 DEF SenderSaid
  <2> QED
    BY <2>2, <2>3
<1>13. Told(said)'
  BY <1>1, <1>8, <1>12 DEF Told
<1> QED
  BY <1>2, <1>8, <1>9, <1>10, <1>13 DEF DeliveryInv, DeliveryTypeOK

LEMMA SendInfoKeeps == DeliveryInv /\ SendInfo => DeliveryInv'
<1> SUFFICES ASSUME DeliveryInv, SendInfo PROVE DeliveryInv'
  OBVIOUS
<1>1. PICK said \in Seq(Said) : Told(said)
  BY DEF DeliveryInv
<1>2. DeliveryTypeOK
  BY DEF DeliveryInv
<1> DEFINE m == [kind |-> "info", aux |-> [syncId |-> render.syncId, merge |-> TRUE]]
           last == said[Len(said)]
<1>3. m \in Message /\ m.kind = "info"
  BY <1>2 DEF DeliveryTypeOK, RenderState, Message
<1>4. last \in Said /\ SenderSaid(last)
  BY <1>1, <1>2 DEF Told, DeliveryTypeOK
<1>5. channel' = Append(channel, m) /\ UNCHANGED <<sender, render, client, broken>>
  BY DEF SendInfo
<1>6. Says(last, m, last)
  BY <1>3 DEF Says
<1>7. SenderSaid(last)'
  BY <1>4, <1>5 DEF SenderSaid, KeptCopy, ResetCopy
<1> HIDE DEF m
<1>8. Told(Append(said, last))'
  BY <1>1, <1>2, <1>3, <1>4, <1>5, <1>6, <1>7, SaidMore
<1>9. Append(said, last) \in Seq(Said)
  BY <1>4
<1>10. channel' \in Seq(Message)
  BY <1>2, <1>3, <1>5 DEF DeliveryTypeOK
<1> QED
  BY <1>2, <1>5, <1>8, <1>9, <1>10 DEF DeliveryInv, DeliveryTypeOK

(* An image is the difference to what was said last, or to nothing.        *)
LEMMA SendImageKeeps ==
    ASSUME DeliveryInv, NEW status \in Status, NEW coarse \in BOOLEAN, NEW merged \in Merged,
           SendImage(status, coarse, merged)
    PROVE  DeliveryInv'
<1>1. PICK said \in Seq(Said) : Told(said)
  BY DEF DeliveryInv
<1>2. /\ DeliveryTypeOK /\ sender \in SenderState /\ render \in RenderState
      /\ channel \in Seq(Message)
  BY DEF DeliveryInv, DeliveryTypeOK
<1> DEFINE last == said[Len(said)]
           ready == SnapshotDelta(SetHeaderInfoAndFbReset(sender, status, coarse), merged)
           base == IF status = "STARTED" THEN NoImage ELSE sender.fb
           progress == IF status = "FINISHED" THEN 2 ELSE 1
           unseen == render.unseenInit /\ status # "STARTED"
           after == [frame |-> render.frame, progress |-> progress, status |-> status,
                     viewport |-> render.viewport,
                     unseen |-> unseen, image |-> merged]
<1>3. last \in Said /\ SenderSaid(last)
  BY <1>1, <1>2 DEF Told
<1>4. /\ merged \in Image
      /\ render.status # NoStatus =>
           \A b \in Buffer : sender.fb[b] # NoValue => merged[b] # NoValue
  BY DEF Merged, Image
<1>5. /\ ready \in SenderState /\ ready.buffers = <<>> /\ ready.beautyHdriTest = "INIT"
      /\ ready.fb = merged /\ ready.active = {b \in Buffer : ready.fb[b] # base[b]}
  BY <1>2, <1>4, SnapshotIsReady
<1> HIDE DEF ready, base
<1> DEFINE Sends(isHdri) ==
             LET packed == Packed(ready, isHdri)
             IN  /\ sender' = [packed EXCEPT !.buffers = <<>>]
                 /\ channel' = Append(channel,
                      [kind |-> "image", frameId |-> render.frame, status |-> status,
                       coarsePass |-> coarse, progress |-> progress,
                       viewport |-> render.viewport,
                       albedoInput |-> IF RenderOutput = {} THEN NoAov ELSE AlbedoAov,
                       buffers |-> {packed.buffers[i] : i \in DOMAIN packed.buffers}])
           tests == IF RenderOutput = {} THEN {FALSE}
                    ELSE RenderOutputHdriTests(ready, AlbedoAov, HasGaps(coarse))
<1>6. PICK aovIsHdri \in BOOLEAN : Sends(aovIsHdri)
  <2>1. tests \subseteq BOOLEAN
    BY DEF RenderOutputHdriTests
  <2>2. \E isHdri \in tests : Sends(isHdri)
    BY DEF SendImage, ready
  <2> HIDE DEF tests, Sends
  <2> QED
    BY <2>1, <2>2
<1>7. /\ progress >= render.progress
      /\ status = "STARTED" => render.status \in {NoStatus, "STARTED"}
      /\ render' = [render EXCEPT !.coarsePass = coarse, !.progress = progress,
                                  !.status = status, !.sentViewport = render.viewport,
                                  !.unseenInit = unseen]
      /\ UNCHANGED <<client, broken>>
  BY DEF SendImage
<1>8. progress \in 1 .. 2 /\ unseen \in BOOLEAN /\ render.unseenInit \in BOOLEAN
  BY <1>2 DEF RenderState
<1> DEFINE packed == Packed(ready, aovIsHdri)
           buffers == {packed.buffers[i] : i \in DOMAIN packed.buffers}
           m == [kind |-> "image", frameId |-> render.frame, status |-> status,
                 coarsePass |-> coarse, progress |-> progress, viewport |-> render.viewport,
                 albedoInput |-> IF RenderOutput = {} THEN NoAov ELSE AlbedoAov,
                 buffers |-> buffers]
<1>9. PackedTo(packed, ready, Buffer)
  BY <1>5, PackedPacksAll
<1> HIDE DEF packed
<1>10. /\ buffers \in SUBSET PackedBuffer /\ IsDelta(buffers, base, merged)
      /\ sender' \in SenderState /\ sender'.fb = merged /\ sender'.buffers = <<>>
  <2>1. sender' = [packed EXCEPT !.buffers = <<>>]
    BY <1>6 DEF packed
  <2> QED
    BY <1>5, <1>9, <2>1, PackedIsDelta
<1>11. channel' = Append(channel, m)
  BY <1>6 DEF packed
<1> HIDE DEF buffers, Sends, progress, unseen
<1>12. m \in Message /\ m.kind = "image"
  BY <1>8, <1>2, <1>10 DEF Message, RenderState
<1>13. after \in Said
  BY <1>8, <1>2, <1>4 DEF Said, RenderState
<1>14. status \in Status /\ render.viewport \in Viewport /\ progress \in 0 .. 2
  BY <1>8, <1>2 DEF RenderState
<1>15. /\ render' \in RenderState /\ render'.frame = render.frame /\ render'.status = status
       /\ render'.progress = progress /\ render'.viewport = render.viewport
       /\ render'.sentViewport = render.viewport
       /\ render'.unseenInit = unseen
  BY <1>8, <1>2, <1>7, <1>14 DEF RenderState
<1>16. last.frame <= after.frame /\ after.frame # 0
  BY <1>2, <1>3 DEF SenderSaid, Said, RenderState
<1>17. ASSUME last.frame = after.frame
       PROVE  /\ render.status # NoStatus /\ render.status = last.status
              /\ render.progress = last.progress /\ KeptCopy(last)
  BY <1>2, <1>3, <1>17 DEF SenderSaid, Said, RenderState
<1>18. last.frame = after.frame => last.progress <= after.progress
  BY <1>7, <1>17
<1>19. ASSUME status = "STARTED"
       PROVE  /\ ~ after.unseen /\ IsDelta(buffers, NoImage, merged)
              /\ last.frame = after.frame =>
                   /\ last.status = "STARTED"
                   /\ \A b \in Buffer : last.image[b] # NoValue => merged[b] # NoValue
  <2>1. ~ after.unseen /\ IsDelta(buffers, NoImage, merged)
    BY <1>10, <1>19 DEF base, unseen
  <2>2. ASSUME last.frame = after.frame
        PROVE  /\ last.status = "STARTED"
               /\ \A b \in Buffer : last.image[b] # NoValue => merged[b] # NoValue
    BY <1>4, <1>7, <1>17, <1>19, <2>2 DEF KeptCopy
  <2> QED
    BY <2>1, <2>2
<1>20. ASSUME status # "STARTED"
       PROVE  \/ /\ IsDelta(buffers, last.image, merged)
                 /\ after.viewport = last.viewport /\ after.unseen = last.unseen
              \/ /\ IsDelta(buffers, NoImage, merged)
                 /\ after.unseen = (after.viewport = last.viewport)
  <2>1. IsDelta(buffers, sender.fb, merged) /\ unseen = render.unseenInit
    BY <1>8, <1>10, <1>20 DEF base, unseen
  <2>2. KeptCopy(last) \/ ResetCopy(last)
    BY <1>3 DEF SenderSaid
  <2> QED
    BY <2>1, <2>2 DEF KeptCopy, ResetCopy
<1>21. SaysImage(last, m, after)
  BY <1>16, <1>18, <1>19, <1>20 DEF SaysImage
<1>22. PICK now \in Said : now = after
  BY <1>13
<1>23. PICK sentNow \in Message : sentNow = m
  BY <1>12
<1>24. SenderSaid(now)'
  <2>1. /\ now.frame = render.frame /\ now.progress = progress /\ now.status = status
        /\ now.viewport = render.viewport /\ now.unseen = unseen /\ now.image = merged
    BY <1>22
  <2>2. status # NoStatus
    BY DEF Status, NoStatus
  <2> QED
    BY <1>10, <1>15, <2>1, <2>2 DEF SenderSaid, KeptCopy
<1>25. Says(last, sentNow, now)
  BY <1>12, <1>21, <1>22, <1>23 DEF Says
<1>26. channel' = Append(channel, sentNow)
  BY <1>11, <1>23
<1>27. Told(Append(said, now))'
  BY <1>1, <1>2, <1>7, <1>24, <1>25, <1>26, SaidMore
<1>28. Append(said, now) \in Seq(Said)
  OBVIOUS
<1>29. channel' \in Seq(Message)
  BY <1>2, <1>26
<1>30. DeliveryTypeOK'
  BY <1>2, <1>7, <1>10, <1>15, <1>29 DEF DeliveryTypeOK
<1>31. (\E more \in Seq(Said) : Told(more))'
  BY <1>27, <1>28
<1> QED
  BY <1>30, <1>31 DEF DeliveryInv

(* A message without an image changes what is known of the back end, and   *)
(* perhaps progress.                                                       *)
LEMMA InfoOnlyIs ==
    ASSUME NEW c \in ClientState, NEW aux \in [syncId : Nat, merge : BOOLEAN],
           NEW done, done = AfterInfoOnly(DecodeAuxInfo(c, aux))
    PROVE  /\ done \in ClientState
           /\ done.frameId = c.frameId /\ done.lastFrameId = c.lastFrameId
           /\ done.fbViewport = c.fbViewport /\ done.fb = c.fb
           /\ \/ done.progress = c.progress
              \/ done.progress = 0 /\ (c.frameId = 0 \/ done.frameId < done.newestSyncId)
<1> DEFINE known == c.mergeKnown \/ aux.merge
           newest == IF aux.syncId > c.newestSyncId THEN aux.syncId ELSE c.newestSyncId
           decoded == DecodeAuxInfo(c, aux)
<1>1. newest \in Nat /\ known \in BOOLEAN
  <2>1. newest \in Nat
    BY DEF ClientState
  <2>2. known \in BOOLEAN
    OBVIOUS
  <2> QED
    BY <2>1, <2>2
<1>2. decoded = [c EXCEPT !.newestSyncId = newest, !.mergeKnown = known,
                          !.clockDeltaRun = known]
  BY DEF DecodeAuxInfo, ClientState
<1> HIDE DEF known, newest, decoded
<1>3. /\ decoded \in ClientState
      /\ decoded.frameId = c.frameId /\ decoded.lastFrameId = c.lastFrameId
      /\ decoded.fbViewport = c.fbViewport /\ decoded.fb = c.fb
      /\ decoded.progress = c.progress
  BY <1>1, <1>2 DEF ClientState
<1>4. \/ done = decoded
      \/ /\ done = [decoded EXCEPT !.progress = 0]
         /\ decoded.frameId = 0 \/ decoded.frameId < decoded.newestSyncId
  BY <1>3 DEF AfterInfoOnly, decoded, ClientState
<1>5. CASE done = decoded
  BY <1>3, <1>5
<1>6. CASE /\ done = [decoded EXCEPT !.progress = 0]
           /\ decoded.frameId = 0 \/ decoded.frameId < decoded.newestSyncId
  <2>1. 0 \in Progress
    BY DEF Progress
  <2>2. /\ done \in ClientState /\ done.progress = 0
        /\ done.frameId = decoded.frameId /\ done.lastFrameId = decoded.lastFrameId
        /\ done.fbViewport = decoded.fbViewport /\ done.fb = decoded.fb
        /\ done.newestSyncId = decoded.newestSyncId
    BY <1>3, <1>6, <2>1 DEF ClientState
  <2> QED
    BY <1>3, <1>6, <2>2
<1> QED
  BY <1>4, <1>5, <1>6

Drops == client'.progress < client.progress =>
           client'.frameId # client.frameId \/ client'.frameId < client'.newestSyncId

LEMMA ReceiveInfoKeeps == DeliveryInv /\ ReceiveInfo => DeliveryInv' /\ Drops
<1> SUFFICES ASSUME DeliveryInv, ReceiveInfo PROVE DeliveryInv' /\ Drops
  OBVIOUS
<1>1. PICK said \in Seq(Said) : Told(said)
  BY DEF DeliveryInv
<1>2. DeliveryTypeOK /\ client \in ClientState /\ channel \in Seq(Message)
  BY DEF DeliveryInv, DeliveryTypeOK
<1> DEFINE m == Head(channel)
<1>3. /\ channel # <<>> /\ m.kind = "info" /\ channel' = Tail(channel)
      /\ client' = AfterInfoOnly(DecodeAuxInfo(client, m.aux))
      /\ UNCHANGED <<sender, render, broken>>
  BY DEF ReceiveInfo, Received
<1>4. m \in Message /\ m = channel[1] /\ 1 \in 1 .. Len(channel)
  BY <1>2, <1>3
<1>5. m.aux \in [syncId : Nat, merge : BOOLEAN]
  BY <1>3, <1>4 DEF Message
<1>6. /\ said[1] \in Said /\ said[2] \in Said /\ Tail(said) \in Seq(Said)
      /\ ClientIsAt(client, said[1]) /\ ClientHas(client, broken, said[1])
      /\ Says(said[1], m, said[2])
  BY <1>1, <1>2, <1>4 DEF Told
<1>7. said[2] = said[1]
  BY <1>3, <1>6 DEF Says
<1>8. /\ client' \in ClientState
      /\ client'.frameId = client.frameId /\ client'.lastFrameId = client.lastFrameId
      /\ client'.fbViewport = client.fbViewport /\ client'.fb = client.fb
      /\ \/ client'.progress = client.progress
         \/ client'.progress = 0 /\ (client.frameId = 0 \/ client'.frameId < client'.newestSyncId)
  BY <1>2, <1>3, <1>5, InfoOnlyIs
<1>9. client'.progress <= said[1].progress
  BY <1>2, <1>6, <1>8 DEF ClientIsAt, Said
<1>10. ClientIsAt(client', said[2])
  BY <1>6, <1>7, <1>8, <1>9 DEF ClientIsAt
<1>11. ClientHas(client', broken', said[2])
  BY <1>3, <1>6, <1>7, <1>8 DEF ClientHas
<1>12. Told(Tail(said))'
  BY <1>1, <1>2, <1>3, <1>10, <1>11, SaidLess
<1>13. DeliveryInv'
  <2>1. channel' \in Seq(Message)
    BY <1>2, <1>3
  <2>2. DeliveryTypeOK'
    BY <1>2, <1>3, <1>8, <2>1 DEF DeliveryTypeOK
  <2> QED
    BY <1>6, <1>12, <2>2 DEF DeliveryInv
<1>14. Drops
  <2> SUFFICES ASSUME client'.progress < client.progress
               PROVE  client'.frameId < client'.newestSyncId
    BY DEF Drops
  <2>1. client.progress \in Int
    BY <1>2 DEF ClientState, Progress, NotReceived
  <2>2. client.frameId # 0
    <3>1. client.frameId = 0 => client.progress <= 0
      BY <1>6 DEF ClientIsAt, NothingSaid
    <3> QED
      BY <1>8, <2>1, <3>1
  <2> QED
    BY <1>8, <2>1, <2>2
<1> QED
  BY <1>13, <1>14

(* An image, decoded to the end or not.                                    *)
LEMMA ReceivedImageKeeps ==
    ASSUME DeliveryInv, Received("image"), channel' = Tail(channel),
           UNCHANGED <<sender, render>>, broken' \in BOOLEAN,
           NEW buffs \in SUBSET Head(channel).buffers,
           client' = DecodeBuffs(ReadyFb(client, Head(channel)), buffs),
           ~ broken' => /\ buffs = Head(channel).buffers
                        /\ ~ (broken /\ Head(channel).status # "STARTED")
    PROVE  DeliveryInv' /\ Drops
<1>1. PICK said \in Seq(Said) : Told(said)
  BY DEF DeliveryInv
<1>2. /\ DeliveryTypeOK /\ client \in ClientState /\ channel \in Seq(Message)
      /\ broken \in BOOLEAN
  BY DEF DeliveryInv, DeliveryTypeOK
<1> DEFINE m == Head(channel)
<1>3. channel # <<>> /\ m.kind = "image"
  BY DEF Received
<1>4. m \in ImageMessage /\ m = channel[1] /\ 1 \in 1 .. Len(channel)
  BY <1>2, <1>3 DEF ImageMessage
<1>5. /\ said[1] \in Said /\ said[2] \in Said /\ Tail(said) \in Seq(Said)
      /\ ClientIsAt(client, said[1]) /\ ClientHas(client, broken, said[1])
      /\ Says(said[1], m, said[2])
  BY <1>1, <1>2, <1>4 DEF Told
<1>6. SaysImage(said[1], m, said[2])
  BY <1>3, <1>5 DEF Says
<1> HIDE DEF m
<1>7. client' \in ClientState /\ ClientIsAt(client', said[2])
  BY <1>2, <1>4, <1>5, <1>6, DecodeIsAt DEF m
<1>8. ClientHas(client', broken', said[2])
  <2>1. CASE broken'
    BY <2>1 DEF ClientHas
  <2>2. CASE ~ broken'
    <3> DEFINE stillBroken == broken /\ m.status # "STARTED"
    <3>1. ClientHas(DecodeBuffs(ReadyFb(client, m), m.buffers), stillBroken, said[2])
      BY <1>2, <1>4, <1>5, <1>6, DecodeHas
    <3>2. client' = DecodeBuffs(ReadyFb(client, m), m.buffers) /\ ~ stillBroken
      BY <2>2 DEF m
    <3> HIDE DEF stillBroken
    <3> QED
      BY <3>1, <3>2 DEF ClientHas
  <2> QED
    BY <2>1, <2>2
<1>9. Told(Tail(said))'
  BY <1>1, <1>2, <1>3, <1>7, <1>8, SaidLess
<1>10. DeliveryInv'
  <2>1. channel' \in Seq(Message)
    BY <1>2, <1>3
  <2>2. DeliveryTypeOK'
    BY <1>2, <1>7, <2>1 DEF DeliveryTypeOK
  <2> QED
    BY <1>5, <1>9, <2>2 DEF DeliveryInv
<1>11. Drops
  <2> SUFFICES ASSUME client'.frameId = client.frameId
               PROVE  ~ (client'.progress < client.progress)
    BY DEF Drops
  <2>1. said[1].frame = said[2].frame
    BY <1>5, <1>7 DEF ClientIsAt
  <2>2. said[1].progress <= said[2].progress
    BY <1>6, <2>1 DEF SaysImage
  <2>3. client'.progress = m.progress /\ m.progress = said[2].progress
    <3>1. client' = [ReadyFb(client, m) EXCEPT !.fb = client'.fb]
      <4>1. m.buffers \in SUBSET PackedBuffer /\ ReadyFb(client, m) \in ClientState
        BY <1>2, <1>4, ImageMessageFields, ReadyFbIs
      <4>2. buffs \in SUBSET PackedBuffer
        BY <4>1 DEF m
      <4> QED
        BY <4>1, <4>2, DecodeBuffsIs DEF m
    <3>2. ReadyFb(client, m).progress = m.progress /\ ReadyFb(client, m) \in ClientState
      BY <1>2, <1>4, ReadyFbIs
    <3>3. client'.progress = m.progress
      BY <3>1, <3>2 DEF ClientState
    <3> QED
      BY <1>6, <3>3 DEF SaysImage
  <2>4. /\ client.progress <= said[1].progress /\ client.progress \in Int
        /\ said[1].progress \in Int /\ said[2].progress \in Int
    BY <1>2, <1>5 DEF ClientIsAt, ClientState, Progress, NotReceived, Said
  <2> QED
    BY <2>2, <2>3, <2>4
<1> QED
  BY <1>10, <1>11

LEMMA ReceiveImageKeeps == DeliveryInv /\ ReceiveImage => DeliveryInv' /\ Drops
<1> SUFFICES ASSUME DeliveryInv, ReceiveImage PROVE DeliveryInv' /\ Drops
  OBVIOUS
<1>1. broken \in BOOLEAN
  BY DEF DeliveryInv, DeliveryTypeOK
<1>2. /\ Received("image") /\ channel' = Tail(channel) /\ UNCHANGED <<sender, render>>
      /\ client' = DecodeBuffs(ReadyFb(client, Head(channel)), Head(channel).buffers)
  BY DEF ReceiveImage, ReadyFb
<1>3. broken' = (broken /\ Head(channel).status # "STARTED")
  BY DEF ReceiveImage
<1>4. broken' \in BOOLEAN /\ (~ broken' => ~ (broken /\ Head(channel).status # "STARTED"))
  BY <1>1, <1>3
<1> QED
  BY <1>2, <1>4, ReceivedImageKeeps

LEMMA ReceiveImageFailsKeeps == DeliveryInv /\ ReceiveImageFails => DeliveryInv' /\ Drops
<1> SUFFICES ASSUME DeliveryInv, ReceiveImageFails PROVE DeliveryInv' /\ Drops
  OBVIOUS
<1>1. PICK buffs \in SUBSET Head(channel).buffers :
        client' = DecodeBuffs(ReadyFb(client, Head(channel)), buffs)
  BY DEF ReceiveImageFails, ReadyFb
<1>2. /\ Received("image") /\ channel' = Tail(channel) /\ UNCHANGED <<sender, render>>
      /\ broken' = TRUE
  BY DEF ReceiveImageFails
<1> QED
  BY <1>1, <1>2, ReceivedImageKeeps

LEMMA DeliveryNextKeeps == DeliveryInv /\ [DeliveryNext]_deliveryVars => DeliveryInv' /\ [Drops]_deliveryVars
<1> SUFFICES ASSUME DeliveryInv, [DeliveryNext]_deliveryVars
             PROVE  DeliveryInv' /\ [Drops]_deliveryVars
  OBVIOUS
<1>1. ASSUME UNCHANGED client PROVE Drops
  <2>1. client.progress \in Int
    BY DEF DeliveryInv, DeliveryTypeOK, ClientState, Progress, NotReceived
  <2> QED
    BY <1>1, <2>1 DEF Drops
<1>2. CASE BackendStarts
  BY <1>1, <1>2, BackendStartsKeeps DEF BackendStarts
<1>3. ASSUME NEW viewport \in Viewport, ShowNextFrame(viewport)
      PROVE  DeliveryInv' /\ [Drops]_deliveryVars
  BY <1>1, <1>3, ShowNextFrameKeeps DEF ShowNextFrame
<1>4. ASSUME NEW status \in {"STARTED", "RENDERING", "FINISHED"}, NEW coarsePass \in BOOLEAN,
             NEW merged \in Merged, SendImage(status, coarsePass, merged)
      PROVE  DeliveryInv' /\ [Drops]_deliveryVars
  <2>1. status \in Status /\ UNCHANGED client
    BY <1>4 DEF Status, SendImage
  <2> QED
    BY <1>1, <1>4, <2>1, SendImageKeeps
<1>5. CASE SendInfo
  BY <1>1, <1>5, SendInfoKeeps DEF SendInfo
<1>6. CASE ReceiveInfo
  BY <1>6, ReceiveInfoKeeps
<1>7. CASE ReceiveImage
  BY <1>7, ReceiveImageKeeps
<1>8. CASE ReceiveImageFails
  BY <1>8, ReceiveImageFailsKeeps
<1>9. CASE UNCHANGED deliveryVars
  BY <1>9 DEF deliveryVars, DeliveryInv, DeliveryTypeOK, Told, SenderSaid, KeptCopy, ResetCopy
<1> QED
  BY <1>2, <1>3, <1>4, <1>5, <1>6, <1>7, <1>8, <1>9 DEF DeliveryNext

LEMMA DeliveryInvHolds == DeliverySpec => []DeliveryInv
BY DeliveryInitOK, DeliveryNextKeeps, PTL DEF DeliverySpec

(* With every message decoded, the client has what the sender packed, but  *)
(* for what 8 bits clip and for beauty of an earlier frame: for any        *)
(* buffers, precisions, sizes and images.                                  *)
THEOREM ImageAlwaysArrives == DeliverySpec => []ImageArrives
<1>1. ASSUME DeliveryInv PROVE ImageArrives
  <2> SUFFICES ASSUME channel = <<>>, render.status # NoStatus, ~ broken, ~ render.unseenInit,
                      NEW b \in Buffer
               PROVE  \/ client.fb[b] = sender.fb[b]
                      \/ Clipped(b, client.fb[b], sender.fb[b])
                      \/ b = Beauty /\ sender.fb[b] = NoValue
    BY DEF ImageArrives
  <2>1. PICK said \in Seq(Said) : Told(said)
    BY <1>1 DEF DeliveryInv
  <2>2. Len(said) = 1 /\ ClientHas(client, broken, said[1]) /\ SenderSaid(said[1])
    BY <2>1 DEF Told
  <2>3. KeptCopy(said[1])
    BY <2>2 DEF SenderSaid
  <2>4. Agrees(client.fb, sender.fb)
    BY <2>2, <2>3 DEF ClientHas, KeptCopy
  <2> QED
    BY <2>4 DEF Agrees, Fits
<1> QED
  BY <1>1, DeliveryInvHolds, PTL

(* The progress shown drops only with another frame, or when the back end  *)
(* has begun one, however images and messages without one alternate.       *)
THEOREM ProgressDropsOnlyWithNewFrame == DeliverySpec => ProgressDropsOnlyForNewFrame
<1>1. DeliveryInv /\ [DeliveryNext]_deliveryVars =>
        [client'.progress < client.progress =>
           \/ client'.frameId # client.frameId
           \/ client'.frameId < client'.newestSyncId]_deliveryVars
  BY DeliveryNextKeeps DEF Drops
<1> QED
  BY <1>1, DeliveryInvHolds, PTL DEF DeliverySpec, ProgressDropsOnlyForNewFrame

-------------------------------------------------------------------------------
(* The recorder of the client.                                             *)
MachineReport == [rnd : BOOLEAN, prg : Nat]
Reports == UNION {[S -> MachineReport] : S \in SUBSET Machine}
RecItem == [time : Nat, mergePrg : Nat, mc : Reports]

RecorderTypeOK ==
    /\ machine \in [Machine -> MachineReport]
    /\ node \in Reports /\ mergePrg \in Nat /\ seenPrg \in Nat
    /\ items \in Seq(RecItem)
    /\ \A i \in DOMAIN items : items[i].time = i

LEMMA ReportsAre ==
    ASSUME NEW f
    PROVE  /\ f \in Reports => DOMAIN f \subseteq Machine /\ f \in [DOMAIN f -> MachineReport]
           /\ (DOMAIN f \subseteq Machine /\ f \in [DOMAIN f -> MachineReport]) => f \in Reports
BY DEF Reports

LEMMA ItemsAre ==
    ASSUME NEW records \in Seq(RecItem)
    PROVE  /\ Len(records) \in Nat
           /\ \A i \in 1 .. Len(records) : records[i] \in RecItem
BY LenProperties, ElementOfSeq

(* The sums over machines are numbers.                                     *)
LEMMA SumIsNat ==
    ASSUME NEW M, IsFiniteSet(M), NEW f, NEW t, SumsUp(M, f, t), \A m \in M : f[m] \in Nat
    PROVE  t[M] \in Nat
<1>1. \A m \in M : f[m] <= f[m]
  OBVIOUS
<1> QED
  BY <1>1, SumGrows

LEMMA SummedProgressIsNat ==
    ASSUME NEW item \in RecItem
    PROVE  GetMcrtSummedProgress(item) \in Nat
<1> DEFINE M == DOMAIN item.mc
           f == [m \in M |-> item.mc[m].prg]
           Sums(t) == t = [s \in SUBSET M |->
                         IF s = {} THEN 0
                         ELSE LET x == CHOOSE x \in s : TRUE
                              IN  item.mc[x].prg + t[s \ {x}]]
           t == CHOOSE t : Sums(t)
<1>1. /\ M \subseteq Machine
      /\ item.mc \in [M -> MachineReport]
  BY ReportsAre DEF RecItem
<1>2. IsFiniteSet(M)
  BY <1>1, SessionAssumption, FS_Subset
<1>3. \A m \in M : f[m] \in Nat
  BY <1>1 DEF MachineReport
<1>4. GetMcrtSummedProgress(item) = t[M]
  BY DEF GetMcrtSummedProgress, MapThenSumSet, MapThenFoldSet
<1>5. ASSUME NEW u PROVE SumsUp(M, f, u) <=> Sums(u)
  BY DEF SumsUp, AnyOf
<1> HIDE DEF f, M, Sums
<1>6. \E u : SumsUp(M, f, u)
  BY <1>2, <1>3, SumExists
<1>7. Sums(t)
  BY <1>5, <1>6
<1>8. SumsUp(M, f, t)
  BY <1>5, <1>7
<1> QED
  BY <1>2, <1>3, <1>4, <1>8, SumIsNat

LEMMA RenderedPartsIsNat ==
    ASSUME machine \in [Machine -> MachineReport]
    PROVE  RenderedParts \in Nat
<1> DEFINE f == [m \in Machine |-> machine[m].prg]
           Sums(t) == t = [s \in SUBSET Machine |->
                         IF s = {} THEN 0
                         ELSE LET x == CHOOSE x \in s : TRUE
                              IN  machine[x].prg + t[s \ {x}]]
           t == CHOOSE t : Sums(t)
<1>1. \A m \in Machine : f[m] \in Nat
  BY DEF MachineReport
<1>2. RenderedParts = t[Machine]
  BY DEF RenderedParts, MapThenSumSet, MapThenFoldSet
<1>3. ASSUME NEW u PROVE SumsUp(Machine, f, u) <=> Sums(u)
  BY DEF SumsUp, AnyOf
<1> HIDE DEF f, Sums
<1>4. \E u : SumsUp(Machine, f, u)
  BY <1>1, SessionAssumption, SumExists
<1>5. Sums(t)
  BY <1>3, <1>4
<1>6. SumsUp(Machine, f, t)
  BY <1>3, <1>5
<1> QED
  BY <1>1, <1>2, <1>6, SessionAssumption, SumIsNat

(* The item that an update records.                                        *)
LEMMA RecordedItemIs ==
    ASSUME RecorderTypeOK, NEW nodes \in Reports, NEW progress \in Nat,
           NEW item, item = RecordedItem(nodes, progress)
    PROVE  /\ item \in RecItem
           /\ item.time = Len(items) + 1 /\ item.mergePrg = progress
           /\ Unnumbered = {} => item.mc = nodes
<1> DEFINE kept == [m \in DOMAIN nodes \ Unnumbered |-> nodes[m]]
<1>1. DOMAIN nodes \subseteq Machine /\ nodes \in [DOMAIN nodes -> MachineReport]
  BY ReportsAre
<1>2. DOMAIN kept \subseteq Machine /\ kept \in [DOMAIN kept -> MachineReport]
  BY <1>1
<1>3. kept \in Reports
  BY <1>2, ReportsAre
<1>4. Unnumbered = {} => kept = nodes
  BY <1>1
<1> HIDE DEF kept
<1>5. WithEntries(<< >>, kept) = kept
  BY <1>2 DEF WithEntries
<1>6. item = [time |-> Len(items) + 1, mergePrg |-> progress, mc |-> WithEntries(<< >>, kept)]
  BY DEF RecordedItem, SetMcrts, SetMerge, NewItem, kept
<1>7. Len(items) \in Nat
  BY DEF RecorderTypeOK
<1> QED
  BY <1>3, <1>4, <1>5, <1>6, <1>7 DEF RecItem

(* An update, by its outcomes: nothing, an item, or a record that ends.    *)
Recorded(nodes, progress) == Append(items, RecordedItem(nodes, progress))

LEMMA UpdateOutcomes ==
    ASSUME NEW nodes, NEW progress, NEW due, InfoRecUpdate(nodes, progress, due)
    PROVE  \/ /\ ~ JustOnStart(progress) /\ ~ JustOnComplete(progress) /\ ~ JustOnStopAll(nodes)
              /\ files' = << >> /\ items' = items
           \/ /\ ~ JustOnStopAll(nodes) /\ items' = Recorded(nodes, progress)
              /\ files' = IF JustOnComplete(progress)
                          THEN <<[extension |-> "C", items |-> Recorded(nodes, progress)]>>
                          ELSE << >>
           \/ /\ JustOnStopAll(nodes) /\ items' = << >>
              /\ files' = IF JustOnComplete(progress)
                          THEN <<[extension |-> "C", items |-> Recorded(nodes, progress)],
                                 [extension |-> "F", items |-> Recorded(nodes, progress)]>>
                          ELSE <<[extension |-> "F", items |-> Recorded(nodes, progress)]>>
<1> DEFINE complete == JustOnComplete(progress)
           stopAll == JustOnStopAll(nodes)
           recorded == Recorded(nodes, progress)
           file(extension) == [extension |-> extension, items |-> recorded]
           saved(condition, extension) ==
             IF condition THEN <<file(extension)>> ELSE << >>
<1>1. IF ~ (JustOnStart(progress) \/ complete \/ stopAll \/ due)
      THEN files' = << >> /\ items' = items
      ELSE /\ files' = saved(complete, "C") \o saved(stopAll, "F")
           /\ items' = IF stopAll THEN << >> ELSE recorded
  BY DEF InfoRecUpdate, Recorded, ClearItems
<1> HIDE DEF complete, stopAll, recorded, file
<1>2. ASSUME NEW f, NEW g
      PROVE  /\ <<f>> \o <<g>> = <<f, g>> /\ <<f>> \o << >> = <<f>>
             /\ << >> \o <<g>> = <<g>> /\ << >> \o << >> = << >>
  <2>1. {<<f>>, <<g>>, << >>, <<f, g>>} \subseteq Seq({f, g})
    OBVIOUS
  <2>2. <<f>> \o <<g>> = <<f, g>>
    <3> DEFINE both == <<f>> \o <<g>>
               pair == <<f, g>>
    <3>1. both \in Seq({f, g}) /\ Len(both) = 2 /\ both[1] = f /\ both[2] = g
      BY <2>1, ConcatProperties
    <3>2. pair \in Seq({f, g}) /\ Len(pair) = 2 /\ pair[1] = f /\ pair[2] = g
      BY <2>1
    <3> HIDE DEF both, pair
    <3>3. \A i \in 1 .. Len(both) : both[i] = pair[i]
      BY <3>1, <3>2
    <3>4. both = pair
      BY <3>1, <3>2, <3>3, SeqEqual
    <3> QED
      BY <3>4 DEF both, pair
  <2> QED
    BY <2>1, <2>2, ConcatEmptySeq
<1>3. \/ /\ ~ JustOnStart(progress) /\ ~ complete /\ ~ stopAll
         /\ files' = << >> /\ items' = items
      \/ /\ ~ stopAll /\ items' = recorded
         /\ files' = IF complete THEN <<file("C")>> ELSE << >>
      \/ /\ stopAll /\ items' = << >>
         /\ files' = IF complete THEN <<file("C"), file("F")>> ELSE <<file("F")>>
  BY <1>1, <1>2
<1> QED
  BY <1>3 DEF complete, stopAll, recorded, file

LEMMA RecordedIs ==
    ASSUME RecorderTypeOK, NEW nodes \in Reports, NEW progress \in Nat,
           NEW after, after = Recorded(nodes, progress)
    PROVE  /\ after \in Seq(RecItem) /\ Len(after) = Len(items) + 1
           /\ \A i \in 1 .. Len(items) : after[i] = items[i]
           /\ after[Len(items) + 1].mergePrg = progress
           /\ after[Len(items) + 1].time = Len(items) + 1
           /\ Unnumbered = {} => after[Len(items) + 1].mc = nodes
<1> DEFINE item == RecordedItem(nodes, progress)
<1>1. /\ item \in RecItem
      /\ item.time = Len(items) + 1 /\ item.mergePrg = progress
      /\ Unnumbered = {} => item.mc = nodes
  BY RecordedItemIs
<1>2. items \in Seq(RecItem) /\ after = Append(items, item)
  BY DEF RecorderTypeOK, Recorded
<1> HIDE DEF item
<1>3. /\ after \in Seq(RecItem) /\ Len(after) = Len(items) + 1
      /\ \A i \in 1 .. Len(items) : after[i] = items[i]
      /\ after[Len(items) + 1] = item
  BY <1>1, <1>2, AppendProperties
<1> QED
  BY <1>1, <1>3

LEMMA ReportsBrought ==
    ASSUME RecorderTypeOK, BringsReports
    PROVE  machine' = machine /\ node' \in Reports /\ mergePrg' \in Nat
<1>1. PICK reports \in SUBSET Machine, merge \in BOOLEAN :
        /\ node' = WithEntries(node, [m \in reports |-> machine[m]])
        /\ mergePrg' = IF merge THEN RenderedParts ELSE mergePrg
        /\ machine' = machine
  BY DEF BringsReports
<1>2. RenderedParts \in Nat
  BY RenderedPartsIsNat DEF RecorderTypeOK
<1>3. mergePrg' \in Nat
  BY <1>1, <1>2 DEF RecorderTypeOK
<1>4. DOMAIN node \subseteq Machine /\ node \in [DOMAIN node -> MachineReport]
  BY ReportsAre DEF RecorderTypeOK
<1> DEFINE new == WithEntries(node, [m \in reports |-> machine[m]])
<1>5. DOMAIN new \subseteq Machine /\ new \in [DOMAIN new -> MachineReport]
  BY <1>4 DEF WithEntries, RecorderTypeOK
<1>6. new \in Reports
  <2> HIDE DEF new
  <2> QED
    BY <1>5, ReportsAre
<1> QED
  BY <1>1, <1>3, <1>6

LEMMA ReceiveReports ==
    ASSUME RecorderTypeOK, Receive
    PROVE  /\ machine' = machine
           /\ node' \in Reports /\ mergePrg' \in Nat /\ seenPrg' = mergePrg'
           /\ \E due \in BOOLEAN : InfoRecUpdate(node', mergePrg', due)
<1>1. BringsReports
  BY DEF Receive
<1>2. machine' = machine /\ node' \in Reports /\ mergePrg' \in Nat
  BY <1>1, ReportsBrought
<1> QED
  BY <1>2 DEF Receive

LEMMA RecorderTypeKept ==
    ASSUME RecorderTypeOK, [SessionNext]_sessionVars
    PROVE  RecorderTypeOK'
<1>1. CASE MachineStep
  <2>1. PICK m \in Machine : StartRendering(m) \/ FinishPart(m) \/ StopRendering(m)
    BY <1>1 DEF MachineStep
  <2>2. machine' \in [Machine -> MachineReport]
    <3>1. machine \in [Machine -> MachineReport]
      BY DEF RecorderTypeOK
    <3>2. CASE StartRendering(m)
      BY <3>1, <3>2 DEF StartRendering, MachineReport
    <3>3. CASE FinishPart(m)
      BY <3>1, <3>3 DEF FinishPart, MachineReport
    <3>4. CASE StopRendering(m)
      BY <3>1, <3>4 DEF StopRendering, MachineReport
    <3> QED
      BY <2>1, <3>2, <3>3, <3>4
  <2> QED
    BY <1>1, <2>2 DEF MachineStep, RecorderTypeOK
<1>2. CASE Receive
  <2>1. /\ machine' = machine
        /\ node' \in Reports /\ mergePrg' \in Nat /\ seenPrg' \in Nat
    BY <1>2, ReceiveReports
  <2>2. PICK due \in BOOLEAN : InfoRecUpdate(node', mergePrg', due)
    BY <1>2, ReceiveReports
  <2> DEFINE after == Recorded(node', mergePrg')
  <2>3. items' = items \/ items' = after \/ items' = << >>
    BY <2>2, UpdateOutcomes
  <2>4. /\ after \in Seq(RecItem) /\ Len(after) = Len(items) + 1
        /\ \A i \in 1 .. Len(items) : after[i] = items[i]
        /\ after[Len(items) + 1].time = Len(items) + 1
    BY <2>1, RecordedIs
  <2> HIDE DEF after
  <2>5. items \in Seq(RecItem) /\ \A i \in 1 .. Len(items) : items[i].time = i
    BY DEF RecorderTypeOK
  <2>6. items' \in Seq(RecItem) /\ \A i \in 1 .. Len(items') : items'[i].time = i
    <3>1. CASE items' = items
      BY <2>5, <3>1
    <3>2. CASE items' = after
      <4>1. ASSUME NEW i \in 1 .. Len(after) PROVE after[i].time = i
        BY <2>4, <2>5
      <4> QED
        BY <2>4, <3>2, <4>1
    <3>3. CASE items' = << >>
      BY <3>3
    <3> QED
      BY <2>3, <3>1, <3>2, <3>3
  <2> QED
    BY <2>1, <2>6 DEF RecorderTypeOK
<1>3. CASE ReceiveFails
  <2>1. machine' = machine /\ node' \in Reports /\ mergePrg' \in Nat
    BY <1>3, ReportsBrought DEF ReceiveFails
  <2> QED
    BY <1>3, <2>1 DEF ReceiveFails, RecorderTypeOK
<1>4. CASE UNCHANGED sessionVars
  BY <1>4 DEF sessionVars, RecorderTypeOK
<1> QED
  BY <1>1, <1>2, <1>3, <1>4 DEF SessionNext

LEMMA RecorderTypeFirst == SessionInit => RecorderTypeOK
<1> SUFFICES ASSUME SessionInit PROVE RecorderTypeOK
  OBVIOUS
<1>1. machine \in [Machine -> MachineReport]
  BY DEF SessionInit, MachineReport
<1>2. node = << >> /\ items = << >> /\ mergePrg = 0 /\ seenPrg = 0
  BY DEF SessionInit
<1>3. << >> \in Reports
  <2>1. DOMAIN << >> = {} /\ << >> \in [{} -> MachineReport]
    OBVIOUS
  <2> QED
    BY <2>1, ReportsAre
<1> QED
  BY <1>1, <1>2, <1>3 DEF RecorderTypeOK

-------------------------------------------------------------------------------
(* What the client knew of the progress when it took the last item is no   *)
(* more than what infoRecUpdate saw since then: a drop is an item.         *)
KnewLess == (HasItems /\ seenPrg < Full) => GetMergeProgress(LastItem) < Full

LEMMA LastOfRecorded ==
    ASSUME RecorderTypeOK, NEW nodes \in Reports, NEW progress \in Nat
    PROVE  /\ Recorded(nodes, progress) # << >>
           /\ GetMergeProgress(Last(Recorded(nodes, progress))) = progress
           /\ Unnumbered = {} => Last(Recorded(nodes, progress)).mc = nodes
<1> DEFINE after == Recorded(nodes, progress)
<1>1. /\ after \in Seq(RecItem) /\ Len(after) = Len(items) + 1
      /\ after[Len(items) + 1].mergePrg = progress
      /\ Unnumbered = {} => after[Len(items) + 1].mc = nodes
  BY RecordedIs
<1>2. Len(items) \in Nat
  BY DEF RecorderTypeOK
<1> HIDE DEF after
<1>3. after # << >> /\ Last(after) = after[Len(items) + 1]
  BY <1>1, <1>2 DEF Last
<1> QED
  BY <1>1, <1>3 DEF after, GetMergeProgress

LEMMA LastItemIs ==
    ASSUME RecorderTypeOK, HasItems
    PROVE  LastItem \in RecItem /\ LastItem = items[Len(items)] /\ Len(items) \in Nat \ {0}
<1>1. items \in Seq(RecItem) /\ items # << >>
  BY DEF RecorderTypeOK, HasItems
<1>2. Len(items) \in Nat \ {0}
  BY <1>1, EmptySeq, LenProperties
<1> QED
  BY <1>1, <1>2, ElementOfSeq DEF LastItem, Last

LEMMA ReceiveKnewLess ==
    ASSUME RecorderTypeOK, KnewLess, Receive
    PROVE  KnewLess'
<1>1. node' \in Reports /\ mergePrg' \in Nat /\ seenPrg' = mergePrg'
  BY ReceiveReports
<1>2. PICK due \in BOOLEAN : InfoRecUpdate(node', mergePrg', due)
  BY ReceiveReports
<1>3. \/ /\ ~ JustOnStart(mergePrg') /\ ~ JustOnComplete(mergePrg') /\ items' = items
      \/ items' = Recorded(node', mergePrg')
      \/ items' = << >>
  BY <1>2, UpdateOutcomes
<1>4. CASE ~ JustOnStart(mergePrg') /\ items' = items
  <2> SUFFICES ASSUME HasItems', mergePrg' < Full
               PROVE  GetMergeProgress(LastItem)' < Full
    BY <1>1 DEF KnewLess
  <2>1. HasItems /\ LastItem' = LastItem
    BY <1>4 DEF HasItems, LastItem
  <2>2. LastItem.mergePrg \in Nat
    BY <2>1, LastItemIs DEF RecItem
  <2>3. ~ (mergePrg' < LastItem.mergePrg)
    BY <1>4, <2>1 DEF JustOnStart, GetMergeProgress
  <2>4. LastItem.mergePrg < Full
    BY <1>1, <2>2, <2>3, FullAssumption
  <2> QED
    BY <2>1, <2>4 DEF GetMergeProgress
<1>5. CASE items' = Recorded(node', mergePrg')
  <2>1. GetMergeProgress(Last(items')) = mergePrg'
    BY <1>1, <1>5, LastOfRecorded
  <2> QED
    BY <1>1, <2>1 DEF KnewLess, LastItem, GetMergeProgress
<1>6. CASE items' = << >>
  BY <1>6 DEF KnewLess, HasItems
<1> QED
  BY <1>3, <1>4, <1>5, <1>6

RecorderInv == RecorderTypeOK /\ KnewLess

LEMMA RecorderInvariant == SessionSpec => []RecorderInv
<1>1. SessionInit => RecorderInv
  BY RecorderTypeFirst DEF SessionInit, RecorderInv, KnewLess, HasItems
<1>2. RecorderInv /\ [SessionNext]_sessionVars => RecorderInv'
  <2> SUFFICES ASSUME RecorderInv, [SessionNext]_sessionVars PROVE RecorderInv'
    OBVIOUS
  <2>1. RecorderTypeOK /\ KnewLess
    BY DEF RecorderInv
  <2>2. CASE Receive
    BY <2>1, <2>2, ReceiveKnewLess, RecorderTypeKept DEF RecorderInv
  <2>3. CASE UNCHANGED <<items, seenPrg>>
    <3>1. KnewLess'
      BY <2>1, <2>3 DEF KnewLess, HasItems, LastItem
    <3> QED
      BY <2>1, <3>1, RecorderTypeKept DEF RecorderInv
  <2> QED
    BY <2>2, <2>3 DEF SessionNext, MachineStep, ReceiveFails, sessionVars
<1> QED
  BY <1>1, <1>2, PTL DEF SessionSpec

(* As soon as the client has items, no completion goes unsaved that two    *)
(* messages tell which are decoded to the end, whatever fails between them *)
(* (infoRecUpdate, the .iRec-C): the last item knows a progress that is    *)
(* less than the whole whenever infoRecUpdate last saw less, for any       *)
(* machines, any order of their reports and any intervals between items.   *)
THEOREM CompletionIsAlwaysSaved == SessionSpec => CompletionIsSaved
<1>1. RecorderInv /\ [SessionNext]_sessionVars =>
        [Receive /\ seenPrg < Full /\ mergePrg' >= Full /\ HasItems
           => \E f \in DOMAIN files' : files'[f].extension = "C"]_sessionVars
  <2> SUFFICES ASSUME RecorderInv, Receive, seenPrg < Full, mergePrg' >= Full, HasItems
               PROVE  \E f \in DOMAIN files' : files'[f].extension = "C"
    OBVIOUS
  <2>1. RecorderTypeOK /\ GetMergeProgress(LastItem) < Full
    BY DEF RecorderInv, KnewLess
  <2>2. PICK due \in BOOLEAN : InfoRecUpdate(node', mergePrg', due)
    BY <2>1, ReceiveReports
  <2>3. JustOnComplete(mergePrg')
    BY <2>1 DEF JustOnComplete
  <2>4. 1 \in DOMAIN files' /\ files'[1].extension = "C"
    BY <2>2, <2>3, UpdateOutcomes
  <2> QED
    BY <2>4
<1> QED
  BY <1>1, RecorderInvariant, PTL DEF SessionSpec, CompletionIsSaved

-------------------------------------------------------------------------------
(* The items of a record, with machines that have all stopped first: the   *)
(* next one that finds them so is the last.                                *)
StoppedUpTo(records, k) ==
    \A i \in 1 .. Len(records) : IsMcrtAllStop(records[i]) <=> i <= k
StoppedFirst == \E k \in 0 .. Len(items) : StoppedUpTo(items, k)
OneRunInv == RecorderTypeOK /\ StoppedFirst /\ FinalRecordIsOneRun

LEMMA ReceiveOneRun ==
    ASSUME Unnumbered = {}, OneRunInv, Receive
    PROVE  StoppedFirst' /\ FinalRecordIsOneRun'
<1>1. RecorderTypeOK /\ StoppedFirst
  BY DEF OneRunInv
<1>2. node' \in Reports /\ mergePrg' \in Nat
  BY <1>1, ReceiveReports
<1>3. PICK due \in BOOLEAN : InfoRecUpdate(node', mergePrg', due)
  BY <1>1, ReceiveReports
<1> DEFINE after == Recorded(node', mergePrg')
           L == Len(items)
<1>4. /\ after \in Seq(RecItem) /\ Len(after) = L + 1
      /\ \A i \in 1 .. L : after[i] = items[i]
      /\ after[L + 1].mc = node'
  BY <1>1, <1>2, RecordedIs
<1>5. L \in Nat
  BY <1>1 DEF RecorderTypeOK
<1>6. PICK k \in 0 .. L : StoppedUpTo(items, k)
  BY <1>1 DEF StoppedFirst
<1>7. IsMcrtAllStop(after[L + 1]) <=> NodesAllStop(node')
  BY <1>4 DEF IsMcrtAllStop, NodesAllStop
<1>8. JustOnStopAll(node') <=> NodesAllStop(node') /\ L # 0 /\ k # L
  <2>1. L # 0 <=> HasItems
    BY <1>1, EmptySeq DEF HasItems, RecorderTypeOK
  <2>2. HasItems => (IsMcrtAllStop(LastItem) <=> L <= k)
    BY <1>1, <1>5, <1>6, LastItemIs DEF StoppedUpTo
  <2> QED
    BY <1>5, <2>1, <2>2 DEF JustOnStopAll
<1>9. \/ files' = << >> /\ items' = items
      \/ /\ ~ JustOnStopAll(node') /\ items' = after
         /\ files' = << >> \/ files' = <<[extension |-> "C", items |-> after]>>
      \/ /\ JustOnStopAll(node') /\ items' = << >>
         /\ \/ files' = <<[extension |-> "F", items |-> after]>>
            \/ files' = <<[extension |-> "C", items |-> after],
                          [extension |-> "F", items |-> after]>>
  BY <1>3, UpdateOutcomes
<1> HIDE DEF after, L
<1>10. CASE files' = << >> /\ items' = items
  <2>1. FinalRecordIsOneRun'
    BY <1>10 DEF FinalRecordIsOneRun, FinalFiles
  <2> QED
    BY <1>1, <1>10, <2>1 DEF StoppedFirst
<1>11. CASE /\ ~ JustOnStopAll(node') /\ items' = after
            /\ files' = << >> \/ files' = <<[extension |-> "C", items |-> after]>>
  <2>1. FinalRecordIsOneRun'
    BY <1>11 DEF FinalRecordIsOneRun, FinalFiles
  <2>2. CASE NodesAllStop(node')
    <3>1. k = L
      BY <1>5, <1>8, <1>11, <2>2
    <3>2. StoppedUpTo(after, L + 1)
      <4> SUFFICES ASSUME NEW i \in 1 .. L + 1 PROVE IsMcrtAllStop(after[i])
        BY <1>4, <1>5 DEF StoppedUpTo
      <4>1. CASE i \in 1 .. L
        BY <1>4, <1>5, <1>6, <3>1, <4>1 DEF StoppedUpTo, L
      <4>2. CASE i = L + 1
        BY <1>7, <2>2, <4>2
      <4> QED
        BY <1>5, <4>1, <4>2
    <3> QED
      BY <1>4, <1>5, <1>11, <2>1, <3>2 DEF StoppedFirst
  <2>3. CASE ~ NodesAllStop(node')
    <3>1. StoppedUpTo(after, k)
      <4> SUFFICES ASSUME NEW i \in 1 .. L + 1 PROVE IsMcrtAllStop(after[i]) <=> i <= k
        BY <1>4, <1>5 DEF StoppedUpTo
      <4>1. CASE i \in 1 .. L
        BY <1>4, <1>5, <1>6, <4>1 DEF StoppedUpTo, L
      <4>2. CASE i = L + 1
        BY <1>5, <1>6, <1>7, <2>3, <4>2
      <4> QED
        BY <1>5, <4>1, <4>2
    <3>2. k \in 0 .. Len(items')
      BY <1>4, <1>5, <1>6, <1>11
    <3> QED
      BY <1>11, <2>1, <3>1, <3>2 DEF StoppedFirst
  <2> QED
    BY <2>2, <2>3
<1>12. CASE /\ JustOnStopAll(node') /\ items' = << >>
            /\ \/ files' = <<[extension |-> "F", items |-> after]>>
               \/ files' = <<[extension |-> "C", items |-> after],
                             [extension |-> "F", items |-> after]>>
  <2>1. StoppedFirst'
    BY <1>12 DEF StoppedFirst, StoppedUpTo
  <2>2. ASSUME NEW f \in FinalFiles' PROVE files'[f].items = after
    BY <1>12, <2>2 DEF FinalFiles
  <2>3. k \in 0 .. (L + 1) - 2
    BY <1>5, <1>6, <1>8, <1>12
  <2>4. ASSUME NEW i \in 1 .. L + 1
        PROVE  IsMcrtAllStop(after[i]) <=> i <= k \/ i = L + 1
    <3>1. CASE i \in 1 .. L
      BY <1>4, <1>5, <1>6, <3>1 DEF StoppedUpTo, L
    <3>2. CASE i = L + 1
      BY <1>7, <1>8, <1>12, <3>2
    <3> QED
      BY <1>5, <3>1, <3>2
  <2>5. FinalRecordIsOneRun'
    BY <1>4, <2>2, <2>3, <2>4 DEF FinalRecordIsOneRun
  <2> QED
    BY <2>1, <2>5
<1> QED
  BY <1>9, <1>10, <1>11, <1>12

(* A final record (infoRecUpdate, the .iRec-F) is one run of the machines, *)
(* for any machines that all have numbers, any order of their reports and  *)
(* any length of the record.  A machine with a negative id is not in the   *)
(* items, so that one alone keeps a record from ending.                    *)
THEOREM FinalRecordIsAlwaysOneRun ==
    ASSUME Unnumbered = {}
    PROVE  SessionSpec => []FinalRecordIsOneRun
<1>1. SessionInit => OneRunInv
  BY RecorderTypeFirst
     DEF SessionInit, OneRunInv, StoppedFirst, StoppedUpTo, FinalRecordIsOneRun, FinalFiles
<1>2. OneRunInv /\ [SessionNext]_sessionVars => OneRunInv'
  <2> SUFFICES ASSUME OneRunInv, [SessionNext]_sessionVars PROVE OneRunInv'
    OBVIOUS
  <2>1. RecorderTypeOK'
    BY RecorderTypeKept DEF OneRunInv
  <2>2. CASE Receive
    BY <2>1, <2>2, ReceiveOneRun DEF OneRunInv
  <2>3. CASE items' = items /\ (files' = files \/ files' = << >>)
    <3>1. StoppedFirst' /\ FinalRecordIsOneRun'
      BY <2>3 DEF OneRunInv, StoppedFirst, FinalRecordIsOneRun, FinalFiles
    <3> QED
      BY <2>1, <3>1 DEF OneRunInv
  <2> QED
    BY <2>2, <2>3 DEF SessionNext, MachineStep, ReceiveFails, sessionVars
<1>3. OneRunInv => FinalRecordIsOneRun
  BY DEF OneRunInv
<1> QED
  BY <1>1, <1>2, <1>3, PTL DEF SessionSpec

-------------------------------------------------------------------------------
(* The span of a rendering.  Where the pass over the items is after n of   *)
(* them is said of these n items: where the last rendering begins, when it *)
(* has progress and when it is complete, and where the record ends.        *)
ProgressAt(i) == GetMcrtSummedProgress(items[i])
DropsTo(n) == {i \in 2 .. n : ProgressAt(i) < ProgressAt(i - 1)}
BeginTo(n) == Max({1} \cup DropsTo(n))
RisingTo(n) == {i \in BeginTo(n) .. n : ProgressAt(i) > 0}
CompletesTo(n) ==
    {i \in BeginTo(n) + 1 .. n :
        /\ \E j \in RisingTo(n) : j < i
        /\ ProgressAt(i - 1) < Full /\ Full <= ProgressAt(i)}
StartedBy(n) == \E j \in 1 .. n : IsMcrtAllStart(items[j])
EndsTo(n) == {i \in 1 .. n : IsMcrtAllStop(items[i]) /\ StartedBy(i - 1)}
FirstOf(S) == IF S = {} THEN 0 ELSE Min(S)
SpanTo(n) ==
    [start |-> FirstOf(RisingTo(n)), complete |-> FirstOf(CompletesTo(n)), finish |-> 0]
ProgressBefore(n) == IF n = 0 THEN 0 ELSE ProgressAt(n)

LEMMA MinIs ==
    ASSUME NEW S \in SUBSET Nat, S # {}
    PROVE  Min(S) \in S /\ \A y \in S : Min(S) <= y
<1>1. IsWellFoundedOn(Below, Nat)
  BY NatLessThanWellFounded DEF OpToRel, Below
<1>2. PICK x \in S : \A y \in S : <<y, x>> \notin Below
  BY <1>1, WFMin
<1>3. ASSUME NEW y \in S PROVE x <= y
  <2>1. x \in Nat /\ y \in Nat
    OBVIOUS
  <2>2. y < x => <<y, x>> \in Below
    BY <2>1 DEF Below
  <2> QED
    BY <1>2, <2>1, <2>2
<1> QED
  BY <1>3 DEF Min

LEMMA FirstOfIs ==
    ASSUME NEW n \in Nat, NEW S \in SUBSET (1 .. n)
    PROVE  /\ FirstOf(S) = 0 <=> S = {}
           /\ S # {} => FirstOf(S) \in S /\ \A y \in S : FirstOf(S) <= y
<1>1. CASE S = {}
  BY <1>1 DEF FirstOf
<1>2. CASE S # {}
  <2>1. S \in SUBSET Nat
    OBVIOUS
  <2>2. FirstOf(S) \in S /\ \A y \in S : FirstOf(S) <= y
    BY <1>2, <2>1, MinIs DEF FirstOf
  <2>3. FirstOf(S) # 0
    BY <2>2
  <2> QED
    BY <1>2, <2>2, <2>3
<1> QED
  BY <1>1, <1>2

LEMMA FirstOfGoes ==
    ASSUME NEW n \in Nat, NEW S \in SUBSET (1 .. n)
    PROVE  FirstOf(S \cup {n + 1}) = IF S = {} THEN n + 1 ELSE FirstOf(S)
<1> DEFINE T == S \cup {n + 1}
<1>1. T \in SUBSET (1 .. n + 1) /\ T # {}
  OBVIOUS
<1>2. FirstOf(T) \in T /\ \A y \in T : FirstOf(T) <= y
  BY <1>1, FirstOfIs
<1>3. S # {} => FirstOf(S) \in S /\ \A y \in S : FirstOf(S) <= y
  BY FirstOfIs
<1>4. CASE S = {}
  BY <1>2, <1>4
<1>5. CASE S # {}
  <2> DEFINE a == FirstOf(S)
             b == FirstOf(T)
  <2>1. a \in S /\ a \in 1 .. n /\ a \in T
    BY <1>3, <1>5
  <2>2. b \in T /\ b <= a /\ b \in Nat
    <3>1. b \in T /\ \A y \in T : b <= y
      BY <1>2
    <3> HIDE DEF a, b
    <3> QED
      BY <1>1, <2>1, <3>1
  <2> HIDE DEF a, b
  <2>3. b \in S
    BY <2>1, <2>2
  <2>4. a <= b
    BY <1>3, <1>5, <2>3 DEF a
  <2>5. a = b
    BY <2>1, <2>2, <2>4
  <2> QED
    BY <1>5, <2>5 DEF a, b
<1> QED
  BY <1>4, <1>5

LEMMA MaxIs ==
    ASSUME NEW S \in SUBSET Nat, NEW x \in S, \A y \in S : y <= x
    PROVE  Max(S) = x
<1>1. Max(S) \in S /\ \A y \in S : Max(S) >= y
  BY DEF Max
<1>2. x <= Max(S) /\ Max(S) <= x
  BY <1>1
<1>3. x \in Nat /\ Max(S) \in Nat
  BY <1>1
<1> QED
  BY <1>2, <1>3

LEMMA ProgressAtIsNat ==
    ASSUME RecorderTypeOK, NEW i \in 1 .. Len(items)
    PROVE  ProgressAt(i) \in Nat /\ items[i].time = i
<1>1. items \in Seq(RecItem) /\ items[i].time = i
  BY DEF RecorderTypeOK
<1>2. items[i] \in RecItem
  BY <1>1, ItemsAre
<1> QED
  BY <1>1, <1>2, SummedProgressIsNat DEF ProgressAt

(* Where the rendering of the last item begins.                            *)
BeginOK(n) ==
    /\ BeginTo(n) \in Nat /\ 1 <= BeginTo(n)
    /\ n # 0 => BeginTo(n) <= n
    /\ n = 0 => BeginTo(n) = 1
    /\ \A y \in DropsTo(n) : y <= BeginTo(n)

LEMMA BeginGoes ==
    ASSUME NEW n \in Nat, BeginOK(n)
    PROVE  /\ BeginOK(n + 1)
           /\ IF n # 0 /\ ProgressAt(n + 1) < ProgressAt(n)
              THEN BeginTo(n + 1) = n + 1 ELSE BeginTo(n + 1) = BeginTo(n)
<1> DEFINE drop == n # 0 /\ ProgressAt(n + 1) < ProgressAt(n)
<1>1. DropsTo(n) \subseteq 2 .. n
  BY DEF DropsTo
<1>2. DropsTo(n + 1) = IF drop THEN DropsTo(n) \cup {n + 1} ELSE DropsTo(n)
  <2>1. ASSUME NEW i PROVE i \in 2 .. n + 1 <=> i \in 2 .. n \/ (i = n + 1 /\ n # 0)
    OBVIOUS
  <2>2. (n + 1) - 1 = n
    OBVIOUS
  <2>3. ASSUME NEW i
        PROVE  i \in DropsTo(n + 1) <=> i \in DropsTo(n) \/ (i = n + 1 /\ drop)
    BY <2>1, <2>2 DEF DropsTo
  <2> HIDE DEF drop
  <2> QED
    BY <2>3
<1>3. CASE drop
  <2> DEFINE S == {1} \cup DropsTo(n + 1)
  <2>1. S \in SUBSET Nat /\ n + 1 \in S /\ \A y \in S : y <= n + 1
    BY <1>1, <1>2, <1>3
  <2>2. Max(S) = n + 1
    <3> HIDE DEF S
    <3> QED
      BY <2>1, MaxIs
  <2>3. BeginTo(n + 1) = n + 1
    BY <2>2 DEF BeginTo
  <2> QED
    BY <1>3, <2>1, <2>3 DEF BeginOK
<1>4. CASE ~ drop
  <2>1. BeginTo(n + 1) = BeginTo(n) /\ DropsTo(n + 1) = DropsTo(n)
    BY <1>2, <1>4 DEF BeginTo
  <2> QED
    BY <1>4, <2>1 DEF BeginOK
<1> QED
  BY <1>3, <1>4

LEMMA BeginIsOK ==
    ASSUME NEW n \in Nat
    PROVE  BeginOK(n)
<1> DEFINE T == {k \in Nat : BeginOK(k)}
<1>1. 0 \in T
  <2>1. DropsTo(0) = {}
    BY DEF DropsTo
  <2>2. {1} \in SUBSET Nat /\ 1 \in {1} /\ \A y \in {1} : y <= 1
    OBVIOUS
  <2>3. Max({1}) = 1
    BY <2>2, MaxIs
  <2>4. {1} \cup {} = {1}
    OBVIOUS
  <2> QED
    BY <2>1, <2>3, <2>4 DEF BeginOK, BeginTo
<1>2. ASSUME NEW k \in Nat, k \in T PROVE k + 1 \in T
  BY <1>2, BeginGoes
<1> HIDE DEF T
<1>3. Nat \subseteq T
  BY <1>1, <1>2, NatSetInduction
<1> QED
  BY <1>3 DEF T

(* From there on the progress does not drop.                               *)
LEMMA RisesFromBegin ==
    ASSUME RecorderTypeOK, NEW n \in 1 .. Len(items),
           NEW i \in BeginTo(n) .. n, NEW j \in i .. n
    PROVE  ProgressAt(i) <= ProgressAt(j)
<1>1. BeginOK(n) /\ Len(items) \in Nat
  BY BeginIsOK DEF RecorderTypeOK
<1>2. i \in 1 .. n /\ n \in Nat
  BY <1>1 DEF BeginOK
<1> DEFINE T == {k \in Nat : i + k <= n => ProgressAt(i) <= ProgressAt(i + k)}
<1>3. 0 \in T
  <2>1. ProgressAt(i) \in Nat
    BY <1>1, <1>2, ProgressAtIsNat
  <2>2. i + 0 = i
    BY <1>2
  <2> QED
    BY <2>1, <2>2
<1>4. ASSUME NEW k \in Nat, k \in T PROVE k + 1 \in T
  <2> SUFFICES ASSUME i + (k + 1) <= n PROVE ProgressAt(i) <= ProgressAt(i + (k + 1))
    OBVIOUS
  <2> DEFINE h == i + (k + 1)
  <2>1. h \in 2 .. n /\ h - 1 = i + k /\ h - 1 \in 1 .. n /\ h > BeginTo(n)
    BY <1>1, <1>2 DEF BeginOK
  <2>2. h \notin DropsTo(n)
    BY <1>1, <2>1 DEF BeginOK
  <2>3. ~ (ProgressAt(h) < ProgressAt(h - 1))
    BY <2>1, <2>2 DEF DropsTo
  <2>4. ProgressAt(i) <= ProgressAt(i + k)
    BY <1>2, <1>4
  <2>5. ProgressAt(i) \in Nat /\ ProgressAt(h) \in Nat /\ ProgressAt(h - 1) \in Nat
    BY <1>1, <1>2, <2>1, ProgressAtIsNat
  <2> HIDE DEF h
  <2>6. ProgressAt(i) <= ProgressAt(h)
    BY <2>1, <2>3, <2>4, <2>5
  <2> QED
    BY <2>6 DEF h
<1> HIDE DEF T
<1>5. j - i \in T
  BY <1>2, <1>3, <1>4, NatSetInduction
<1>6. i + (j - i) = j /\ j <= n
  BY <1>2
<1> QED
  BY <1>5, <1>6 DEF T

LEMMA SpanSets ==
    ASSUME NEW n \in Nat
    PROVE  /\ RisingTo(n) \in SUBSET (1 .. n)
           /\ CompletesTo(n) \in SUBSET (1 .. n)
           /\ EndsTo(n) \in SUBSET (1 .. n)
BY BeginIsOK DEF BeginOK, RisingTo, CompletesTo, EndsTo

LEMMA NothingYet ==
    ASSUME RecorderTypeOK, NEW n \in 0 .. Len(items), RisingTo(n) = {}
    PROVE  ProgressBefore(n) = 0
<1>1. CASE n = 0
  BY <1>1 DEF ProgressBefore
<1>2. CASE n # 0
  <2>1. BeginOK(n) /\ Len(items) \in Nat
    BY BeginIsOK DEF RecorderTypeOK
  <2>2. n \in BeginTo(n) .. n
    BY <1>2, <2>1 DEF BeginOK
  <2>3. ~ (ProgressAt(n) > 0)
    BY <2>2 DEF RisingTo
  <2>4. ProgressAt(n) \in Nat
    BY <1>2, <2>1, ProgressAtIsNat
  <2> QED
    BY <1>2, <2>3, <2>4 DEF ProgressBefore
<1> QED
  BY <1>1, <1>2

(* One item more, of a rendering that goes on and of one that begins.      *)
LEMMA SetsGoOn ==
    ASSUME NEW n \in Nat, ~ (n # 0 /\ ProgressAt(n + 1) < ProgressAt(n))
    PROVE  /\ RisingTo(n + 1) = IF ProgressAt(n + 1) > 0
                                THEN RisingTo(n) \cup {n + 1} ELSE RisingTo(n)
           /\ CompletesTo(n + 1) =
                IF RisingTo(n) # {} /\ ProgressAt(n) < Full /\ Full <= ProgressAt(n + 1)
                THEN CompletesTo(n) \cup {n + 1} ELSE CompletesTo(n)
<1> DEFINE b == BeginTo(n)
<1>1. /\ BeginTo(n + 1) = b /\ b \in Nat /\ 1 <= b
      /\ b <= n + 1 /\ (n + 1) - 1 = n
  BY BeginIsOK, BeginGoes DEF BeginOK
<1> HIDE DEF b
<1>2. RisingTo(n) = {i \in b .. n : ProgressAt(i) > 0}
  BY DEF RisingTo, b
<1>3. RisingTo(n + 1) = {i \in b .. n + 1 : ProgressAt(i) > 0}
  BY <1>1 DEF RisingTo
<1>4. ASSUME NEW i PROVE i \in b .. n + 1 <=> i \in b .. n \/ i = n + 1
  BY <1>1
<1>5. ASSUME NEW i
      PROVE  i \in RisingTo(n + 1) <=> i \in RisingTo(n) \/ (i = n + 1 /\ ProgressAt(n + 1) > 0)
  BY <1>2, <1>3, <1>4
<1>6. ASSUME NEW i
      PROVE  i \in b + 1 .. n + 1 <=> i \in b + 1 .. n \/ (i = n + 1 /\ b <= n)
  BY <1>1
<1>7. ASSUME NEW i \in b + 1 .. n
      PROVE  (\E j \in RisingTo(n + 1) : j < i) <=> (\E j \in RisingTo(n) : j < i)
  BY <1>1, <1>5
<1>8. (b <= n /\ \E j \in RisingTo(n + 1) : j < n + 1) <=> RisingTo(n) # {}
  <2>1. ASSUME NEW j \in RisingTo(n) PROVE b <= n /\ j < n + 1 /\ j \in RisingTo(n + 1)
    BY <1>1, <1>2, <1>5
  <2>2. ASSUME NEW j \in RisingTo(n + 1), j < n + 1 PROVE j \in RisingTo(n)
    BY <1>1, <1>5, <2>2
  <2> QED
    BY <2>1, <2>2
<1>9. CompletesTo(n) = {i \in b + 1 .. n : /\ \E j \in RisingTo(n) : j < i
                                           /\ ProgressAt(i - 1) < Full /\ Full <= ProgressAt(i)}
  BY DEF CompletesTo, b
<1>10. CompletesTo(n + 1) =
         {i \in b + 1 .. n + 1 : /\ \E j \in RisingTo(n + 1) : j < i
                                 /\ ProgressAt(i - 1) < Full /\ Full <= ProgressAt(i)}
  BY <1>1 DEF CompletesTo
<1>11. ASSUME NEW i
       PROVE  i \in CompletesTo(n + 1) <=>
                \/ i \in CompletesTo(n)
                \/ i = n + 1 /\ RisingTo(n) # {}
                   /\ ProgressAt(n) < Full /\ Full <= ProgressAt(n + 1)
  <2>1. CASE i \in b + 1 .. n
    <3>1. i # n + 1
      BY <1>1, <2>1
    <3> QED
      BY <1>6, <1>7, <1>9, <1>10, <2>1, <3>1
  <2>2. CASE i = n + 1
    <3>1. i \notin b + 1 .. n /\ i - 1 = n
      BY <1>1, <2>2
    <3> QED
      BY <1>6, <1>8, <1>9, <1>10, <2>2, <3>1
  <2>3. CASE i \notin b + 1 .. n /\ i # n + 1
    BY <1>6, <1>9, <1>10, <2>3
  <2> QED
    BY <2>1, <2>2, <2>3
<1> QED
  BY <1>5, <1>11

LEMMA SetsBegin ==
    ASSUME NEW n \in Nat, n # 0 /\ ProgressAt(n + 1) < ProgressAt(n)
    PROVE  /\ RisingTo(n + 1) = IF ProgressAt(n + 1) > 0 THEN {n + 1} ELSE {}
           /\ CompletesTo(n + 1) = {}
<1>1. BeginTo(n + 1) = n + 1
  BY BeginIsOK, BeginGoes
<1>2. (n + 1) .. (n + 1) = {n + 1} /\ (n + 1) + 1 .. n + 1 = {}
  OBVIOUS
<1> QED
  BY <1>1, <1>2 DEF RisingTo, CompletesTo

(* What a round of the pass does to the span.                              *)
ScanState ==
    [span : [start : Nat, complete : Nat, finish : Nat], prev : Nat,
     done : BOOLEAN, allStart : BOOLEAN]

Scanned(n) ==
    [span |-> SpanTo(n), prev |-> ProgressBefore(n), done |-> FALSE, allStart |-> StartedBy(n)]

LEMMA RoundIsSpan ==
    ASSUME RecorderTypeOK, NEW n \in Nat, n < Len(items)
    PROVE  SpanStep(Scanned(n), items[n + 1]) =
             IF StartedBy(n) /\ IsMcrtAllStop(items[n + 1])
             THEN [Scanned(n) EXCEPT !.span = [SpanTo(n + 1) EXCEPT !.finish = n + 1],
                                     !.done = TRUE]
             ELSE [span |-> SpanTo(n + 1), prev |-> ProgressAt(n + 1), done |-> FALSE,
                   allStart |-> StartedBy(n) \/ IsMcrtAllStart(items[n + 1])]
<1> DEFINE curr == ProgressAt(n + 1)
           before == ProgressBefore(n)
           rising == RisingTo(n)
           complete == CompletesTo(n)
           dropped == before > curr
           prev == IF dropped THEN 0 ELSE before
           span == IF dropped THEN NoSpan ELSE SpanTo(n)
           timed ==
             IF span.start = 0 /\ prev < curr THEN [span EXCEPT !.start = n + 1]
             ELSE IF /\ span.start # 0 /\ span.complete = 0
                     /\ prev < Full /\ Full <= curr
                  THEN [span EXCEPT !.complete = n + 1] ELSE span
<1>1. /\ curr \in Nat /\ items[n + 1].time = n + 1
      /\ Len(items) \in Nat
  BY ProgressAtIsNat DEF RecorderTypeOK
<1>2. before \in Nat
  BY <1>1, ProgressAtIsNat DEF ProgressBefore
<1>3. /\ rising \in SUBSET (1 .. n) /\ complete \in SUBSET (1 .. n)
      /\ rising = {} => before = 0
  BY <1>1, SpanSets, NothingYet
<1>4. dropped <=> n # 0 /\ ProgressAt(n + 1) < ProgressAt(n)
  BY <1>1, <1>2 DEF ProgressBefore
<1>5. timed = SpanTo(n + 1)
  <2>1. CASE dropped
    <3>1. /\ RisingTo(n + 1) = IF curr > 0 THEN {n + 1} ELSE {}
          /\ CompletesTo(n + 1) = {}
      BY <1>4, <2>1, SetsBegin
    <3>2. FirstOf({}) = 0 /\ FirstOf({n + 1}) = n + 1
      <4>1. FirstOf({} \cup {n + 1}) = n + 1
        BY FirstOfGoes
      <4>2. {} \cup {n + 1} = {n + 1}
        OBVIOUS
      <4> QED
        BY <4>1, <4>2 DEF FirstOf
    <3>3. SpanTo(n + 1) = [start |-> IF curr > 0 THEN n + 1 ELSE 0, complete |-> 0, finish |-> 0]
      BY <3>1, <3>2 DEF SpanTo
    <3>4. timed = [start |-> IF curr > 0 THEN n + 1 ELSE 0, complete |-> 0, finish |-> 0]
      <4>1. prev = 0 /\ span = [start |-> 0, complete |-> 0, finish |-> 0]
        BY <2>1 DEF NoSpan
      <4> HIDE DEF prev, span, curr
      <4> QED
        BY <1>1, <4>1
    <3> QED
      BY <3>3, <3>4
  <2>2. CASE ~ dropped
    <3>1. /\ RisingTo(n + 1) = IF curr > 0 THEN rising \cup {n + 1} ELSE rising
          /\ CompletesTo(n + 1) =
               IF rising # {} /\ ProgressAt(n) < Full /\ Full <= curr
               THEN complete \cup {n + 1} ELSE complete
      BY <1>4, <2>2, SetsGoOn
    <3>2. rising # {} => before = ProgressAt(n)
      BY <1>3 DEF ProgressBefore
    <3>3. /\ FirstOf(rising) = 0 <=> rising = {}
          /\ FirstOf(complete) = 0 <=> complete = {}
          /\ FirstOf(rising \cup {n + 1}) = IF rising = {} THEN n + 1 ELSE FirstOf(rising)
          /\ FirstOf(complete \cup {n + 1}) = IF complete = {} THEN n + 1 ELSE FirstOf(complete)
      BY <1>3, FirstOfIs, FirstOfGoes
    <3>4. prev = before
          /\ span = [start |-> FirstOf(rising), complete |-> FirstOf(complete), finish |-> 0]
      BY <2>2 DEF SpanTo
    <3>5. rising = {} => complete = {}
      BY DEF CompletesTo
    <3>6. SpanTo(n + 1) = [start |-> FirstOf(RisingTo(n + 1)),
                           complete |-> FirstOf(CompletesTo(n + 1)), finish |-> 0]
      BY DEF SpanTo
    <3> HIDE DEF prev, span, curr, before, rising, complete
    <3>7. CASE rising = {} /\ before < curr
      <4>1. /\ RisingTo(n + 1) = rising \cup {n + 1}
            /\ CompletesTo(n + 1) = complete
        BY <1>1, <1>2, <3>1, <3>7
      <4>2. SpanTo(n + 1) = [start |-> n + 1, complete |-> FirstOf(complete), finish |-> 0]
        BY <3>3, <3>6, <3>7, <4>1
      <4> QED
        BY <3>3, <3>4, <3>7, <4>2
    <3>8. CASE rising = {} /\ ~ (before < curr)
      <4>1. curr = 0
        BY <1>1, <1>2, <1>3, <3>8
      <4>2. RisingTo(n + 1) = rising /\ CompletesTo(n + 1) = complete
        BY <3>1, <3>8, <4>1
      <4> QED
        BY <3>3, <3>4, <3>6, <3>8, <4>2
    <3>9. CASE rising # {}
      <4>1. FirstOf(RisingTo(n + 1)) = FirstOf(rising)
        BY <3>1, <3>3, <3>9
      <4>2. FirstOf(CompletesTo(n + 1)) =
              IF complete = {} /\ before < Full /\ Full <= curr THEN n + 1 ELSE FirstOf(complete)
        BY <3>1, <3>2, <3>3, <3>9
      <4> QED
        BY <3>3, <3>4, <3>6, <3>9, <4>1, <4>2
    <3> QED
      BY <3>7, <3>8, <3>9
  <2> QED
    BY <2>1, <2>2
<1>6. SpanStep(Scanned(n), items[n + 1]) =
        IF StartedBy(n) /\ IsMcrtAllStop(items[n + 1])
        THEN [Scanned(n) EXCEPT !.span = [timed EXCEPT !.finish = n + 1], !.done = TRUE]
        ELSE [span |-> timed, prev |-> curr, done |-> FALSE,
              allStart |-> StartedBy(n) \/ IsMcrtAllStart(items[n + 1])]
  <2>1. /\ Scanned(n).span = SpanTo(n) /\ Scanned(n).prev = before
        /\ Scanned(n).done = FALSE /\ Scanned(n).allStart = StartedBy(n)
    BY DEF Scanned
  <2>2. GetMcrtSummedProgress(items[n + 1]) = curr
    BY DEF ProgressAt
  <2>3. BeginsAgain(curr, before) <=> dropped
    BY <1>1, <1>2 DEF BeginsAgain
  <2> QED
    BY <1>1, <2>1, <2>2, <2>3 DEF SpanStep
<1> QED
  BY <1>5, <1>6

LEMMA SpanStepType ==
    ASSUME NEW s \in ScanState, NEW item \in RecItem
    PROVE  SpanStep(s, item) \in ScanState
<1> DEFINE curr == GetMcrtSummedProgress(item)
           drop == BeginsAgain(curr, s.prev)
           prev == IF drop THEN 0 ELSE s.prev
           span == IF drop THEN NoSpan ELSE s.span
           timed ==
             CASE span.start = 0 /\ prev < curr -> [span EXCEPT !.start = item.time]
               [] span.start # 0 /\ span.complete = 0 /\ prev < Full /\ Full <= curr ->
                    [span EXCEPT !.complete = item.time]
               [] OTHER -> span
           Span == [start : Nat, complete : Nat, finish : Nat]
<1>1. curr \in Nat /\ item.time \in Nat
  BY SummedProgressIsNat DEF RecItem
<1>2. span \in Span
  BY DEF NoSpan, ScanState
<1>3. timed \in Span /\ [timed EXCEPT !.finish = item.time] \in Span
  <2> HIDE DEF span, prev, curr
  <2> QED
    BY <1>1, <1>2
<1>4. SpanStep(s, item) =
        CASE s.done -> s
          [] ~s.done /\ s.allStart /\ IsMcrtAllStop(item) ->
               [s EXCEPT !.span = [timed EXCEPT !.finish = item.time], !.done = TRUE]
          [] OTHER -> [span |-> timed, prev |-> curr, done |-> FALSE,
                       allStart |-> s.allStart \/ IsMcrtAllStart(item)]
  BY DEF SpanStep
<1> DEFINE ended == [s EXCEPT !.span = [timed EXCEPT !.finish = item.time], !.done = TRUE]
           goesOn == [span |-> timed, prev |-> curr, done |-> FALSE,
                      allStart |-> s.allStart \/ IsMcrtAllStart(item)]
<1>5. ended \in ScanState
  <2> HIDE DEF timed
  <2> QED
    BY <1>3 DEF ScanState
<1>6. goesOn \in ScanState
  <2> HIDE DEF timed, curr
  <2> QED
    BY <1>1, <1>3 DEF ScanState
<1>7. SpanStep(s, item) \in {s, ended, goesOn}
  <2> HIDE DEF timed, curr
  <2> QED
    BY <1>4
<1> HIDE DEF ended, goesOn
<1> QED
  BY <1>5, <1>6, <1>7

FirstScan == [span |-> NoSpan, prev |-> 0, allStart |-> FALSE, done |-> FALSE]
IsScan(f) ==
    /\ f \in [0 .. Len(items) -> ScanState]
    /\ f[0] = FirstScan
    /\ \A n \in 1 .. Len(items) : f[n] = SpanStep(f[n - 1], items[n])
    /\ CalcRenderSpan(items) = f[Len(items)].span

LEMMA ScanRuns ==
    ASSUME RecorderTypeOK
    PROVE  \E f : IsScan(f)
<1> DEFINE L == Len(items)
           step == [p \in ScanState \X (1 .. L) |-> SpanStep(p[1], items[p[2]])]
           Run(f) == f = [n \in 0 .. L |->
                            IF n = 0 THEN FirstScan ELSE SpanStep(f[n - 1], items[n])]
           After == CHOOSE f : Run(f)
<1>1. L \in Nat /\ \A n \in 1 .. L : items[n] \in RecItem
  BY ItemsAre DEF RecorderTypeOK
<1>2. step \in [ScanState \X (1 .. L) -> ScanState]
  BY <1>1, SpanStepType
<1>3. FirstScan \in ScanState
  BY DEF FirstScan, ScanState, NoSpan
<1> HIDE DEF step
<1>4. PICK g : IsRun(g, ScanState, FirstScan, step, L)
  BY <1>1, <1>2, <1>3, LoopRuns
<1>5. /\ g \in [0 .. L -> ScanState]
      /\ g[0] = FirstScan
      /\ \A n \in 1 .. L : g[n] = SpanStep(g[n - 1], items[n])
  <2>1. g \in [0 .. L -> ScanState] /\ g[0] = FirstScan
    BY <1>4 DEF IsRun
  <2>2. ASSUME NEW n \in 1 .. L PROVE g[n] = SpanStep(g[n - 1], items[n])
    <3>1. g[n] = step[<<g[n - 1], n>>]
      BY <1>4 DEF IsRun
    <3>2. n - 1 \in 0 .. L
      BY <1>1
    <3>3. <<g[n - 1], n>> \in ScanState \X (1 .. L)
      BY <2>1, <3>2
    <3> QED
      BY <3>1, <3>3 DEF step
  <2> QED
    BY <2>1, <2>2
<1>6. Run(g)
  <2>1. g = [n \in 0 .. L |-> g[n]]
    BY <1>5
  <2>2. \A n \in 0 .. L : g[n] = IF n = 0 THEN FirstScan ELSE SpanStep(g[n - 1], items[n])
    BY <1>1, <1>5
  <2> QED
    BY <2>1, <2>2
<1>7. Run(After)
  BY <1>6
<1>8. CalcRenderSpan(items) = After[L].span
  BY DEF CalcRenderSpan, FirstScan
<1> HIDE DEF After
<1>9. \A n \in 0 .. L : After[n] = IF n = 0 THEN FirstScan ELSE SpanStep(After[n - 1], items[n])
  BY <1>7
<1>10. \A n \in 0 .. L : After[n] = g[n]
  <2>1. After[0] = g[0]
    BY <1>1, <1>5, <1>9
  <2>2. ASSUME NEW n \in 1 .. L, After[n - 1] = g[n - 1] PROVE After[n] = g[n]
    BY <1>1, <1>5, <1>9, <2>2
  <2>3. InStep(After, g, L)
    BY <1>1, <2>1, <2>2 DEF InStep
  <2> QED
    BY <2>3, LoopsAgree
<1>11. CalcRenderSpan(items) = g[L].span
  BY <1>1, <1>8, <1>10
<1> QED
  BY <1>5, <1>11 DEF IsScan

(* The pass ends at the first item that ends the record.                   *)
EndedAt(e) == [SpanTo(e) EXCEPT !.finish = e]
ScanIs(n, s) ==
    IF EndsTo(n) = {} THEN s = Scanned(n)
    ELSE s.done /\ s.span = EndedAt(FirstOf(EndsTo(n)))

LEMMA EndsGo ==
    ASSUME NEW n \in Nat
    PROVE  EndsTo(n + 1) = IF IsMcrtAllStop(items[n + 1]) /\ StartedBy(n)
                           THEN EndsTo(n) \cup {n + 1} ELSE EndsTo(n)
<1>1. ASSUME NEW i PROVE i \in 1 .. n + 1 <=> i \in 1 .. n \/ i = n + 1
  OBVIOUS
<1>2. (n + 1) - 1 = n
  OBVIOUS
<1>3. ASSUME NEW i
      PROVE  i \in EndsTo(n + 1) <=>
               i \in EndsTo(n) \/ (i = n + 1 /\ IsMcrtAllStop(items[n + 1]) /\ StartedBy(n))
  BY <1>1, <1>2 DEF EndsTo
<1> QED
  BY <1>3

LEMMA StartedGoes ==
    ASSUME NEW n \in Nat
    PROVE  StartedBy(n + 1) <=> StartedBy(n) \/ IsMcrtAllStart(items[n + 1])
<1>1. ASSUME NEW i PROVE i \in 1 .. n + 1 <=> i \in 1 .. n \/ i = n + 1
  OBVIOUS
<1> QED
  BY <1>1 DEF StartedBy

LEMMA ScanGoes ==
    ASSUME RecorderTypeOK, NEW n \in Nat, n < Len(items), NEW s, ScanIs(n, s)
    PROVE  ScanIs(n + 1, SpanStep(s, items[n + 1]))
<1> DEFINE item == items[n + 1]
           after == SpanStep(s, item)
           ends == StartedBy(n) /\ IsMcrtAllStop(item)
<1>1. EndsTo(n) \in SUBSET (1 .. n)
  BY SpanSets
<1>2. EndsTo(n + 1) = IF ends THEN EndsTo(n) \cup {n + 1} ELSE EndsTo(n)
  BY EndsGo
<1>3. CASE EndsTo(n) # {}
  <2>1. EndsTo(n + 1) # {} /\ FirstOf(EndsTo(n + 1)) = FirstOf(EndsTo(n))
    BY <1>1, <1>2, <1>3, FirstOfGoes
  <2>2. s.done /\ s.span = EndedAt(FirstOf(EndsTo(n)))
    BY <1>3 DEF ScanIs
  <2>3. after = s
    BY <2>2 DEF SpanStep
  <2> QED
    BY <2>1, <2>2, <2>3 DEF ScanIs
<1>4. CASE EndsTo(n) = {} /\ ends
  <2>1. s = Scanned(n)
    BY <1>4 DEF ScanIs
  <2>2. after = [Scanned(n) EXCEPT !.span = [SpanTo(n + 1) EXCEPT !.finish = n + 1],
                                   !.done = TRUE]
    BY <1>4, <2>1, RoundIsSpan
  <2>3. after.done /\ after.span = EndedAt(n + 1)
    BY <2>2 DEF Scanned, EndedAt
  <2>4. EndsTo(n + 1) # {} /\ FirstOf(EndsTo(n + 1)) = n + 1
    BY <1>1, <1>2, <1>4, FirstOfGoes
  <2> QED
    BY <2>3, <2>4 DEF ScanIs
<1>5. CASE EndsTo(n) = {} /\ ~ ends
  <2>1. s = Scanned(n)
    BY <1>5 DEF ScanIs
  <2>2. after = [span |-> SpanTo(n + 1), prev |-> ProgressAt(n + 1), done |-> FALSE,
                 allStart |-> StartedBy(n) \/ IsMcrtAllStart(item)]
    BY <1>5, <2>1, RoundIsSpan
  <2>3. ProgressBefore(n + 1) = ProgressAt(n + 1)
    BY DEF ProgressBefore
  <2>4. StartedBy(n + 1) = (StartedBy(n) \/ IsMcrtAllStart(item))
    BY StartedGoes DEF StartedBy
  <2>5. after = Scanned(n + 1)
    BY <2>2, <2>3, <2>4 DEF Scanned
  <2> QED
    BY <1>2, <1>5, <2>5 DEF ScanIs
<1> QED
  BY <1>3, <1>4, <1>5

LEMMA ScanFirst == ScanIs(0, FirstScan)
<1>1. EndsTo(0) = {} /\ ~ StartedBy(0) /\ RisingTo(0) = {} /\ CompletesTo(0) = {}
  BY SpanSets DEF StartedBy
<1>2. StartedBy(0) = FALSE
  BY <1>1 DEF StartedBy
<1> QED
  BY <1>1, <1>2
     DEF ScanIs, Scanned, FirstScan, SpanTo, NoSpan, FirstOf, ProgressBefore

(* How far the pass goes, and what it finds.                               *)
LastScanned == IF EndsTo(Len(items)) = {} THEN Len(items) ELSE FirstOf(EndsTo(Len(items)))

LEMMA SpanIs ==
    ASSUME RecorderTypeOK
    PROVE  CalcRenderSpan(items) = [SpanTo(LastScanned) EXCEPT !.finish = FirstOf(EndsTo(Len(items)))]
<1> DEFINE L == Len(items)
           T(f) == {n \in Nat : n <= L => ScanIs(n, f[n])}
<1>1. L \in Nat
  BY DEF RecorderTypeOK
<1>2. PICK f : IsScan(f)
  BY ScanRuns
<1>3. 0 \in T(f)
  BY <1>2, ScanFirst DEF IsScan
<1>4. ASSUME NEW n \in Nat, n \in T(f) PROVE n + 1 \in T(f)
  <2> SUFFICES ASSUME n + 1 <= L PROVE ScanIs(n + 1, f[n + 1])
    OBVIOUS
  <2>1. n + 1 \in 1 .. L /\ (n + 1) - 1 = n /\ n < L
    BY <1>1
  <2>2. f[n + 1] = SpanStep(f[n], items[n + 1])
    BY <1>2, <2>1 DEF IsScan
  <2>3. ScanIs(n, f[n])
    BY <1>4, <2>1
  <2> QED
    BY <2>1, <2>2, <2>3, ScanGoes
<1>5. L \in T(f)
  <2> HIDE DEF T
  <2> QED
    BY <1>1, <1>3, <1>4, NatSetInduction
<1>6. ScanIs(L, f[L]) /\ CalcRenderSpan(items) = f[L].span
  BY <1>1, <1>2, <1>5 DEF IsScan
<1>7. CASE EndsTo(L) = {}
  <2>1. f[L].span = SpanTo(L) /\ LastScanned = L /\ FirstOf(EndsTo(L)) = 0
    BY <1>6, <1>7 DEF ScanIs, Scanned, LastScanned, FirstOf
  <2>2. SpanTo(L) = [SpanTo(L) EXCEPT !.finish = 0]
    BY DEF SpanTo
  <2> QED
    BY <1>6, <2>1, <2>2
<1>8. CASE EndsTo(L) # {}
  BY <1>6, <1>8 DEF ScanIs, EndedAt, LastScanned
<1> QED
  BY <1>7, <1>8

LEMMA LastScannedIs ==
    ASSUME RecorderTypeOK
    PROVE  LastScanned \in 0 .. Len(items) /\ Len(items) \in Nat
<1>1. Len(items) \in Nat
  BY DEF RecorderTypeOK
<1>2. EndsTo(Len(items)) \in SUBSET (1 .. Len(items))
  BY <1>1, SpanSets
<1>3. EndsTo(Len(items)) # {} => FirstOf(EndsTo(Len(items))) \in 1 .. Len(items)
  BY <1>1, <1>2, FirstOfIs
<1> QED
  BY <1>1, <1>3 DEF LastScanned

(* The reference says the same of the items.                               *)
LEMMA TimeOfFirst ==
    ASSUME RecorderTypeOK, NEW S \in SUBSET (1 .. Len(items))
    PROVE  (IF S = {} THEN 0 ELSE items[Min(S)].time) = FirstOf(S)
<1>1. Len(items) \in Nat
  BY DEF RecorderTypeOK
<1>2. CASE S = {}
  BY <1>2 DEF FirstOf
<1>3. CASE S # {}
  <2>1. FirstOf(S) \in S /\ FirstOf(S) = Min(S)
    BY <1>1, <1>3, FirstOfIs DEF FirstOf
  <2>2. Min(S) \in 1 .. Len(items)
    BY <2>1
  <2> QED
    BY <1>3, <2>1, <2>2, ProgressAtIsNat
<1> QED
  BY <1>2, <1>3

LEMMA ReferenceIs ==
    ASSUME RecorderTypeOK
    PROVE  SpanReference = [SpanTo(LastScanned) EXCEPT !.finish = FirstOf(EndsTo(Len(items)))]
<1> DEFINE L == Len(items)
           last == LastScanned
           at(S) == IF S = {} THEN 0 ELSE items[Min(S)].time
<1>1. last \in 0 .. L /\ L \in Nat
  BY LastScannedIs
<1>2. /\ RisingTo(last) \in SUBSET (1 .. L) /\ CompletesTo(last) \in SUBSET (1 .. L)
      /\ EndsTo(L) \in SUBSET (1 .. L)
  <2>1. /\ RisingTo(last) \in SUBSET (1 .. last) /\ CompletesTo(last) \in SUBSET (1 .. last)
        /\ EndsTo(L) \in SUBSET (1 .. L)
    BY <1>1, SpanSets
  <2>2. 1 .. last \subseteq 1 .. L
    BY <1>1
  <2> QED
    BY <2>1, <2>2
<1>3. SpanReference = [start |-> at(RisingTo(last)), complete |-> at(CompletesTo(last)),
                       finish |-> at(EndsTo(L))]
  BY DEF SpanReference, RisingTo, CompletesTo, EndsTo, BeginTo, DropsTo, ProgressAt,
         LastScanned, StartedBy, FirstOf
<1>4. /\ at(RisingTo(last)) = FirstOf(RisingTo(last))
      /\ at(CompletesTo(last)) = FirstOf(CompletesTo(last))
      /\ at(EndsTo(L)) = FirstOf(EndsTo(L))
  BY <1>2, TimeOfFirst
<1> QED
  BY <1>3, <1>4 DEF SpanTo

(* The items between start and completion.                                 *)
LEMMA RenderingRises ==
    ASSUME RecorderTypeOK,
           NEW rendering, rendering = RenderItems(items, CalcRenderSpan(items))
    PROVE  /\ rendering # {} => \E i \in rendering : ProgressAt(i) >= Full
           /\ \A i \in rendering :
                /\ ProgressAt(i) > 0
                /\ \A j \in rendering : i <= j => ProgressAt(i) <= ProgressAt(j)
<1> DEFINE L == Len(items)
           n == LastScanned
           a == FirstOf(RisingTo(n))
           c == FirstOf(CompletesTo(n))
<1>1. n \in 0 .. L /\ L \in Nat /\ BeginOK(n)
  BY LastScannedIs, BeginIsOK
<1>2. RisingTo(n) \in SUBSET (1 .. n) /\ CompletesTo(n) \in SUBSET (1 .. n)
  BY <1>1, SpanSets
<1>3. CalcRenderSpan(items).start = a /\ CalcRenderSpan(items).complete = c
  BY SpanIs DEF SpanTo
<1>4. DOMAIN items = 1 .. L
  BY DEF RecorderTypeOK
<1>5. rendering = {i \in 1 .. L : a # 0 /\ c # 0 /\ a <= i /\ i <= c}
  BY <1>3, <1>4, ProgressAtIsNat DEF RenderItems
<1> HIDE DEF L, n, a, c
<1> SUFFICES ASSUME a # 0, c # 0
             PROVE  /\ \E i \in rendering : ProgressAt(i) >= Full
                    /\ \A i \in rendering :
                         /\ ProgressAt(i) > 0
                         /\ \A j \in rendering : i <= j => ProgressAt(i) <= ProgressAt(j)
  BY <1>5
<1>6. /\ a \in RisingTo(n) /\ \A y \in RisingTo(n) : a <= y
      /\ c \in CompletesTo(n)
  <2>1. n \in Nat
    BY <1>1
  <2>2. RisingTo(n) # {} /\ CompletesTo(n) # {}
    BY <1>2, <2>1, FirstOfIs DEF a, c
  <2> QED
    BY <1>2, <2>1, <2>2, FirstOfIs DEF a, c
<1>7. n \in 1 .. L /\ c \in 1 .. n /\ a \in 1 .. n
  BY <1>1, <1>2, <1>6
<1>8. /\ a \in BeginTo(n) .. n /\ ProgressAt(a) > 0 /\ Full <= ProgressAt(c)
      /\ a <= c
  <2>1. a \in BeginTo(n) .. n /\ ProgressAt(a) > 0
    BY <1>6 DEF RisingTo
  <2>2. /\ Full <= ProgressAt(c)
        /\ \E j \in RisingTo(n) : j < c
    BY <1>6 DEF CompletesTo
  <2>3. PICK j \in RisingTo(n) : j < c
    BY <2>2
  <2>4. j \in 1 .. n /\ a <= j
    BY <1>2, <1>6, <2>3
  <2> QED
    BY <1>7, <2>1, <2>2, <2>3, <2>4
<1>9. ASSUME NEW i \in rendering PROVE i \in a .. n /\ i \in BeginTo(n) .. n /\ i \in 1 .. L
  BY <1>1, <1>5, <1>7, <1>8 DEF BeginOK
<1>10. ASSUME NEW i \in rendering, NEW j \in rendering, i <= j
       PROVE  ProgressAt(i) <= ProgressAt(j)
  <2>1. j \in i .. n
    BY <1>7, <1>9, <1>10
  <2> QED
    BY <1>7, <1>9, <2>1, RisesFromBegin DEF L
<1>11. ASSUME NEW i \in rendering PROVE ProgressAt(i) > 0
  <2>1. ProgressAt(a) <= ProgressAt(i)
    BY <1>7, <1>8, <1>9, RisesFromBegin DEF L
  <2>2. ProgressAt(a) \in Nat /\ ProgressAt(i) \in Nat
    BY <1>1, <1>7, <1>9, ProgressAtIsNat DEF L
  <2> QED
    BY <1>8, <2>1, <2>2
<1>12. c \in rendering /\ ProgressAt(c) >= Full
  <2>1. ProgressAt(c) \in Nat /\ c \in 1 .. L
    BY <1>1, <1>7, ProgressAtIsNat DEF L
  <2> QED
    BY <1>5, <1>7, <1>8, <2>1, FullAssumption
<1> QED
  BY <1>10, <1>11, <1>12

(* The span that is computed from a record (InfoRecMaster::calcRenderSpan) *)
(* is that of its last rendering before the end, and the items that its    *)
(* statistics are taken of are of that one: for records of any length, any *)
(* machines and any progress.                                              *)
THEOREM SpanIsAlwaysOneRendering == SessionSpec => []SpanIsOneRendering
<1>1. RecorderTypeOK => SpanIsOneRendering
  <2> SUFFICES ASSUME RecorderTypeOK PROVE SpanIsOneRendering
    OBVIOUS
  <2> DEFINE rendering == RenderItems(items, CalcRenderSpan(items))
  <2>1. CalcRenderSpan(items) = SpanReference
    BY SpanIs, ReferenceIs
  <2>2. /\ rendering # {} => \E i \in rendering : ProgressAt(i) >= Full
        /\ \A i \in rendering :
             /\ ProgressAt(i) > 0
             /\ \A j \in rendering : i <= j => ProgressAt(i) <= ProgressAt(j)
    BY RenderingRises
  <2> HIDE DEF rendering
  <2>3. SpanIsOneRendering <=>
          /\ CalcRenderSpan(items) = SpanReference
          /\ rendering # {} => \E i \in rendering : ProgressAt(i) >= Full
          /\ \A i \in rendering :
               /\ ProgressAt(i) > 0
               /\ \A j \in rendering : i <= j => ProgressAt(i) <= ProgressAt(j)
    BY DEF SpanIsOneRendering, ProgressAt, rendering
  <2> QED
    BY <2>1, <2>2, <2>3
<1>2. RecorderInv => RecorderTypeOK
  BY DEF RecorderInv
<1> QED
  BY <1>1, <1>2, RecorderInvariant, PTL

===============================================================================
