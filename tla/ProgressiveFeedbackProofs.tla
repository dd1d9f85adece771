----------------------- MODULE ProgressiveFeedbackProofs -----------------------
(***************************************************************************)
(* ProgressiveFeedback: the records lead every machine to what the merge   *)
(* computation has of its rendering.                                       *)
(*                                                                         *)
(* The inductive invariant adds to what FbMsgMultiFramesProofs shows of    *)
(* frame and image what the records are made from: the ids that the        *)
(* frame keeps of each machine are, as far as they are of its present      *)
(* rendering, those of the messages in its queue; the tracker of a machine *)
(* that has not been heard on the frame is empty; and what is on its way   *)
(* to a machine is of no newer syncId than the one that it renders.        *)
(***************************************************************************)
EXTENDS ProgressiveFeedback, FbMsgMultiFramesProofs

-------------------------------------------------------------------------------
(* Records on their way to a machine that has come to syncId.              *)
Records == [syncId : Int, data : Seq(Codes)]
RecordsUpTo(syncId) == {record \in Records : record.syncId <= syncId}

LEMMA TakenType ==
    ASSUME NEW copy \in Copies(Tile), NEW syncId, NEW record \in Records
    PROVE  Taken(copy, syncId, record) \in Copies(Tile)
BY DecodeLoopType DEF Taken, Replay, Records

(* The loop of TakenAll, as a function of the number of records taken.     *)
IsTakenRun(f, copy, syncId, records) ==
    /\ f \in [0 .. Len(records) -> Copies(Tile)]
    /\ f[0] = copy
    /\ \A n \in 1 .. Len(records) : f[n] = Taken(f[n - 1], syncId, records[n])
    /\ TakenAll(copy, syncId, records) = f[Len(records)]

LEMMA TakenAllRuns ==
    ASSUME NEW copy \in Copies(Tile), NEW syncId, NEW records \in Seq(Records)
    PROVE  \E f : IsTakenRun(f, copy, syncId, records)
<1> DEFINE L == Len(records)
           X == Copies(Tile)
           step == [p \in X \X (1 .. L) |-> Taken(p[1], syncId, records[p[2]])]
           Run(f) == f = [n \in 0 .. L |->
                            IF n = 0 THEN copy ELSE Taken(f[n - 1], syncId, records[n])]
           After == CHOOSE f : Run(f)
<1>1. L \in Nat /\ \A n \in 1 .. L : records[n] \in Records
  BY LenProperties, ElementOfSeq
<1>2. step \in [X \X (1 .. L) -> X]
  BY <1>1, TakenType
<1>3. copy \in X
  OBVIOUS
<1> HIDE DEF step, X
<1>4. PICK g : IsRun(g, X, copy, step, L)
  BY <1>1, <1>2, <1>3, LoopRuns
<1>5. g \in [0 .. L -> X] /\ g[0] = copy
  BY <1>4 DEF IsRun
<1>6. ASSUME NEW n \in 1 .. L PROVE g[n] = Taken(g[n - 1], syncId, records[n])
  <2>1. g[n] = step[<<g[n - 1], n>>]
    BY <1>4 DEF IsRun
  <2>2. n - 1 \in 0 .. L
    BY <1>1
  <2>3. <<g[n - 1], n>> \in X \X (1 .. L)
    BY <1>5, <2>2
  <2> QED
    BY <2>1, <2>3 DEF step
<1>7. Run(g)
  <2>1. g = [n \in 0 .. L |-> g[n]]
    BY <1>5
  <2>2. \A n \in 0 .. L :
          g[n] = IF n = 0 THEN copy ELSE Taken(g[n - 1], syncId, records[n])
    BY <1>1, <1>5, <1>6
  <2> QED
    BY <2>1, <2>2
<1>8. Run(After)
  BY <1>7
<1>9. TakenAll(copy, syncId, records) = After[L]
  BY DEF TakenAll
<1> HIDE DEF After
<1>10. \A n \in 0 .. L :
         After[n] = IF n = 0 THEN copy ELSE Taken(After[n - 1], syncId, records[n])
  BY <1>8
<1>11. \A n \in 0 .. L : After[n] = g[n]
  <2>1. After[0] = g[0] /\ L \in Nat
    BY <1>1, <1>5, <1>10
  <2>2. ASSUME NEW n \in 1 .. L, After[n - 1] = g[n - 1] PROVE After[n] = g[n]
    <3>1. n \in 0 .. L /\ n # 0
      BY <1>1
    <3>2. After[n] = Taken(After[n - 1], syncId, records[n])
      BY <1>10, <3>1
    <3> QED
      BY <1>6, <2>2, <3>2
  <2>3. InStep(After, g, L)
    BY <2>1, <2>2 DEF InStep
  <2> QED
    BY <2>3, LoopsAgree
<1>12. IsTakenRun(g, copy, syncId, records)
  BY <1>1, <1>5, <1>6, <1>9, <1>11 DEF IsTakenRun, X
<1> QED
  BY <1>12

LEMMA TakenAllType ==
    ASSUME NEW copy \in Copies(Tile), NEW syncId, NEW records \in Seq(Records)
    PROVE  TakenAll(copy, syncId, records) \in Copies(Tile)
<1>1. PICK f : IsTakenRun(f, copy, syncId, records)
  BY TakenAllRuns
<1>2. Len(records) \in 0 .. Len(records)
  BY LenProperties
<1> QED
  BY <1>1, <1>2 DEF IsTakenRun

(* One more record is taken last.                                          *)
LEMMA TakenAllAppend ==
    ASSUME NEW copy \in Copies(Tile), NEW syncId, NEW records \in Seq(Records),
           NEW record \in Records
    PROVE  TakenAll(copy, syncId, Append(records, record))
             = Taken(TakenAll(copy, syncId, records), syncId, record)
<1> DEFINE L == Len(records)
           longer == Append(records, record)
<1>1. /\ longer \in Seq(Records) /\ Len(longer) = L + 1 /\ longer[L + 1] = record
      /\ \A n \in 1 .. L : longer[n] = records[n]
      /\ L \in Nat
  BY AppendProperties, LenProperties
<1> HIDE DEF longer
<1>2. PICK f : IsTakenRun(f, copy, syncId, records)
  BY TakenAllRuns
<1>3. PICK g : IsTakenRun(g, copy, syncId, longer)
  BY <1>1, TakenAllRuns
<1>4. /\ f[0] = copy /\ g[0] = copy
      /\ \A n \in 1 .. L : f[n] = Taken(f[n - 1], syncId, records[n])
      /\ \A n \in 1 .. L + 1 : g[n] = Taken(g[n - 1], syncId, longer[n])
      /\ TakenAll(copy, syncId, records) = f[L]
      /\ TakenAll(copy, syncId, longer) = g[L + 1]
  BY <1>1, <1>2, <1>3 DEF IsTakenRun
<1>5. \A n \in 0 .. L : f[n] = g[n]
  <2>1. ASSUME NEW n \in 1 .. L, f[n - 1] = g[n - 1] PROVE f[n] = g[n]
    <3>1. n \in 1 .. L + 1 /\ longer[n] = records[n]
      BY <1>1
    <3> QED
      BY <1>4, <2>1, <3>1
  <2>2. f[0] = g[0] /\ L \in Nat
    BY <1>1, <1>4
  <2>3. InStep(f, g, L)
    BY <2>1, <2>2 DEF InStep
  <2> QED
    BY <2>3, LoopsAgree
<1>6. g[L + 1] = Taken(g[L], syncId, record) /\ g[L] = f[L]
  <2>1. L + 1 \in 1 .. L + 1 /\ (L + 1) - 1 = L /\ L \in 0 .. L
    BY <1>1
  <2> QED
    BY <1>1, <1>4, <1>5, <2>1
<1> QED
  BY <1>4, <1>6 DEF longer

(* The first record is taken first.                                        *)
LEMMA TakenAllTail ==
    ASSUME NEW copy \in Copies(Tile), NEW syncId, NEW records \in Seq(Records),
           records # <<>>
    PROVE  TakenAll(Taken(copy, syncId, Head(records)), syncId, Tail(records))
             = TakenAll(copy, syncId, records)
<1> DEFINE L == Len(records)
           first == Taken(copy, syncId, Head(records))
           rest == Tail(records)
<1>1. /\ rest \in Seq(Records) /\ Len(rest) = L - 1
      /\ \A n \in 1 .. L - 1 : rest[n] = records[n + 1]
      /\ L \in Nat /\ L >= 1
      /\ Head(records) = records[1] /\ records[1] \in Records
  BY HeadTailProperties, LenProperties, EmptySeq, ElementOfSeq
<1>2. first \in Copies(Tile)
  BY <1>1, TakenType
<1> HIDE DEF rest
<1>3. PICK f : IsTakenRun(f, copy, syncId, records)
  BY TakenAllRuns
<1>4. /\ f[0] = copy
      /\ \A n \in 1 .. L : f[n] = Taken(f[n - 1], syncId, records[n])
      /\ TakenAll(copy, syncId, records) = f[L]
  BY <1>3 DEF IsTakenRun
<1>5. f[1] = first
  <2>1. 1 \in 1 .. L /\ 1 - 1 = 0
    BY <1>1
  <2> QED
    BY <1>1, <1>4, <2>1
<1> HIDE DEF first
<1>6. PICK g : IsTakenRun(g, first, syncId, rest)
  BY <1>1, <1>2, TakenAllRuns
<1>7. /\ g[0] = first
      /\ \A n \in 1 .. L - 1 : g[n] = Taken(g[n - 1], syncId, rest[n])
      /\ TakenAll(first, syncId, rest) = g[L - 1]
  BY <1>1, <1>6 DEF IsTakenRun
<1> DEFINE h == [n \in 0 .. L - 1 |-> f[n + 1]]
           K == L - 1
<1>8. \A n \in 0 .. K : h[n] = g[n]
  <2>1. ASSUME NEW n \in 1 .. K, h[n - 1] = g[n - 1] PROVE h[n] = g[n]
    <3>1. /\ n - 1 \in 0 .. L - 1 /\ n \in 0 .. L - 1 /\ n + 1 \in 1 .. L
          /\ (n - 1) + 1 = n /\ (n + 1) - 1 = n /\ n \in 1 .. L - 1
      BY <1>1
    <3>2. h[n - 1] = f[n] /\ h[n] = f[n + 1]
      BY <3>1
    <3>3. f[n + 1] = Taken(f[n], syncId, records[n + 1])
      BY <1>4, <3>1
    <3>4. g[n] = Taken(g[n - 1], syncId, records[n + 1])
      BY <1>1, <1>7, <3>1
    <3> HIDE DEF h
    <3> QED
      BY <2>1, <3>2, <3>3, <3>4
  <2>2. h[0] = g[0] /\ K \in Nat
    BY <1>1, <1>5, <1>7
  <2>3. InStep(h, g, K)
    BY <2>1, <2>2 DEF InStep
  <2> QED
    BY <2>3, LoopsAgree
<1>9. g[L - 1] = f[L]
  <2>1. L - 1 \in 0 .. L - 1 /\ (L - 1) + 1 = L
    BY <1>1
  <2> QED
    BY <1>8, <2>1
<1> QED
  BY <1>4, <1>7, <1>9 DEF first, rest

(* No record of an older syncId is taken.                                  *)
LEMMA OlderAreNotTaken ==
    ASSUME NEW copy \in Copies(Tile), NEW syncId \in Int, NEW older \in Int,
           older < syncId, NEW records \in Seq(RecordsUpTo(older))
    PROVE  TakenAll(copy, syncId, records) = copy
<1> DEFINE L == Len(records)
<1>1. L \in Nat /\ \A n \in 1 .. L : records[n] \in RecordsUpTo(older)
  BY LenProperties, ElementOfSeq
<1>2. records \in Seq(Records)
  BY SeqMonotonic DEF RecordsUpTo
<1>3. PICK f : IsTakenRun(f, copy, syncId, records)
  BY <1>2, TakenAllRuns
<1>4. /\ f[0] = copy
      /\ \A n \in 1 .. L : f[n] = Taken(f[n - 1], syncId, records[n])
      /\ TakenAll(copy, syncId, records) = f[L]
  BY <1>3 DEF IsTakenRun
<1>5. \A n \in 1 .. L : f[n] = f[n - 1]
  <2>1. ASSUME NEW n \in 1 .. L PROVE records[n].syncId # syncId
    BY <1>1 DEF RecordsUpTo, Records
  <2> QED
    BY <1>4, <2>1 DEF Taken
<1> DEFINE g == [n \in 0 .. L |-> copy]
<1>6. \A n \in 0 .. L : f[n] = g[n]
  <2>1. ASSUME NEW n \in 1 .. L, f[n - 1] = g[n - 1] PROVE f[n] = g[n]
    <3>1. n \in 0 .. L /\ n - 1 \in 0 .. L
      BY <1>1
    <3>2. g[n] = copy /\ g[n - 1] = copy
      BY <3>1
    <3> HIDE DEF g
    <3> QED
      BY <1>5, <2>1, <3>2
  <2>2. f[0] = g[0] /\ L \in Nat
    BY <1>1, <1>4
  <2>3. InStep(f, g, L)
    BY <2>1, <2>2 DEF InStep
  <2> QED
    BY <2>3, LoopsAgree
<1> QED
  BY <1>1, <1>4, <1>6

-------------------------------------------------------------------------------
(* Trackers.  What is appended to a tracker's record does to the copy that *)
(* replays it what the operation did.                                      *)
IsTracker(tracker) ==
    DOMAIN tracker = DOMAIN EmptyTracker /\ tracker.data \in Seq(Codes)

Elements(s) == {s[i] : i \in 1 .. Len(s)}

LEMMA ReplayAfterDecode ==
    ASSUME NEW tracker, IsTracker(tracker), NEW copy \in Copies(Tile),
           NEW ids \in Seq(Int), ids # <<>>
    PROVE  LET next == TrackDecode(tracker, ids)
           IN  /\ IsTracker(next)
               /\ Replay(copy, next.data) =
                    DecodeMessages(Replay(copy, tracker.data), Elements(ids))
<1> DEFINE next == TrackDecode(tracker, ids)
           codes == DecodeCodes(ids)
           now == Replay(copy, tracker.data)
<1>1. DOMAIN next = DOMAIN EmptyTracker /\ next.data = tracker.data \o codes
  BY DEF TrackDecode, IsTracker, EmptyTracker
<1>2. now \in Copies(Tile)
  BY DecodeLoopType DEF IsTracker, Replay
<1>3. codes \in Seq(Codes) /\ DecodeLoop(now, codes) = DecodeMessages(now, Elements(ids))
  BY <1>2, TrackedDecode DEF Elements
<1> HIDE DEF next, codes
<1>4. DecodeLoop(copy, tracker.data \o codes) = DecodeLoop(DecodeLoop(copy, tracker.data), codes)
  BY <1>3, DecodeLoopConcat DEF IsTracker
<1>5. tracker.data \o codes \in Seq(Codes)
  BY <1>3, ConcatProperties DEF IsTracker
<1> QED
  BY <1>1, <1>3, <1>4, <1>5 DEF IsTracker, Replay, next

LEMMA ReplayAfterMergeFull ==
    ASSUME NEW tracker, IsTracker(tracker), NEW copy \in Copies(Tile)
    PROVE  LET next == TrackMergeFull(tracker)
           IN  /\ IsTracker(next)
               /\ Replay(copy, next.data) = MergeTiles(Replay(copy, tracker.data), Tile)
<1> DEFINE next == TrackMergeFull(tracker)
           code == [key |-> "MERGE_ALL_TILES"]
           now == Replay(copy, tracker.data)
<1>1. DOMAIN next = DOMAIN EmptyTracker /\ next.data = Append(tracker.data, code)
  BY DEF TrackMergeFull, IsTracker, EmptyTracker
<1>2. now \in Copies(Tile)
  BY DecodeLoopType DEF IsTracker, Replay
<1>3. code \in Codes /\ ApplyCode(now, code) = MergeTiles(now, Tile)
  BY <1>2, TrackedMergeFull
<1> HIDE DEF next, code
<1>4. DecodeLoop(copy, Append(tracker.data, code)) = ApplyCode(DecodeLoop(copy, tracker.data), code)
  BY <1>3, DecodeLoopAppend DEF IsTracker
<1>5. Append(tracker.data, code) \in Seq(Codes)
  BY <1>3, AppendProperties DEF IsTracker
<1> QED
  BY <1>1, <1>3, <1>4, <1>5 DEF IsTracker, Replay, next

LEMMA ReplayAfterMergePartial ==
    ASSUME NEW tracker, IsTracker(tracker), NEW copy \in Copies(Tile), NEW tiles \in SUBSET Tile
    PROVE  LET next == TrackMergePartial(tracker, tiles)
           IN  /\ IsTracker(next)
               /\ Replay(copy, next.data) = MergeTiles(Replay(copy, tracker.data), tiles)
<1> DEFINE next == TrackMergePartial(tracker, tiles)
           codes == Coded("MERGE_TILE", Ranges(Upwards(tiles)))
           now == Replay(copy, tracker.data)
<1>1. DOMAIN next = DOMAIN EmptyTracker /\ next.data = tracker.data \o codes
  BY DEF TrackMergePartial, IsTracker, EmptyTracker, Coded
<1>2. now \in Copies(Tile)
  BY DecodeLoopType DEF IsTracker, Replay
<1>3. tiles \in SUBSET Int /\ IsFiniteSet(tiles)
  <2>1. Tile \subseteq Int /\ IsFiniteSet(Tile)
    BY TotalTilesAssumption, FS_Interval DEF Tile, TileIds
  <2> QED
    BY <2>1, FS_Subset
<1>4. codes \in Seq(Codes) /\ DecodeLoop(now, codes) = MergeTiles(now, tiles)
  BY <1>2, <1>3, TrackedMergePartial
<1> HIDE DEF next, codes
<1>5. DecodeLoop(copy, tracker.data \o codes) = DecodeLoop(DecodeLoop(copy, tracker.data), codes)
  BY <1>4, DecodeLoopConcat DEF IsTracker
<1>6. tracker.data \o codes \in Seq(Codes)
  BY <1>4, ConcatProperties DEF IsTracker
<1> QED
  BY <1>1, <1>4, <1>5, <1>6 DEF IsTracker, Replay, next

-------------------------------------------------------------------------------
(* A copy made of the first n messages of a machine, which has of those in *)
(* own what the frame buffer fb and the tiles of table have.               *)
Follows(copy, n, own, fb, table) ==
    /\ copy \in Copies(Tile)
    /\ copy.fb \subseteq 1 .. n
    /\ copy.fb \cap own = fb
    /\ \A t \in Tile : /\ copy.image[t] \subseteq 1 .. n
                       /\ copy.image[t] \cap own = table[t]

LEMMA FollowsDecode ==
    ASSUME NEW copy, NEW n \in Nat, NEW own, NEW fb, NEW table, Follows(copy, n, own, fb, table),
           NEW ids \in SUBSET (1 .. n), NEW queue, ids \cap own = queue
    PROVE  Follows(DecodeMessages(copy, ids), n, own, fb \cup queue, table)
<1> DEFINE next == DecodeMessages(copy, ids)
<1>1. next \in Copies(Tile) /\ next.fb = copy.fb \cup ids /\ next.image = copy.image
  <2>1. ids \in SUBSET Int /\ copy \in Copies(Tile)
    BY DEF Follows
  <2> QED
    BY <2>1, DecodeMessagesType
<1> HIDE DEF next
<1>2. next.fb \subseteq 1 .. n /\ next.fb \cap own = fb \cup queue
  BY <1>1 DEF Follows
<1> QED
  BY <1>1, <1>2 DEF Follows, next

LEMMA FollowsMerge ==
    ASSUME NEW copy, NEW n \in Nat, NEW own, NEW fb, NEW table, Follows(copy, n, own, fb, table),
           NEW tiles, NEW new, \A t \in Tile : new[t] = IF t \in tiles THEN fb ELSE table[t]
    PROVE  Follows(MergeTiles(copy, tiles), n, own, fb, new)
<1> DEFINE next == MergeTiles(copy, tiles)
<1>1. /\ next \in Copies(Tile) /\ next.fb = copy.fb
      /\ next.image = [t \in Tile |-> IF t \in tiles THEN copy.fb ELSE copy.image[t]]
  BY MergeTilesType DEF Follows
<1> HIDE DEF next
<1>2. ASSUME NEW t \in Tile
      PROVE  next.image[t] \subseteq 1 .. n /\ next.image[t] \cap own = new[t]
  BY <1>1 DEF Follows
<1> QED
  BY <1>1, <1>2 DEF Follows, next

(* A rendering that grows by a new message is followed as before.          *)
LEMMA FollowsGrown ==
    ASSUME NEW copy, NEW n \in Nat, NEW own, NEW fb, NEW table, Follows(copy, n, own, fb, table)
    PROVE  Follows(copy, n + 1, own \cup {n + 1}, fb, table)
<1>1. n + 1 \notin 1 .. n /\ 1 .. n \subseteq 1 .. n + 1
  OBVIOUS
<1> QED
  BY <1>1 DEF Follows

-------------------------------------------------------------------------------
(* An image that is sent, for one machine m: what was decoded, and what    *)
(* was merged, is what its record says.                                    *)
LEMMA DecodeFollowed ==
    ASSUME NEW frame, Collects(frame), frame.feedbackActive, NEW m \in Machine,
           NEW table, IsTracker(table[m]), NEW copy \in Copies(Tile),
           NEW n \in Nat, NEW own, NEW shown,
           Follows(Replay(copy, table[m].data), n, own, frame.fb[m], shown),
           frame.chans[m].ids \in Seq(1 .. n),
           m \in frame.received => frame.chans[m].ids # <<>>,
           Elements(frame.chans[m].ids) \cap own = frame.chans[m].queue
    PROVE  LET next == TrackDecodeAll(frame, table)[m]
           IN  /\ IsTracker(next)
               /\ Follows(Replay(copy, next.data), n, own, DecodeAll(frame).fb[m], shown)
<1> DEFINE next == TrackDecodeAll(frame, table)[m]
           ids == frame.chans[m].ids
<1>1. next = IF frame.messagesTotal # 0 /\ m \in frame.received
               THEN TrackDecode(table[m], ids) ELSE table[m]
  BY DEF TrackDecodeAll
<1> HIDE DEF next
<1>2. DecodeAll(frame).fb[m] = IF frame.messagesTotal # 0 /\ m \in frame.received
                                 THEN frame.fb[m] \cup frame.chans[m].queue
                                 ELSE frame.fb[m]
  BY DEF DecodeAll, Collects, Counts, Fields, EmptyFrame
<1>3. ids \in Seq(Int) /\ Elements(ids) \in SUBSET (1 .. n)
  <2>1. 1 .. n \subseteq Int
    OBVIOUS
  <2>2. ids \in Seq(Int)
    BY <2>1, SeqMonotonic
  <2>3. \A i \in 1 .. Len(ids) : ids[i] \in 1 .. n
    BY ElementOfSeq
  <2> QED
    BY <2>2, <2>3 DEF Elements
<1>4. CASE frame.messagesTotal # 0 /\ m \in frame.received
  <2>1. next = TrackDecode(table[m], ids) /\ ids # <<>>
    BY <1>1, <1>4
  <2>2. /\ IsTracker(next)
        /\ Replay(copy, next.data) =
             DecodeMessages(Replay(copy, table[m].data), Elements(ids))
    BY <1>3, <2>1, ReplayAfterDecode
  <2>3. Follows(DecodeMessages(Replay(copy, table[m].data), Elements(ids)), n, own,
                frame.fb[m] \cup frame.chans[m].queue, shown)
    BY <1>3, FollowsDecode
  <2> QED
    BY <1>2, <1>4, <2>2, <2>3 DEF next
<1>5. CASE ~(frame.messagesTotal # 0 /\ m \in frame.received)
  BY <1>1, <1>2, <1>5 DEF next
<1> QED
  BY <1>4, <1>5

(* What an image has of a machine, and what it has of the frame.           *)
TilesOf(table, m) == [t \in Tile |-> table[t][m]]
Shown(frame, table, m) == [t \in Tile |-> IF frame.merged THEN table[t][m] ELSE {}]

LEMMA MergeFollowed ==
    ASSUME NEW frame, frame.feedbackActive, frame.tunnel = NoMachine,
           NEW m \in Machine, m \in frame.receivedAll,
           NEW table, IsTracker(table[m]), NEW copy \in Copies(Tile),
           NEW n \in Nat, NEW own, NEW before,
           Follows(Replay(copy, table[m].data), n, own, frame.fb[m], Shown(frame, before, m)),
           NEW request, NEW sameReso, Merges(frame, sameReso)
    PROVE  LET next == TrackMerge(frame, table, request, sameReso)[m]
               after == MergedImage(frame, before, request, sameReso)
           IN  /\ IsTracker(next)
               /\ Follows(Replay(copy, next.data), n, own, frame.fb[m], TilesOf(after, m))
<1> DEFINE next == TrackMerge(frame, table, request, sameReso)[m]
           after == MergedImage(frame, before, request, sameReso)
           tiles == PartialMergeTiles(frame.partialMergeStartTileId, request, TotalTiles)
           first == IF ~frame.merged /\ m = frame.first THEN TrackMergeFull(table[m])
                                                        ELSE table[m]
           begun == IF frame.merged THEN before
                    ELSE Accumulate(frame, before, Tile, {frame.first})
           fb == frame.fb[m]
           now == Replay(copy, table[m].data)
<1>1. m \in Contributors(frame, Machine)
      /\ (m \in Contributors(frame, {frame.first}) <=> m = frame.first)
  BY MachineAssumption DEF Contributors
<1>2. next = IF request = 0 THEN TrackMergeFull(first) ELSE TrackMergePartial(first, tiles)
  BY <1>1 DEF TrackMerge
<1>3. \A t \in Tile : begun[t][m] = IF frame.merged THEN before[t][m]
                                    ELSE IF m = frame.first THEN fb ELSE {}
  BY <1>1 DEF Accumulate
<1>4. \A t \in Tile : after[t][m] = IF t \in tiles THEN fb ELSE begun[t][m]
  <2>1. after = Accumulate(frame, begun, tiles, Machine)
    BY DEF MergedImage
  <2> HIDE DEF after, begun, tiles
  <2> QED
    BY <1>1, <2>1 DEF Accumulate
<1>5. tiles \in SUBSET Tile /\ (request = 0 => tiles = Tile)
  BY DEF PartialMergeTiles, Tile
<1> HIDE DEF tiles, begun, after, next
<1>6. /\ IsTracker(first)
      /\ Follows(Replay(copy, first.data), n, own, fb, TilesOf(begun, m))
  <2>1. CASE ~frame.merged /\ m = frame.first
    <3>1. IsTracker(first) /\ Replay(copy, first.data) = MergeTiles(now, Tile)
      BY <2>1, ReplayAfterMergeFull
    <3> DEFINE new == TilesOf(begun, m)
               old == Shown(frame, before, m)
    <3>2. \A t \in Tile : new[t] = IF t \in Tile THEN fb ELSE old[t]
      BY <1>3, <2>1 DEF TilesOf
    <3>3. Follows(now, n, own, fb, old)
      OBVIOUS
    <3> HIDE DEF new, old, first, now, fb
    <3>4. Follows(MergeTiles(now, Tile), n, own, fb, new)
      BY <3>2, <3>3, FollowsMerge
    <3> QED
      BY <3>1, <3>4 DEF new
  <2>2. CASE ~(~frame.merged /\ m = frame.first)
    <3>1. \A t \in Tile : Shown(frame, before, m)[t] = begun[t][m]
      BY <1>3, <2>2 DEF Shown
    <3>2. first = table[m]
      BY <2>2
    <3> QED
      BY <3>1, <3>2 DEF Follows, TilesOf
  <2> QED
    BY <2>1, <2>2
<1> HIDE DEF first, fb, now
<1>7. /\ IsTracker(next)
      /\ Replay(copy, next.data) = MergeTiles(Replay(copy, first.data), tiles)
  <2>1. CASE request = 0
    BY <1>2, <1>5, <1>6, <2>1, ReplayAfterMergeFull
  <2>2. CASE request # 0
    BY <1>2, <1>5, <1>6, <2>2, ReplayAfterMergePartial
  <2> QED
    BY <2>1, <2>2
<1> DEFINE new == TilesOf(after, m)
           old == TilesOf(begun, m)
<1>8. \A t \in Tile : new[t] = IF t \in tiles THEN fb ELSE old[t]
  BY <1>4 DEF fb, TilesOf
<1>9. Follows(Replay(copy, first.data), n, own, fb, old)
  BY <1>6
<1> HIDE DEF new, old
<1>10. Follows(MergeTiles(Replay(copy, first.data), tiles), n, own, fb, new)
  BY <1>8, <1>9, FollowsMerge
<1> QED
  BY <1>7, <1>10 DEF new, fb, after, next

LEMMA SentFollowed ==
    ASSUME NEW frame, Collects(frame), frame.feedbackActive, frame.tunnel = NoMachine,
           NEW m \in Machine, m \in frame.receivedAll,
           NEW table, IsTracker(table[m]), NEW copy \in Copies(Tile),
           NEW n \in Nat, NEW own, NEW before,
           Follows(Replay(copy, table[m].data), n, own, frame.fb[m], Shown(frame, before, m)),
           frame.chans[m].ids \in Seq(1 .. n),
           m \in frame.received => frame.chans[m].ids # <<>>,
           Elements(frame.chans[m].ids) \cap own = frame.chans[m].queue,
           NEW request, NEW sameReso
    PROVE  LET decoded == DecodeAll(frame)
               g == SentFrame(frame, request, sameReso)
               next == TrackMerge(decoded, TrackDecodeAll(frame, table), request, sameReso)[m]
               after == MergedImage(decoded, before, request, sameReso)
           IN  /\ IsTracker(next)
               /\ Follows(Replay(copy, next.data), n, own, g.fb[m], Shown(g, after, m))
<1> DEFINE decoded == DecodeAll(frame)
           tracked == TrackDecodeAll(frame, table)
           g == SentFrame(frame, request, sameReso)
           next == TrackMerge(decoded, tracked, request, sameReso)[m]
           after == MergedImage(decoded, before, request, sameReso)
<1>1. SentOut(frame, sameReso, g)
  BY SentFrameShowsSame
<1>2. g.fb = decoded.fb
      /\ g.merged = IF Merges(decoded, sameReso) THEN TRUE ELSE frame.merged
  BY <1>1 DEF SentOut
<1>3. /\ IsTracker(tracked[m])
      /\ Follows(Replay(copy, tracked[m].data), n, own, decoded.fb[m], Shown(frame, before, m))
  BY DecodeFollowed
<1>4. /\ decoded.feedbackActive /\ decoded.tunnel = NoMachine
      /\ m \in decoded.receivedAll /\ decoded.merged = frame.merged
  BY DEF DecodeAll, Collects, Counts, Fields, EmptyFrame
<1>5. Shown(decoded, before, m) = Shown(frame, before, m)
  BY <1>4 DEF Shown
<1> HIDE DEF decoded, tracked, g
<1>6. CASE Merges(decoded, sameReso)
  <2>1. /\ IsTracker(tracked[m])
        /\ Follows(Replay(copy, tracked[m].data), n, own, decoded.fb[m],
                   Shown(decoded, before, m))
    BY <1>3, <1>5
  <2>2. /\ IsTracker(next)
        /\ Follows(Replay(copy, next.data), n, own, decoded.fb[m], TilesOf(after, m))
    BY <1>4, <1>6, <2>1, MergeFollowed
  <2>3. Shown(g, after, m) = TilesOf(after, m)
    BY <1>2, <1>6 DEF Shown, TilesOf
  <2> HIDE DEF next, after
  <2> QED
    BY <1>2, <2>2, <2>3 DEF decoded, tracked, g, next, after
<1>7. CASE ~Merges(decoded, sameReso)
  <2>1. next = tracked[m]
    BY <1>7 DEF TrackMerge
  <2>2. after = before
    BY <1>7 DEF MergedImage
  <2>3. Shown(g, after, m) = Shown(frame, before, m)
    BY <1>2, <1>7, <2>2 DEF Shown
  <2> HIDE DEF next, after
  <2> QED
    BY <1>2, <1>3, <2>1, <2>3 DEF decoded, tracked, g, next, after
<1> QED
  BY <1>6, <1>7

(* The records of the other machines stay as they are.                     *)
LEMMA SentUntold ==
    ASSUME NEW frame, Collects(frame), NEW m \in Machine,
           ~(frame.feedbackActive /\ m \in frame.receivedAll),
           NEW table, NEW request, NEW sameReso
    PROVE  TrackMerge(DecodeAll(frame), TrackDecodeAll(frame, table), request, sameReso)[m]
             = table[m]
<1> DEFINE decoded == DecodeAll(frame)
           tracked == TrackDecodeAll(frame, table)
<1>1. tracked[m] = table[m]
  BY DEF TrackDecodeAll, Collects, Counts, ActiveIsCount
<1>2. decoded.feedbackActive = frame.feedbackActive /\ decoded.receivedAll = frame.receivedAll
  BY DEF DecodeAll, Collects, Counts, Fields, EmptyFrame
<1> HIDE DEF decoded, tracked
<1>3. ~(decoded.feedbackActive /\ m \in Contributors(decoded, Machine))
  BY <1>2 DEF Contributors
<1> QED
  BY <1>1, <1>3 DEF TrackMerge, decoded, tracked

-------------------------------------------------------------------------------
(* The inductive invariant: what the merge computation keeps for feedback, *)
(* what is on its way, and where it leads.                                 *)
Kept ==
    /\ mergeType = "PICKUP_LATEST"
    /\ tunnelStaged = NoMachine /\ frames[1].tunnel = NoMachine
    /\ frames[1].feedbackActive => displaySyncFrameInitialize
    /\ displaySyncFrameInitialize => frames[1].mySyncId = displaySyncFrameId
    /\ 1 \in DOMAIN trackers
    /\ \A m \in Machine :
          /\ frames[1].chans[m].ids \in Seq(1 .. mcrt[m].data)
          /\ m \in frames[1].received => frames[1].chans[m].ids # <<>>
          /\ IsTracker(trackers[1][m])
          /\ frames[1].feedbackActive /\ m \notin frames[1].receivedAll =>
                trackers[1][m].data = <<>>

OnTheirWay ==
    /\ replica \in [Machine -> Copies(Tile)]
    /\ DOMAIN inFlight = Machine
    /\ \A m \in Machine : inFlight[m] \in Seq(RecordsUpTo(mcrt[m].syncId))

(* The queue of a machine is what its ids say of its present rendering.    *)
QueueIsNoted(m) ==
    Elements(frames[1].chans[m].ids) \cap rendered[m][mcrt[m].syncId] = frames[1].chans[m].queue

IsFollowed(m) ==
    Follows(Expected(m), mcrt[m].data, rendered[m][mcrt[m].syncId],
            frames[1].fb[m], Shown(frames[1], image, m))

Followed == \A m \in Followers : QueueIsNoted(m) /\ IsFollowed(m)

FeedbackInv == ContentsInv /\ ImageOfFrame /\ Kept /\ OnTheirWay /\ Followed

(* The settings under which the invariant holds.                           *)
FeedbackSettings ==
    /\ MergeTypes = {} /\ CallbackOutcomes \subseteq {TRUE}
    /\ ~Restarts /\ ActionIds /\ Tunnels = {NoMachine}

LEMMA KeptFrame ==
    ASSUME ContentsInv, Kept
    PROVE  /\ displayFrame = 1 /\ 1 \in Slot /\ DOMAIN frames = Slot /\ Collects(frames[1])
           /\ displaySyncFrameId \in Int
           /\ \A m \in Machine : mcrt[m].syncId \in Int /\ mcrt[m].data \in Nat
           /\ displaySyncFrameInitialize =>
                /\ displaySyncFrameId \in SyncId
                /\ IsOf(rendered, frames[1], displaySyncFrameId)
                /\ \A m \in Machine : mcrt[m].syncId <= displaySyncFrameId
                /\ \A m \in frames[1].receivedAll : mcrt[m].syncId = displaySyncFrameId
           /\ ~displaySyncFrameInitialize => \A m \in Machine : mcrt[m].syncId = -1
<1>1. /\ displayFrame = 1 /\ 1 \in Slot /\ DOMAIN frames = Slot /\ Collects(frames[1])
      /\ displaySyncFrameId \in Int
  BY CacheFramesAssumption DEF ContentsInv, Contents, Kept, Slot
<1>2. \A m \in Machine : mcrt[m].syncId \in Int /\ mcrt[m].data \in Nat
  BY IdIsInt DEF ContentsInv, Senders
<1>3. ~displaySyncFrameInitialize => \A m \in Machine : mcrt[m].syncId = -1
  BY DEF ContentsInv, Contents
<1>4. ASSUME displaySyncFrameInitialize
      PROVE  /\ displaySyncFrameId \in SyncId
             /\ IsOf(rendered, frames[1], displaySyncFrameId)
             /\ \A m \in Machine : mcrt[m].syncId <= displaySyncFrameId
  BY <1>1, <1>4 DEF ContentsInv, Contents, Kept, NewestId, LiveSlot
<1>5. ASSUME displaySyncFrameInitialize, NEW m \in frames[1].receivedAll
      PROVE  mcrt[m].syncId = displaySyncFrameId
  <2>1. m \in Machine
    BY <1>1 DEF Collects, Counts
  <2>2. rendered[m][displaySyncFrameId] # {}
    BY <1>4, <1>5, <2>1 DEF IsOf, SentFor
  <2>3. displaySyncFrameId <= mcrt[m].syncId
    BY <1>4, <1>5, <2>1, <2>2 DEF ContentsInv, Senders
  <2> QED
    BY <1>1, <1>2, <1>4, <1>5, <2>1, <2>3
<1> QED
  BY <1>1, <1>2, <1>3, <1>4, <1>5

LEMMA FollowersAreHeard ==
    ASSUME ContentsInv, Kept
    PROVE  Followers = IF frames[1].feedbackActive THEN frames[1].receivedAll ELSE {}
BY KeptFrame DEF Followers, Kept

(* The copy that the records in flight lead to.                            *)
LEMMA CopyOnItsWay ==
    ASSUME OnTheirWay, NEW m \in Machine
    PROVE  /\ inFlight[m] \in Seq(Records)
           /\ TakenAll(replica[m], mcrt[m].syncId, inFlight[m]) \in Copies(Tile)
<1>1. RecordsUpTo(mcrt[m].syncId) \subseteq Records
  BY DEF RecordsUpTo
<1>2. inFlight[m] \in Seq(Records)
  BY <1>1, SeqMonotonic DEF OnTheirWay
<1> QED
  BY <1>2, TakenAllType DEF OnTheirWay

LEMMA SendImageFollowed ==
    ASSUME FeedbackInv, NEW request, NEW sameReso, SendImage(request, sameReso),
           UNCHANGED feedbackVars
    PROVE  Kept' /\ OnTheirWay' /\ Followed'
<1> DEFINE frame == frames[1]
           decoded == DecodeAll(frame)
           g == SentFrame(frame, request, sameReso)
           new == TrackMerge(decoded, TrackDecodeAll(frame, trackers[1]), request, sameReso)
           after == MergedImage(decoded, image, request, sameReso)
<1>1. /\ displayFrame = 1 /\ 1 \in Slot /\ DOMAIN frames = Slot /\ Collects(frame)
      /\ ContentsInv /\ Kept /\ OnTheirWay /\ Followed
  BY KeptFrame DEF FeedbackInv
<1>2. /\ frames' = [frames EXCEPT ![1] = g]
      /\ trackers' = [trackers EXCEPT ![1] = new]
      /\ image' = after
      /\ UNCHANGED <<mergeType, tunnelStaged, displaySyncFrameInitialize, displaySyncFrameId,
                     mcrt, rendered, inFlight, replica>>
  BY <1>1 DEF SendImage, SentFrame, displayVars, settingVars, mcrtVars, feedbackVars
<1>3. frames'[1] = g /\ trackers'[1] = new /\ 1 \in DOMAIN trackers'
  BY <1>1, <1>2 DEF Kept
<1>4. ShowsSame(frame, g) /\ SentOut(frame, sameReso, g)
  BY <1>1, SentFrameShowsSame
<1>5. Followers = IF frame.feedbackActive THEN frame.receivedAll ELSE {}
  BY <1>1, FollowersAreHeard
<1>6. Followers' = Followers
  BY <1>2, <1>3, <1>4 DEF Followers, ShowsSame
<1>7. frame.receivedAll \subseteq Machine
  BY <1>1 DEF Collects, Counts
<1>8. ASSUME NEW m \in Followers
      PROVE  IsTracker(new[m]) /\ QueueIsNoted(m)' /\ IsFollowed(m)'
  <2> DEFINE n == mcrt[m].data
             own == rendered[m][mcrt[m].syncId]
             copy == TakenAll(replica[m], mcrt[m].syncId, inFlight[m])
             table == trackers[1]
  <2>1. m \in Machine /\ m \in frame.receivedAll /\ frame.feedbackActive
    BY <1>5, <1>7
  <2>2. n \in Nat /\ copy \in Copies(Tile)
    BY <1>1, <2>1, KeptFrame, CopyOnItsWay
  <2>3. /\ IsTracker(table[m]) /\ frame.tunnel = NoMachine
        /\ frame.chans[m].ids \in Seq(1 .. n)
        /\ m \in frame.received => frame.chans[m].ids # <<>>
    BY <1>1, <2>1 DEF Kept
  <2>4. /\ Elements(frame.chans[m].ids) \cap own = frame.chans[m].queue
        /\ Follows(Replay(copy, table[m].data), n, own, frame.fb[m], Shown(frame, image, m))
    BY <1>1 DEF Followed, QueueIsNoted, IsFollowed, Expected
  <2>5. Expected(m)' = Replay(copy, new[m].data)
    BY <1>2, <1>3 DEF Expected
  <2>6. QueueIsNoted(m)'
    <3>1. g.chans[m].queue = {}
          /\ g.chans[m].ids = IF m \in frame.received THEN <<>> ELSE frame.chans[m].ids
      BY <1>4, <2>1 DEF SentOut
    <3>2. m \notin frame.received => frame.chans[m].queue = {}
      BY <1>1, <2>1 DEF Collects
    <3>3. Elements(<<>>) = {}
      BY EmptySeq DEF Elements
    <3>4. Elements(g.chans[m].ids) \cap own = g.chans[m].queue
      BY <2>4, <3>1, <3>2, <3>3
    <3> QED
      BY <1>2, <1>3, <3>4 DEF QueueIsNoted
  <2> HIDE DEF frame, n, own, copy, table
  <2>7. /\ IsTracker(new[m])
        /\ Follows(Replay(copy, new[m].data), n, own, g.fb[m], Shown(g, after, m))
    BY <1>1, <2>1, <2>2, <2>3, <2>4, SentFollowed DEF table
  <2> QED
    BY <1>2, <1>3, <2>5, <2>6, <2>7 DEF IsFollowed, n, own
<1>9. ASSUME NEW m \in Machine, m \notin Followers PROVE new[m] = trackers[1][m]
  BY <1>1, <1>5, <1>9, SentUntold
<1> HIDE DEF g, new, after, decoded
<1>10. ASSUME NEW m \in Machine
       PROVE  /\ g.chans[m].ids \in Seq(1 .. mcrt[m].data)
              /\ m \in g.received => g.chans[m].ids # <<>>
              /\ IsTracker(new[m])
              /\ g.feedbackActive /\ m \notin g.receivedAll => new[m].data = <<>>
  <2>1. g.chans[m].ids \in Seq(1 .. mcrt[m].data) /\ g.received = {}
    BY <1>1, <1>4, EmptySeq DEF SentOut, Kept
  <2>2. IsTracker(new[m])
    BY <1>1, <1>8, <1>9 DEF Kept
  <2>3. g.feedbackActive /\ m \notin g.receivedAll => new[m].data = <<>>
    BY <1>1, <1>4, <1>5, <1>9 DEF ShowsSame, Kept
  <2> QED
    BY <2>1, <2>2, <2>3
<1>11. Kept'
  BY <1>1, <1>2, <1>3, <1>4, <1>10 DEF Kept, ShowsSame
<1>12. OnTheirWay'
  BY <1>1, <1>2 DEF OnTheirWay
<1>13. Followed'
  BY <1>6, <1>8 DEF Followed
<1> QED
  BY <1>11, <1>12, <1>13

LEMMA SendFeedbackFollowed ==
    ASSUME FeedbackInv, SendFeedback
    PROVE  Kept' /\ OnTheirWay' /\ Followed'
<1> DEFINE frame == frames[1]
           record(m) == [syncId |-> frame.mySyncId, data |-> trackers[1][m].data]
           new == ResetEncoded(frame, trackers[1])
<1>1. /\ displayFrame = 1 /\ 1 \in Slot /\ Collects(frame)
      /\ ContentsInv /\ Kept /\ OnTheirWay /\ Followed
  BY KeptFrame DEF FeedbackInv
<1>2. /\ frame.feedbackActive
      /\ inFlight' = [m \in Machine |->
                        IF m \in frame.receivedAll
                          THEN Append(inFlight[m],
                                      [syncId |-> frame.mySyncId,
                                       data |-> EncodedTrackers(frame, trackers[1])[m]])
                          ELSE inFlight[m]]
      /\ trackers' = [trackers EXCEPT ![1] = new]
      /\ UNCHANGED <<frames, windowVars, displayVars, settingVars, mcrtVars, image, replica>>
  BY <1>1 DEF SendFeedback
<1>3. /\ trackers'[1] = new /\ 1 \in DOMAIN trackers'
      /\ UNCHANGED <<mergeType, tunnelStaged, displaySyncFrameInitialize, displaySyncFrameId,
                     mcrt, rendered>>
  BY <1>1, <1>2 DEF Kept, displayVars, settingVars, mcrtVars
<1>4. ASSUME NEW m \in frame.receivedAll
      PROVE  /\ m \in Machine
             /\ inFlight'[m] = Append(inFlight[m], record(m))
             /\ new[m] = ResetEncode(trackers[1][m])
             /\ IsTracker(new[m]) /\ new[m].data = <<>>
             /\ record(m) \in RecordsUpTo(mcrt[m].syncId)
             /\ record(m).syncId = mcrt[m].syncId
             /\ record(m).data = trackers[1][m].data
  <2>1. m \in Machine
    BY <1>1 DEF Collects, Counts
  <2>2. EncodedTrackers(frame, trackers[1])[m] = trackers[1][m].data
    BY DEF EncodedTrackers
  <2>3. new[m] = ResetEncode(trackers[1][m])
    BY <2>1 DEF ResetEncoded
  <2>4. IsTracker(new[m]) /\ new[m].data = <<>>
    BY <1>1, <2>1, <2>3, EmptySeq DEF Kept, IsTracker, ResetEncode, EmptyTracker
  <2>5. frame.mySyncId = mcrt[m].syncId /\ mcrt[m].syncId \in Int
    BY <1>1, <1>2, <2>1, KeptFrame DEF Kept
  <2>6. record(m) \in RecordsUpTo(mcrt[m].syncId)
    BY <1>1, <2>1, <2>5 DEF RecordsUpTo, Records, Kept, IsTracker
  <2> QED
    BY <1>2, <2>1, <2>2, <2>3, <2>4, <2>5, <2>6
<1>5. ASSUME NEW m \in Machine, m \notin frame.receivedAll
      PROVE  new[m] = trackers[1][m] /\ inFlight'[m] = inFlight[m]
  BY <1>2, <1>5 DEF ResetEncoded
<1> HIDE DEF new, record
<1>6. Kept'
  BY <1>1, <1>2, <1>3, <1>4, <1>5 DEF Kept
<1>7. OnTheirWay'
  <2>1. ASSUME NEW m \in Machine PROVE inFlight'[m] \in Seq(RecordsUpTo(mcrt[m].syncId))
    <3>1. inFlight[m] \in Seq(RecordsUpTo(mcrt[m].syncId))
      BY <1>1 DEF OnTheirWay
    <3>2. CASE m \in frame.receivedAll
      <4>1. record(m) \in RecordsUpTo(mcrt[m].syncId)
        BY <1>4, <3>2
      <4>2. Append(inFlight[m], record(m)) \in Seq(RecordsUpTo(mcrt[m].syncId))
        BY <3>1, <4>1, AppendProperties
      <4> QED
        BY <1>4, <3>2, <4>2
    <3>3. CASE m \notin frame.receivedAll
      BY <1>5, <3>1, <3>3
    <3> QED
      BY <3>2, <3>3
  <2> QED
    BY <1>1, <1>2, <1>3, <2>1 DEF OnTheirWay
<1>8. Followers' = Followers
  BY <1>2, <1>3 DEF Followers
<1>9. ASSUME NEW m \in Followers PROVE Expected(m)' = Expected(m)
  <2> DEFINE s == mcrt[m].syncId
             copy == TakenAll(replica[m], s, inFlight[m])
             data == trackers[1][m].data
  <2>1. m \in frame.receivedAll /\ m \in Machine
    BY <1>1, <1>4, <1>9, FollowersAreHeard
  <2>2. /\ copy \in Copies(Tile) /\ inFlight[m] \in Seq(Records)
        /\ replica[m] \in Copies(Tile) /\ record(m) \in Records
    BY <1>1, <1>4, <2>1, CopyOnItsWay DEF OnTheirWay, RecordsUpTo
  <2>3. TakenAll(replica[m], s, Append(inFlight[m], record(m))) = Taken(copy, s, record(m))
    BY <2>2, TakenAllAppend
  <2>4. Taken(copy, s, record(m)) = Replay(copy, data)
    BY <1>4, <2>1 DEF Taken
  <2>5. Replay(Replay(copy, data), <<>>) = Replay(copy, data)
    <3>1. Replay(copy, data) \in Copies(Tile)
      BY <1>1, <2>1, <2>2, DecodeLoopType DEF Replay, Kept, IsTracker
    <3> QED
      BY <3>1, DecodeLoopEmpty DEF Replay
  <2>6. Expected(m)' = Replay(TakenAll(replica[m], s, Append(inFlight[m], record(m))), <<>>)
    BY <1>2, <1>3, <1>4, <2>1 DEF Expected
  <2> QED
    BY <2>3, <2>4, <2>5, <2>6 DEF Expected
<1>10. Followed'
  BY <1>1, <1>2, <1>3, <1>8, <1>9 DEF Followed, QueueIsNoted, IsFollowed
<1> QED
  BY <1>6, <1>7, <1>10

LEMMA ReceiveFeedbackFollowed ==
    ASSUME FeedbackInv, NEW k \in Machine, ReceiveFeedback(k)
    PROVE  Kept' /\ OnTheirWay' /\ Followed'
<1> DEFINE s == mcrt[k].syncId
           record == Head(inFlight[k])
           rest == Tail(inFlight[k])
           copy == Taken(replica[k], s, record)
<1>1. ContentsInv /\ Kept /\ OnTheirWay /\ Followed
  BY DEF FeedbackInv
<1>2. /\ inFlight[k] # <<>>
      /\ inFlight' = [inFlight EXCEPT ![k] = rest]
      /\ replica' = [replica EXCEPT ![k] = copy]
      /\ UNCHANGED vars
  BY <1>1 DEF ReceiveFeedback, OnTheirWay
<1>3. UNCHANGED <<mergeType, tunnelStaged, displaySyncFrameInitialize, displaySyncFrameId,
                  mcrt, rendered, frames, trackers, image>>
  BY <1>2 DEF vars, displayVars, settingVars, mcrtVars
<1>4. /\ record \in RecordsUpTo(s) /\ rest \in Seq(RecordsUpTo(s))
      /\ inFlight[k] \in Seq(Records) /\ record \in Records
  <2>1. inFlight[k] \in Seq(RecordsUpTo(s))
    BY <1>1 DEF OnTheirWay
  <2>2. record \in RecordsUpTo(s) /\ rest \in Seq(RecordsUpTo(s))
    BY <1>2, <2>1, HeadTailProperties
  <2> QED
    BY <1>1, <2>2, CopyOnItsWay DEF RecordsUpTo
<1>5. replica[k] \in Copies(Tile)
  BY <1>1 DEF OnTheirWay
<1>6. copy \in Copies(Tile) /\ TakenAll(copy, s, rest) = TakenAll(replica[k], s, inFlight[k])
  BY <1>2, <1>4, <1>5, TakenType, TakenAllTail
<1> HIDE DEF copy, rest, record
<1>7. OnTheirWay'
  BY <1>1, <1>2, <1>3, <1>4, <1>6 DEF OnTheirWay
<1>8. Kept'
  BY <1>1, <1>3 DEF Kept
<1>9. Followers' = Followers /\ Followers \subseteq Machine
  <2>1. Followers' = Followers
    BY <1>3 DEF Followers
  <2>2. Followers \subseteq Machine
    BY <1>1, KeptFrame, FollowersAreHeard DEF Collects, Counts
  <2> QED
    BY <2>1, <2>2
<1>10. ASSUME NEW m \in Machine PROVE Expected(m)' = Expected(m)
  <2>1. TakenAll(replica'[m], mcrt[m].syncId, inFlight'[m])
          = TakenAll(replica[m], mcrt[m].syncId, inFlight[m])
    BY <1>1, <1>2, <1>6 DEF OnTheirWay
  <2> QED
    BY <1>3, <2>1 DEF Expected
<1>11. Followed'
  BY <1>1, <1>3, <1>9, <1>10 DEF Followed, QueueIsNoted, IsFollowed
<1> QED
  BY <1>7, <1>8, <1>11

-------------------------------------------------------------------------------
(* A message.  The machine that sent it is one message and perhaps one     *)
(* rendering further; the others are where they were.                      *)
Own(m) == rendered[m][mcrt[m].syncId]

(* One more number.                                                        *)
LEMMA NumberedAppend ==
    ASSUME NEW n \in Nat, NEW ids \in Seq(1 .. n)
    PROVE  LET longer == Append(ids, n + 1)
           IN  /\ longer \in Seq(1 .. n + 1) /\ longer # <<>>
               /\ Elements(longer) = Elements(ids) \cup {n + 1}
               /\ n + 1 \notin Elements(ids)
<1> DEFINE longer == Append(ids, n + 1)
           L == Len(ids)
<1>1. 1 .. n \subseteq 1 .. n + 1 /\ n + 1 \in 1 .. n + 1 /\ n + 1 \notin 1 .. n
  OBVIOUS
<1>2. ids \in Seq(1 .. n + 1)
  <2> DEFINE T == 1 .. n + 1
             S == 1 .. n
  <2>1. S \subseteq T /\ ids \in Seq(S)
    BY <1>1
  <2> HIDE DEF S, T
  <2>2. ids \in Seq(T)
    BY <2>1, SeqMonotonic
  <2> QED
    BY <2>2 DEF T
<1>3. /\ longer \in Seq(1 .. n + 1) /\ Len(longer) = L + 1 /\ longer[L + 1] = n + 1
      /\ \A i \in 1 .. L : longer[i] = ids[i]
      /\ L \in Nat
  BY <1>1, <1>2, AppendProperties, LenProperties
<1>4. \A i \in 1 .. L : ids[i] \in 1 .. n
  BY ElementOfSeq
<1> HIDE DEF longer, L
<1>5. longer # <<>>
  BY <1>3, EmptySeq
<1>6. 1 .. L + 1 = (1 .. L) \cup {L + 1}
  BY <1>3
<1>7. {longer[i] : i \in 1 .. L + 1} = {ids[i] : i \in 1 .. L} \cup {n + 1}
  BY <1>3, <1>6
<1>8. n + 1 \notin {ids[i] : i \in 1 .. L}
  BY <1>1, <1>4
<1> QED
  BY <1>3, <1>5, <1>7, <1>8 DEF Elements, longer, L

SentBy(msg) ==
    /\ msg.machine \in Machine
    /\ msg.syncId \in SyncId
    /\ msg.data = mcrt[msg.machine].data + 1 /\ msg.data \in Nat
    /\ mcrt'[msg.machine].data = msg.data
    /\ mcrt'[msg.machine].syncId = msg.syncId
    /\ mcrt'[msg.machine].status = msg.status
    /\ Own(msg.machine)' = IF msg.status = "STARTED" THEN {msg.data}
                           ELSE Own(msg.machine) \cup {msg.data}
    /\ IF msg.status = "STARTED" THEN mcrt[msg.machine].syncId < msg.syncId
       ELSE mcrt[msg.machine].syncId = msg.syncId
    /\ \A m \in Machine \ {msg.machine} : mcrt'[m] = mcrt[m] /\ Own(m)' = Own(m)

LEMMA SendsOne ==
    ASSUME ~Restarts, Senders, NEW msg, Sends(msg)
    PROVE  SentBy(msg)
<1> DEFINE k == msg.machine
           s == msg.syncId
<1>1. /\ k \in Machine /\ s \in SyncId /\ s \in Int
      /\ mcrt[k].syncId \in Int /\ mcrt[k].data \in Nat
      /\ msg.data = mcrt[k].data + 1
  BY IdIsInt DEF Sends, Continues, Senders
<1>2. /\ mcrt' = [mcrt EXCEPT ![k] = [syncId |-> s, status |-> msg.status,
                                      progress |-> msg.progress, data |-> msg.data]]
      /\ rendered' = [rendered EXCEPT ![k][s] =
                        IF msg.status = "STARTED" THEN {msg.data} ELSE @ \cup {msg.data}]
      /\ msg.status # "STARTED" => s = mcrt[k].syncId
      /\ msg.status = "STARTED" => mcrt[k].syncId < s
  BY DEF Sends, RecordAfter
<1>3. DOMAIN mcrt = Machine /\ IsRecord(rendered)
  BY DEF Senders
<1>4. /\ mcrt'[k].data = msg.data /\ mcrt'[k].syncId = s /\ mcrt'[k].status = msg.status
      /\ rendered'[k][s] = IF msg.status = "STARTED" THEN {msg.data}
                           ELSE rendered[k][s] \cup {msg.data}
  BY <1>1, <1>2, <1>3 DEF IsRecord
<1>5. ASSUME NEW m \in Machine, m # k
      PROVE  mcrt'[m] = mcrt[m] /\ rendered'[m] = rendered[m]
  BY <1>2, <1>3, <1>5 DEF IsRecord
<1>6. msg.data \in Nat
  BY <1>1
<1>7. Own(k)' = IF msg.status = "STARTED" THEN {msg.data} ELSE Own(k) \cup {msg.data}
  BY <1>2, <1>4 DEF Own
<1>8. \A m \in Machine \ {k} : mcrt'[m] = mcrt[m] /\ Own(m)' = Own(m)
  BY <1>5 DEF Own
<1> QED
  BY <1>1, <1>2, <1>4, <1>6, <1>7, <1>8 DEF SentBy

(* What push of msg does to a frame that takes part in feedback.           *)
Noted(frame, data) ==
    \A m \in Machine : /\ frame.chans[m].ids \in Seq(1 .. data[m])
                       /\ m \in frame.received => frame.chans[m].ids # <<>>

PushNoted(frame, msg, g) ==
    LET k == msg.machine
    IN  /\ g.tunnel = NoMachine
        /\ g.mySyncId = frame.mySyncId /\ g.feedbackActive = frame.feedbackActive
        /\ g.receivedAll = frame.receivedAll \cup {k}
        /\ g.merged = frame.merged
        /\ Noted(g, [m \in Machine |-> mcrt'[m].data])
        /\ \A m \in Machine \ {k} : g.chans[m] = frame.chans[m] /\ g.fb[m] = frame.fb[m]
        /\ g.chans[k].ids = Append(frame.chans[k].ids, msg.data)
        /\ g.chans[k].queue = IF msg.status = "STARTED" THEN {msg.data}
                              ELSE frame.chans[k].queue \cup {msg.data}
        /\ g.fb[k] = IF msg.status = "STARTED" THEN {} ELSE frame.fb[k]

LEMMA PushIsNoted ==
    ASSUME ActionIds, NEW msg, Sends(msg), SentBy(msg), NEW slow,
           \A m \in Machine : mcrt[m].data \in Nat,
           NEW frame, Collects(frame), frame.tunnel = NoMachine,
           Noted(frame, [m \in Machine |-> mcrt[m].data])
    PROVE  PushNoted(frame, msg, PushFrame(frame, msg, NoMachine, slow))
<1> DEFINE k == msg.machine
           chans == PushChans(frame.chans[k], msg)
           g == PushFrame(frame, msg, NoMachine, slow)
           ids == frame.chans[k].ids
           n == mcrt[k].data
<1>1. /\ k \in Machine /\ n \in Nat /\ msg.data = n + 1 /\ msg.data # NoActionId
      /\ msg.actionId = msg.data /\ mcrt'[k].data = n + 1
  BY DEF SentBy, Sends, NoActionId
<1>2. FramePushed(frame, msg, chans, g) /\ g.tunnel = NoMachine
  BY <1>1, PushFrameEffect
<1>3. ChansPushed(frame.chans[k], msg, chans)
  BY <1>1, PushChansEffect DEF Collects
<1> HIDE DEF chans, g
<1>4. chans.ids = Append(ids, msg.data)
  BY <1>1, <1>3 DEF ChansPushed
<1>5. chans.ids \in Seq(1 .. n + 1) /\ chans.ids # <<>>
  <2>1. ids \in Seq(1 .. n)
    BY <1>1 DEF Noted
  <2>2. Append(ids, n + 1) \in Seq(1 .. n + 1) /\ Append(ids, n + 1) # <<>>
    BY <1>1, <2>1, NumberedAppend
  <2>3. chans.ids = Append(ids, n + 1)
    BY <1>1, <1>4
  <2> HIDE DEF ids, n
  <2> QED
    BY <2>2, <2>3
<1>6. /\ g.chans[k] = chans
      /\ g.fb[k] = IF msg.status = "STARTED" THEN {} ELSE frame.fb[k]
      /\ \A m \in Machine \ {k} : g.chans[m] = frame.chans[m] /\ g.fb[m] = frame.fb[m]
  BY <1>1, <1>2 DEF FramePushed, Collects
<1>7. ASSUME NEW m \in Machine
      PROVE  /\ g.chans[m].ids \in Seq(1 .. mcrt'[m].data)
             /\ m \in g.received => g.chans[m].ids # <<>>
  <2>1. CASE m = k
    BY <1>1, <1>5, <1>6, <2>1
  <2>2. CASE m # k
    <3>1. g.chans[m] = frame.chans[m] /\ (m \in g.received => m \in frame.received)
      BY <1>2, <1>6, <2>2 DEF FramePushed
    <3>2. mcrt'[m] = mcrt[m]
      BY <2>2 DEF SentBy
    <3>3. /\ frame.chans[m].ids \in Seq(1 .. mcrt[m].data)
          /\ m \in frame.received => frame.chans[m].ids # <<>>
      BY DEF Noted
    <3> QED
      BY <3>1, <3>2, <3>3
  <2> QED
    BY <2>1, <2>2
<1>8. Noted(g, [m \in Machine |-> mcrt'[m].data])
  BY <1>7 DEF Noted
<1>9. PushNoted(frame, msg, g)
  BY <1>2, <1>3, <1>4, <1>6, <1>8 DEF PushNoted, FramePushed, ChansPushed
<1> QED
  BY <1>9 DEF g

LEMMA EmptyReplicaType == EmptyReplica \in Copies(Tile)
BY DEF EmptyReplica, Copies

LEMMA EmptyReplicaFollows ==
    ASSUME NEW n \in Nat, NEW own, NEW table, \A t \in Tile : table[t] = {}
    PROVE  Follows(EmptyReplica, n, own, {}, table)
BY DEF EmptyReplica, Copies, Follows

(* The first message of a rendering: nothing that is on its way is of it.  *)
LEMMA StartedFollowed ==
    ASSUME Senders, OnTheirWay, NEW msg, SentBy(msg), msg.status = "STARTED",
           NEW frame, frame.chans[msg.machine].ids \in Seq(1 .. mcrt[msg.machine].data),
           mcrt[msg.machine].data \in Nat,
           PushNoted(frame, msg, frames'[1]),
           frames'[1].merged => \A t \in Tile : image'[t][msg.machine] = {},
           trackers'[1][msg.machine].data = <<>>,
           replica'[msg.machine] = EmptyReplica, inFlight' = inFlight
    PROVE  QueueIsNoted(msg.machine)' /\ IsFollowed(msg.machine)'
<1> DEFINE k == msg.machine
           s == msg.syncId
           own == {msg.data}
           records == inFlight[k]
           ids == frame.chans[k].ids
           longer == Append(ids, msg.data)
<1>1. /\ k \in Machine /\ mcrt[k].syncId \in Int /\ s \in Int /\ mcrt[k].syncId < s
      /\ mcrt'[k].syncId = s /\ mcrt'[k].data = msg.data /\ msg.data \in Nat
      /\ Own(k)' = own /\ msg.data = mcrt[k].data + 1
  BY IdIsInt DEF SentBy, Senders
<1>2. /\ frames'[1].fb[k] = {} /\ frames'[1].chans[k].queue = own
      /\ frames'[1].chans[k].ids = longer
  BY DEF PushNoted
<1>3. QueueIsNoted(k)'
  <2> DEFINE n == mcrt[k].data
  <2>1. Elements(Append(ids, n + 1)) = Elements(ids) \cup {n + 1}
    BY NumberedAppend
  <2>2. longer = Append(ids, n + 1) /\ msg.data = n + 1
    BY <1>1
  <2> HIDE DEF longer, n, ids
  <2>3. msg.data \in Elements(longer)
    BY <2>1, <2>2
  <2> QED
    BY <1>1, <1>2, <2>3 DEF QueueIsNoted, Own
<1>4. TakenAll(EmptyReplica, s, records) = EmptyReplica
  <2>1. records \in Seq(RecordsUpTo(mcrt[k].syncId))
    BY <1>1 DEF OnTheirWay
  <2>2. EmptyReplica \in Copies(Tile)
    BY EmptyReplicaType
  <2> HIDE DEF records, s
  <2> QED
    BY <1>1, <2>1, <2>2, OlderAreNotTaken
<1>5. Expected(k)' = EmptyReplica
  <2>1. Expected(k)' = Replay(TakenAll(EmptyReplica, s, records), <<>>)
    BY <1>1 DEF Expected
  <2>2. Replay(EmptyReplica, <<>>) = EmptyReplica
    <3>1. EmptyReplica \in Copies(Tile)
      BY EmptyReplicaType
    <3> QED
      BY <3>1, DecodeLoopEmpty DEF Replay
  <2> QED
    BY <1>4, <2>1, <2>2
<1>6. Follows(EmptyReplica, msg.data, own, {}, Shown(frames'[1], image', k))
  <2>1. \A t \in Tile : Shown(frames'[1], image', k)[t] = {}
    BY DEF Shown
  <2> QED
    BY <1>1, <2>1, EmptyReplicaFollows
<1>7. IsFollowed(k)'
  BY <1>1, <1>2, <1>5, <1>6 DEF IsFollowed, Own
<1> QED
  BY <1>3, <1>7

(* The machine sends more of its rendering.                                *)
LEMMA LaterFollowed ==
    ASSUME NEW msg, SentBy(msg), msg.status # "STARTED", mcrt[msg.machine].data \in Nat,
           NEW frame, frame.chans[msg.machine].ids \in Seq(1 .. mcrt[msg.machine].data),
           frame = frames[1], PushNoted(frame, msg, frames'[1]),
           QueueIsNoted(msg.machine), IsFollowed(msg.machine),
           image' = image, trackers'[1][msg.machine] = trackers[1][msg.machine],
           replica'[msg.machine] = replica[msg.machine], inFlight' = inFlight
    PROVE  QueueIsNoted(msg.machine)' /\ IsFollowed(msg.machine)'
<1> DEFINE k == msg.machine
           n == mcrt[k].data
           ids == frame.chans[k].ids
           longer == Append(ids, msg.data)
<1>1. /\ mcrt'[k].syncId = mcrt[k].syncId /\ mcrt'[k].data = n + 1 /\ msg.data = n + 1
      /\ Own(k)' = Own(k) \cup {n + 1}
  BY DEF SentBy
<1>2. /\ frames'[1].fb[k] = frame.fb[k] /\ frames'[1].merged = frame.merged
      /\ frames'[1].chans[k].queue = frame.chans[k].queue \cup {n + 1}
      /\ frames'[1].chans[k].ids = longer
  BY <1>1 DEF PushNoted
<1>3. QueueIsNoted(k)'
  <2>1. /\ Elements(Append(ids, n + 1)) = Elements(ids) \cup {n + 1}
        /\ n + 1 \notin Elements(ids)
    BY NumberedAppend
  <2>2. longer = Append(ids, n + 1)
    BY <1>1
  <2> HIDE DEF longer
  <2>3. Elements(ids) \cap Own(k) = frame.chans[k].queue
    BY DEF QueueIsNoted, Own
  <2>4. Elements(longer) \cap (Own(k) \cup {n + 1}) = frame.chans[k].queue \cup {n + 1}
    BY <2>1, <2>2, <2>3
  <2> QED
    BY <1>1, <1>2, <2>4 DEF QueueIsNoted, Own
<1>4. Expected(k)' = Expected(k)
  BY <1>1 DEF Expected
<1>5. Shown(frames'[1], image', k) = Shown(frame, image, k)
  BY <1>2 DEF Shown
<1>6. Follows(Expected(k), n, Own(k), frame.fb[k], Shown(frame, image, k))
  BY DEF IsFollowed, Own
<1>7. Follows(Expected(k), n + 1, Own(k) \cup {n + 1}, frame.fb[k], Shown(frame, image, k))
  BY <1>6, FollowsGrown
<1>8. IsFollowed(k)'
  BY <1>1, <1>2, <1>4, <1>5, <1>7 DEF IsFollowed, Own
<1> QED
  BY <1>3, <1>8

(* The other machines.                                                     *)
LEMMA OthersFollowed ==
    ASSUME NEW m \in Machine, QueueIsNoted(m), IsFollowed(m),
           mcrt'[m] = mcrt[m], Own(m)' = Own(m),
           frames'[1].chans[m] = frames[1].chans[m], frames'[1].fb[m] = frames[1].fb[m],
           frames'[1].merged = frames[1].merged, image' = image,
           trackers'[1][m] = trackers[1][m],
           replica'[m] = replica[m], inFlight' = inFlight
    PROVE  QueueIsNoted(m)' /\ IsFollowed(m)'
<1>1. Expected(m)' = Expected(m)
  BY DEF Expected
<1>2. Shown(frames'[1], image', m) = Shown(frames[1], image, m)
  BY DEF Shown
<1>3. QueueIsNoted(m)'
  BY DEF QueueIsNoted, Own
<1>4. IsFollowed(m)'
  BY <1>1, <1>2 DEF IsFollowed, Own
<1> QED
  BY <1>3, <1>4

(* The copies after a message: its machine begins a new one with a new     *)
(* rendering.                                                              *)
CopiesAfter(msg) ==
    /\ inFlight' = inFlight
    /\ replica' = [m \in Machine |-> IF m = msg.machine /\ msg.status = "STARTED"
                                        THEN EmptyReplica ELSE replica[m]]

LEMMA CopiesAfterStep ==
    ASSUME FrameStep, NEW msg, SentBy(msg), \A m \in Machine : mcrt[m].data \in Nat
    PROVE  CopiesAfter(msg)
<1>1. /\ inFlight' = inFlight
      /\ replica' = [m \in Machine |->
                       IF mcrt'[m] # mcrt[m] /\ mcrt'[m].status = "STARTED"
                         THEN EmptyReplica ELSE replica[m]]
  BY DEF FrameStep
<1>2. mcrt'[msg.machine] # mcrt[msg.machine] /\ mcrt'[msg.machine].status = msg.status
  BY DEF SentBy
<1>3. \A m \in Machine \ {msg.machine} : mcrt'[m] = mcrt[m]
  BY DEF SentBy
<1>4. ASSUME NEW m \in Machine
      PROVE  replica'[m] = IF m = msg.machine /\ msg.status = "STARTED"
                             THEN EmptyReplica ELSE replica[m]
  BY <1>1, <1>2, <1>3
<1> QED
  BY <1>1, <1>4 DEF CopiesAfter

LEMMA MessageOnTheirWay ==
    ASSUME Senders, OnTheirWay, NEW msg, SentBy(msg), CopiesAfter(msg)
    PROVE  OnTheirWay'
<1>1. ASSUME NEW m \in Machine
      PROVE  /\ replica'[m] \in Copies(Tile)
             /\ inFlight'[m] \in Seq(RecordsUpTo(mcrt'[m].syncId))
  <2> DEFINE old == RecordsUpTo(mcrt[m].syncId)
             new == RecordsUpTo(mcrt'[m].syncId)
  <2>1. replica[m] \in Copies(Tile) /\ inFlight[m] \in Seq(old)
    BY DEF OnTheirWay
  <2>2. mcrt[m].syncId \in Int /\ mcrt'[m].syncId \in Int /\ mcrt[m].syncId <= mcrt'[m].syncId
    <3>1. mcrt[m].syncId \in Int /\ msg.syncId \in Int
      BY IdIsInt DEF Senders, SentBy
    <3>2. CASE m = msg.machine
      BY <3>1, <3>2 DEF SentBy
    <3>3. CASE m # msg.machine
      BY <3>1, <3>3 DEF SentBy
    <3> QED
      BY <3>2, <3>3
  <2>3. old \subseteq new
    BY <2>2 DEF RecordsUpTo, Records
  <2> HIDE DEF old, new
  <2>4. inFlight[m] \in Seq(new)
    BY <2>1, <2>3, SeqMonotonic
  <2>5. replica'[m] \in Copies(Tile) /\ inFlight' = inFlight
    BY <2>1, EmptyReplicaType DEF CopiesAfter
  <2> QED
    BY <2>4, <2>5 DEF new
<1>2. DOMAIN inFlight' = Machine
  BY DEF CopiesAfter, OnTheirWay
<1>3. replica' \in [Machine -> Copies(Tile)]
  BY <1>1 DEF CopiesAfter
<1> QED
  BY <1>1, <1>2, <1>3 DEF OnTheirWay

(* A message of a newer syncId: only its machine is followed afterwards.   *)
LEMMA PickupNewerFollowed ==
    ASSUME FeedbackSettings, FeedbackInv, NEW msg, Sends(msg), SentBy(msg), NEW slow,
           PickupNewer(msg, slow, TRUE), UNCHANGED <<settingVars, image>>, CopiesAfter(msg)
    PROVE  Kept' /\ Followed'
<1> DEFINE k == msg.machine
           s == msg.syncId
           before == StartedFor(s)
           g == PushFrame(before, msg, NoMachine, slow)
<1>1. /\ 1 \in Slot /\ DOMAIN frames = Slot /\ Collects(frames[1])
      /\ ContentsInv /\ Senders /\ Kept /\ OnTheirWay
      /\ \A m \in Machine : mcrt[m].syncId \in Int /\ mcrt[m].data \in Nat
      /\ k \in Machine /\ s \in SyncId /\ s \in Int /\ s # -1
  BY KeptFrame, IdIsInt DEF FeedbackInv, ContentsInv, SentBy
<1>2. msg.status = "STARTED"
  <2>1. mcrt[k].syncId < s
    <3>1. CASE displaySyncFrameInitialize
      <4>1. mcrt[k].syncId <= displaySyncFrameId /\ displaySyncFrameId < s
            /\ displaySyncFrameId \in Int
        BY <1>1, <3>1, KeptFrame DEF PickupNewer
      <4> QED
        BY <1>1, <4>1
    <3>2. CASE ~displaySyncFrameInitialize
      <4>1. mcrt[k].syncId = -1 /\ s \in Nat
        BY <1>1, <3>2, KeptFrame, IdIsInt
      <4> QED
        BY <4>1
    <3> QED
      BY <3>1, <3>2
  <2> QED
    BY <1>1, <2>1 DEF SentBy
<1>3. /\ displaySyncFrameInitialize' = TRUE /\ displaySyncFrameId' = s
      /\ frames' = [frames EXCEPT ![1] = g]
      /\ trackers' = [trackers EXCEPT ![1] = ResetTrackers(@, feedback)]
      /\ mergeType' = mergeType /\ tunnelStaged' = tunnelStaged /\ image' = image
  BY <1>1 DEF PickupNewer, PushInto, Kept, settingVars
<1>4. Collects(before) /\ Unheard(before) /\ Recycled(frames[1], s, feedback, before)
  BY <1>1, RecycledFrame DEF StartedFor
<1>5. before.tunnel = NoMachine /\ before.received = {} /\ before.receivedAll = {}
      /\ ~before.merged /\ before.mySyncId = s /\ before.feedbackActive = feedback
      /\ \A m \in Machine : before.chans[m].ids = frames[1].chans[m].ids
  BY <1>1, <1>4 DEF Recycled, Unheard, Collects, Counts, ActiveIsCount, Kept
<1>6. Noted(before, [m \in Machine |-> mcrt[m].data])
  BY <1>1, <1>5 DEF Noted, Kept
<1> HIDE DEF before
<1>7. PushNoted(before, msg, g)
  BY <1>1, <1>4, <1>5, <1>6, PushIsNoted DEF FeedbackSettings
<1> HIDE DEF g
<1>8. frames'[1] = g /\ trackers'[1] = ResetTrackers(trackers[1], feedback)
      /\ 1 \in DOMAIN trackers'
  BY <1>1, <1>3 DEF Kept
<1>9. ASSUME NEW m \in Machine
      PROVE  /\ IsTracker(trackers'[1][m])
             /\ feedback => trackers'[1][m].data = <<>>
  BY <1>1, <1>8, EmptySeq DEF Kept, IsTracker, ResetTrackers, ResetEncode, EmptyTracker
<1>10. /\ g.tunnel = NoMachine /\ g.mySyncId = s /\ g.feedbackActive = feedback
       /\ g.receivedAll = {k} /\ ~g.merged
       /\ \A m \in Machine : /\ g.chans[m].ids \in Seq(1 .. mcrt'[m].data)
                             /\ m \in g.received => g.chans[m].ids # <<>>
  BY <1>5, <1>7 DEF PushNoted, Noted
<1>11. Kept'
  BY <1>1, <1>3, <1>8, <1>9, <1>10 DEF Kept
<1>12. ASSUME feedback PROVE QueueIsNoted(k)' /\ IsFollowed(k)'
  <2>1. before.chans[k].ids \in Seq(1 .. mcrt[k].data)
    BY <1>1, <1>6 DEF Noted
  <2>2. trackers'[1][k].data = <<>> /\ replica'[k] = EmptyReplica /\ inFlight' = inFlight
    BY <1>1, <1>2, <1>9, <1>12 DEF CopiesAfter
  <2> QED
    BY <1>1, <1>2, <1>7, <1>8, <1>10, <2>1, <2>2, StartedFollowed
<1>13. Followers' \subseteq (IF feedback THEN {k} ELSE {})
  BY <1>8, <1>10 DEF Followers
<1>14. Followed'
  BY <1>12, <1>13 DEF Followed
<1> QED
  BY <1>11, <1>14

(* A message of the syncId that is displayed.                              *)
LEMMA PickupSameFollowed ==
    ASSUME FeedbackSettings, FeedbackInv, NEW msg, Sends(msg), SentBy(msg), NEW slow,
           PickupSame(msg, slow), UNCHANGED <<settingVars, image>>, CopiesAfter(msg)
    PROVE  Kept' /\ Followed'
<1> DEFINE k == msg.machine
           s == msg.syncId
           frame == frames[1]
           g == PushFrame(frame, msg, NoMachine, slow)
<1>1. /\ 1 \in Slot /\ DOMAIN frames = Slot /\ Collects(frame) /\ displayFrame = 1
      /\ ContentsInv /\ Senders /\ Kept /\ OnTheirWay /\ Followed
      /\ \A m \in Machine : mcrt[m].syncId \in Int /\ mcrt[m].data \in Nat
      /\ k \in Machine /\ s \in SyncId /\ s \in Int /\ s # -1
  BY KeptFrame, IdIsInt DEF FeedbackInv, ContentsInv, SentBy
<1>2. /\ displaySyncFrameInitialize /\ displaySyncFrameId = s
      /\ UNCHANGED <<displaySyncFrameInitialize, displaySyncFrameId>>
      /\ frames' = [frames EXCEPT ![1] = g]
      /\ trackers' = trackers
      /\ mergeType' = mergeType /\ tunnelStaged' = tunnelStaged /\ image' = image
  BY <1>1 DEF PickupSame, PushInto, Kept, settingVars, displayVars
<1>3. frame.tunnel = NoMachine /\ Noted(frame, [m \in Machine |-> mcrt[m].data])
  BY <1>1 DEF Noted, Kept
<1>4. IsOf(rendered, frame, s)
  BY <1>1, <1>2, KeptFrame
<1> HIDE DEF frame
<1>5. PushNoted(frame, msg, g)
  BY <1>1, <1>3, PushIsNoted DEF FeedbackSettings
<1> HIDE DEF g
<1>6. frames'[1] = g
  BY <1>1, <1>2
<1>7. /\ g.tunnel = NoMachine /\ g.mySyncId = frame.mySyncId
      /\ g.feedbackActive = frame.feedbackActive
      /\ g.receivedAll = frame.receivedAll \cup {k} /\ g.merged = frame.merged
      /\ \A m \in Machine : /\ g.chans[m].ids \in Seq(1 .. mcrt'[m].data)
                            /\ m \in g.received => g.chans[m].ids # <<>>
  BY <1>5 DEF PushNoted, Noted
<1>8. Kept'
  BY <1>1, <1>2, <1>6, <1>7 DEF Kept, frame
<1>9. Followers = IF frame.feedbackActive THEN frame.receivedAll ELSE {}
  BY <1>1, FollowersAreHeard DEF frame
<1>10. ASSUME frame.feedbackActive, msg.status = "STARTED"
       PROVE  QueueIsNoted(k)' /\ IsFollowed(k)'
  <2>1. SentFor(rendered, k, s) = {}
    <3>1. mcrt[k].syncId < s
      BY <1>10 DEF SentBy
    <3>2. rendered[k][s] # {} => s <= mcrt[k].syncId
      BY <1>1 DEF Senders
    <3> QED
      BY <1>1, <3>1, <3>2 DEF SentFor
  <2>2. k \notin frame.receivedAll
    BY <1>1, <1>4, <2>1 DEF IsOf
  <2>3. trackers'[1][k].data = <<>>
    BY <1>1, <1>2, <1>10, <2>2 DEF Kept, frame
  <2>4. frame.merged => \A t \in Tile : image[t][k] = {}
    <3>1. Displayed
      BY <1>1, <1>2 DEF Displayed, Kept
    <3>2. frame.merged => \A t \in Tile : image[t][k] \subseteq SentFor(rendered, k, s)
      BY <1>1, <1>2, <3>1 DEF FeedbackInv, ImageOfFrame, frame
    <3> QED
      BY <2>1, <3>2
  <2>5. frame.chans[k].ids \in Seq(1 .. mcrt[k].data)
    BY <1>1, <1>3 DEF Noted
  <2>6. replica'[k] = EmptyReplica /\ inFlight' = inFlight
    BY <1>1, <1>10 DEF CopiesAfter
  <2> QED
    BY <1>1, <1>2, <1>5, <1>6, <1>7, <1>10, <2>3, <2>4, <2>5, <2>6, StartedFollowed
<1>11. ASSUME frame.feedbackActive, msg.status # "STARTED"
       PROVE  QueueIsNoted(k)' /\ IsFollowed(k)'
  <2>1. k \in Followers
    <3>1. mcrt[k].syncId = s
      BY <1>11 DEF SentBy
    <3>2. SentFor(rendered, k, s) # {}
      BY <1>1, <3>1 DEF Senders, SentFor
    <3> QED
      BY <1>1, <1>4, <1>9, <1>11, <3>2 DEF IsOf
  <2>2. QueueIsNoted(k) /\ IsFollowed(k)
    BY <1>1, <2>1 DEF Followed
  <2>3. frame.chans[k].ids \in Seq(1 .. mcrt[k].data)
    BY <1>1, <1>3 DEF Noted
  <2>4. replica'[k] = replica[k] /\ inFlight' = inFlight
    BY <1>1, <1>11 DEF CopiesAfter
  <2>5. frame = frames[1]
    BY DEF frame
  <2> QED
    BY <1>1, <1>2, <1>5, <1>6, <1>11, <2>2, <2>3, <2>4, <2>5, LaterFollowed
<1>12. ASSUME NEW m \in Followers', m # k PROVE QueueIsNoted(m)' /\ IsFollowed(m)'
  <2>1. frame.feedbackActive /\ m \in frame.receivedAll
    BY <1>6, <1>7, <1>12 DEF Followers
  <2>2. m \in Machine /\ m \in Followers
    BY <1>1, <1>9, <2>1 DEF Collects, Counts
  <2>3. QueueIsNoted(m) /\ IsFollowed(m)
    BY <1>1, <2>2 DEF Followed
  <2>4. mcrt'[m] = mcrt[m] /\ Own(m)' = Own(m)
    BY <1>12, <2>2 DEF SentBy
  <2>5. g.chans[m] = frame.chans[m] /\ g.fb[m] = frame.fb[m]
    BY <1>5, <1>12, <2>2 DEF PushNoted
  <2>6. replica'[m] = replica[m] /\ inFlight' = inFlight
    BY <1>12, <2>2 DEF CopiesAfter
  <2> QED
    BY <1>2, <1>6, <1>7, <2>2, <2>3, <2>4, <2>5, <2>6, OthersFollowed DEF frame
<1>13. Followers' # {} => frame.feedbackActive
  BY <1>6, <1>7 DEF Followers
<1>14. Followed'
  BY <1>10, <1>11, <1>12, <1>13 DEF Followed
<1> QED
  BY <1>8, <1>14

(* A message that is dropped is of no machine that is followed.            *)
LEMMA DropOlderFollowed ==
    ASSUME FeedbackInv, NEW msg, SentBy(msg), DropOlder(msg),
           UNCHANGED <<settingVars, image>>, CopiesAfter(msg)
    PROVE  Kept' /\ Followed'
<1> DEFINE k == msg.machine
           s == msg.syncId
<1>1. /\ Collects(frames[1]) /\ ContentsInv /\ Kept /\ Followed
      /\ \A m \in Machine : mcrt[m].data \in Nat
      /\ k \in Machine /\ s \in Int /\ displaySyncFrameId \in Int
  BY KeptFrame, IdIsInt DEF FeedbackInv, SentBy
<1>2. /\ s < displaySyncFrameId
      /\ UNCHANGED <<frames, trackers, displaySyncFrameInitialize, displaySyncFrameId,
                     mergeType, tunnelStaged, image>>
  BY DEF DropOlder, displayVars, settingVars
<1>3. ASSUME NEW m \in Machine
      PROVE  frames[1].chans[m].ids \in Seq(1 .. mcrt'[m].data)
  <2> DEFINE S == 1 .. mcrt[m].data
             T == 1 .. mcrt'[m].data
  <2>1. mcrt'[m].data = mcrt[m].data \/ mcrt'[m].data = mcrt[m].data + 1
    BY DEF SentBy
  <2>2. S \subseteq T
    BY <1>1, <2>1
  <2>3. frames[1].chans[m].ids \in Seq(S)
    BY <1>1 DEF Kept
  <2> HIDE DEF S, T
  <2>4. frames[1].chans[m].ids \in Seq(T)
    BY <2>2, <2>3, SeqMonotonic
  <2> QED
    BY <2>4 DEF T
<1>4. Kept'
  BY <1>1, <1>2, <1>3 DEF Kept
<1>5. ASSUME NEW m \in Followers' PROVE QueueIsNoted(m)' /\ IsFollowed(m)'
  <2>1. /\ frames[1].feedbackActive /\ m \in frames[1].receivedAll
        /\ mcrt'[m].syncId = displaySyncFrameId
    BY <1>2, <1>5 DEF Followers
  <2>2. m \in Machine /\ m \in Followers
    BY <1>1, <2>1, FollowersAreHeard DEF Collects, Counts
  <2>3. m # k
    BY <1>1, <1>2, <2>1 DEF SentBy
  <2>4. QueueIsNoted(m) /\ IsFollowed(m)
    BY <1>1, <2>2 DEF Followed
  <2>5. mcrt'[m] = mcrt[m] /\ Own(m)' = Own(m)
    BY <2>2, <2>3 DEF SentBy
  <2>6. replica'[m] = replica[m] /\ inFlight' = inFlight
    BY <2>2, <2>3 DEF CopiesAfter
  <2> QED
    BY <1>2, <2>2, <2>4, <2>5, <2>6, OthersFollowed
<1>6. Followed'
  BY <1>5 DEF Followed
<1> QED
  BY <1>4, <1>6

-------------------------------------------------------------------------------
(* The invariant is inductive.                                             *)
LEMMA UnmovedFollowed ==
    ASSUME FeedbackInv, tunnelStaged' = NoMachine,
           UNCHANGED <<frames, trackers, displayVars, mergeType, mcrtVars, image, feedbackVars>>
    PROVE  Kept' /\ OnTheirWay' /\ Followed'
<1>1. /\ frames' = frames /\ trackers' = trackers /\ mergeType' = mergeType /\ image' = image
      /\ displaySyncFrameInitialize' = displaySyncFrameInitialize
      /\ displaySyncFrameId' = displaySyncFrameId
      /\ mcrt' = mcrt /\ rendered' = rendered /\ inFlight' = inFlight /\ replica' = replica
  BY DEF displayVars, mcrtVars, feedbackVars
<1>2. Kept'
  BY <1>1 DEF FeedbackInv, Kept
<1>3. OnTheirWay'
  BY <1>1 DEF FeedbackInv, OnTheirWay
<1>4. Followed'
  BY <1>1 DEF FeedbackInv, Followed, Followers, QueueIsNoted, IsFollowed, Expected
<1> QED
  BY <1>2, <1>3, <1>4

LEMMA MessageFollowed ==
    ASSUME FeedbackSettings, FeedbackInv, FrameStep, ReceiveMessage
    PROVE  Kept' /\ OnTheirWay' /\ Followed'
<1>1. ContentsInv /\ Senders /\ Kept /\ OnTheirWay /\ \A m \in Machine : mcrt[m].data \in Nat
  BY DEF FeedbackInv, ContentsInv, Senders
<1>2. PICK msg, slow, callbackOutcome :
         /\ Sends(msg)
         /\ callbackOutcome \in CallbackOutcomes
         /\ Push(msg, slow, callbackOutcome)
  BY <1>1, ReceivedMessage
<1>3. SentBy(msg)
  BY <1>1, <1>2, SendsOne DEF FeedbackSettings
<1>4. CopiesAfter(msg)
  BY <1>1, <1>3, CopiesAfterStep
<1>5. OnTheirWay'
  BY <1>1, <1>3, <1>4, MessageOnTheirWay
<1>6. callbackOutcome = TRUE
  BY <1>2 DEF FeedbackSettings
<1>7. /\ UNCHANGED <<settingVars, image>>
      /\ \/ PickupNewer(msg, slow, TRUE)
         \/ PickupSame(msg, slow)
         \/ DropOlder(msg)
  BY <1>1, <1>2, <1>6
     DEF Push, PushSeamlessCombine, PushPickupLatest, PushSyncidLineup, Kept
<1>8. CASE PickupNewer(msg, slow, TRUE)
  BY <1>2, <1>3, <1>4, <1>5, <1>7, <1>8, PickupNewerFollowed
<1>9. CASE PickupSame(msg, slow)
  BY <1>2, <1>3, <1>4, <1>5, <1>7, <1>9, PickupSameFollowed
<1>10. CASE DropOlder(msg)
  BY <1>3, <1>4, <1>5, <1>7, <1>10, DropOlderFollowed
<1> QED
  BY <1>7, <1>8, <1>9, <1>10

LEMMA FrameStepFollowed ==
    ASSUME FeedbackSettings, FeedbackInv, FrameStep
    PROVE  Kept' /\ OnTheirWay' /\ Followed'
<1>1. Next /\ inFlight' = inFlight
  BY DEF FrameStep
<1>2. ASSUME mcrt' = mcrt PROVE UNCHANGED feedbackVars
  <2>1. replica' = [m \in Machine |-> replica[m]]
    BY <1>2 DEF FrameStep
  <2>2. replica = [m \in Machine |-> replica[m]]
    BY DEF FeedbackInv, OnTheirWay
  <2> QED
    BY <1>1, <2>1, <2>2 DEF feedbackVars
<1>3. CASE ReceiveMessage
  BY <1>3, MessageFollowed
<1>4. CASE \E request \in Requests, sameReso \in BOOLEAN : SendImage(request, sameReso)
  <2>1. PICK request \in Requests, sameReso \in BOOLEAN : SendImage(request, sameReso)
    BY <1>4
  <2>2. mcrt' = mcrt
    BY <2>1 DEF SendImage, mcrtVars
  <2> QED
    BY <1>2, <2>1, <2>2, SendImageFollowed
<1>5. CASE \/ \E value \in Feedbacks : SetFeedback(value)
           \/ \E machine \in Tunnels : StageTunnel(machine)
  <2>1. UNCHANGED <<frames, trackers, displayVars, mergeType, mcrtVars, image>>
    BY <1>5 DEF SetFeedback, StageTunnel
  <2>2. tunnelStaged' = NoMachine
    BY <1>5 DEF SetFeedback, StageTunnel, FeedbackSettings, FeedbackInv, Kept
  <2>3. UNCHANGED feedbackVars
    BY <1>2, <2>1 DEF mcrtVars
  <2> QED
    BY <2>1, <2>2, <2>3, UnmovedFollowed
<1> QED
  BY <1>1, <1>3, <1>4, <1>5 DEF Next, FeedbackSettings

(* What leaves the frames alone leaves what is known of them.              *)
LEMMA UntouchedFrames ==
    ASSUME ContentsInv, ImageOfFrame,
           UNCHANGED <<frames, windowVars, displayVars, settingVars, mcrtVars, image>>
    PROVE  ContentsInv' /\ ImageOfFrame'
<1>1. WindowInv'
  <2>1. Window' = Window
    BY DEF Window, windowVars, displayVars
  <2> QED
    BY <2>1 DEF ContentsInv, WindowInv, windowVars, displayVars, settingVars, mcrtVars
<1>2. Contents' /\ Senders'
  BY UntouchedContents DEF settingVars
<1>3. ImageOfFrame'
  BY DEF ImageOfFrame, Displayed, displayVars, settingVars, mcrtVars
<1> QED
  BY <1>1, <1>2, <1>3 DEF ContentsInv

LEMMA StepFeedback ==
    ASSUME FeedbackSettings, FeedbackInv, [FeedbackNext]_allVars
    PROVE  FeedbackInv'
<1>1. ContentsInv /\ ImageOfFrame /\ Kept
  BY DEF FeedbackInv
<1>2. CASE FrameStep
  <2>1. [Next]_vars
    BY <1>2 DEF FrameStep
  <2>2. MergeTypes = {} /\ CallbackOutcomes \subseteq {TRUE} /\ Restarts = FALSE
    BY InputAssumption DEF FeedbackSettings
  <2>3. ContentsInv' /\ ImageOfFrame'
    BY <1>1, <2>1, <2>2, StepContents, StepImage
  <2>4. Kept' /\ OnTheirWay' /\ Followed'
    BY <1>2, FrameStepFollowed
  <2> QED
    BY <2>3, <2>4 DEF FeedbackInv
<1>3. CASE SendFeedback
  <2>1. ContentsInv' /\ ImageOfFrame'
    BY <1>1, <1>3, UntouchedFrames DEF SendFeedback
  <2>2. Kept' /\ OnTheirWay' /\ Followed'
    BY <1>3, SendFeedbackFollowed
  <2> QED
    BY <2>1, <2>2 DEF FeedbackInv
<1>4. CASE \E m \in Machine : ReceiveFeedback(m)
  <2>1. UNCHANGED vars
    BY <1>4 DEF ReceiveFeedback
  <2>2. ContentsInv' /\ ImageOfFrame'
    BY <1>1, <2>1, UntouchedFrames DEF vars
  <2>3. Kept' /\ OnTheirWay' /\ Followed'
    BY <1>4, ReceiveFeedbackFollowed
  <2> QED
    BY <2>2, <2>3 DEF FeedbackInv
<1>5. CASE UNCHANGED allVars
  <2>1. UNCHANGED vars /\ UNCHANGED feedbackVars
    BY <1>5 DEF allVars
  <2>2. ContentsInv' /\ ImageOfFrame'
    BY <1>1, <2>1, UntouchedFrames DEF vars
  <2>3. tunnelStaged' = NoMachine
    BY <1>1, <2>1 DEF vars, settingVars, Kept
  <2>4. Kept' /\ OnTheirWay' /\ Followed'
    BY <2>1, <2>3, UnmovedFollowed DEF vars, settingVars
  <2> QED
    BY <2>2, <2>4 DEF FeedbackInv
<1> QED
  BY <1>2, <1>3, <1>4, <1>5 DEF FeedbackNext

LEMMA InitFeedback ==
    ASSUME InitialMergeTypes \subseteq {"PICKUP_LATEST"}, FeedbackInit
    PROVE  FeedbackInv
<1>1. Init /\ inFlight = [m \in Machine |-> <<>>] /\ replica = [m \in Machine |-> EmptyReplica]
  BY DEF FeedbackInit
<1>2. ContentsInv
  BY <1>1, InitContents
<1>3. ImageOfFrame
  BY <1>1 DEF Init, ImageOfFrame, Displayed
<1>4. 1 \in Slot
  BY CacheFramesAssumption DEF Slot
<1>5. frames[1] = EmptyFrame /\ 1 \in DOMAIN trackers
      /\ \A m \in Machine : trackers[1][m] = EmptyTracker /\ mcrt[m].data = 0
  BY <1>1, <1>4 DEF Init
<1>6. /\ EmptyFrame.tunnel = NoMachine /\ ~EmptyFrame.feedbackActive
      /\ EmptyFrame.received = {}
      /\ \A m \in Machine : EmptyFrame.chans[m].ids = <<>>
  BY DEF EmptyFrame, EmptyChans
<1>7. IsTracker(EmptyTracker) /\ \A n : <<>> \in Seq(1 .. n)
  BY EmptySeq DEF IsTracker, EmptyTracker
<1>8. mergeType = "PICKUP_LATEST" /\ tunnelStaged = NoMachine /\ ~displaySyncFrameInitialize
  BY <1>1 DEF Init
<1>9. Kept
  BY <1>5, <1>6, <1>7, <1>8 DEF Kept
<1>10. OnTheirWay
  BY <1>1, EmptyReplicaType, EmptySeq DEF OnTheirWay
<1>11. Followed
  BY <1>8 DEF Followed, Followers
<1> QED
  BY <1>2, <1>3, <1>9, <1>10, <1>11 DEF FeedbackInv

LEMMA FollowedIsRebuilt ==
    ASSUME FeedbackInv
    PROVE  FeedbackRebuildsRendering
<1> SUFFICES ASSUME NEW m \in Followers PROVE OfRendering(Expected(m), m) = Actual(m)
  BY DEF FeedbackRebuildsRendering
<1> DEFINE copy == Expected(m)
           own == rendered[m][mcrt[m].syncId]
           fb == frames[1].fb[m]
           shown == [t \in Tile |-> IF frames[1].merged THEN image[t][m] ELSE {}]
<1>1. Follows(copy, mcrt[m].data, own, fb, shown)
  BY DEF FeedbackInv, Followed, IsFollowed, Shown
<1>2. OfRendering(copy, m) = [fb |-> copy.fb \cap own,
                              image |-> [t \in Tile |-> copy.image[t] \cap own]]
  BY DEF OfRendering
<1>3. Actual(m) = [fb |-> fb, image |-> shown]
  BY DEF Actual
<1>4. copy.fb \cap own = fb
  BY <1>1 DEF Follows
<1>5. [t \in Tile |-> copy.image[t] \cap own] = shown
  <2>1. \A t \in Tile : copy.image[t] \cap own = shown[t]
    BY <1>1 DEF Follows
  <2>2. shown = [t \in Tile |-> shown[t]]
    OBVIOUS
  <2> HIDE DEF copy, own, shown
  <2> QED
    BY <2>1, <2>2
<1> QED
  BY <1>2, <1>3, <1>4, <1>5

(* Whatever messages, images, feedback and switches of feedback follow     *)
(* each other, the records lead every machine on the display frame to what *)
(* the merge computation has of its rendering.  It is so for feedback as   *)
(* it is used: a session of PICKUP_LATEST whose callback succeeds, whose   *)
(* messages have ids, and in which nothing is tunnelled.                   *)
THEOREM FeedbackAlwaysRebuildsRendering ==
    ASSUME MergeTypes = {}, InitialMergeTypes \subseteq {"PICKUP_LATEST"},
           CallbackOutcomes \subseteq {TRUE}, Tunnels = {NoMachine},
           ActionIds = TRUE, Restarts = FALSE
    PROVE  FeedbackSpec => []FeedbackRebuildsRendering
<1>1. FeedbackSettings
  BY DEF FeedbackSettings
<1>2. FeedbackInit => FeedbackInv
  BY InitFeedback
<1>3. FeedbackInv /\ [FeedbackNext]_allVars => FeedbackInv'
  BY <1>1, StepFeedback
<1>4. FeedbackInv => FeedbackRebuildsRendering
  BY FollowedIsRebuilt
<1> QED
  BY <1>2, <1>3, <1>4, PTL DEF FeedbackSpec
===============================================================================
