-------------------------- MODULE SeparatePartsProofs --------------------------
(***************************************************************************)
(* The parts that MCSeparateParts checks, for every value of their         *)
(* constants.                                                              *)
(*                                                                         *)
(* MergeTrackerReplay implements LaggingCopy: the codes of a record, which *)
(* hold ranges of ids, stand for exactly the operations that the merge     *)
(* computation did, and the MCRT computation goes through its states.  And *)
(* PartialMergeSweep, on which it is built: no tile waits longer than one  *)
(* sweep.                                                                  *)
(*                                                                         *)
(* MachineMessages: whether messages are decoded as they arrive or when    *)
(* the image is made, the frame buffer is the same, and what travels on    *)
(* with an image is new.                                                   *)
(*                                                                         *)
(* TelemetryDisplay: the tables of panels the user has gone down are a     *)
(* path in the tree, whatever switches and draws them.                     *)
(*                                                                         *)
(* VerifyFeedback: for any number of machines and images of any size, the  *)
(* verdict on a dump is right.  It rests on the loop of the merges: what   *)
(* they have made of some machines is their average, in any order.         *)
(***************************************************************************)
EXTENDS MergeTrackerReplay, MachineMessages, TelemetryDisplay, VerifyFeedback, LoopTheorems

-------------------------------------------------------------------------------
(* Messages.  Types of the buffers, once numbered, and of what is made of  *)
(* them.                                                                   *)
(* (The provers do not know that a literal is a string.)                   *)
PlaneName == STRING \cup {"beauty", "renderBufferOdd", "heatMap", "pixelInfo", "weight"}

PlaneFormat == {NoFormat, "RGBA", "depth", "seconds", "weight", "reference", "aov"}

NumberedBuffer ==
    {b \in [name : STRING, type : STRING, reso : Reso, pixels : SUBSET Pixel, id : Nat] :
        \E content \in Contents : \E i \in DOMAIN content :
            b.name = content[i].name /\ b.type = content[i].type}

PlaneState == [reso : Reso, format : PlaneFormat, data : [Pixel -> Nat], active : SUBSET Pixel]

FrameBuffer == UNION {[planes -> PlaneState] : planes \in SUBSET PlaneName}

(* Two frame buffers agree on a plane.                                     *)
SameAt(fb, other, p) ==
    /\ p \in DOMAIN fb <=> p \in DOMAIN other
    /\ p \in DOMAIN fb => fb[p] = other[p]

LEMMA SameEverywhere ==
    ASSUME NEW fb \in FrameBuffer, NEW other \in FrameBuffer, \A p \in PlaneName : SameAt(fb, other, p)
    PROVE  fb = other
<1>1. PICK planes \in SUBSET PlaneName : fb \in [planes -> PlaneState]
  BY DEF FrameBuffer
<1>2. PICK others \in SUBSET PlaneName : other \in [others -> PlaneState]
  BY DEF FrameBuffer
<1>3. DOMAIN fb = planes /\ DOMAIN other = others
  BY <1>1, <1>2
<1>4. \A p \in PlaneName : p \in planes <=> p \in others
  BY <1>3 DEF SameAt
<1>5. planes = others
  BY <1>4
<1>6. \A p \in planes : fb[p] = other[p]
  BY <1>3 DEF SameAt
<1>7. fb = [p \in planes |-> fb[p]] /\ other = [p \in planes |-> other[p]]
  BY <1>1, <1>2, <1>5
<1>8. [p \in planes |-> fb[p]] = [p \in planes |-> other[p]]
  BY <1>6
<1> QED
  BY <1>7, <1>8

LEMMA FrameBufferType ==
    ASSUME NEW fb \in FrameBuffer
    PROVE  /\ DOMAIN fb \in SUBSET PlaneName
           /\ \A p \in DOMAIN fb : fb[p] \in PlaneState
           /\ fb = [p \in DOMAIN fb |-> fb[p]]
<1>1. PICK planes \in SUBSET PlaneName : fb \in [planes -> PlaneState]
  BY DEF FrameBuffer
<1> QED
  BY <1>1

LEMMA EmptyPlaneType ==
    ASSUME NEW reso \in Reso
    PROVE  EmptyPlane(reso) \in PlaneState
BY DEF EmptyPlane, PlaneState, PlaneFormat, NoWriter

LEMMA EmptyFbType == EmptyFb \in FrameBuffer
<1>1. {} \in SUBSET PlaneName /\ EmptyFb \in [{} -> PlaneState]
  BY DEF EmptyFb
<1> QED
  BY <1>1 DEF FrameBuffer

(* What a step of decoding does to a plane depends on that plane only, and *)
(* the step leaves the planes alone that are not in writes.                *)
Decodes(before, after, writes) ==
    /\ after \in FrameBuffer
    /\ \A p \in PlaneName \ writes : SameAt(after, before, p)

(* The plane as it is once it is there.                                    *)
PlaneOf(fb, plane, reso) == IF plane \in DOMAIN fb THEN fb[plane] ELSE EmptyPlane(reso)

LEMMA WithPlaneDecodes ==
    ASSUME NEW fb \in FrameBuffer, NEW plane \in PlaneName, NEW reso \in Reso
    PROVE  /\ Decodes(fb, WithPlane(fb, plane, reso), {plane})
           /\ plane \in DOMAIN WithPlane(fb, plane, reso)
           /\ WithPlane(fb, plane, reso)[plane] = PlaneOf(fb, plane, reso)
<1> USE DEF PlaneOf
<1> DEFINE made == [p \in DOMAIN fb \cup {plane} |-> IF p = plane THEN EmptyPlane(reso) ELSE fb[p]]
<1>1. CASE plane \in DOMAIN fb
  BY <1>1 DEF WithPlane, Decodes, SameAt
<1>2. CASE plane \notin DOMAIN fb
  <2>1. DOMAIN fb \cup {plane} \in SUBSET PlaneName
    BY FrameBufferType
  <2>2. made \in [DOMAIN fb \cup {plane} -> PlaneState]
    BY EmptyPlaneType, FrameBufferType
  <2>3. made \in FrameBuffer
    BY <2>1, <2>2 DEF FrameBuffer
  <2>4. WithPlane(fb, plane, reso) = made
    BY <1>2 DEF WithPlane
  <2>5. \A p \in PlaneName \ {plane} : SameAt(made, fb, p)
    BY DEF SameAt
  <2>6. plane \in DOMAIN made /\ made[plane] = EmptyPlane(reso)
    OBVIOUS
  <2> HIDE DEF made
  <2> QED
    BY <1>2, <2>3, <2>4, <2>5, <2>6 DEF Decodes
<1> QED
  BY <1>1, <1>2

LEMMA PlaneExcept ==
    ASSUME NEW fb \in FrameBuffer, NEW plane \in DOMAIN fb, NEW new \in PlaneState
    PROVE  /\ Decodes(fb, [fb EXCEPT ![plane] = new], {plane})
           /\ plane \in DOMAIN [fb EXCEPT ![plane] = new]
           /\ [fb EXCEPT ![plane] = new][plane] = new
<1> DEFINE made == [fb EXCEPT ![plane] = new]
<1>1. DOMAIN fb \in SUBSET PlaneName /\ made \in [DOMAIN fb -> PlaneState]
  BY FrameBufferType
<1>2. made \in FrameBuffer
  BY <1>1 DEF FrameBuffer
<1>3. \A p \in PlaneName \ {plane} : SameAt(made, fb, p)
  BY DEF SameAt
<1>4. plane \in DOMAIN made /\ made[plane] = new
  BY <1>1
<1> HIDE DEF made
<1> QED
  BY <1>2, <1>3, <1>4 DEF Decodes, made

LEMMA NewPlaneType ==
    ASSUME NEW plane \in PlaneState, NEW b \in NumberedBuffer, NEW format \in PlaneFormat
    PROVE  /\ UpdateActive(plane, PackTilesDecode(plane, b, format), b) \in PlaneState
           /\ [plane EXCEPT !.format = format] \in PlaneState
<1> DEFINE new == PackTilesDecode(plane, b, format)
<1>1. new \in PlaneState
  BY DEF PackTilesDecode, PlaneState, NumberedBuffer, NoWriter
<1> HIDE DEF new
<1>2. UpdateActive(plane, new, b) \in PlaneState
  BY <1>1 DEF UpdateActive, PlaneState, NumberedBuffer
<1>3. [plane EXCEPT !.format = format] \in PlaneState
  BY DEF PlaneState
<1> QED
  BY <1>2, <1>3 DEF new

LEMMA DecodePlaneDecodes ==
    ASSUME NEW plane \in PlaneName, NEW b \in NumberedBuffer, NEW format \in PlaneFormat,
           NEW fb \in FrameBuffer, NEW other \in FrameBuffer
    PROVE  /\ Decodes(fb, DecodePlane(fb, plane, b, format), {plane})
           /\ SameAt(fb, other, plane) =>
                SameAt(DecodePlane(fb, plane, b, format), DecodePlane(other, plane, b, format), plane)
<1> DEFINE Ready(f) == WithPlane(f, plane, b.reso)
           Updated(old) == UpdateActive(old, PackTilesDecode(old, b, format), b)
           After(f) == DecodePlane(f, plane, b, format)
<1>0. b.reso \in Reso
  BY DEF NumberedBuffer
<1>1. ASSUME NEW f \in FrameBuffer
      PROVE  /\ Decodes(f, After(f), {plane})
             /\ plane \in DOMAIN After(f)
             /\ After(f)[plane] = LET old == PlaneOf(f, plane, b.reso)
                                  IN  IF b.pixels = {} THEN old ELSE Updated(old)
  <2> DEFINE old == PlaneOf(f, plane, b.reso)
  <2>1. /\ Decodes(f, Ready(f), {plane}) /\ plane \in DOMAIN Ready(f)
        /\ Ready(f)[plane] = old
    BY <1>0, WithPlaneDecodes
  <2>2. CASE b.pixels = {}
    <3>1. After(f) = Ready(f)
      BY <2>2 DEF DecodePlane
    <3> HIDE DEF Ready, After
    <3> QED
      BY <2>1, <2>2, <3>1
  <2>3. CASE b.pixels # {}
    <3>1. After(f) = [Ready(f) EXCEPT ![plane] = Updated(Ready(f)[plane])]
      BY <2>3 DEF DecodePlane
    <3> HIDE DEF Ready, After
    <3>2. Ready(f) \in FrameBuffer
      BY <2>1 DEF Decodes
    <3>3. Ready(f)[plane] \in PlaneState
      BY <2>1, <3>2, FrameBufferType
    <3>4. Updated(old) \in PlaneState
      BY <2>1, <3>3, NewPlaneType
    <3> DEFINE new == Updated(old)
    <3>5. After(f) = [Ready(f) EXCEPT ![plane] = new]
      BY <2>1, <3>1
    <3> HIDE DEF new
    <3>6. /\ Decodes(Ready(f), [Ready(f) EXCEPT ![plane] = new], {plane})
          /\ plane \in DOMAIN [Ready(f) EXCEPT ![plane] = new]
          /\ [Ready(f) EXCEPT ![plane] = new][plane] = new
      BY <2>1, <3>2, <3>4, PlaneExcept DEF new
    <3>7. /\ Decodes(Ready(f), After(f), {plane}) /\ plane \in DOMAIN After(f)
          /\ After(f)[plane] = new
      BY <3>5, <3>6
    <3>8. Decodes(f, After(f), {plane})
      BY <2>1, <3>7 DEF Decodes, SameAt
    <3> QED
      BY <2>3, <3>7, <3>8 DEF new
  <2> QED
    BY <2>2, <2>3
<1> HIDE DEF After
<1>2. ASSUME SameAt(fb, other, plane) PROVE SameAt(After(fb), After(other), plane)
  BY <1>1, <1>2 DEF SameAt, PlaneOf
<1> QED
  BY <1>1, <1>2 DEF After

LEMMA DecodeReferenceDecodes ==
    ASSUME NEW b \in NumberedBuffer, NEW fb \in FrameBuffer, NEW other \in FrameBuffer
    PROVE  /\ Decodes(fb, DecodeReference(fb, b), {b.name})
           /\ SameAt(fb, other, b.name) =>
                SameAt(DecodeReference(fb, b), DecodeReference(other, b), b.name)
<1> DEFINE Ready(f) == WithPlane(f, b.name, b.reso)
           After(f) == DecodeReference(f, b)
           Refers(old) == [old EXCEPT !.format = "reference"]
           Old(f) == PlaneOf(f, b.name, b.reso)
<1>0. b.reso \in Reso /\ b.name \in PlaneName
  BY DEF NumberedBuffer, PlaneName
<1>1. ASSUME NEW f \in FrameBuffer
      PROVE  /\ Decodes(f, After(f), {b.name})
             /\ b.name \in DOMAIN After(f)
             /\ After(f)[b.name] = Refers(Old(f))
  <2>1. /\ Decodes(f, Ready(f), {b.name}) /\ b.name \in DOMAIN Ready(f)
        /\ Ready(f)[b.name] = Old(f)
    BY <1>0, WithPlaneDecodes
  <2>2. After(f) = [Ready(f) EXCEPT ![b.name] = [Ready(f)[b.name] EXCEPT !.format = "reference"]]
    BY DEF DecodeReference
  <2> HIDE DEF Ready, After
  <2>3. Ready(f) \in FrameBuffer
    BY <2>1 DEF Decodes
  <2>4. Ready(f)[b.name] \in PlaneState
    BY <2>1, <2>3, FrameBufferType
  <2> DEFINE new == [Ready(f)[b.name] EXCEPT !.format = "reference"]
  <2>5. new \in PlaneState
    BY <2>4 DEF PlaneState, PlaneFormat
  <2>6. After(f) = [Ready(f) EXCEPT ![b.name] = new]
    BY <2>2
  <2> HIDE DEF new
  <2>7. /\ Decodes(Ready(f), [Ready(f) EXCEPT ![b.name] = new], {b.name})
        /\ b.name \in DOMAIN [Ready(f) EXCEPT ![b.name] = new]
        /\ [Ready(f) EXCEPT ![b.name] = new][b.name] = new
    BY <2>1, <2>3, <2>5, PlaneExcept
  <2>8. /\ Decodes(Ready(f), After(f), {b.name}) /\ b.name \in DOMAIN After(f)
        /\ After(f)[b.name] = new
    BY <2>6, <2>7
  <2>9. Decodes(f, After(f), {b.name})
    BY <2>1, <2>8 DEF Decodes, SameAt
  <2> QED
    BY <2>1, <2>8, <2>9 DEF new
<1> HIDE DEF After
<1>2. ASSUME SameAt(fb, other, b.name) PROVE SameAt(After(fb), After(other), b.name)
  <2>1. Old(fb) = Old(other)
    BY <1>2 DEF SameAt, PlaneOf
  <2> HIDE DEF Old, Refers
  <2>2. After(fb)[b.name] = After(other)[b.name]
    BY <1>1, <2>1
  <2> QED
    BY <1>1, <2>2 DEF SameAt
<1> QED
  BY <1>1, <1>2 DEF After

(* Every type is decoded in one of three ways.                             *)
LEMMA DecodeDataWays ==
    ASSUME NEW b \in NumberedBuffer
    PROVE  \/ PlanesOf(b) = {} /\ \A fb : DecodeData(fb, b) = fb
           \/ PlanesOf(b) = {b.name} /\ \A fb : DecodeData(fb, b) = DecodeReference(fb, b)
           \/ \E plane \in PlaneName, format \in PlaneFormat :
                /\ PlanesOf(b) = {plane}
                /\ \A fb : DecodeData(fb, b) = DecodePlane(fb, plane, b, format)
<1> USE DEF DecodeData, PlanesOf, BeautyType, BeautyOddType, HeatMapType
<1>0. b.name \in PlaneName
  BY DEF NumberedBuffer, PlaneName
<1>1. CASE b.type = "BEAUTY_WITH_NUMSAMPLE"
  BY <1>1 DEF DecodeBeautyWithNumSample, PlaneName, PlaneFormat
<1>2. CASE b.type = "BEAUTY"
  BY <1>2 DEF DecodeBeauty, PlaneName, PlaneFormat
<1>3. CASE b.type = "BEAUTYODD_WITH_NUMSAMPLE"
  BY <1>3 DEF DecodeBeautyOddWithNumSample, PlaneName, PlaneFormat
<1>4. CASE b.type = "BEAUTYODD"
  BY <1>4 DEF DecodeBeautyOdd, PlaneName, PlaneFormat
<1>5. CASE b.type = "PIXELINFO"
  BY <1>5 DEF DecodePixelInfo, PlaneName, PlaneFormat
<1>6. CASE b.type = "HEATMAP_WITH_NUMSAMPLE"
  BY <1>6 DEF DecodeHeatMapWithNumSample, PlaneName, PlaneFormat
<1>7. CASE b.type = "HEATMAP"
  BY <1>7 DEF DecodeHeatMap, PlaneName, PlaneFormat
<1>8. CASE b.type = "WEIGHT"
  BY <1>8 DEF DecodeWeight, PlaneName, PlaneFormat
<1>9. CASE b.type = "REFERENCE"
  BY <1>9
<1>10. CASE b.type = "UNDEF"
  BY <1>10
<1>11. CASE b.type \notin {"BEAUTY_WITH_NUMSAMPLE", "BEAUTY", "BEAUTYODD_WITH_NUMSAMPLE", "BEAUTYODD",
                           "PIXELINFO", "HEATMAP_WITH_NUMSAMPLE", "HEATMAP", "WEIGHT", "REFERENCE",
                           "UNDEF"}
  BY <1>0, <1>11 DEF DecodeRenderOutputAOV, PlaneName, PlaneFormat
<1> QED
  BY <1>1, <1>2, <1>3, <1>4, <1>5, <1>6, <1>7, <1>8, <1>9, <1>10, <1>11

LEMMA DecodeDataDecodes ==
    ASSUME NEW b \in NumberedBuffer, NEW fb \in FrameBuffer, NEW other \in FrameBuffer
    PROVE  /\ Decodes(fb, DecodeData(fb, b), PlanesOf(b))
           /\ \A p \in PlaneName :
                SameAt(fb, other, p) => SameAt(DecodeData(fb, b), DecodeData(other, b), p)
<1>1. CASE PlanesOf(b) = {} /\ \A f : DecodeData(f, b) = f
  BY <1>1 DEF Decodes, SameAt
<1>2. ASSUME NEW plane \in PlaneName, PlanesOf(b) = {plane},
             Decodes(fb, DecodeData(fb, b), {plane}), Decodes(other, DecodeData(other, b), {plane}),
             SameAt(fb, other, plane) => SameAt(DecodeData(fb, b), DecodeData(other, b), plane)
      PROVE  /\ Decodes(fb, DecodeData(fb, b), PlanesOf(b))
             /\ \A p \in PlaneName :
                  SameAt(fb, other, p) => SameAt(DecodeData(fb, b), DecodeData(other, b), p)
  BY <1>2 DEF Decodes, SameAt
<1>3. CASE PlanesOf(b) = {b.name} /\ \A f : DecodeData(f, b) = DecodeReference(f, b)
  <2>1. b.name \in PlaneName
    BY DEF NumberedBuffer, PlaneName
  <2> QED
    BY <1>2, <1>3, <2>1, DecodeReferenceDecodes
<1>4. CASE \E plane \in PlaneName, format \in PlaneFormat :
              /\ PlanesOf(b) = {plane}
              /\ \A f : DecodeData(f, b) = DecodePlane(f, plane, b, format)
  <2>1. PICK plane \in PlaneName, format \in PlaneFormat :
              /\ PlanesOf(b) = {plane}
              /\ \A f : DecodeData(f, b) = DecodePlane(f, plane, b, format)
    BY <1>4
  <2>2. /\ DecodeData(fb, b) = DecodePlane(fb, plane, b, format)
        /\ DecodeData(other, b) = DecodePlane(other, plane, b, format)
    BY <2>1
  <2>3. /\ Decodes(fb, DecodeData(fb, b), {plane}) /\ Decodes(other, DecodeData(other, b), {plane})
        /\ SameAt(fb, other, plane) => SameAt(DecodeData(fb, b), DecodeData(other, b), plane)
    BY <2>2, DecodePlaneDecodes
  <2> QED
    BY <1>2, <2>1, <2>3
<1> QED
  BY <1>1, <1>3, <1>4, DecodeDataWays

(* The buffers of a channel, one after the other.                          *)
IsDecoding(f, fb, data) ==
    /\ f \in [0 .. Len(data) -> FrameBuffer]
    /\ f[0] = fb
    /\ \A n \in 1 .. Len(data) : f[n] = DecodeData(f[n - 1], data[n])
    /\ DecodeBuffers(fb, data) = f[Len(data)]

LEMMA DecodeBuffersRuns ==
    ASSUME NEW fb \in FrameBuffer, NEW data \in Seq(NumberedBuffer)
    PROVE  \E f : IsDecoding(f, fb, data)
<1> DEFINE L == Len(data)
           step == [p \in FrameBuffer \X (1 .. L) |-> DecodeData(p[1], data[p[2]])]
           Run(f) == f = [n \in 0 .. L |->
                            IF n = 0 THEN fb ELSE DecodeData(f[n - 1], data[n])]
           After == CHOOSE f : Run(f)
<1>1. L \in Nat /\ \A n \in 1 .. L : data[n] \in NumberedBuffer
  BY LenProperties, ElementOfSeq
<1>2. step \in [FrameBuffer \X (1 .. L) -> FrameBuffer]
  BY <1>1, DecodeDataDecodes DEF Decodes
<1> HIDE DEF step
<1>3. PICK g : IsRun(g, FrameBuffer, fb, step, L)
  BY <1>1, <1>2, LoopRuns
<1>4. /\ g \in [0 .. L -> FrameBuffer]
      /\ g[0] = fb
      /\ \A n \in 1 .. L : g[n] = DecodeData(g[n - 1], data[n])
  <2>1. g \in [0 .. L -> FrameBuffer] /\ g[0] = fb
    BY <1>3 DEF IsRun
  <2>2. ASSUME NEW n \in 1 .. L PROVE g[n] = DecodeData(g[n - 1], data[n])
    <3>1. g[n] = step[<<g[n - 1], n>>]
      BY <1>3 DEF IsRun
    <3>2. n - 1 \in 0 .. L
      BY <1>1
    <3>3. <<g[n - 1], n>> \in FrameBuffer \X (1 .. L)
      BY <2>1, <3>2
    <3> QED
      BY <3>1, <3>3 DEF step
  <2> QED
    BY <2>1, <2>2
<1>5. Run(g)
  <2>1. g = [n \in 0 .. L |-> g[n]]
    BY <1>4
  <2>2. \A n \in 0 .. L : g[n] = IF n = 0 THEN fb ELSE DecodeData(g[n - 1], data[n])
    BY <1>1, <1>4
  <2> QED
    BY <2>1, <2>2
<1>6. Run(After)
  BY <1>5
<1>7. DecodeBuffers(fb, data) = After[L]
  BY DEF DecodeBuffers
<1> HIDE DEF After
<1>8. \A n \in 0 .. L : After[n] = IF n = 0 THEN fb ELSE DecodeData(After[n - 1], data[n])
  BY <1>6
<1>9. \A n \in 0 .. L : After[n] = g[n]
  <2>1. After[0] = g[0]
    BY <1>1, <1>4, <1>8
  <2>2. ASSUME NEW n \in 1 .. L, After[n - 1] = g[n - 1] PROVE After[n] = g[n]
    <3>1. n \in 0 .. L /\ n # 0
      BY <1>1
    <3>2. After[n] = DecodeData(After[n - 1], data[n])
      BY <1>8, <3>1
    <3>3. g[n] = DecodeData(g[n - 1], data[n])
      BY <1>4
    <3> QED
      BY <2>2, <3>2, <3>3
  <2>3. \A n \in 1 .. L : After[n - 1] = g[n - 1] => After[n] = g[n]
    BY <2>2
  <2>4. InStep(After, g, L)
    BY <1>1, <2>1, <2>3 DEF InStep
  <2> QED
    BY <2>4, LoopsAgree
<1>10. g[L] = DecodeBuffers(fb, data)
  BY <1>1, <1>7, <1>9
<1>11. IsDecoding(g, fb, data)
  BY <1>4, <1>10 DEF IsDecoding
<1> QED
  BY <1>11

LEMMA DecodeBuffersEmpty ==
    ASSUME NEW fb \in FrameBuffer
    PROVE  DecodeBuffers(fb, <<>>) = fb
<1>1. <<>> \in Seq(NumberedBuffer) /\ Len(<<>>) = 0
  BY EmptySeq
<1>2. PICK f : IsDecoding(f, fb, <<>>)
  BY <1>1, DecodeBuffersRuns
<1> QED
  BY <1>1, <1>2 DEF IsDecoding

LEMMA DecodeBuffersType ==
    ASSUME NEW fb \in FrameBuffer, NEW data \in Seq(NumberedBuffer)
    PROVE  DecodeBuffers(fb, data) \in FrameBuffer
<1>1. PICK f : IsDecoding(f, fb, data)
  BY DecodeBuffersRuns
<1>2. Len(data) \in 0 .. Len(data)
  BY LenProperties
<1> QED
  BY <1>1, <1>2 DEF IsDecoding

LEMMA DecodeBuffersAppend ==
    ASSUME NEW fb \in FrameBuffer, NEW data \in Seq(NumberedBuffer), NEW b \in NumberedBuffer
    PROVE  DecodeBuffers(fb, Append(data, b)) = DecodeData(DecodeBuffers(fb, data), b)
<1> DEFINE L == Len(data)
           longer == Append(data, b)
<1>1. /\ longer \in Seq(NumberedBuffer) /\ Len(longer) = L + 1 /\ longer[L + 1] = b
      /\ \A n \in 1 .. L : longer[n] = data[n]
      /\ L \in Nat
  BY AppendProperties, LenProperties
<1>2. PICK f : IsDecoding(f, fb, data)
  BY DecodeBuffersRuns
<1> HIDE DEF longer
<1>3. PICK g : IsDecoding(g, fb, longer)
  BY <1>1, DecodeBuffersRuns
<1>4. f[0] = g[0]
  BY <1>2, <1>3 DEF IsDecoding
<1>5. ASSUME NEW n \in 1 .. L, f[n - 1] = g[n - 1] PROVE f[n] = g[n]
  <2>1. n \in 1 .. L + 1
    BY <1>1
  <2>2. f[n] = DecodeData(f[n - 1], data[n])
    BY <1>2 DEF IsDecoding
  <2>3. g[n] = DecodeData(g[n - 1], longer[n])
    BY <1>1, <1>3, <2>1 DEF IsDecoding
  <2> QED
    BY <1>1, <1>5, <2>2, <2>3
<1>6. \A n \in 1 .. L : f[n - 1] = g[n - 1] => f[n] = g[n]
  BY <1>5
<1>7. InStep(f, g, L)
  BY <1>1, <1>4, <1>6 DEF InStep
<1>8. f[L] = g[L]
  <2>1. \A n \in 0 .. L : f[n] = g[n]
    BY <1>7, LoopsAgree
  <2>2. L \in 0 .. L
    BY <1>1
  <2> QED
    BY <2>1, <2>2
<1>9. g[L + 1] = DecodeData(g[L], b)
  <2>1. L + 1 \in 1 .. Len(longer) /\ (L + 1) - 1 = L
    BY <1>1
  <2> QED
    BY <1>1, <1>3, <2>1 DEF IsDecoding
<1> QED
  BY <1>1, <1>2, <1>3, <1>8, <1>9 DEF IsDecoding, longer

(* A plane that no buffer of data is decoded into.                         *)
Spares(data, p) == \A i \in DOMAIN data : p \notin PlanesOf(data[i])

LEMMA SparesAppend ==
    ASSUME NEW data \in Seq(NumberedBuffer), NEW b \in NumberedBuffer, NEW p
    PROVE  Spares(Append(data, b), p) <=> Spares(data, p) /\ p \notin PlanesOf(b)
<1> DEFINE longer == Append(data, b)
<1>1. /\ Len(longer) = Len(data) + 1 /\ longer[Len(data) + 1] = b
      /\ \A n \in 1 .. Len(data) : longer[n] = data[n]
      /\ Len(data) \in Nat /\ DOMAIN data = 1 .. Len(data) /\ DOMAIN longer = 1 .. Len(longer)
  BY AppendProperties, LenProperties
<1> HIDE DEF longer
<1>2. Spares(longer, p) <=> Spares(data, p) /\ p \notin PlanesOf(b)
  <2>1. \A i \in DOMAIN longer : i \in DOMAIN data \/ i = Len(data) + 1
    BY <1>1
  <2>2. Len(data) + 1 \in DOMAIN longer /\ DOMAIN data \subseteq DOMAIN longer
    BY <1>1
  <2> QED
    BY <1>1, <2>1, <2>2 DEF Spares
<1> QED
  BY <1>2 DEF longer

LEMMA DecodeBuffersAgree ==
    ASSUME NEW fb \in FrameBuffer, NEW other \in FrameBuffer, NEW p \in PlaneName,
           NEW data \in Seq(NumberedBuffer)
    PROVE  /\ SameAt(fb, other, p) =>
                SameAt(DecodeBuffers(fb, data), DecodeBuffers(other, data), p)
           /\ Spares(data, p) => SameAt(DecodeBuffers(fb, data), fb, p)
<1> DEFINE T == {s \in Seq(NumberedBuffer) :
                  /\ SameAt(fb, other, p) =>
                       SameAt(DecodeBuffers(fb, s), DecodeBuffers(other, s), p)
                  /\ Spares(s, p) => SameAt(DecodeBuffers(fb, s), fb, p)}
<1>1. <<>> \in T
  BY DecodeBuffersEmpty, EmptySeq DEF SameAt
<1>2. ASSUME NEW s \in Seq(NumberedBuffer), NEW b \in NumberedBuffer, s \in T
      PROVE  Append(s, b) \in T
  <2> DEFINE f == DecodeBuffers(fb, s)
             g == DecodeBuffers(other, s)
  <2>1. f \in FrameBuffer /\ g \in FrameBuffer
    BY DecodeBuffersType
  <2>2. /\ DecodeBuffers(fb, Append(s, b)) = DecodeData(f, b)
        /\ DecodeBuffers(other, Append(s, b)) = DecodeData(g, b)
    BY DecodeBuffersAppend
  <2>3. /\ SameAt(fb, other, p) => SameAt(f, g, p)
        /\ Spares(s, p) => SameAt(f, fb, p)
    BY <1>2
  <2>4. Append(s, b) \in Seq(NumberedBuffer)
    BY AppendProperties
  <2>5. Spares(Append(s, b), p) => Spares(s, p) /\ p \notin PlanesOf(b)
    BY SparesAppend
  <2> HIDE DEF f, g
  <2>6. /\ SameAt(f, g, p) => SameAt(DecodeData(f, b), DecodeData(g, b), p)
        /\ p \notin PlanesOf(b) => SameAt(DecodeData(f, b), f, p)
    BY <2>1, DecodeDataDecodes DEF Decodes
  <2>7. SameAt(DecodeData(f, b), f, p) /\ SameAt(f, fb, p) => SameAt(DecodeData(f, b), fb, p)
    BY DEF SameAt
  <2> QED
    BY <2>2, <2>3, <2>4, <2>5, <2>6, <2>7
<1>3. Seq(NumberedBuffer) \subseteq T
  BY <1>1, <1>2, SeqInduction
<1> QED
  BY <1>3

(* Buffers of different names have no plane in common.                     *)
LEMMA PlanesApart ==
    ASSUME NEW b \in NumberedBuffer, NEW c \in NumberedBuffer, b.name # c.name
    PROVE  PlanesOf(b) \cap PlanesOf(c) = {}
<1>1. PICK content \in Contents :
         \E i \in DOMAIN content : b.name = content[i].name /\ b.type = content[i].type
  BY DEF NumberedBuffer
<1>2. PICK other \in Contents :
         \E j \in DOMAIN other : c.name = other[j].name /\ c.type = other[j].type
  BY DEF NumberedBuffer
<1>3. PICK i \in DOMAIN content : b.name = content[i].name /\ b.type = content[i].type
  BY <1>1
<1>4. PICK j \in DOMAIN other : c.name = other[j].name /\ c.type = other[j].type
  BY <1>2
<1>5. PlanesOf(content[i]) \cap PlanesOf(other[j]) = {}
  BY <1>3, <1>4, ContentsAssumption
<1>6. PlanesOf(b) = PlanesOf(content[i]) /\ PlanesOf(c) = PlanesOf(other[j])
  BY <1>3, <1>4 DEF PlanesOf
<1> QED
  BY <1>5, <1>6

(* The channels of a machine: each holds the buffers of its name.          *)
Channel == [dataType : {"LATENCY_LOG", "VEC_PACKET", "FB_DATA"}, data : Seq(NumberedBuffer)]

Queue == UNION {[names -> Channel] : names \in SUBSET STRING}

QueueOk(queue) ==
    /\ queue \in Queue
    /\ IsFiniteSet(DOMAIN queue)
    /\ \A name \in DOMAIN queue :
         /\ queue[name].dataType = DataTypeOf(name)
         /\ \A i \in DOMAIN queue[name].data : queue[name].data[i].name = name

Machine ==
    [array : Queue, hasVecPacket : BOOLEAN, snapshotStartTime : Nat, progress : Nat,
     status : {"STARTED", "RENDERING"}, fb : FrameBuffer]

LEMMA QueueType ==
    ASSUME NEW queue \in Queue
    PROVE  /\ DOMAIN queue \in SUBSET STRING
           /\ \A name \in DOMAIN queue : queue[name] \in Channel
           /\ queue = [name \in DOMAIN queue |-> queue[name]]
<1>1. PICK names \in SUBSET STRING : queue \in [names -> Channel]
  BY DEF Queue
<1> QED
  BY <1>1

(* What waits for a plane, if anything does, is the channel of one name.   *)
DataOf(queue, n) == IF n \in Pending(queue) THEN queue[n].data ELSE <<>>

OnlyFrom(queue, n, p) == \A name \in Pending(queue) : name # n => Spares(queue[name].data, p)

LEMMA OneNameOnly ==
    ASSUME NEW queue, QueueOk(queue), NEW p
    PROVE  \E n : OnlyFrom(queue, n, p)
<1>1. CASE \A name \in Pending(queue) : Spares(queue[name].data, p)
  BY <1>1 DEF OnlyFrom
<1>2. CASE \E n \in Pending(queue) : ~ Spares(queue[n].data, p)
  <2>1. PICK n \in Pending(queue) : ~ Spares(queue[n].data, p)
    BY <1>2
  <2>2. PICK i \in DOMAIN queue[n].data : p \in PlanesOf(queue[n].data[i])
    BY <2>1 DEF Spares
  <2>3. ASSUME NEW name \in Pending(queue), name # n, NEW j \in DOMAIN queue[name].data
        PROVE  p \notin PlanesOf(queue[name].data[j])
    <3>1. n \in DOMAIN queue /\ name \in DOMAIN queue
      BY DEF Pending
    <3>2. queue[n].data \in Seq(NumberedBuffer) /\ queue[name].data \in Seq(NumberedBuffer)
      BY <3>1, QueueType DEF QueueOk, Channel
    <3>3. queue[n].data[i] \in NumberedBuffer /\ queue[name].data[j] \in NumberedBuffer
      BY <2>2, <2>3, <3>2
    <3>4. queue[n].data[i].name = n /\ queue[name].data[j].name = name
      BY <2>2, <2>3, <3>1 DEF QueueOk
    <3> QED
      BY <2>2, <2>3, <3>3, <3>4, PlanesApart
  <2>4. OnlyFrom(queue, n, p)
    BY <2>3 DEF OnlyFrom, Spares
  <2> QED
    BY <2>4
<1> QED
  BY <1>1, <1>2

LEMMA PendingType ==
    ASSUME NEW queue, QueueOk(queue)
    PROVE  /\ IsFiniteSet(Pending(queue))
           /\ \A name \in Pending(queue) : queue[name].data \in Seq(NumberedBuffer)
           /\ \A n : DataOf(queue, n) \in Seq(NumberedBuffer)
<1>1. IsFiniteSet(Pending(queue))
  BY FS_Subset DEF Pending, QueueOk
<1>2. \A name \in Pending(queue) : queue[name].data \in Seq(NumberedBuffer)
  BY QueueType DEF QueueOk, Channel, Pending
<1>3. <<>> \in Seq(NumberedBuffer)
  BY EmptySeq
<1> QED
  BY <1>1, <1>2, <1>3 DEF DataOf

(* The fold of decodeAll: t[s] has the channels of s decoded.              *)
DecodesUp(queue, fb, t) ==
    t = [s \in SUBSET Pending(queue) |->
            IF s = {} THEN fb
            ELSE DecodeBuffers(t[s \ {AnyOf(s)}], queue[AnyOf(s)].data)]

LEMMA DecodesUpExists ==
    ASSUME NEW queue, QueueOk(queue), NEW fb
    PROVE  \E t : DecodesUp(queue, fb, t)
<1> DEFINE M == Pending(queue)
           Body(t, s) == IF s = {} THEN fb
                         ELSE DecodeBuffers(t[s \ {AnyOf(s)}], queue[AnyOf(s)].data)
           UpTo(t, n) == \A s \in SUBSET M : Cardinality(s) <= n => t[s] = Body(t, s)
           Good == {n \in Nat : \E t : DOMAIN t = SUBSET M /\ UpTo(t, n)}
<1>0. IsFiniteSet(M)
  BY PendingType
<1> HIDE DEF M
<1>1. 0 \in Good
  <2> DEFINE t == [s \in SUBSET M |-> fb]
  <2>1. ASSUME NEW s \in SUBSET M, Cardinality(s) <= 0 PROVE s = {}
    BY <1>0, <2>1, FS_Subset, FS_CardinalityType, FS_EmptySet
  <2>2. UpTo(t, 0)
    BY <2>1
  <2>3. DOMAIN t = SUBSET M
    OBVIOUS
  <2> HIDE DEF t, UpTo
  <2> QED
    BY <2>2, <2>3
<1>2. ASSUME NEW n \in Nat, n \in Good PROVE n + 1 \in Good
  <2>1. PICK t : DOMAIN t = SUBSET M /\ UpTo(t, n)
    BY <1>2
  <2> DEFINE u == [s \in SUBSET M |-> Body(t, s)]
  <2>2. ASSUME NEW s \in SUBSET M, Cardinality(s) <= n + 1
        PROVE  u[s] = Body(u, s)
    <3>1. CASE s = {}
      BY <3>1
    <3>2. CASE s # {}
      <4> DEFINE less == s \ {AnyOf(s)}
      <4>1. less \in SUBSET M /\ Cardinality(less) <= n
        BY <1>0, <1>2, <2>2, <3>2, OneLess
      <4>2. u[less] = t[less]
        BY <2>1, <4>1
      <4>3. u[s] = Body(t, s)
        OBVIOUS
      <4> HIDE DEF u
      <4> QED
        BY <3>2, <4>2, <4>3
    <3> QED
      BY <3>1, <3>2
  <2>3. UpTo(u, n + 1) /\ DOMAIN u = SUBSET M
    BY <2>2
  <2> HIDE DEF u, UpTo
  <2> QED
    BY <1>2, <2>3
<1>3. Nat \subseteq Good
  <2> HIDE DEF Good
  <2> QED
    BY <1>1, <1>2, NatSetInduction
<1>4. Cardinality(M) \in Nat
  BY <1>0, FS_CardinalityType
<1>5. PICK t : DOMAIN t = SUBSET M /\ UpTo(t, Cardinality(M))
  BY <1>3, <1>4
<1> DEFINE u == [s \in SUBSET M |-> Body(t, s)]
<1>6. ASSUME NEW s \in SUBSET M PROVE t[s] = Body(t, s)
  BY <1>0, <1>5, FS_Subset
<1>7. u = [s \in SUBSET M |-> Body(u, s)]
  <2>1. ASSUME NEW s \in SUBSET M PROVE Body(t, s) = Body(u, s)
    BY <1>0, <1>6, OneLess
  <2> QED
    BY <2>1
<1> QED
  BY <1>7 DEF DecodesUp, M

LEMMA DecodesUpAt ==
    ASSUME NEW queue, QueueOk(queue), NEW fb \in FrameBuffer, NEW t, DecodesUp(queue, fb, t),
           NEW n, NEW p \in PlaneName, OnlyFrom(queue, n, p)
    PROVE  /\ t[Pending(queue)] \in FrameBuffer
           /\ SameAt(t[Pending(queue)], DecodeBuffers(fb, DataOf(queue, n)), p)
<1> DEFINE M == Pending(queue)
           All == DecodeBuffers(fb, DataOf(queue, n))
           Holds(s) == /\ t[s] \in FrameBuffer
                       /\ SameAt(t[s], IF n \in s THEN All ELSE fb, p)
           Good == {k \in Nat : \A s \in SUBSET M : Cardinality(s) <= k => Holds(s)}
<1>0. IsFiniteSet(M) /\ \A name \in M : queue[name].data \in Seq(NumberedBuffer)
  BY PendingType
<1>1. ASSUME NEW s \in SUBSET M
      PROVE  t[s] = IF s = {} THEN fb
                    ELSE DecodeBuffers(t[s \ {AnyOf(s)}], queue[AnyOf(s)].data)
  BY DEF DecodesUp
<1>2. \A name \in M : name # n => Spares(queue[name].data, p)
  BY DEF OnlyFrom
<1>3. n \in M => DataOf(queue, n) = queue[n].data
  BY DEF DataOf
<1>4. n \notin M => All = fb
  BY DecodeBuffersEmpty DEF DataOf
<1> HIDE DEF M
<1>5. 0 \in Good
  <2>1. ASSUME NEW s \in SUBSET M, Cardinality(s) <= 0 PROVE s = {}
    BY <1>0, <2>1, FS_Subset, FS_CardinalityType, FS_EmptySet
  <2>2. ASSUME NEW s \in SUBSET M, Cardinality(s) <= 0 PROVE Holds(s)
    <3>1. t[s] = fb /\ n \notin s
      BY <1>1, <2>1, <2>2
    <3> QED
      BY <3>1 DEF SameAt
  <2> HIDE DEF Holds
  <2> QED
    BY <2>2
<1>6. ASSUME NEW k \in Nat, k \in Good PROVE k + 1 \in Good
  <2>1. ASSUME NEW s \in SUBSET M, Cardinality(s) <= k + 1 PROVE Holds(s)
    <3>1. CASE s = {}
      <4>1. t[s] = fb /\ n \notin s
        BY <1>1, <3>1
      <4> QED
        BY <4>1 DEF SameAt
    <3>2. CASE s # {}
      <4> DEFINE x == AnyOf(s)
                 less == s \ {x}
                 data == queue[x].data
                 f == t[less]
      <4>1. x \in M /\ less \in SUBSET M /\ Cardinality(less) <= k
        <5>1. k \in Nat
          BY <1>6
        <5> HIDE DEF Holds, Good
        <5> QED
          BY <1>0, <2>1, <3>2, <5>1, OneLess
      <4>2. x \in s
        BY <3>2 DEF AnyOf
      <4>3. f \in FrameBuffer /\ SameAt(f, IF n \in less THEN All ELSE fb, p)
        BY <1>6, <4>1
      <4>4. t[s] = DecodeBuffers(f, data)
        BY <1>1, <3>2
      <4>5. data \in Seq(NumberedBuffer)
        BY <1>0, <4>1
      <4>6. CASE x = n
        <5>1. n \notin less /\ n \in s /\ data = DataOf(queue, n)
          BY <1>3, <4>1, <4>2, <4>6
        <5>2. SameAt(f, fb, p)
          BY <4>3, <5>1
        <5> HIDE DEF f, data, less, x
        <5>3. t[s] \in FrameBuffer /\ SameAt(t[s], DecodeBuffers(fb, data), p)
          BY <4>3, <4>4, <4>5, <5>2, DecodeBuffersAgree, DecodeBuffersType
        <5> QED
          BY <5>1, <5>3
      <4>7. CASE x # n
        <5>1. (n \in less <=> n \in s) /\ Spares(data, p)
          BY <1>2, <4>1, <4>2, <4>7
        <5> HIDE DEF f, data, less, x, All
        <5>2. t[s] \in FrameBuffer /\ SameAt(t[s], f, p)
          BY <4>3, <4>4, <4>5, <5>1, DecodeBuffersAgree, DecodeBuffersType
        <5>3. SameAt(t[s], IF n \in s THEN All ELSE fb, p)
          BY <4>3, <5>1, <5>2 DEF SameAt
        <5> QED
          BY <5>2, <5>3
      <4> QED
        BY <4>6, <4>7
    <3> QED
      BY <3>1, <3>2
  <2> HIDE DEF Holds
  <2> QED
    BY <2>1
<1>7. Cardinality(M) \in Nat
  BY <1>0, FS_CardinalityType
<1>8. Holds(M)
  <2>1. Nat \subseteq Good
    <3> HIDE DEF Good
    <3> QED
      BY <1>5, <1>6, NatSetInduction
  <2> HIDE DEF Holds
  <2> QED
    BY <1>7, <2>1
<1> QED
  BY <1>4, <1>8 DEF M

LEMMA DecodeAllAt ==
    ASSUME NEW machine \in Machine, QueueOk(machine.array),
           NEW n, NEW p \in PlaneName, OnlyFrom(machine.array, n, p)
    PROVE  /\ DecodeAll(machine).fb \in FrameBuffer
           /\ SameAt(DecodeAll(machine).fb,
                     DecodeBuffers(machine.fb, DataOf(machine.array, n)), p)
<1> DEFINE queue == machine.array
           fb == machine.fb
           M == Pending(queue)
           Folds(u) == u = [s \in SUBSET M |->
                              IF s = {} THEN fb
                              ELSE LET x == CHOOSE x \in s : TRUE
                                   IN  DecodeBuffers(u[s \ {x}], queue[x].data)]
           t == CHOOSE u : Folds(u)
<1>1. fb \in FrameBuffer
  BY DEF Machine
<1>2. DecodeAll(machine).fb = t[M]
  BY DEF DecodeAll, FoldSet, MapThenFoldSet, Machine
<1>3. ASSUME NEW u PROVE DecodesUp(queue, fb, u) <=> Folds(u)
  BY DEF DecodesUp, AnyOf
<1> HIDE DEF Folds
<1>4. \E u : DecodesUp(queue, fb, u)
  BY DecodesUpExists
<1>5. Folds(t)
  BY <1>3, <1>4
<1>6. DecodesUp(queue, fb, t)
  BY <1>3, <1>5
<1> HIDE DEF t
<1>7. /\ t[M] \in FrameBuffer
      /\ SameAt(t[M], DecodeBuffers(fb, DataOf(queue, n)), p)
  BY <1>1, <1>6, DecodesUpAt
<1> QED
  BY <1>2, <1>7

(* A machine, and what it becomes when a buffer is queued.                 *)
QueueMachine == {machine \in Machine : QueueOk(machine.array)}

DataBefore(queue, name) == IF name \in DOMAIN queue THEN queue[name].data ELSE <<>>

DataAfter(queue, b) ==
    IF b.name = VecPacket THEN <<b>> ELSE Append(DataBefore(queue, b.name), b)

LEMMA KindOfName ==
    ASSUME NEW name
    PROVE  /\ DataTypeOf(name) \in {"LATENCY_LOG", "VEC_PACKET", "FB_DATA"}
           /\ DataTypeOf(name) = "VEC_PACKET" <=> name = VecPacket
           /\ DataTypeOf(name) = "FB_DATA" <=> name \notin {LatencyLog, VecPacket}
BY DEF DataTypeOf, LatencyLog, VecPacket

LEMMA EnqueueQueues ==
    ASSUME NEW machine \in QueueMachine, NEW b \in NumberedBuffer
    PROVE  LET queue == machine.array
               longer == Enqueue(machine, b).array
           IN  /\ Enqueue(machine, b) \in QueueMachine
               /\ Enqueue(machine, b) = [machine EXCEPT !.array = longer]
               /\ DOMAIN longer = DOMAIN queue \cup {b.name}
               /\ \A n \in DOMAIN queue : n # b.name => longer[n] = queue[n]
               /\ longer[b.name].dataType = DataTypeOf(b.name)
               /\ longer[b.name].data = DataAfter(queue, b)
<1> DEFINE queue == machine.array
           name == b.name
           chan == IF name \in DOMAIN queue THEN queue[name] ELSE NewChan(DataTypeOf(name))
           new == PushSingleChan(chan, b)
           longer == [n \in DOMAIN queue \cup {name} |-> IF n = name THEN new ELSE queue[n]]
<1>1. machine \in Machine /\ QueueOk(queue) /\ queue \in Queue
  BY DEF QueueMachine, QueueOk
<1>2. name \in STRING /\ DOMAIN queue \in SUBSET STRING
  BY <1>1, QueueType DEF NumberedBuffer
<1>3. chan \in Channel /\ chan.dataType = DataTypeOf(name) /\ chan.data = DataBefore(queue, name)
  <2>1. CASE name \in DOMAIN queue
    BY <1>1, <2>1, QueueType DEF QueueOk, DataBefore
  <2>2. CASE name \notin DOMAIN queue
    <3>1. <<>> \in Seq(NumberedBuffer)
      BY EmptySeq
    <3> QED
      BY <2>2, <3>1, KindOfName DEF NewChan, DataBefore, Channel
  <2> QED
    BY <2>1, <2>2
<1>4. /\ DataAfter(queue, b) \in Seq(NumberedBuffer)
      /\ \A i \in DOMAIN DataAfter(queue, b) : DataAfter(queue, b)[i].name = name
  <2>1. /\ DataBefore(queue, name) \in Seq(NumberedBuffer)
        /\ \A i \in DOMAIN DataBefore(queue, name) : DataBefore(queue, name)[i].name = name
    <3>1. DataBefore(queue, name) \in Seq(NumberedBuffer)
      BY <1>3 DEF Channel
    <3>2. CASE name \in DOMAIN queue
      BY <1>1, <3>1, <3>2 DEF DataBefore, QueueOk
    <3>3. CASE name \notin DOMAIN queue
      BY <3>1, <3>3 DEF DataBefore
    <3> QED
      BY <3>1, <3>2, <3>3
  <2>2. CASE name = VecPacket
    BY <2>2 DEF DataAfter
  <2>3. CASE name # VecPacket
    <3> DEFINE old == DataBefore(queue, name)
    <3>1. DataAfter(queue, b) = Append(old, b)
      BY <2>3 DEF DataAfter
    <3> HIDE DEF old
    <3>2. /\ Append(old, b) \in Seq(NumberedBuffer)
          /\ \A i \in DOMAIN Append(old, b) : Append(old, b)[i].name = name
      BY <2>1, AppendProperties DEF old
    <3> QED
      BY <3>1, <3>2
  <2> QED
    BY <2>2, <2>3
<1>5. new \in Channel /\ new.dataType = DataTypeOf(name) /\ new.data = DataAfter(queue, b)
  <2> HIDE DEF chan
  <2>1. new.dataType = chan.dataType /\ new.data = DataAfter(queue, b)
    BY <1>3, KindOfName DEF PushSingleChan, Channel, DataAfter
  <2>2. new \in Channel
    BY <1>3, <1>4, <2>1 DEF PushSingleChan, Channel
  <2> QED
    BY <1>3, <2>1, <2>2
<1> HIDE DEF new
<1>6. longer \in [DOMAIN queue \cup {name} -> Channel]
  BY <1>1, <1>5, QueueType
<1>7. longer \in Queue
  <2>1. DOMAIN queue \cup {name} \in SUBSET STRING
    BY <1>2
  <2> QED
    BY <1>6, <2>1 DEF Queue
<1>8. IsFiniteSet(DOMAIN longer)
  <2>1. IsFiniteSet(DOMAIN queue)
    BY <1>1 DEF QueueOk
  <2> QED
    BY <2>1, FS_AddElement
<1>9. /\ DOMAIN longer = DOMAIN queue \cup {name}
      /\ \A n \in DOMAIN queue : n # name => longer[n] = queue[n]
      /\ longer[name] = new
  OBVIOUS
<1>10. Enqueue(machine, b) = [machine EXCEPT !.array = longer]
  BY DEF Enqueue, new
<1> HIDE DEF longer
<1>11. QueueOk(longer)
  <2>1. ASSUME NEW n \in DOMAIN longer
        PROVE  /\ longer[n].dataType = DataTypeOf(n)
               /\ \A i \in DOMAIN longer[n].data : longer[n].data[i].name = n
    <3>1. CASE n = name
      BY <1>4, <1>5, <1>9, <3>1
    <3>2. CASE n # name
      BY <1>1, <1>9, <3>2 DEF QueueOk
    <3> QED
      BY <3>1, <3>2
  <2> QED
    BY <1>7, <1>8, <2>1 DEF QueueOk
<1>12. [machine EXCEPT !.array = longer] \in Machine /\ [machine EXCEPT !.array = longer].array = longer
  BY <1>1, <1>7 DEF Machine
<1>13. [machine EXCEPT !.array = longer] \in QueueMachine
  BY <1>11, <1>12 DEF QueueMachine
<1> QED
  BY <1>5, <1>9, <1>10, <1>12, <1>13

(* pushBuffer does one of three things.                                    *)
Noted(machine, b) == [machine EXCEPT !.hasVecPacket = @ \/ b.name = VecPacket]

LEMMA NotedType ==
    ASSUME NEW machine \in QueueMachine, NEW b
    PROVE  /\ Noted(machine, b) \in QueueMachine
           /\ Noted(machine, b).array = machine.array
           /\ Noted(machine, b).fb = machine.fb
           /\ Noted(machine, b).snapshotStartTime = machine.snapshotStartTime
           /\ Noted(machine, b).hasVecPacket = (machine.hasVecPacket \/ b.name = VecPacket)
BY DEF Noted, QueueMachine, Machine

LEMMA PushBufferWays ==
    ASSUME NEW machine, NEW b, NEW delay \in BOOLEAN
    PROVE  /\ b.name = AuxInfo => PushBuffer(machine, b, delay, FALSE) = machine
           /\ b.name # AuxInfo /\ (delay \/ b.name \in {VecPacket, LatencyLog}) =>
                PushBuffer(machine, b, delay, FALSE) = Enqueue(Noted(machine, b), b)
           /\ b.name # AuxInfo /\ ~ delay /\ b.name \notin {VecPacket, LatencyLog} =>
                PushBuffer(machine, b, delay, FALSE) =
                  [Noted(machine, b) EXCEPT !.fb = DecodeData(@, b)]
BY DEF PushBuffer, Noted

LEMMA PushBufferType ==
    ASSUME NEW machine \in QueueMachine, NEW b \in NumberedBuffer, NEW delay \in BOOLEAN
    PROVE  PushBuffer(machine, b, delay, FALSE) \in QueueMachine
<1> DEFINE noted == Noted(machine, b)
<1>1. noted \in QueueMachine
  BY NotedType
<1>2. CASE b.name = AuxInfo
  BY <1>2, PushBufferWays
<1>3. CASE b.name # AuxInfo /\ (delay \/ b.name \in {VecPacket, LatencyLog})
  <2>1. PushBuffer(machine, b, delay, FALSE) = Enqueue(noted, b)
    BY <1>3, PushBufferWays
  <2> HIDE DEF noted
  <2>2. Enqueue(noted, b) \in QueueMachine
    BY <1>1, EnqueueQueues
  <2> QED
    BY <2>1, <2>2
<1>4. CASE b.name # AuxInfo /\ ~ delay /\ b.name \notin {VecPacket, LatencyLog}
  <2>1. PushBuffer(machine, b, delay, FALSE) = [noted EXCEPT !.fb = DecodeData(@, b)]
    BY <1>4 DEF PushBuffer, Noted
  <2> HIDE DEF noted
  <2>2. noted.fb \in FrameBuffer
    BY <1>1 DEF QueueMachine, Machine
  <2>3. DecodeData(noted.fb, b) \in FrameBuffer
    BY <2>2, DecodeDataDecodes DEF Decodes
  <2>4. [noted EXCEPT !.fb = DecodeData(@, b)] \in QueueMachine
    BY <1>1, <2>3 DEF QueueMachine, Machine
  <2> QED
    BY <2>1, <2>4
<1> QED
  BY <1>2, <1>3, <1>4

(* What waits, decoded, makes the frame buffer other of fb.                *)
Matches(queue, fb, other) ==
    \A n : \A p \in PlaneName :
        OnlyFrom(queue, n, p) => SameAt(DecodeBuffers(fb, DataOf(queue, n)), other, p)

LEMMA MatchesDecodes ==
    ASSUME NEW machine \in QueueMachine, NEW other \in FrameBuffer
    PROVE  Matches(machine.array, machine.fb, other) <=> DecodeAll(machine).fb = other
<1>0. machine \in Machine /\ QueueOk(machine.array)
  BY DEF QueueMachine
<1>1. ASSUME Matches(machine.array, machine.fb, other) PROVE DecodeAll(machine).fb = other
  <2>1. ASSUME NEW p \in PlaneName
        PROVE  DecodeAll(machine).fb \in FrameBuffer /\ SameAt(DecodeAll(machine).fb, other, p)
    <3>1. PICK n : OnlyFrom(machine.array, n, p)
      BY <1>0, OneNameOnly
    <3>2. /\ DecodeAll(machine).fb \in FrameBuffer
          /\ SameAt(DecodeAll(machine).fb, DecodeBuffers(machine.fb, DataOf(machine.array, n)), p)
      BY <1>0, <3>1, DecodeAllAt
    <3>3. SameAt(DecodeBuffers(machine.fb, DataOf(machine.array, n)), other, p)
      BY <1>1, <3>1 DEF Matches
    <3> QED
      BY <3>2, <3>3 DEF SameAt
  <2>2. "beauty" \in PlaneName
    BY DEF PlaneName
  <2> QED
    BY <2>1, <2>2, SameEverywhere
<1>2. ASSUME DecodeAll(machine).fb = other PROVE Matches(machine.array, machine.fb, other)
  <2>1. ASSUME NEW n, NEW p \in PlaneName, OnlyFrom(machine.array, n, p)
        PROVE  SameAt(DecodeBuffers(machine.fb, DataOf(machine.array, n)), other, p)
    <3>1. SameAt(DecodeAll(machine).fb, DecodeBuffers(machine.fb, DataOf(machine.array, n)), p)
      BY <1>0, <2>1, DecodeAllAt
    <3> QED
      BY <1>2, <3>1 DEF SameAt
  <2> QED
    BY <2>1 DEF Matches
<1> QED
  BY <1>1, <1>2

(* Decoding a buffer at once makes the same as to queue it.                *)
LEMMA PushBufferMatches ==
    ASSUME NEW late \in QueueMachine, NEW dir \in QueueMachine, NEW b \in NumberedBuffer,
           Matches(late.array, late.fb, dir.fb)
    PROVE  Matches(PushBuffer(late, b, TRUE, FALSE).array, PushBuffer(late, b, TRUE, FALSE).fb,
                   PushBuffer(dir, b, FALSE, FALSE).fb)
<1> DEFINE queue == late.array
           late1 == PushBuffer(late, b, TRUE, FALSE)
           dir1 == PushBuffer(dir, b, FALSE, FALSE)
           longer == late1.array
<1>0. /\ dir.fb \in FrameBuffer /\ late.fb \in FrameBuffer /\ QueueOk(queue) /\ queue \in Queue
      /\ QueueOk(longer) /\ longer \in Queue
  <2>1. late1 \in QueueMachine
    BY PushBufferType
  <2> HIDE DEF late1
  <2> QED
    BY <2>1 DEF QueueMachine, Machine, QueueOk
<1>1. CASE b.name = AuxInfo
  BY <1>1, PushBufferWays
<1>2. ASSUME b.name # AuxInfo
      PROVE  /\ late1.fb = late.fb
             /\ DOMAIN longer = DOMAIN queue \cup {b.name}
             /\ \A n \in DOMAIN queue : n # b.name => longer[n] = queue[n]
             /\ longer[b.name].dataType = DataTypeOf(b.name)
             /\ longer[b.name].data = DataAfter(queue, b)
  <2> DEFINE noted == Noted(late, b)
             made == Enqueue(noted, b)
  <2>1. noted \in QueueMachine /\ noted.array = queue /\ noted.fb = late.fb
    BY NotedType
  <2>2. late1 = made
    BY <1>2, PushBufferWays
  <2> HIDE DEF noted, late1
  <2>3. /\ made = [noted EXCEPT !.array = made.array]
        /\ DOMAIN made.array = DOMAIN queue \cup {b.name}
        /\ \A n \in DOMAIN queue : n # b.name => made.array[n] = queue[n]
        /\ made.array[b.name].dataType = DataTypeOf(b.name)
        /\ made.array[b.name].data = DataAfter(queue, b)
    BY <2>1, EnqueueQueues
  <2> HIDE DEF made
  <2>4. made.fb = noted.fb
    BY <2>1, <2>3 DEF QueueMachine, Machine
  <2> QED
    BY <2>1, <2>2, <2>3, <2>4
<1>3. CASE b.name # AuxInfo /\ b.name \in {VecPacket, LatencyLog}
  <2>1. dir1.fb = dir.fb
    <3> DEFINE noted == Noted(dir, b)
               made == Enqueue(noted, b)
    <3>1. noted \in QueueMachine /\ noted.fb = dir.fb
      BY NotedType
    <3>2. dir1 = made
      BY <1>3, PushBufferWays
    <3> HIDE DEF noted, dir1
    <3>3. made = [noted EXCEPT !.array = made.array]
      BY <3>1, EnqueueQueues
    <3> HIDE DEF made
    <3>4. made.fb = noted.fb
      BY <3>1, <3>3 DEF QueueMachine, Machine
    <3> QED
      BY <3>1, <3>2, <3>4
  <2>2. DataTypeOf(b.name) # "FB_DATA"
    BY <1>3, KindOfName
  <2> HIDE DEF longer, late1, dir1
  <2>3. b.name \in DOMAIN queue => queue[b.name].dataType # "FB_DATA"
    BY <1>0, <2>2 DEF QueueOk
  <2>4. Pending(longer) = Pending(queue) /\ b.name \notin Pending(longer)
    BY <1>2, <1>3, <2>2, <2>3 DEF Pending
  <2>5. \A n \in Pending(queue) : longer[n] = queue[n]
    BY <1>2, <1>3, <2>4 DEF Pending
  <2>6. \A n : DataOf(longer, n) = DataOf(queue, n)
    BY <2>4, <2>5 DEF DataOf
  <2>7. \A n, p : OnlyFrom(longer, n, p) => OnlyFrom(queue, n, p)
    BY <2>4, <2>5 DEF OnlyFrom
  <2>8. Matches(longer, late.fb, dir.fb)
    BY <2>6, <2>7 DEF Matches
  <2> QED
    BY <1>2, <1>3, <2>1, <2>8 DEF longer, late1, dir1
<1>4. CASE b.name # AuxInfo /\ b.name \notin {VecPacket, LatencyLog}
  <2>1. dir1.fb = DecodeData(dir.fb, b)
    <3> DEFINE noted == Noted(dir, b)
    <3>1. noted \in QueueMachine /\ noted.fb = dir.fb
      BY NotedType
    <3>2. dir1 = [noted EXCEPT !.fb = DecodeData(@, b)]
      BY <1>4, PushBufferWays
    <3> HIDE DEF noted, dir1
    <3> QED
      BY <3>1, <3>2 DEF QueueMachine, Machine
  <2>2. DataTypeOf(b.name) = "FB_DATA"
    BY <1>4, KindOfName
  <2> HIDE DEF longer, late1, dir1
  <2>3. b.name \in DOMAIN queue => queue[b.name].dataType = "FB_DATA"
    BY <1>0, <2>2 DEF QueueOk
  <2>4. Pending(longer) = Pending(queue) \cup {b.name}
    BY <1>2, <1>4, <2>2, <2>3 DEF Pending
  <2>5. \A n \in Pending(queue) : n # b.name => longer[n] = queue[n]
    BY <1>2, <1>4 DEF Pending
  <2>6. /\ \A n : n # b.name => DataOf(longer, n) = DataOf(queue, n)
        /\ DataOf(longer, b.name) = Append(DataOf(queue, b.name), b)
    <3>1. DataBefore(queue, b.name) = DataOf(queue, b.name)
      BY <2>3 DEF DataBefore, DataOf, Pending
    <3>2. longer[b.name].data = Append(DataOf(queue, b.name), b)
      BY <1>2, <1>4, <3>1 DEF DataAfter
    <3>3. DataOf(longer, b.name) = longer[b.name].data
      BY <2>4 DEF DataOf
    <3>4. \A n : n # b.name => DataOf(longer, n) = DataOf(queue, n)
      BY <2>4, <2>5 DEF DataOf
    <3> QED
      BY <3>2, <3>3, <3>4
  <2>7. ASSUME NEW n, NEW p, OnlyFrom(longer, n, p)
        PROVE  /\ OnlyFrom(queue, n, p)
               /\ n # b.name => p \notin PlanesOf(b)
    <3>1. DataOf(queue, b.name) \in Seq(NumberedBuffer)
      BY <1>0, PendingType
    <3>2. ASSUME n # b.name PROVE Spares(DataOf(queue, b.name), p) /\ p \notin PlanesOf(b)
      <4>1. b.name \in Pending(longer)
        BY <2>4
      <4>2. Spares(longer[b.name].data, p)
        BY <2>7, <3>2, <4>1 DEF OnlyFrom
      <4>3. longer[b.name].data = Append(DataOf(queue, b.name), b)
        BY <2>6, <4>1 DEF DataOf
      <4> QED
        BY <3>1, <4>2, <4>3, SparesAppend
    <3>3. ASSUME NEW name \in Pending(queue), name # n PROVE Spares(queue[name].data, p)
      <4>1. CASE name = b.name
        BY <3>2, <3>3, <4>1 DEF DataOf
      <4>2. CASE name # b.name
        BY <2>4, <2>5, <2>7, <3>3, <4>2 DEF OnlyFrom
      <4> QED
        BY <4>1, <4>2
    <3> QED
      BY <3>2, <3>3 DEF OnlyFrom
  <2>8. ASSUME NEW n, NEW p \in PlaneName, OnlyFrom(longer, n, p)
        PROVE  SameAt(DecodeBuffers(late.fb, DataOf(longer, n)), DecodeData(dir.fb, b), p)
    <3> DEFINE made == DecodeBuffers(late.fb, DataOf(queue, n))
    <3>1. SameAt(made, dir.fb, p)
      BY <2>7, <2>8 DEF Matches
    <3>2. DataOf(queue, n) \in Seq(NumberedBuffer)
      BY <1>0, PendingType
    <3>3. made \in FrameBuffer
      BY <1>0, <3>2, DecodeBuffersType
    <3>4. CASE n = b.name
      <4>0. DataOf(longer, n) = Append(DataOf(queue, n), b) /\ late.fb \in FrameBuffer
        BY <1>0, <2>6, <3>4
      <4>1. DecodeBuffers(late.fb, DataOf(longer, n)) = DecodeData(made, b)
        BY <3>2, <4>0, DecodeBuffersAppend
      <4> HIDE DEF made
      <4> QED
        BY <1>0, <3>1, <3>3, <4>1, DecodeDataDecodes
    <3>5. CASE n # b.name
      <4>1. DecodeBuffers(late.fb, DataOf(longer, n)) = made
        BY <2>6, <3>5
      <4>2. SameAt(DecodeData(dir.fb, b), dir.fb, p)
        BY <1>0, <2>7, <2>8, <3>5, DecodeDataDecodes DEF Decodes
      <4> HIDE DEF made
      <4> QED
        BY <3>1, <4>1, <4>2 DEF SameAt
    <3> QED
      BY <3>4, <3>5
  <2>9. Matches(longer, late.fb, DecodeData(dir.fb, b))
    BY <2>8 DEF Matches
  <2> QED
    BY <1>2, <1>4, <2>1, <2>9 DEF longer, late1, dir1
<1> QED
  BY <1>1, <1>3, <1>4

(* The loop over the buffers of a message.                                 *)
IsPushing(f, machine, data, delay) ==
    /\ f \in [0 .. Len(data) -> QueueMachine]
    /\ f[0] = machine
    /\ \A n \in 1 .. Len(data) : f[n] = PushBuffer(f[n - 1], data[n], delay, FALSE)
    /\ PushBuffers(machine, data, delay, FALSE) = f[Len(data)]

LEMMA PushBuffersRuns ==
    ASSUME NEW machine \in QueueMachine, NEW data \in Seq(NumberedBuffer),
           NEW delay \in BOOLEAN
    PROVE  \E f : IsPushing(f, machine, data, delay)
<1> DEFINE L == Len(data)
           step == [p \in QueueMachine \X (1 .. L) |-> PushBuffer(p[1], data[p[2]], delay, FALSE)]
           Run(f) == f = [n \in 0 .. L |->
                            IF n = 0 THEN machine ELSE PushBuffer(f[n - 1], data[n], delay, FALSE)]
           After == CHOOSE f : Run(f)
<1>1. L \in Nat /\ \A n \in 1 .. L : data[n] \in NumberedBuffer
  BY LenProperties, ElementOfSeq
<1>2. step \in [QueueMachine \X (1 .. L) -> QueueMachine]
  BY <1>1, PushBufferType
<1> HIDE DEF step
<1>3. PICK g : IsRun(g, QueueMachine, machine, step, L)
  BY <1>1, <1>2, LoopRuns
<1>4. /\ g \in [0 .. L -> QueueMachine]
      /\ g[0] = machine
      /\ \A n \in 1 .. L : g[n] = PushBuffer(g[n - 1], data[n], delay, FALSE)
  <2>1. g \in [0 .. L -> QueueMachine] /\ g[0] = machine
    BY <1>3 DEF IsRun
  <2>2. ASSUME NEW n \in 1 .. L PROVE g[n] = PushBuffer(g[n - 1], data[n], delay, FALSE)
    <3>1. g[n] = step[<<g[n - 1], n>>]
      BY <1>3 DEF IsRun
    <3>2. n - 1 \in 0 .. L
      BY <1>1
    <3>3. <<g[n - 1], n>> \in QueueMachine \X (1 .. L)
      BY <2>1, <3>2
    <3> QED
      BY <3>1, <3>3 DEF step
  <2> QED
    BY <2>1, <2>2
<1>5. Run(g)
  <2>1. g = [n \in 0 .. L |-> g[n]]
    BY <1>4
  <2>2. \A n \in 0 .. L : g[n] = IF n = 0 THEN machine ELSE PushBuffer(g[n - 1], data[n], delay, FALSE)
    BY <1>1, <1>4
  <2> QED
    BY <2>1, <2>2
<1>6. Run(After)
  BY <1>5
<1>7. PushBuffers(machine, data, delay, FALSE) = After[L]
  BY DEF PushBuffers
<1> HIDE DEF After
<1>8. \A n \in 0 .. L : After[n] = IF n = 0 THEN machine ELSE PushBuffer(After[n - 1], data[n], delay, FALSE)
  BY <1>6
<1>9. \A n \in 0 .. L : After[n] = g[n]
  <2>1. After[0] = g[0]
    BY <1>1, <1>4, <1>8
  <2>2. ASSUME NEW n \in 1 .. L, After[n - 1] = g[n - 1] PROVE After[n] = g[n]
    <3>1. n \in 0 .. L /\ n # 0
      BY <1>1
    <3>2. After[n] = PushBuffer(After[n - 1], data[n], delay, FALSE)
      BY <1>8, <3>1
    <3>3. g[n] = PushBuffer(g[n - 1], data[n], delay, FALSE)
      BY <1>4
    <3> QED
      BY <2>2, <3>2, <3>3
  <2>3. \A n \in 1 .. L : After[n - 1] = g[n - 1] => After[n] = g[n]
    BY <2>2
  <2>4. InStep(After, g, L)
    BY <1>1, <2>1, <2>3 DEF InStep
  <2> QED
    BY <2>4, LoopsAgree
<1>10. g[L] = PushBuffers(machine, data, delay, FALSE)
  <2>1. L \in 0 .. L
    BY <1>1
  <2>2. After[L] = g[L]
    BY <1>9, <2>1
  <2> QED
    BY <1>7, <2>2
<1>11. IsPushing(g, machine, data, delay)
  BY <1>4, <1>10 DEF IsPushing
<1> QED
  BY <1>11

LEMMA PushBuffersMatch ==
    ASSUME NEW late \in QueueMachine, NEW dir \in QueueMachine, NEW data \in Seq(NumberedBuffer),
           Matches(late.array, late.fb, dir.fb)
    PROVE  /\ PushBuffers(late, data, TRUE, FALSE) \in QueueMachine
           /\ PushBuffers(dir, data, FALSE, FALSE) \in QueueMachine
           /\ Matches(PushBuffers(late, data, TRUE, FALSE).array,
                      PushBuffers(late, data, TRUE, FALSE).fb,
                      PushBuffers(dir, data, FALSE, FALSE).fb)
<1> DEFINE L == Len(data)
           Both(l, d) == Matches(l.array, l.fb, d.fb)
<1>1. L \in Nat /\ \A n \in 1 .. L : data[n] \in NumberedBuffer
  BY LenProperties, ElementOfSeq
<1>2. PICK f : IsPushing(f, late, data, TRUE)
  BY PushBuffersRuns
<1>3. PICK g : IsPushing(g, dir, data, FALSE)
  BY PushBuffersRuns
<1> DEFINE T == {n \in Nat : n <= L => Both(f[n], g[n])}
<1>4. 0 \in T
  BY <1>2, <1>3 DEF IsPushing
<1>5. ASSUME NEW n \in Nat, n \in T PROVE n + 1 \in T
  <2> SUFFICES ASSUME n + 1 <= L PROVE Both(f[n + 1], g[n + 1])
    OBVIOUS
  <2>1. n \in 0 .. L /\ n + 1 \in 1 .. L /\ (n + 1) - 1 = n
    BY <1>1
  <2>2. Both(f[n], g[n])
    BY <1>1, <1>5
  <2>3. f[n] \in QueueMachine /\ g[n] \in QueueMachine /\ data[n + 1] \in NumberedBuffer
    BY <1>1, <1>2, <1>3, <2>1 DEF IsPushing
  <2>4. /\ f[n + 1] = PushBuffer(f[n], data[n + 1], TRUE, FALSE)
        /\ g[n + 1] = PushBuffer(g[n], data[n + 1], FALSE, FALSE)
    BY <1>2, <1>3, <2>1 DEF IsPushing
  <2> QED
    BY <2>2, <2>3, <2>4, PushBufferMatches
<1>6. Both(f[L], g[L])
  <2>1. Nat \subseteq T
    <3> HIDE DEF T
    <3> QED
      BY <1>4, <1>5, NatSetInduction
  <2> HIDE DEF Both
  <2> QED
    BY <1>1, <2>1
<1>7. f[L] \in QueueMachine /\ g[L] \in QueueMachine
  BY <1>1, <1>2, <1>3 DEF IsPushing
<1> QED
  BY <1>2, <1>3, <1>6, <1>7 DEF IsPushing

(* The messages that wait came after low, and the packet among them is the *)
(* one of that number.                                                     *)
IdsWithin(queue, low, high) ==
    \A name \in DOMAIN queue :
        \A i \in DOMAIN queue[name].data :
            low < queue[name].data[i].id /\ queue[name].data[i].id <= high

Carries(machine, packet) ==
    machine.hasVecPacket =>
        /\ VecPacket \in DOMAIN machine.array
        /\ \E c \in NumberedBuffer : machine.array[VecPacket].data = <<c>> /\ c.id = packet

Waits(machine, packet, low, high) ==
    IdsWithin(machine.array, low, high) /\ Carries(machine, packet)

LEMMA EnqueueWaits ==
    ASSUME NEW machine \in QueueMachine, NEW b \in NumberedBuffer,
           NEW low \in Nat, NEW packet, low < b.id,
           IdsWithin(machine.array, low, b.id),
           b.name # VecPacket => Carries(machine, packet)
    PROVE  LET made == Enqueue(machine, b)
           IN  /\ Waits(made, IF b.name = VecPacket THEN b.id ELSE packet, low, b.id)
               /\ made.snapshotStartTime = machine.snapshotStartTime
<1> DEFINE made == Enqueue(machine, b)
           queue == machine.array
           longer == made.array
<1>0. QueueOk(queue) /\ queue \in Queue /\ b.id \in Nat
  BY DEF QueueMachine, QueueOk, NumberedBuffer
<1>1. /\ made \in QueueMachine /\ made = [machine EXCEPT !.array = longer]
      /\ DOMAIN longer = DOMAIN queue \cup {b.name}
      /\ \A n \in DOMAIN queue : n # b.name => longer[n] = queue[n]
      /\ longer[b.name].data = DataAfter(queue, b)
  BY EnqueueQueues
<1> HIDE DEF made
<1>2. made.hasVecPacket = machine.hasVecPacket /\ made.snapshotStartTime = machine.snapshotStartTime
  BY <1>1 DEF QueueMachine, Machine
<1>3. DataBefore(queue, b.name) \in Seq(NumberedBuffer)
  <2>1. <<>> \in Seq(NumberedBuffer)
    BY EmptySeq
  <2> QED
    BY <1>0, <2>1, QueueType DEF DataBefore, Channel
<1>4. \A i \in DOMAIN DataBefore(queue, b.name) :
        low < DataBefore(queue, b.name)[i].id /\ DataBefore(queue, b.name)[i].id <= b.id
  BY DEF DataBefore, IdsWithin
<1>5. ASSUME NEW i \in DOMAIN DataAfter(queue, b)
      PROVE  low < DataAfter(queue, b)[i].id /\ DataAfter(queue, b)[i].id <= b.id
  <2>1. CASE b.name = VecPacket
    BY <1>0, <2>1 DEF DataAfter
  <2>2. CASE b.name # VecPacket
    <3> DEFINE old == DataBefore(queue, b.name)
    <3>1. DataAfter(queue, b) = Append(old, b)
      BY <2>2 DEF DataAfter
    <3> HIDE DEF old
    <3>2. \A k \in DOMAIN Append(old, b) :
            Append(old, b)[k] = b \/ (k \in DOMAIN old /\ Append(old, b)[k] = old[k])
      BY <1>3, AppendProperties DEF old
    <3> QED
      BY <1>0, <1>4, <3>1, <3>2 DEF old
  <2> QED
    BY <2>1, <2>2
<1>6. IdsWithin(longer, low, b.id)
  <2>1. ASSUME NEW name \in DOMAIN longer, NEW i \in DOMAIN longer[name].data
        PROVE  low < longer[name].data[i].id /\ longer[name].data[i].id <= b.id
    <3>1. CASE name = b.name
      BY <1>1, <1>5, <2>1, <3>1
    <3>2. CASE name # b.name
      BY <1>1, <2>1, <3>2 DEF IdsWithin
    <3> QED
      BY <3>1, <3>2
  <2> QED
    BY <2>1 DEF IdsWithin
<1>7. Carries(made, IF b.name = VecPacket THEN b.id ELSE packet)
  <2>1. CASE b.name = VecPacket
    BY <1>1, <2>1 DEF Carries, DataAfter
  <2>2. CASE b.name # VecPacket
    BY <1>1, <1>2, <2>2 DEF Carries
  <2> QED
    BY <2>1, <2>2
<1> QED
  BY <1>2, <1>6, <1>7 DEF Waits, made

LEMMA PushBufferWaits ==
    ASSUME NEW machine \in QueueMachine, NEW b \in NumberedBuffer,
           NEW low \in Nat, NEW packet, low < b.id, Waits(machine, packet, low, b.id)
    PROVE  LET made == PushBuffer(machine, b, TRUE, FALSE)
           IN  /\ Waits(made, IF b.name = VecPacket THEN b.id ELSE packet, low, b.id)
               /\ made.snapshotStartTime = machine.snapshotStartTime
<1> DEFINE noted == Noted(machine, b)
<1>1. CASE b.name = AuxInfo
  <2>1. b.name # VecPacket
    BY <1>1 DEF AuxInfo, VecPacket
  <2> QED
    BY <1>1, <2>1, PushBufferWays
<1>2. CASE b.name # AuxInfo
  <2>1. PushBuffer(machine, b, TRUE, FALSE) = Enqueue(noted, b)
    BY <1>2, PushBufferWays
  <2>2. /\ noted \in QueueMachine /\ noted.array = machine.array
        /\ noted.snapshotStartTime = machine.snapshotStartTime
        /\ noted.hasVecPacket = (machine.hasVecPacket \/ b.name = VecPacket)
    BY NotedType
  <2> HIDE DEF noted
  <2>3. IdsWithin(noted.array, low, b.id) /\ (b.name # VecPacket => Carries(noted, packet))
    BY <2>2 DEF Waits, Carries
  <2> QED
    BY <2>1, <2>2, <2>3, EnqueueWaits
<1> QED
  BY <1>1, <1>2

(* The number of the packet that waits after n buffers of message id.      *)
PacketAfter(data, n, id, packet) ==
    IF \E i \in 1 .. n : data[i].name = VecPacket THEN id ELSE packet

LEMMA PushBuffersWait ==
    ASSUME NEW machine \in QueueMachine, NEW data \in Seq(NumberedBuffer),
           NEW id \in Nat, NEW low \in Nat, NEW packet, low < id,
           \A i \in DOMAIN data : data[i].id = id,
           Waits(machine, packet, low, id)
    PROVE  LET made == PushBuffers(machine, data, TRUE, FALSE)
           IN  /\ Waits(made, PacketAfter(data, Len(data), id, packet), low, id)
               /\ made.snapshotStartTime = machine.snapshotStartTime
<1> DEFINE L == Len(data)
<1>1. L \in Nat /\ DOMAIN data = 1 .. L /\ \A n \in 1 .. L : data[n] \in NumberedBuffer
  BY LenProperties, ElementOfSeq
<1>2. PICK f : IsPushing(f, machine, data, TRUE)
  BY PushBuffersRuns
<1> DEFINE Holds(n) == /\ Waits(f[n], PacketAfter(data, n, id, packet), low, id)
                       /\ f[n].snapshotStartTime = machine.snapshotStartTime
           T == {n \in Nat : n <= L => Holds(n)}
<1>3. 0 \in T
  BY <1>2 DEF IsPushing, PacketAfter
<1>4. ASSUME NEW n \in Nat, n \in T PROVE n + 1 \in T
  <2> SUFFICES ASSUME n + 1 <= L PROVE Holds(n + 1)
    OBVIOUS
  <2>1. n \in 0 .. L /\ n + 1 \in 1 .. L /\ (n + 1) - 1 = n
    BY <1>1
  <2>2. Holds(n)
    BY <1>1, <1>4
  <2> DEFINE b == data[n + 1]
  <2>3. f[n] \in QueueMachine /\ b \in NumberedBuffer /\ b.id = id
    BY <1>1, <1>2, <2>1 DEF IsPushing
  <2>4. f[n + 1] = PushBuffer(f[n], b, TRUE, FALSE)
    BY <1>2, <2>1 DEF IsPushing
  <2>5. /\ Waits(f[n + 1], IF b.name = VecPacket THEN id
                           ELSE PacketAfter(data, n, id, packet), low, id)
        /\ f[n + 1].snapshotStartTime = machine.snapshotStartTime
    <3> HIDE DEF b
    <3> QED
      BY <2>2, <2>3, <2>4, PushBufferWaits
  <2>6. PacketAfter(data, n + 1, id, packet) =
          IF b.name = VecPacket THEN id ELSE PacketAfter(data, n, id, packet)
    <3>1. \A i \in 1 .. n + 1 : i \in 1 .. n \/ i = n + 1
      OBVIOUS
    <3>2. n + 1 \in 1 .. n + 1 /\ \A i \in 1 .. n : i \in 1 .. n + 1
      OBVIOUS
    <3> QED
      BY <3>1, <3>2 DEF PacketAfter
  <2> QED
    BY <2>5, <2>6
<1>5. Holds(L)
  <2>1. Nat \subseteq T
    <3> HIDE DEF T
    <3> QED
      BY <1>3, <1>4, NatSetInduction
  <2> HIDE DEF Holds
  <2> QED
    BY <1>1, <2>1
<1> QED
  BY <1>2, <1>5 DEF IsPushing

(* reset, and what push does before the buffers.                           *)
NoQueue == [name \in {} |-> NewChan("UNKNOWN")]

LEMMA NoQueueOk ==
    /\ QueueOk(NoQueue) /\ NoQueue \in Queue /\ DOMAIN NoQueue = {}
    /\ \A low, high : IdsWithin(NoQueue, low, high)
<1>1. {} \in SUBSET STRING /\ NoQueue \in [{} -> Channel] /\ DOMAIN NoQueue = {}
  BY DEF NoQueue
<1>2. NoQueue \in Queue
  BY <1>1 DEF Queue
<1>3. IsFiniteSet({})
  BY FS_EmptySet
<1> QED
  BY <1>1, <1>2, <1>3 DEF QueueOk, IdsWithin

LEMMA NoQueueMatches ==
    ASSUME NEW fb \in FrameBuffer
    PROVE  Matches(NoQueue, fb, fb)
<1>1. \A n : DataOf(NoQueue, n) = <<>>
  BY NoQueueOk DEF DataOf, Pending
<1>2. DecodeBuffers(fb, <<>>) = fb
  BY DecodeBuffersEmpty
<1> QED
  BY <1>1, <1>2 DEF Matches, SameAt

LEMMA NewMachineType ==
    /\ NewMachine \in QueueMachine /\ NewMachine.array = NoQueue /\ ~ NewMachine.hasVecPacket
    /\ NewMachine.snapshotStartTime = 0 /\ NewMachine.fb = EmptyFb
<1>1. /\ NewMachine.array = NoQueue /\ ~ NewMachine.hasVecPacket
      /\ NewMachine.snapshotStartTime = 0 /\ NewMachine.fb = EmptyFb
  BY DEF NewMachine, NoQueue
<1>2. NewMachine \in Machine
  BY <1>1, NoQueueOk, EmptyFbType DEF NewMachine, Machine
<1> QED
  BY <1>1, <1>2, NoQueueOk DEF QueueMachine

LEMMA ResetType ==
    ASSUME NEW machine, machine.fb \in FrameBuffer
    PROVE  /\ Reset(machine) \in QueueMachine /\ Reset(machine).array = NoQueue
           /\ ~ Reset(machine).hasVecPacket /\ Reset(machine).snapshotStartTime = 0
           /\ Reset(machine).fb = machine.fb
<1> DEFINE made == [NewMachine EXCEPT !.fb = machine.fb]
<1>1. Reset(machine) = made
  BY DEF Reset
<1>2. /\ made \in Machine /\ made.array = NoQueue /\ ~ made.hasVecPacket
      /\ made.snapshotStartTime = 0 /\ made.fb = machine.fb
  BY NewMachineType DEF QueueMachine, Machine
<1> HIDE DEF made
<1> QED
  BY <1>1, <1>2, NoQueueOk DEF QueueMachine

Message(status, id, content) ==
    [status |-> status, progress |-> 1, snapshotStartTime |-> id, buffers |-> Numbered(content, id)]

Timed(machine, status, id) ==
    LET noted == [machine EXCEPT !.progress = 1, !.status = status]
        started == IF status = "STARTED" THEN [Reset(noted) EXCEPT !.fb = EmptyFb] ELSE noted
    IN  [started EXCEPT !.snapshotStartTime = IF @ = 0 THEN id ELSE @]

LEMMA TimedType ==
    ASSUME NEW machine \in QueueMachine, NEW status \in {"STARTED", "RENDERING"}, NEW id \in Nat
    PROVE  LET timed == Timed(machine, status, id)
               time == machine.snapshotStartTime
           IN  /\ timed \in QueueMachine
               /\ status = "STARTED" =>
                    /\ timed.array = NoQueue /\ ~ timed.hasVecPacket
                    /\ timed.snapshotStartTime = id /\ timed.fb = EmptyFb
               /\ status # "STARTED" =>
                    /\ timed.array = machine.array /\ timed.hasVecPacket = machine.hasVecPacket
                    /\ timed.snapshotStartTime = (IF time = 0 THEN id ELSE time)
                    /\ timed.fb = machine.fb
<1> DEFINE noted == [machine EXCEPT !.progress = 1, !.status = status]
           fresh == [Reset(noted) EXCEPT !.fb = EmptyFb]
           After(started) == [started EXCEPT !.snapshotStartTime = IF @ = 0 THEN id ELSE @]
<1>1. /\ noted \in QueueMachine /\ noted.array = machine.array
      /\ noted.hasVecPacket = machine.hasVecPacket
      /\ noted.snapshotStartTime = machine.snapshotStartTime /\ noted.fb = machine.fb
  BY DEF QueueMachine, Machine
<1>2. noted.fb \in FrameBuffer
  BY <1>1 DEF QueueMachine, Machine
<1>3. ASSUME NEW m \in QueueMachine
      PROVE  /\ After(m) \in QueueMachine /\ After(m).array = m.array
             /\ After(m).hasVecPacket = m.hasVecPacket /\ After(m).fb = m.fb
             /\ After(m).snapshotStartTime = IF m.snapshotStartTime = 0 THEN id
                                             ELSE m.snapshotStartTime
  BY DEF QueueMachine, Machine
<1>4. Timed(machine, status, id) = After(IF status = "STARTED" THEN fresh ELSE noted)
  BY DEF Timed
<1> HIDE DEF noted, After
<1>5. /\ Reset(noted) \in QueueMachine /\ Reset(noted).array = NoQueue
      /\ ~ Reset(noted).hasVecPacket /\ Reset(noted).snapshotStartTime = 0
  BY <1>2, ResetType
<1>6. /\ fresh \in QueueMachine /\ fresh.array = NoQueue
      /\ ~ fresh.hasVecPacket /\ fresh.snapshotStartTime = 0 /\ fresh.fb = EmptyFb
  BY <1>5, EmptyFbType DEF QueueMachine, Machine
<1> HIDE DEF fresh
<1>7. CASE status = "STARTED"
  BY <1>3, <1>4, <1>6, <1>7
<1>8. CASE status # "STARTED"
  BY <1>1, <1>3, <1>4, <1>8
<1> QED
  BY <1>7, <1>8

LEMMA PushTimes ==
    ASSUME NEW machine, NEW status, NEW id, NEW content, NEW delay
    PROVE  Push(machine, Message(status, id, content), delay, FALSE)
             = PushBuffers(Timed(machine, status, id), Numbered(content, id), delay, FALSE)
BY DEF Push, Timed, Message

LEMMA NumberedType ==
    ASSUME NEW content \in Contents, NEW id \in Nat
    PROVE  /\ Numbered(content, id) \in Seq(NumberedBuffer)
           /\ \A i \in DOMAIN Numbered(content, id) : Numbered(content, id)[i].id = id
           /\ \A packet : PacketAfter(Numbered(content, id), Len(Numbered(content, id)), id, packet)
                = IF \E i \in DOMAIN content : content[i].name = VecPacket THEN id ELSE packet
<1> DEFINE L == Len(content)
           Copied(i) == [name |-> content[i].name, type |-> content[i].type,
                       reso |-> content[i].reso, pixels |-> content[i].pixels, id |-> id]
<1>1. content \in Seq(Buffer)
  BY ContentsAssumption
<1>2. L \in Nat /\ DOMAIN content = 1 .. L /\ \A i \in 1 .. L : content[i] \in Buffer
  BY <1>1, LenProperties, ElementOfSeq
<1>3. ASSUME NEW i \in 1 .. L
      PROVE  Copied(i) \in NumberedBuffer /\ Copied(i).id = id /\ Copied(i).name = content[i].name
  <2>1. Copied(i) \in [name : STRING, type : STRING, reso : Reso, pixels : SUBSET Pixel, id : Nat]
    BY <1>2 DEF Buffer
  <2>2. i \in DOMAIN content
    BY <1>2
  <2> QED
    BY <2>1, <2>2 DEF NumberedBuffer
<1>4. Numbered(content, id) = [i \in 1 .. L |-> Copied(i)]
  BY <1>2 DEF Numbered
<1> HIDE DEF Copied
<1> DEFINE data == [i \in 1 .. L |-> Copied(i)]
<1>5. data \in Seq(NumberedBuffer) /\ Len(data) = L /\ DOMAIN data = 1 .. L
  BY <1>2, <1>3
<1>6. \A i \in 1 .. L : data[i].id = id /\ data[i].name = content[i].name
  BY <1>3
<1> HIDE DEF data
<1>7. \A packet : PacketAfter(data, L, id, packet)
        = IF \E i \in DOMAIN content : content[i].name = VecPacket THEN id ELSE packet
  BY <1>2, <1>6 DEF PacketAfter
<1> QED
  BY <1>4, <1>5, <1>6, <1>7 DEF data

-------------------------------------------------------------------------------
(* The invariant.  What an image carried came after the image before and   *)
(* not after the image itself; what waits came after the last image.       *)
Upstream ==
    [logs : UNION {[senders -> Seq(Nat)] : senders \in SUBSET Sender},
     packets : UNION {[senders -> SUBSET Nat] : senders \in SUBSET Sender},
     startTime : Nat, newest : [Sender -> Nat], sent : Nat]

Carried(image) ==
    (UNION {{image.logs[m][k] : k \in DOMAIN image.logs[m]} : m \in DOMAIN image.logs})
      \cup (UNION {image.packets[m] : m \in DOMAIN image.packets})

LastSent == IF upstream = <<>> THEN 0 ELSE upstream[Len(upstream)].sent

MessageTypes ==
    /\ machines \in [Sender -> QueueMachine] /\ direct \in [Sender -> QueueMachine]
    /\ received \in SUBSET Sender /\ receivedAll \in SUBSET Sender
    /\ encodedOnce \in BOOLEAN /\ messages \in Nat
    /\ vecPackets \in [Sender -> Nat]
    /\ upstream \in Seq(Upstream)

HeardOf ==
    /\ received \subseteq receivedAll
    /\ receivedAll # {} => first \in receivedAll
    /\ ~ encodedOnce => received = receivedAll

DecodedLate == \A m \in receivedAll : Matches(machines[m].array, machines[m].fb, direct[m].fb)

WaitingIsNew ==
    /\ LastSent <= messages
    /\ \A m \in Sender :
         /\ Waits(machines[m], vecPackets[m], LastSent, messages)
         /\ machines[m].snapshotStartTime = 0 \/ LastSent < machines[m].snapshotStartTime
    /\ \A m \in received : machines[m].snapshotStartTime # 0

SentInOrder ==
    /\ \A i \in DOMAIN upstream :
         /\ upstream[i].sent <= LastSent
         /\ \A id \in Carried(upstream[i]) : id <= upstream[i].sent
         /\ \A m \in DOMAIN upstream[i].packets :
              upstream[i].packets[m] = {upstream[i].newest[m]}
    /\ \A i, j \in DOMAIN upstream : i < j =>
         /\ \A id \in Carried(upstream[j]) : upstream[i].sent < id
         /\ upstream[i].sent < upstream[j].startTime

(* Only what was heard since the last image waits.                         *)
IdleIsEmpty == \A m \in Sender \ received : machines[m].array = NoQueue

MessagesInv ==
    MessageTypes /\ HeardOf /\ IdleIsEmpty /\ DecodedLate /\ WaitingIsNew /\ SentInOrder

LEMMA InitMessages == MessagesInit => MessagesInv
<1> SUFFICES ASSUME MessagesInit PROVE MessagesInv
  OBVIOUS
<1>1. upstream = <<>> /\ LastSent = 0 /\ upstream \in Seq(Upstream) /\ DOMAIN upstream = {}
  BY EmptySeq DEF MessagesInit, LastSent
<1>2. MessageTypes
  BY <1>1, NewMachineType DEF MessagesInit, MessageTypes
<1>3. HeardOf /\ DecodedLate /\ IdleIsEmpty
  BY NewMachineType DEF MessagesInit, HeardOf, DecodedLate, IdleIsEmpty
<1>4. \A m \in Sender : Waits(machines[m], vecPackets[m], 0, 0)
  BY NewMachineType, NoQueueOk DEF MessagesInit, Waits, Carries
<1>5. WaitingIsNew
  BY <1>1, <1>4, NewMachineType DEF MessagesInit, WaitingIsNew
<1>6. SentInOrder
  BY <1>1 DEF SentInOrder
<1> QED
  BY <1>2, <1>3, <1>5, <1>6 DEF MessagesInv

LEMMA SentStays ==
    ASSUME upstream' = upstream
    PROVE  LastSent' = LastSent /\ (SentInOrder => SentInOrder')
BY DEF LastSent, SentInOrder

LEMMA WaitsLonger ==
    ASSUME NEW machine \in QueueMachine, NEW packet, NEW low \in Nat, NEW high \in Nat,
           Waits(machine, packet, low, high)
    PROVE  Waits(machine, packet, low, high + 1)
<1>1. QueueOk(machine.array) /\ machine.array \in Queue
  BY DEF QueueMachine, QueueOk
<1>2. ASSUME NEW name \in DOMAIN machine.array, NEW i \in DOMAIN machine.array[name].data
      PROVE  machine.array[name].data[i].id \in Nat
  <2>1. machine.array[name].data \in Seq(NumberedBuffer)
    BY <1>1, QueueType DEF Channel
  <2>2. machine.array[name].data[i] \in NumberedBuffer
    BY <1>2, <2>1
  <2> QED
    BY <2>2 DEF NumberedBuffer
<1> QED
  BY <1>2 DEF Waits, IdsWithin

LEMMA LastSentType == MessageTypes => LastSent \in Nat
<1> SUFFICES ASSUME MessageTypes PROVE LastSent \in Nat
  OBVIOUS
<1>1. CASE upstream = <<>>
  BY <1>1 DEF LastSent
<1>2. CASE upstream # <<>>
  <2>1. Len(upstream) \in 1 .. Len(upstream)
    BY <1>2, EmptySeq, LenProperties DEF MessageTypes
  <2>2. upstream[Len(upstream)] \in Upstream
    BY <2>1, ElementOfSeq DEF MessageTypes
  <2> QED
    BY <1>2, <2>2 DEF LastSent, Upstream
<1> QED
  BY <1>1, <1>2

LEMMA ReceiveKeeps ==
    ASSUME MessagesInv, NEW m \in Sender, NEW status \in {"STARTED", "RENDERING"},
           NEW content \in Contents, Receive(m, status, content)
    PROVE  MessagesInv'
<1> DEFINE id == messages + 1
           started == status = "STARTED"
           data == Numbered(content, id)
           late == machines[m]
           dir == direct[m]
           late1 == Timed(late, status, id)
           dir1 == Timed(dir, status, id)
           late2 == PushBuffers(late1, data, TRUE, FALSE)
           dir2 == PushBuffers(dir1, data, FALSE, FALSE)
           packet1 == IF started THEN 0 ELSE vecPackets[m]
           packet2 == PacketAfter(data, Len(data), id, packet1)
           others == IF started THEN receivedAll \ {m} ELSE receivedAll
<1>1. MessageTypes /\ HeardOf /\ IdleIsEmpty /\ DecodedLate /\ WaitingIsNew /\ SentInOrder
  BY DEF MessagesInv
<1>2. /\ started \/ m \in receivedAll
      /\ machines' = [machines EXCEPT ![m] = Push(@, Message(status, id, content), TRUE, FALSE)]
      /\ direct' = [direct EXCEPT ![m] = Push(@, Message(status, id, content), FALSE, FALSE)]
      /\ received' = received \cup {m} /\ receivedAll' = receivedAll \cup {m}
      /\ first' = (IF others = {} THEN m ELSE first)
      /\ messages' = id
      /\ encodedOnce' = encodedOnce /\ upstream' = upstream
  BY DEF Receive, Message
<1>3. vecPackets' = [vecPackets EXCEPT ![m] =
                       IF \E i \in DOMAIN content : content[i].name = VecPacket THEN id
                       ELSE IF started THEN 0 ELSE @]
  BY DEF Receive
<1>4. /\ id \in Nat /\ late \in QueueMachine /\ dir \in QueueMachine /\ messages \in Nat
      /\ LastSent \in Nat /\ LastSent < id /\ LastSent <= messages
  BY <1>1, LastSentType DEF MessageTypes, WaitingIsNew
<1> HIDE DEF id
<1>5. data \in Seq(NumberedBuffer) /\ \A i \in DOMAIN data : data[i].id = id
  BY <1>4, NumberedType
<1>6. packet2 = IF \E i \in DOMAIN content : content[i].name = VecPacket THEN id ELSE packet1
  BY <1>4, NumberedType
<1>7. Push(late, Message(status, id, content), TRUE, FALSE) = late2
      /\ Push(dir, Message(status, id, content), FALSE, FALSE) = dir2
  BY PushTimes
<1>8. machines' = [machines EXCEPT ![m] = late2] /\ direct' = [direct EXCEPT ![m] = dir2]
  BY <1>2, <1>7
<1>9. vecPackets' = [vecPackets EXCEPT ![m] = packet2]
  BY <1>3, <1>6
<1>10. late1 \in QueueMachine /\ dir1 \in QueueMachine
  BY <1>4, TimedType
<1>11. Matches(late1.array, late1.fb, dir1.fb)
  <2>1. CASE started
    <3>1. late1.array = NoQueue /\ late1.fb = EmptyFb
      BY <1>4, <2>1, TimedType
    <3>2. dir1.fb = EmptyFb
      BY <1>4, <2>1, TimedType
    <3> HIDE DEF late1, dir1
    <3>3. Matches(NoQueue, EmptyFb, EmptyFb)
      BY EmptyFbType, NoQueueMatches
    <3> QED
      BY <3>1, <3>2, <3>3
  <2>2. CASE ~ started
    <3>1. Matches(late.array, late.fb, dir.fb)
      BY <1>1, <1>2, <2>2 DEF DecodedLate
    <3>2. late1.array = late.array /\ late1.fb = late.fb
      BY <1>4, <2>2, TimedType
    <3>3. dir1.fb = dir.fb
      BY <1>4, <2>2, TimedType
    <3> QED
      BY <3>1, <3>2, <3>3
  <2> QED
    BY <2>1, <2>2
<1>12. Waits(late1, packet1, LastSent, id)
  <2>1. CASE started
    <3>1. late1.array = NoQueue /\ ~ late1.hasVecPacket
      BY <1>4, <2>1, TimedType
    <3> QED
      BY <3>1, NoQueueOk DEF Waits, Carries
  <2>2. CASE ~ started
    <3>1. late1.array = late.array /\ late1.hasVecPacket = late.hasVecPacket
      BY <1>4, <2>2, TimedType
    <3>2. Waits(late, vecPackets[m], LastSent, messages)
      BY <1>1 DEF WaitingIsNew
    <3>3. Waits(late, vecPackets[m], LastSent, id)
      BY <1>4, <3>2, WaitsLonger DEF id
    <3> QED
      BY <2>2, <3>1, <3>3 DEF Waits, Carries
  <2> QED
    BY <2>1, <2>2
<1>13. late1.snapshotStartTime # 0 /\ LastSent < late1.snapshotStartTime
  <2>1. late.snapshotStartTime = 0 \/ LastSent < late.snapshotStartTime
    BY <1>1 DEF WaitingIsNew
  <2>2. late.snapshotStartTime \in Nat
    BY <1>4 DEF QueueMachine, Machine
  <2>3. CASE started
    <3>1. late1.snapshotStartTime = id
      BY <1>4, <2>3, TimedType
    <3> HIDE DEF late1
    <3> QED
      BY <1>4, <3>1
  <2>4. CASE ~ started
    <3>1. late1.snapshotStartTime = (IF late.snapshotStartTime = 0 THEN id
                                     ELSE late.snapshotStartTime)
      BY <1>4, <2>4, TimedType
    <3> HIDE DEF late1, late
    <3> QED
      BY <1>4, <2>1, <2>2, <3>1
  <2> QED
    BY <2>3, <2>4
<1> HIDE DEF late1, dir1
<1>14. /\ late2 \in QueueMachine /\ dir2 \in QueueMachine
       /\ Matches(late2.array, late2.fb, dir2.fb)
  <2>1. data \in Seq(NumberedBuffer)
    BY <1>5
  <2> HIDE DEF data
  <2> QED
    BY <1>10, <1>11, <2>1, PushBuffersMatch
<1>15. /\ Waits(late2, packet2, LastSent, id)
       /\ late2.snapshotStartTime = late1.snapshotStartTime
  <2> DEFINE made == PushBuffers(late1, data, TRUE, FALSE)
  <2>1. late2 = made /\ packet2 = PacketAfter(data, Len(data), id, packet1)
    OBVIOUS
  <2>2. data \in Seq(NumberedBuffer) /\ \A i \in DOMAIN data : data[i].id = id
    BY <1>5
  <2> HIDE DEF data, packet1, packet2, late2
  <2>3. /\ Waits(made, PacketAfter(data, Len(data), id, packet1), LastSent, id)
        /\ made.snapshotStartTime = late1.snapshotStartTime
    BY <1>4, <1>10, <1>12, <2>2, PushBuffersWait, Zenon
  <2> QED
    BY <2>1, <2>3, Zenon
<1>16. packet2 \in Nat
  BY <1>1, <1>4, <1>6 DEF MessageTypes
<1> HIDE DEF late2, dir2, packet2
<1>17. MessageTypes'
  <2>1. machines' \in [Sender -> QueueMachine] /\ direct' \in [Sender -> QueueMachine]
    BY <1>1, <1>8, <1>14 DEF MessageTypes
  <2>2. vecPackets' \in [Sender -> Nat]
    BY <1>1, <1>9, <1>16 DEF MessageTypes
  <2>3. received' \in SUBSET Sender /\ receivedAll' \in SUBSET Sender
    BY <1>1, <1>2 DEF MessageTypes
  <2> QED
    BY <1>1, <1>2, <1>4, <2>1, <2>2, <2>3 DEF MessageTypes
<1>18. HeardOf' /\ IdleIsEmpty'
  <2>1. HeardOf'
    BY <1>1, <1>2 DEF HeardOf
  <2>2. \A x \in Sender \ received' : x # m /\ x \notin received
    BY <1>2
  <2>3. \A x \in Sender : x # m => machines'[x] = machines[x]
    BY <1>1, <1>8 DEF MessageTypes
  <2> QED
    BY <1>1, <2>1, <2>2, <2>3 DEF IdleIsEmpty
<1>19. DecodedLate'
  <2>1. ASSUME NEW x \in receivedAll'
        PROVE  Matches(machines'[x].array, machines'[x].fb, direct'[x].fb)
    <3>1. CASE x = m
      BY <1>1, <1>8, <1>14, <3>1 DEF MessageTypes
    <3>2. CASE x # m
      BY <1>1, <1>2, <1>8, <3>2 DEF MessageTypes, DecodedLate
    <3> QED
      BY <3>1, <3>2
  <2> QED
    BY <2>1 DEF DecodedLate
<1>20. LastSent' = LastSent /\ SentInOrder'
  BY <1>1, <1>2, SentStays
<1>21. WaitingIsNew'
  <2>1. ASSUME NEW x \in Sender
        PROVE  /\ Waits(machines'[x], vecPackets'[x], LastSent, id)
               /\ machines'[x].snapshotStartTime = 0 \/ LastSent < machines'[x].snapshotStartTime
               /\ x \in received' => machines'[x].snapshotStartTime # 0
    <3>1. CASE x = m
      <4>1. machines'[x] = late2 /\ vecPackets'[x] = packet2
        BY <1>1, <1>8, <1>9, <3>1 DEF MessageTypes
      <4> QED
        BY <1>13, <1>15, <4>1
    <3>2. CASE x # m
      <4>1. machines'[x] = machines[x] /\ vecPackets'[x] = vecPackets[x] /\ machines[x] \in QueueMachine
        BY <1>1, <1>8, <1>9, <3>2 DEF MessageTypes
      <4>2. Waits(machines[x], vecPackets[x], LastSent, id)
        BY <1>1, <1>4, <4>1, WaitsLonger DEF WaitingIsNew, id
      <4> QED
        BY <1>1, <1>2, <3>2, <4>1, <4>2 DEF WaitingIsNew
    <3> QED
      BY <3>1, <3>2
  <2>2. received' \subseteq Sender
    BY <1>1, <1>2 DEF MessageTypes
  <2>3. LastSent' = LastSent /\ messages' = id /\ LastSent <= id
    BY <1>2, <1>4, <1>20
  <2>4. \A x \in received' : machines'[x].snapshotStartTime # 0
    BY <2>1, <2>2
  <2>5. \A x \in Sender :
          /\ Waits(machines'[x], vecPackets'[x], LastSent', messages')
          /\ machines'[x].snapshotStartTime = 0 \/ LastSent' < machines'[x].snapshotStartTime
    BY <2>1, <2>3
  <2>6. LastSent' <= messages'
    BY <2>3
  <2> QED
    BY <2>4, <2>5, <2>6 DEF WaitingIsNew
<1> QED
  BY <1>17, <1>18, <1>19, <1>20, <1>21 DEF MessagesInv

(* What an image carries.                                                  *)
LEMMA LogIsNew ==
    ASSUME NEW machine \in QueueMachine, NEW low \in Nat, NEW high \in Nat, NEW packet,
           Waits(machine, packet, low, high)
    PROVE  /\ EncodeLatencyLogOf(machine) \in Seq(Nat)
           /\ \A k \in DOMAIN EncodeLatencyLogOf(machine) :
                low < EncodeLatencyLogOf(machine)[k] /\ EncodeLatencyLogOf(machine)[k] <= high
<1>1. CASE LatencyLog \notin DOMAIN machine.array
  <2>1. EncodeLatencyLogOf(machine) = <<>>
    BY <1>1 DEF EncodeLatencyLogOf
  <2>2. <<>> \in Seq(Nat) /\ DOMAIN <<>> = {}
    BY EmptySeq
  <2> QED
    BY <2>1, <2>2
<1>2. CASE LatencyLog \in DOMAIN machine.array
  <2> DEFINE data == machine.array[LatencyLog].data
             ids == [i \in DOMAIN data |-> data[i].id]
  <2>1. data \in Seq(NumberedBuffer)
    BY <1>2, QueueType DEF QueueMachine, QueueOk, Channel
  <2>2. \A i \in DOMAIN data : low < data[i].id /\ data[i].id <= high
    BY <1>2 DEF Waits, IdsWithin
  <2>3. EncodeLatencyLogOf(machine) = ids
    BY <1>2 DEF EncodeLatencyLogOf
  <2> HIDE DEF data
  <2>4. DOMAIN data = 1 .. Len(data) /\ Len(data) \in Nat /\ \A i \in DOMAIN data : data[i].id \in Nat
    BY <2>1, LenProperties, ElementOfSeq DEF NumberedBuffer
  <2>5. ids \in [1 .. Len(data) -> Nat]
    BY <2>4
  <2>6. ids \in Seq(Nat)
    BY <2>4, <2>5, SeqDef
  <2> QED
    BY <2>2, <2>3, <2>5, <2>6
<1> QED
  BY <1>1, <1>2

LEMMA PacketIsNew ==
    ASSUME NEW machine \in QueueMachine, NEW low \in Nat, NEW high \in Nat, NEW packet,
           Waits(machine, packet, low, high), machine.hasVecPacket
    PROVE  /\ EncodeVecPacketOf(machine) = {packet}
           /\ packet \in Nat /\ low < packet /\ packet <= high
<1>1. /\ VecPacket \in DOMAIN machine.array
      /\ \E c \in NumberedBuffer : machine.array[VecPacket].data = <<c>> /\ c.id = packet
  BY DEF Waits, Carries
<1>2. PICK c \in NumberedBuffer : machine.array[VecPacket].data = <<c>> /\ c.id = packet
  BY <1>1
<1>3. 1 \in DOMAIN <<c>> /\ <<c>>[1] = c
  OBVIOUS
<1>4. low < c.id /\ c.id <= high
  BY <1>1, <1>2, <1>3 DEF Waits, IdsWithin
<1> QED
  BY <1>2, <1>3, <1>4 DEF EncodeVecPacketOf, NumberedBuffer

LEMMA ImageIsNew ==
    ASSUME MessagesInv, received # {}
    PROVE  LET image == [logs |-> EncodeLatencyLog, packets |-> EncodeVecPacket,
                         startTime |-> SnapshotStartTime, newest |-> vecPackets, sent |-> messages]
           IN  /\ image \in Upstream
               /\ \A id \in Carried(image) : LastSent < id /\ id <= messages
               /\ LastSent < image.startTime
               /\ \A m \in DOMAIN image.packets : image.packets[m] = {image.newest[m]}
<1> DEFINE image == [logs |-> EncodeLatencyLog, packets |-> EncodeVecPacket,
                     startTime |-> SnapshotStartTime, newest |-> vecPackets, sent |-> messages]
<1>1. MessageTypes /\ HeardOf /\ WaitingIsNew /\ LastSent \in Nat /\ messages \in Nat
  BY LastSentType DEF MessagesInv, MessageTypes
<1>2. \A m \in Sender : machines[m] \in QueueMachine /\ Waits(machines[m], vecPackets[m], LastSent, messages)
  BY <1>1 DEF MessageTypes, WaitingIsNew
<1>3. /\ receivedAll # {} /\ first \in receivedAll /\ (~ encodedOnce => first \in received)
      /\ received \subseteq Sender /\ receivedAll \subseteq Sender
  BY <1>1 DEF HeardOf, MessageTypes
<1> DEFINE logged == IF encodedOnce THEN received ELSE IF receivedAll = {} THEN {} ELSE {first}
           packed == {m \in received : machines[m].hasVecPacket}
<1>4. logged \in SUBSET Sender /\ packed \in SUBSET Sender
  BY <1>3
<1>5. /\ EncodeLatencyLog = [m \in logged |-> EncodeLatencyLogOf(machines[m])]
      /\ EncodeVecPacket = [m \in packed |-> EncodeVecPacketOf(machines[m])]
  BY DEF EncodeLatencyLog, EncodeVecPacket
<1>6. ASSUME NEW m \in Sender
      PROVE  /\ EncodeLatencyLogOf(machines[m]) \in Seq(Nat)
             /\ \A k \in DOMAIN EncodeLatencyLogOf(machines[m]) :
                  /\ LastSent < EncodeLatencyLogOf(machines[m])[k]
                  /\ EncodeLatencyLogOf(machines[m])[k] <= messages
  BY <1>1, <1>2, LogIsNew
<1>7. ASSUME NEW m \in packed
      PROVE  /\ EncodeVecPacketOf(machines[m]) = {vecPackets[m]}
             /\ vecPackets[m] \in Nat /\ LastSent < vecPackets[m] /\ vecPackets[m] <= messages
  <2>1. m \in Sender /\ machines[m].hasVecPacket
    BY <1>4
  <2> QED
    BY <1>1, <1>2, <2>1, PacketIsNew
<1>8. SnapshotStartTime \in Nat /\ LastSent < SnapshotStartTime
  <2>1. \A m \in received : machines[m].snapshotStartTime \in Nat
                            /\ LastSent < machines[m].snapshotStartTime
    BY <1>1, <1>2, <1>3 DEF WaitingIsNew, QueueMachine, Machine
  <2>2. CASE encodedOnce
    <3> DEFINE times == {machines[m].snapshotStartTime : m \in received}
    <3>1. times \subseteq Nat /\ times # {}
      BY <2>1
    <3>2. \A t \in times : LastSent < t
      BY <2>1
    <3>3. SnapshotStartTime = CHOOSE t \in times : \A u \in times : t <= u
      BY <2>2 DEF SnapshotStartTime
    <3> HIDE DEF times
    <3>4. SnapshotStartTime \in times
      BY <3>1, <3>3, LeastOf
    <3> QED
      BY <3>1, <3>2, <3>4
  <2>3. CASE ~ encodedOnce
    BY <1>3, <2>1, <2>3 DEF SnapshotStartTime
  <2> QED
    BY <2>2, <2>3
<1> HIDE DEF logged, packed
<1>9. /\ EncodeLatencyLog \in [logged -> Seq(Nat)]
      /\ EncodeVecPacket \in [packed -> SUBSET Nat]
  BY <1>4, <1>5, <1>6, <1>7
<1>10. image \in Upstream
  <2>1. /\ EncodeLatencyLog \in UNION {[senders -> Seq(Nat)] : senders \in SUBSET Sender}
        /\ EncodeVecPacket \in UNION {[senders -> SUBSET Nat] : senders \in SUBSET Sender}
    BY <1>4, <1>9
  <2> QED
    BY <1>1, <1>8, <2>1 DEF Upstream, MessageTypes
<1>11. ASSUME NEW id \in Carried(image) PROVE LastSent < id /\ id <= messages
  <2>1. CASE \E m \in DOMAIN EncodeLatencyLog : \E k \in DOMAIN EncodeLatencyLog[m] :
                id = EncodeLatencyLog[m][k]
    <3>1. PICK m \in DOMAIN EncodeLatencyLog : \E k \in DOMAIN EncodeLatencyLog[m] :
                 id = EncodeLatencyLog[m][k]
      BY <2>1
    <3>2. m \in Sender /\ EncodeLatencyLog[m] = EncodeLatencyLogOf(machines[m])
      BY <1>4, <1>5, <3>1
    <3> QED
      BY <1>6, <3>1, <3>2
  <2>2. CASE \E m \in DOMAIN EncodeVecPacket : id \in EncodeVecPacket[m]
    <3>1. PICK m \in DOMAIN EncodeVecPacket : id \in EncodeVecPacket[m]
      BY <2>2
    <3>2. m \in packed /\ EncodeVecPacket[m] = EncodeVecPacketOf(machines[m])
      BY <1>5, <3>1
    <3> QED
      BY <1>7, <3>1, <3>2
  <2>3. image.logs = EncodeLatencyLog /\ image.packets = EncodeVecPacket
    OBVIOUS
  <2> HIDE DEF image
  <2>4. \/ id \in UNION {{EncodeLatencyLog[m][k] : k \in DOMAIN EncodeLatencyLog[m]} :
                            m \in DOMAIN EncodeLatencyLog}
        \/ id \in UNION {EncodeVecPacket[m] : m \in DOMAIN EncodeVecPacket}
    BY <1>11, <2>3 DEF Carried
  <2>5. ASSUME id \in UNION {{EncodeLatencyLog[m][k] : k \in DOMAIN EncodeLatencyLog[m]} :
                                m \in DOMAIN EncodeLatencyLog}
        PROVE  \E m \in DOMAIN EncodeLatencyLog : \E k \in DOMAIN EncodeLatencyLog[m] :
                  id = EncodeLatencyLog[m][k]
    <3>1. \E m \in DOMAIN EncodeLatencyLog :
             id \in {EncodeLatencyLog[m][k] : k \in DOMAIN EncodeLatencyLog[m]}
      BY <2>5, Zenon
    <3> QED
      BY <3>1, Zenon
  <2>6. ASSUME id \in UNION {EncodeVecPacket[m] : m \in DOMAIN EncodeVecPacket}
        PROVE  \E m \in DOMAIN EncodeVecPacket : id \in EncodeVecPacket[m]
    BY <2>6, Zenon
  <2> HIDE DEF EncodeLatencyLog, EncodeVecPacket
  <2> QED
    BY <2>1, <2>2, <2>4, <2>5, <2>6, Zenon
<1>12. ASSUME NEW m \in DOMAIN image.packets PROVE image.packets[m] = {image.newest[m]}
  BY <1>5, <1>7, <1>12
<1> QED
  BY <1>8, <1>10, <1>11, <1>12

LEMMA CarriedType ==
    ASSUME NEW image \in Upstream
    PROVE  /\ Carried(image) \subseteq Nat
           /\ image.sent \in Nat /\ image.startTime \in Nat
<1>1. PICK senders \in SUBSET Sender : image.logs \in [senders -> Seq(Nat)]
  BY DEF Upstream
<1>2. PICK others \in SUBSET Sender : image.packets \in [others -> SUBSET Nat]
  BY DEF Upstream
<1>3. ASSUME NEW m \in DOMAIN image.logs, NEW k \in DOMAIN image.logs[m]
      PROVE  image.logs[m][k] \in Nat
  <2>1. image.logs[m] \in Seq(Nat)
    BY <1>1
  <2> QED
    BY <1>3, <2>1
<1>4. UNION {{image.logs[m][k] : k \in DOMAIN image.logs[m]} : m \in DOMAIN image.logs} \subseteq Nat
  BY <1>3
<1>5. UNION {image.packets[m] : m \in DOMAIN image.packets} \subseteq Nat
  BY <1>2
<1>6. image.sent \in Nat /\ image.startTime \in Nat
  BY DEF Upstream
<1> QED
  BY <1>4, <1>5, <1>6 DEF Carried

(* Another image in the order of those that were sent.                     *)
LEMMA SentGrows ==
    ASSUME MessageTypes, SentInOrder, LastSent <= messages, messages' = messages,
           NEW image \in Upstream, upstream' = Append(upstream, image),
           image.sent = messages,
           \A id \in Carried(image) : LastSent < id /\ id <= messages,
           LastSent < image.startTime,
           \A m \in DOMAIN image.packets : image.packets[m] = {image.newest[m]}
    PROVE  upstream' \in Seq(Upstream) /\ LastSent' = messages /\ SentInOrder'
<1> DEFINE n == Len(upstream)
<1>1. upstream \in Seq(Upstream) /\ messages \in Nat /\ LastSent \in Nat
  BY LastSentType DEF MessageTypes
<1>2. n \in Nat /\ DOMAIN upstream = 1 .. n /\ \A i \in 1 .. n : upstream[i] \in Upstream
  BY <1>1, LenProperties, ElementOfSeq
<1>3. /\ upstream' \in Seq(Upstream) /\ Len(upstream') = n + 1
      /\ DOMAIN upstream' = 1 .. n + 1
      /\ \A i \in 1 .. n : upstream'[i] = upstream[i]
      /\ upstream'[n + 1] = image
  BY <1>1, <1>2, AppendProperties, LenProperties
<1> HIDE DEF n
<1>4. upstream' # <<>>
  BY <1>2, <1>3, EmptySeq
<1>5. LastSent' = messages
  BY <1>3, <1>4 DEF LastSent
<1>6. \A i \in DOMAIN upstream' : i \in 1 .. n \/ i = n + 1
  BY <1>2, <1>3
<1>7. \A i \in 1 .. n :
        /\ upstream[i].sent \in Nat /\ upstream[i].sent <= LastSent
        /\ \A id \in Carried(upstream[i]) : id <= upstream[i].sent
        /\ \A m \in DOMAIN upstream[i].packets :
             upstream[i].packets[m] = {upstream[i].newest[m]}
  BY <1>2, CarriedType DEF SentInOrder
<1>8. ASSUME NEW i \in DOMAIN upstream'
      PROVE  /\ upstream'[i].sent <= messages
             /\ \A id \in Carried(upstream'[i]) : id <= upstream'[i].sent
             /\ \A m \in DOMAIN upstream'[i].packets :
                  upstream'[i].packets[m] = {upstream'[i].newest[m]}
  <2>1. CASE i \in 1 .. n
    BY <1>1, <1>3, <1>7, <2>1
  <2>2. CASE i = n + 1
    BY <1>1, <1>3, <2>2
  <2> QED
    BY <1>6, <2>1, <2>2
<1>9. ASSUME NEW i \in DOMAIN upstream', NEW j \in DOMAIN upstream', i < j
      PROVE  /\ \A id \in Carried(upstream'[j]) : upstream'[i].sent < id
             /\ upstream'[i].sent < upstream'[j].startTime
  <2>1. i \in 1 .. n
    BY <1>2, <1>3, <1>9
  <2>2. upstream'[i] = upstream[i] /\ upstream[i].sent \in Nat /\ upstream[i].sent <= LastSent
    BY <1>3, <1>7, <2>1
  <2>3. CASE j \in 1 .. n
    BY <1>2, <1>3, <1>9, <2>1, <2>2, <2>3 DEF SentInOrder
  <2>4. CASE j = n + 1
    <3>1. Carried(image) \subseteq Nat /\ image.startTime \in Nat
      BY CarriedType
    <3> QED
      BY <1>1, <1>3, <2>2, <2>4, <3>1
  <2> QED
    BY <1>6, <2>3, <2>4
<1> QED
  BY <1>3, <1>5, <1>8, <1>9 DEF SentInOrder

LEMMA SendImageKeeps ==
    ASSUME MessagesInv, SendImageOfFrame
    PROVE  MessagesInv'
<1> DEFINE image == [logs |-> EncodeLatencyLog, packets |-> EncodeVecPacket,
                     startTime |-> SnapshotStartTime, newest |-> vecPackets, sent |-> messages]
           Done(m) == IF m \in received THEN DecodeAll(machines[m]) ELSE machines[m]
<1>1. MessageTypes /\ HeardOf /\ IdleIsEmpty /\ DecodedLate /\ WaitingIsNew /\ SentInOrder
  BY DEF MessagesInv
<1>2. /\ received # {} /\ upstream' = Append(upstream, image)
      /\ received' = {} /\ encodedOnce' = TRUE
      /\ receivedAll' = receivedAll /\ first' = first
      /\ messages' = messages /\ vecPackets' = vecPackets
  BY DEF SendImageOfFrame
<1>3. /\ image \in Upstream
      /\ \A id \in Carried(image) : LastSent < id /\ id <= messages
      /\ LastSent < image.startTime
      /\ \A m \in DOMAIN image.packets : image.packets[m] = {image.newest[m]}
  BY <1>2, ImageIsNew
<1>4. image.sent = messages
  OBVIOUS
<1> HIDE DEF image
<1>5. upstream' \in Seq(Upstream) /\ LastSent' = messages /\ SentInOrder'
  BY <1>1, <1>2, <1>3, <1>4, SentGrows DEF WaitingIsNew
<1>6. /\ machines' = [m \in Sender |-> Reset(Done(m))]
      /\ direct' = [m \in Sender |-> Reset(direct[m])]
  BY DEF SendImageOfFrame, ResetLastMessages
<1>7. ASSUME NEW m \in Sender
      PROVE  /\ Done(m).fb \in FrameBuffer
             /\ m \in receivedAll => Done(m).fb = direct[m].fb
             /\ direct[m].fb \in FrameBuffer
  <2>1. /\ machines[m] \in QueueMachine /\ direct[m] \in QueueMachine
        /\ machines[m].fb \in FrameBuffer /\ direct[m].fb \in FrameBuffer
    BY <1>1 DEF MessageTypes, QueueMachine, Machine
  <2>2. m \in receivedAll => DecodeAll(machines[m]).fb = direct[m].fb
    BY <1>1, <2>1, MatchesDecodes DEF DecodedLate
  <2>3. CASE m \in received
    BY <1>1, <2>1, <2>2, <2>3 DEF HeardOf
  <2>4. CASE m \notin received
    <3>1. machines[m].array = NoQueue
      BY <1>1, <2>4 DEF IdleIsEmpty
    <3>2. DecodeAll(machines[m]).fb = machines[m].fb
      BY <2>1, <3>1, MatchesDecodes, NoQueueMatches
    <3> QED
      BY <2>1, <2>2, <2>4, <3>2
  <2> QED
    BY <2>3, <2>4
<1> HIDE DEF Done
<1>8. ASSUME NEW m \in Sender
      PROVE  /\ machines'[m] \in QueueMachine /\ machines'[m].array = NoQueue
             /\ ~ machines'[m].hasVecPacket /\ machines'[m].snapshotStartTime = 0
             /\ machines'[m].fb = Done(m).fb
             /\ direct'[m] \in QueueMachine /\ direct'[m].fb = direct[m].fb
  BY <1>6, <1>7, ResetType
<1>9. MessageTypes'
  <2>1. machines' \in [Sender -> QueueMachine] /\ direct' \in [Sender -> QueueMachine]
    BY <1>6, <1>8
  <2> QED
    BY <1>1, <1>2, <1>5, <2>1 DEF MessageTypes
<1>10. HeardOf' /\ IdleIsEmpty'
  BY <1>1, <1>2, <1>8 DEF HeardOf, IdleIsEmpty
<1>11. DecodedLate'
  <2>1. ASSUME NEW m \in receivedAll'
        PROVE  Matches(machines'[m].array, machines'[m].fb, direct'[m].fb)
    <3>1. m \in Sender /\ m \in receivedAll
      BY <1>1, <1>2 DEF MessageTypes
    <3>2. machines'[m].array = NoQueue /\ machines'[m].fb = direct[m].fb /\ direct'[m].fb = direct[m].fb
      BY <1>7, <1>8, <3>1
    <3>3. Matches(NoQueue, direct[m].fb, direct[m].fb)
      BY <1>7, <3>1, NoQueueMatches
    <3> QED
      BY <3>2, <3>3
  <2> QED
    BY <2>1 DEF DecodedLate
<1>12. WaitingIsNew'
  <2>1. ASSUME NEW m \in Sender PROVE Waits(machines'[m], vecPackets'[m], messages, messages)
    BY <1>8, NoQueueOk DEF Waits, Carries
  <2>2. LastSent' = messages /\ messages' = messages /\ messages <= messages
    BY <1>1, <1>2, <1>5 DEF MessageTypes
  <2> QED
    BY <1>2, <1>8, <2>1, <2>2 DEF WaitingIsNew
<1> QED
  BY <1>5, <1>9, <1>10, <1>11, <1>12 DEF MessagesInv

LEMMA ReuseFrameKeeps ==
    ASSUME MessagesInv, ReuseFrame
    PROVE  MessagesInv'
<1>1. MessageTypes /\ WaitingIsNew /\ SentInOrder
  BY DEF MessagesInv
<1>2. /\ received' = {} /\ receivedAll' = {} /\ encodedOnce' = FALSE
      /\ vecPackets' = [m \in Sender |-> 0]
      /\ messages' = messages /\ upstream' = upstream
      /\ machines' = [m \in Sender |-> Reset(machines[m])]
      /\ direct' = [m \in Sender |-> Reset(direct[m])]
  BY DEF ReuseFrame, ResetLastMessages
<1>3. ASSUME NEW m \in Sender
      PROVE  /\ machines'[m] \in QueueMachine /\ machines'[m].array = NoQueue
             /\ ~ machines'[m].hasVecPacket /\ machines'[m].snapshotStartTime = 0
             /\ direct'[m] \in QueueMachine
  <2>1. machines[m].fb \in FrameBuffer /\ direct[m].fb \in FrameBuffer
    BY <1>1 DEF MessageTypes, QueueMachine, Machine
  <2> QED
    BY <1>2, <2>1, ResetType
<1>4. MessageTypes'
  <2>1. machines' \in [Sender -> QueueMachine] /\ direct' \in [Sender -> QueueMachine]
    BY <1>2, <1>3
  <2> QED
    BY <1>1, <1>2, <2>1 DEF MessageTypes
<1>5. HeardOf' /\ IdleIsEmpty' /\ DecodedLate'
  BY <1>2, <1>3 DEF HeardOf, IdleIsEmpty, DecodedLate
<1>6. LastSent' = LastSent /\ SentInOrder'
  BY <1>1, <1>2, SentStays
<1>7. \A m \in Sender : Waits(machines'[m], vecPackets'[m], LastSent, messages)
  BY <1>3, NoQueueOk DEF Waits, Carries
<1>8. WaitingIsNew'
  BY <1>1, <1>2, <1>3, <1>6, <1>7 DEF WaitingIsNew
<1> QED
  BY <1>4, <1>5, <1>6, <1>8 DEF MessagesInv

LEMMA NextMessages == MessagesInv /\ [MessagesNext]_messageVars => MessagesInv'
<1> SUFFICES ASSUME MessagesInv, [MessagesNext]_messageVars PROVE MessagesInv'
  OBVIOUS
<1>1. ASSUME NEW m \in Sender, NEW status \in {"STARTED", "RENDERING"}, NEW content \in Contents,
             Receive(m, status, content)
      PROVE  MessagesInv'
  BY <1>1, ReceiveKeeps
<1>2. CASE SendImageOfFrame
  BY <1>2, SendImageKeeps
<1>3. CASE ReuseFrame
  BY <1>3, ReuseFrameKeeps
<1>4. CASE UNCHANGED messageVars
  <2>1. LastSent' = LastSent /\ SentInOrder'
    BY <1>4, SentStays DEF MessagesInv, messageVars
  <2> QED
    BY <1>4, <2>1 DEF messageVars, MessagesInv, MessageTypes, HeardOf, IdleIsEmpty,
                      DecodedLate, WaitingIsNew
<1> QED
  BY <1>1, <1>2, <1>3, <1>4 DEF MessagesNext

(* Decoding what waits gives the frame buffer of the other mode: for each  *)
(* plane at most one name that waits writes it, and the buffers of a name  *)
(* wait in the order of their arrival.                                     *)
LEMMA DecodedLateIsDirect == MessagesInv => DelayedDecodeIsDirect
<1> SUFFICES ASSUME MessagesInv, NEW m \in receivedAll
             PROVE  DecodeAll(machines[m]).fb = direct[m].fb
  BY DEF DelayedDecodeIsDirect
<1>1. machines[m] \in QueueMachine /\ direct[m].fb \in FrameBuffer
  BY DEF MessagesInv, MessageTypes, QueueMachine, Machine
<1>2. Matches(machines[m].array, machines[m].fb, direct[m].fb)
  BY DEF MessagesInv, DecodedLate
<1> QED
  BY <1>1, <1>2, MatchesDecodes

(* What is carried by an image came between the image before and itself.   *)
LEMMA SentInOrderIsFresh == MessagesInv => UpstreamIsFresh
<1> SUFFICES ASSUME MessagesInv PROVE UpstreamIsFresh
  OBVIOUS
<1> DEFINE LogIds(i) == UNION {{upstream[i].logs[m][k] : k \in DOMAIN upstream[i].logs[m]} :
                                 m \in DOMAIN upstream[i].logs}
           PacketIds(i) == UNION {upstream[i].packets[m] : m \in DOMAIN upstream[i].packets}
<1>1. upstream \in Seq(Upstream) /\ SentInOrder
  BY DEF MessagesInv, MessageTypes
<1>2. \A i \in DOMAIN upstream : Carried(upstream[i]) = LogIds(i) \cup PacketIds(i)
  BY DEF Carried
<1> HIDE DEF LogIds, PacketIds
<1>3. ASSUME NEW i \in DOMAIN upstream, NEW j \in DOMAIN upstream, i < j
      PROVE  /\ LogIds(i) \cap LogIds(j) = {} /\ PacketIds(i) \cap PacketIds(j) = {}
             /\ upstream[i].sent < upstream[j].startTime
  <2>1. upstream[i] \in Upstream /\ upstream[j] \in Upstream
    BY <1>1
  <2>2. /\ upstream[i].sent \in Nat
        /\ Carried(upstream[i]) \subseteq Nat /\ Carried(upstream[j]) \subseteq Nat
    BY <2>1, CarriedType
  <2>3. /\ \A id \in Carried(upstream[i]) : id <= upstream[i].sent
        /\ \A id \in Carried(upstream[j]) : upstream[i].sent < id
        /\ upstream[i].sent < upstream[j].startTime
    BY <1>1, <1>3 DEF SentInOrder
  <2>4. Carried(upstream[i]) \cap Carried(upstream[j]) = {}
    BY <2>2, <2>3
  <2> QED
    BY <1>2, <2>3, <2>4
<1>4. \A i \in DOMAIN upstream : \A m \in DOMAIN upstream[i].packets :
        upstream[i].packets[m] = {upstream[i].newest[m]}
  BY <1>1 DEF SentInOrder
<1>5. \A i, j \in DOMAIN upstream :
        i < j => /\ LogIds(i) \cap LogIds(j) = {} /\ PacketIds(i) \cap PacketIds(j) = {}
                 /\ upstream[i].sent < upstream[j].startTime
  BY <1>3
<1> QED
  BY <1>4, <1>5, Zenon DEF UpstreamIsFresh, LogIds, PacketIds

LEMMA MessagesInvariant == MessagesSpec => []MessagesInv
<1>1. MessagesInit => MessagesInv
  BY InitMessages
<1>2. MessagesInv /\ [MessagesNext]_messageVars => MessagesInv'
  BY NextMessages
<1> QED
  BY <1>1, <1>2, PTL DEF MessagesSpec

(* Whether messages are decoded as they arrive or when the image is made,  *)
(* the frame buffer of each machine is the same, for all sequences of      *)
(* messages and images, any number of machines and any contents whose      *)
(* names have planes of their own (FbMsgMultiChans.cc, push, decodeAll).   *)
THEOREM DelayedDecodeIsAlwaysDirect == MessagesSpec => []DelayedDecodeIsDirect
<1>1. MessagesInv => DelayedDecodeIsDirect
  BY DecodedLateIsDirect
<1> QED
  BY <1>1, MessagesInvariant, PTL

(* No latency log and no vector packet is sent on twice, a packet is the   *)
(* newest one of its rendering, and the time of an image is that of a      *)
(* message after the image before (FbMsgSingleFrame.cc, encodeLatencyLog   *)
(* and getSnapshotStartTime; FbMsgMultiChans.cc, encodeVecPacket).         *)
THEOREM UpstreamIsAlwaysFresh == MessagesSpec => []UpstreamIsFresh
<1>1. MessagesInv => UpstreamIsFresh
  BY SentInOrderIsFresh
<1> QED
  BY <1>1, MessagesInvariant, PTL

-------------------------------------------------------------------------------
(* The invariant: every record in flight leads from what the one before it *)
(* left to what the merge computation had when it was sent, and the one    *)
(* being written leads from there to what the merge computation has.       *)
Made(copy, records, i) == IF i = 0 THEN copy ELSE records[i].made

Record == [data : Seq(Codes), made : Copy]

TrackerFields == {"data", "lastSendActionId", "lastPartialMergeTileId"}

ReplayTypes ==
    /\ DOMAIN tracker = TrackerFields /\ tracker.data \in Seq(Codes)
    /\ sent \in Seq(Record)
    /\ merger \in Copy /\ replica \in Copy

Leads ==
    /\ \A i \in 1 .. Len(sent) :
         DecodeLoop(Made(replica, sent, i - 1), sent[i].data) = Made(replica, sent, i)
    /\ DecodeLoop(Made(replica, sent, Len(sent)), tracker.data) = merger

ReplayInv == ReplayTypes /\ Leads

LEMMA CopyIsCopies == Copy \subseteq Copies(Tile)
BY MaxActionIdAssumption DEF Copy, Copies, ActionId

LEMMA MadeType ==
    ASSUME ReplayTypes
    PROVE  \A i \in 0 .. Len(sent) : Made(replica, sent, i) \in Copy
<1>1. \A i \in 1 .. Len(sent) : sent[i] \in Record
  BY ElementOfSeq DEF ReplayTypes
<1>2. Len(sent) \in Nat
  BY LenProperties DEF ReplayTypes
<1> QED
  BY <1>1, <1>2, SMTT(30) DEF Made, Record, ReplayTypes

LEMMA WorkKeeps ==
    ASSUME ReplayInv, NEW codes \in Seq(Codes),
           DOMAIN tracker' = TrackerFields, tracker'.data = tracker.data \o codes,
           merger' \in Copy, merger' = DecodeLoop(merger, codes),
           sent' = sent, replica' = replica
    PROVE  ReplayInv'
<1>1. tracker'.data \in Seq(Codes)
  BY ConcatProperties DEF ReplayInv, ReplayTypes
<1>2. ReplayTypes'
  BY <1>1 DEF ReplayInv, ReplayTypes
<1>3. \A i : Made(replica', sent', i) = Made(replica, sent, i)
  OBVIOUS
<1>4. Made(replica, sent, Len(sent)) \in Copies(Tile)
  <2>1. Len(sent) \in 0 .. Len(sent)
    BY LenProperties DEF ReplayInv, ReplayTypes
  <2> QED
    BY <2>1, MadeType, CopyIsCopies DEF ReplayInv
<1>5. DecodeLoop(Made(replica, sent, Len(sent)), tracker'.data) = merger'
  BY <1>4, DecodeLoopConcat DEF ReplayInv, ReplayTypes, Leads
<1>6. Leads'
  BY <1>3, <1>5 DEF ReplayInv, Leads
<1> QED
  BY <1>2, <1>6 DEF ReplayInv

LEMMA DecodeKeeps ==
    ASSUME ReplayInv, NEW ids \in SUBSET ActionId, Decode(ids)
    PROVE  ReplayInv'
<1> DEFINE s == Upwards(ids)
           codes == DecodeCodes(s)
<1>1. s \in Seq(Int) /\ s # <<>> /\ {s[i] : i \in 1 .. Len(s)} = ids
  <2>1. IsFiniteSet(ActionId) /\ ActionId \subseteq Int
    BY MaxActionIdAssumption, FS_Interval DEF ActionId
  <2>2. IsFiniteSet(ids) /\ ids \subseteq Int /\ ids # {}
    BY <2>1, FS_Subset DEF Decode
  <2>3. s \in Seq(ids) /\ {s[i] : i \in 1 .. Len(s)} = ids
    BY <2>2, UpwardsEnumerates
  <2> HIDE DEF s
  <2>4. s \in Seq(Int)
    BY <2>2, <2>3, SeqMonotonic
  <2>5. s # <<>>
    BY <2>2, <2>3, EmptySeq
  <2> QED
    BY <2>3, <2>4, <2>5
<1>2. merger \in Copy /\ merger \in Copies(Tile) /\ DOMAIN tracker = TrackerFields
  BY CopyIsCopies DEF ReplayInv, ReplayTypes
<1>3. codes \in Seq(Codes) /\ DecodeLoop(merger, codes) = DecodeMessages(merger, ids)
  BY <1>1, <1>2, TrackedDecode
<1> HIDE DEF codes
<1>4. DOMAIN tracker' = TrackerFields /\ tracker'.data = tracker.data \o codes
  BY <1>2 DEF Decode, TrackDecode, TrackerFields, codes
<1>5. merger' = DecodeMessages(merger, ids) /\ sent' = sent /\ replica' = replica
  BY DEF Decode
<1>6. DecodeMessages(merger, ids) \in Copy
  BY <1>2 DEF DecodeMessages, Copy
<1> QED
  BY <1>3, <1>4, <1>5, <1>6, WorkKeeps

LEMMA MergeTilesInCopy ==
    ASSUME NEW copy \in Copy, NEW tiles
    PROVE  MergeTiles(copy, tiles) \in Copy
BY DEF MergeTiles, Copy

LEMMA MergeKeeps ==
    ASSUME ReplayInv, Merge
    PROVE  ReplayInv'
<1>1. merger \in Copy /\ merger \in Copies(Tile) /\ DOMAIN tracker = TrackerFields
      /\ tracker.data \in Seq(Codes)
  BY CopyIsCopies DEF ReplayInv, ReplayTypes
<1>2. CASE MergeFull
  <2> DEFINE code == [key |-> "MERGE_ALL_TILES"]
  <2>1. code \in Codes /\ ApplyCode(merger, code) = MergeTiles(merger, Tile)
    BY <1>1, TrackedMergeFull
  <2> HIDE DEF code
  <2>2. <<code>> \in Seq(Codes) /\ <<code>> = Append(<<>>, code) /\ <<>> \in Seq(Codes)
    BY <2>1
  <2>3. DecodeLoop(merger, <<code>>) = MergeTiles(merger, Tile)
    <3>1. DecodeLoop(merger, <<>>) = merger
      BY <1>1, DecodeLoopEmpty
    <3>2. DecodeLoop(merger, Append(<<>>, code)) = ApplyCode(DecodeLoop(merger, <<>>), code)
      BY <1>1, <2>1, <2>2, DecodeLoopAppend
    <3> QED
      BY <2>1, <2>2, <3>1, <3>2
  <2>4. DOMAIN tracker' = TrackerFields /\ tracker'.data = Append(tracker.data, code)
    BY <1>1, <1>2 DEF MergeFull, TrackMergeFull, TrackerFields, code
  <2>5. tracker'.data = tracker.data \o <<code>>
    BY <1>1, <2>1, <2>4, AppendIsConcat
  <2>6. merger' = MergeTiles(merger, Tile) /\ sent' = sent /\ replica' = replica
    BY <1>2 DEF MergeFull
  <2> QED
    BY <1>1, <2>2, <2>3, <2>4, <2>5, <2>6, MergeTilesInCopy, WorkKeeps
<1>3. ASSUME NEW request \in Requests, MergePartial(request) PROVE ReplayInv'
  <2> DEFINE tiles == PartialMergeTiles(partialMergeStartTileId, request, TotalTiles)
             codes == Coded("MERGE_TILE", Ranges(Upwards(tiles)))
  <2>1. tiles \in SUBSET Int /\ IsFiniteSet(tiles)
    <3>1. tiles \subseteq 0 .. TotalTiles - 1
      BY DEF PartialMergeTiles, TileIds
    <3>2. IsFiniteSet(0 .. TotalTiles - 1) /\ 0 .. TotalTiles - 1 \subseteq Int
      BY TotalTilesAssumption, FS_Interval
    <3> QED
      BY <3>1, <3>2, FS_Subset
  <2>2. DOMAIN tracker' = TrackerFields /\ tracker'.data = tracker.data \o codes
    BY <1>1, <1>3 DEF MergePartial, TrackMergePartial, TrackerFields, Coded
  <2>3. merger' = MergeTiles(merger, tiles) /\ sent' = sent /\ replica' = replica
    BY <1>3 DEF MergePartial
  <2> HIDE DEF tiles
  <2>4. codes \in Seq(Codes) /\ DecodeLoop(merger, codes) = MergeTiles(merger, tiles)
    BY <1>1, <2>1, TrackedMergePartial
  <2> HIDE DEF codes
  <2> QED
    BY <1>1, <2>2, <2>3, <2>4, MergeTilesInCopy, WorkKeeps
<1> QED
  BY <1>2, <1>3 DEF Merge

LEMMA EncodeKeeps ==
    ASSUME ReplayInv, EncodeData
    PROVE  ReplayInv'
<1> DEFINE L == Len(sent)
           record == [data |-> tracker.data, made |-> merger]
<1>1. record \in Record /\ record.data = tracker.data /\ record.made = merger
  BY DEF ReplayInv, ReplayTypes, Record
<1> HIDE DEF record
<1>2. sent' = Append(sent, record) /\ merger' = merger /\ replica' = replica
  BY DEF EncodeData, record
<1>3. /\ sent' \in Seq(Record) /\ Len(sent') = L + 1 /\ L \in Nat
      /\ sent'[L + 1] = record /\ \A i \in 1 .. L : sent'[i] = sent[i]
  BY <1>1, <1>2, AppendProperties, LenProperties DEF ReplayInv, ReplayTypes
<1>4. DOMAIN tracker' = TrackerFields /\ tracker'.data = <<>>
  BY DEF EncodeData, ResetEncode, ReplayInv, ReplayTypes, TrackerFields
<1>5. /\ \A i \in 0 .. L : Made(replica', sent', i) = Made(replica, sent, i)
      /\ Made(replica', sent', L + 1) = merger
  BY <1>1, <1>2, <1>3 DEF Made
<1>6. \A i \in 1 .. L + 1 :
        DecodeLoop(Made(replica', sent', i - 1), sent'[i].data) = Made(replica', sent', i)
  <2>1. ASSUME NEW i \in 1 .. L
        PROVE  DecodeLoop(Made(replica', sent', i - 1), sent'[i].data)
                 = Made(replica', sent', i)
    <3>1. i - 1 \in 0 .. L /\ i \in 0 .. L
      BY <1>3
    <3> QED
      BY <1>3, <1>5, <3>1 DEF ReplayInv, Leads
  <2>2. DecodeLoop(Made(replica', sent', L), sent'[L + 1].data) = Made(replica', sent', L + 1)
    BY <1>1, <1>3, <1>5 DEF ReplayInv, Leads
  <2>3. (L + 1) - 1 = L /\ \A i \in 1 .. L + 1 : i \in 1 .. L \/ i = L + 1
    BY <1>3
  <2> QED
    BY <2>1, <2>2, <2>3
<1>7. DecodeLoop(merger, <<>>) = merger
  BY CopyIsCopies, DecodeLoopEmpty DEF ReplayInv, ReplayTypes
<1>8. Leads'
  BY <1>2, <1>3, <1>4, <1>5, <1>6, <1>7 DEF Leads
<1>9. ReplayTypes'
  BY <1>2, <1>3, <1>4, EmptySeq DEF ReplayInv, ReplayTypes
<1> QED
  BY <1>8, <1>9 DEF ReplayInv

LEMMA ReplayRecordGoesOn ==
    ASSUME ReplayInv, ReplayRecord
    PROVE  /\ sent # <<>> /\ sent' = Tail(sent)
           /\ 1 \in 1 .. Len(sent) /\ replica' = sent[1].made
<1>1. sent # <<>> /\ sent' = Tail(sent) /\ replica' = DecodeLoop(replica, sent[1].data)
  BY DEF ReplayRecord, Replay
<1>2. 1 \in 1 .. Len(sent)
  BY <1>1, EmptySeq DEF ReplayInv, ReplayTypes
<1>3. Made(replica, sent, 1 - 1) = replica /\ Made(replica, sent, 1) = sent[1].made
  BY DEF Made
<1> QED
  BY <1>1, <1>2, <1>3 DEF ReplayInv, Leads

LEMMA ReplayRecordKeeps ==
    ASSUME ReplayInv, ReplayRecord
    PROVE  ReplayInv'
<1> DEFINE L == Len(sent)
<1>1. sent # <<>> /\ sent' = Tail(sent) /\ 1 \in 1 .. L /\ replica' = sent[1].made
  BY ReplayRecordGoesOn
<1>2. tracker' = tracker /\ merger' = merger
  BY DEF ReplayRecord
<1>3. /\ sent' \in Seq(Record) /\ Len(sent') = L - 1 /\ L \in Nat
      /\ \A i \in 1 .. L - 1 : sent'[i] = sent[i + 1]
  BY <1>1, HeadTailProperties, LenProperties DEF ReplayInv, ReplayTypes
<1>4. \A i \in 0 .. L - 1 : Made(replica', sent', i) = Made(replica, sent, i + 1)
  <2>1. ASSUME NEW i \in 1 .. L - 1 PROVE Made(replica', sent', i) = Made(replica, sent, i + 1)
    BY <1>3 DEF Made
  <2>2. Made(replica', sent', 0) = Made(replica, sent, 1)
    BY <1>1 DEF Made
  <2>3. \A i \in 0 .. L - 1 : i = 0 \/ i \in 1 .. L - 1
    BY <1>3
  <2> QED
    BY <2>1, <2>2, <2>3
<1>5. replica' \in Copy
  <2>1. sent[1] \in Record
    BY <1>1, ElementOfSeq DEF ReplayInv, ReplayTypes
  <2> QED
    BY <1>1, <2>1 DEF Record
<1>6. ASSUME NEW i \in 1 .. L - 1
      PROVE  DecodeLoop(Made(replica', sent', i - 1), sent'[i].data) = Made(replica', sent', i)
  <2>1. i - 1 \in 0 .. L - 1 /\ i \in 0 .. L - 1 /\ i + 1 \in 1 .. L
        /\ (i - 1) + 1 = i /\ (i + 1) - 1 = i
    BY <1>3
  <2>2. DecodeLoop(Made(replica, sent, (i + 1) - 1), sent[i + 1].data)
          = Made(replica, sent, i + 1)
    BY <2>1 DEF ReplayInv, Leads
  <2>3. /\ Made(replica', sent', i - 1) = Made(replica, sent, i)
        /\ Made(replica', sent', i) = Made(replica, sent, i + 1)
    BY <1>4, <2>1
  <2> QED
    BY <1>3, <2>1, <2>2, <2>3
<1>7. Made(replica', sent', L - 1) = Made(replica, sent, L)
  <2>1. L - 1 \in 0 .. L - 1 /\ (L - 1) + 1 = L
    BY <1>1, <1>3
  <2> QED
    BY <1>4, <2>1
<1>8. Leads'
  BY <1>2, <1>3, <1>6, <1>7 DEF ReplayInv, Leads
<1> QED
  BY <1>2, <1>3, <1>5, <1>8 DEF ReplayInv, ReplayTypes

LEMMA StepKeeps ==
    ASSUME ReplayInv, [ReplayNext]_replayVars
    PROVE  ReplayInv'
<1>1. CASE \E ids \in SUBSET ActionId : Decode(ids)
  BY <1>1, DecodeKeeps
<1>2. CASE Merge
  BY <1>2, MergeKeeps
<1>3. CASE EncodeData
  BY <1>3, EncodeKeeps
<1>4. CASE ReplayRecord
  BY <1>4, ReplayRecordKeeps
<1>5. CASE UNCHANGED replayVars
  BY <1>5 DEF replayVars, ReplayInv, ReplayTypes, Leads
<1> QED
  BY <1>1, <1>2, <1>3, <1>4, <1>5 DEF ReplayNext

LEMMA InitLeads ==
    ASSUME ReplayInit
    PROVE  ReplayInv
<1>1. /\ tracker = EmptyTracker /\ sent = <<>>
      /\ merger = EmptyCopy /\ replica = EmptyCopy
  BY DEF ReplayInit
<1>2. EmptyCopy \in Copy
  BY DEF EmptyCopy, Copy
<1>3. DOMAIN EmptyTracker = TrackerFields /\ EmptyTracker.data = <<>>
  BY DEF EmptyTracker, TrackerFields
<1>4. ReplayTypes
  BY <1>1, <1>2, <1>3, EmptySeq DEF ReplayTypes
<1>5. DecodeLoop(EmptyCopy, <<>>) = EmptyCopy
  BY <1>2, CopyIsCopies, DecodeLoopEmpty
<1>6. Leads
  <2>1. Len(sent) = 0 /\ Made(replica, sent, 0) = EmptyCopy
    BY <1>1, EmptySeq DEF Made
  <2> QED
    BY <1>1, <1>3, <1>5, <2>1 DEF Leads
<1> QED
  BY <1>4, <1>6 DEF ReplayInv

THEOREM ReplayInvariant == ReplaySpec => []ReplayInv
BY InitLeads, StepKeeps, PTL DEF ReplaySpec

(* The records in flight and the one being written lead the MCRT           *)
(* computation from what it has to what the merge computation has.         *)
THEOREM ReplicaIsAlwaysOnItsWay == ReplaySpec => []ReplicaIsOnItsWay
<1>1. ReplayInv => ReplicaIsOnItsWay
  <2> SUFFICES ASSUME ReplayInv PROVE ReplicaIsOnItsWay
    OBVIOUS
  <2> DEFINE L == Len(sent)
             Run(f) == f = [n \in 0 .. L |->
                              IF n = 0 THEN replica ELSE Replay(f[n - 1], sent[n].data)]
             Arrived == CHOOSE f : Run(f)
             g == [n \in 0 .. L |-> Made(replica, sent, n)]
  <2>1. L \in Nat
    BY LenProperties DEF ReplayInv, ReplayTypes
  <2>2. Run(g)
    <3>1. g[0] = replica
      BY <2>1 DEF Made
    <3>2. ASSUME NEW n \in 1 .. L PROVE g[n] = Replay(g[n - 1], sent[n].data)
      <4>1. n - 1 \in 0 .. L /\ n \in 0 .. L
        BY <2>1
      <4> QED
        BY <4>1 DEF ReplayInv, Leads, Replay
    <3> HIDE DEF g
    <3>3. \A n \in 0 .. L : g[n] = IF n = 0 THEN replica ELSE Replay(g[n - 1], sent[n].data)
      BY <2>1, <3>1, <3>2
    <3>4. g = [n \in 0 .. L |-> g[n]]
      BY DEF g
    <3> QED
      BY <3>3, <3>4
  <2> HIDE DEF g
  <2>3. Run(Arrived)
    BY <2>2
  <2>4. ReplicaIsOnItsWay <=> Replay(Arrived[L], tracker.data) = merger
    BY DEF ReplicaIsOnItsWay
  <2> HIDE DEF Arrived
  <2>5. InStep(Arrived, g, L)
    BY <2>1, <2>2, <2>3 DEF InStep
  <2>6. \A n \in 0 .. L : Arrived[n] = g[n]
    BY <2>5, LoopsAgree
  <2>7. Arrived[L] = Made(replica, sent, L)
    BY <2>1, <2>6 DEF g
  <2> QED
    BY <2>4, <2>7 DEF ReplayInv, Leads, Replay
<1> QED
  BY <1>1, ReplayInvariant, PTL

-------------------------------------------------------------------------------
(* The refinement of LaggingCopy: decoding and merging work on the source, *)
(* a record that is closed ships its state, and a record that is replayed  *)
(* brings the copy to the oldest state that was shipped.                   *)
Shipped == [i \in DOMAIN sent |-> sent[i].made]

LEMMA ReplayStepLags ==
    ASSUME ReplayInv, ReplayInv', [ReplayNext]_replayVars
    PROVE  [Lagging!Next]_<<merger, Shipped, replica>>
<1>1. /\ sent \in Seq(Record) /\ Len(sent) \in Nat /\ DOMAIN sent = 1 .. Len(sent)
      /\ \A i \in 1 .. Len(sent) : sent[i].made \in Copy
  <2>1. \A i \in 1 .. Len(sent) : sent[i] \in Record
    BY ElementOfSeq DEF ReplayInv, ReplayTypes
  <2> QED
    BY <2>1, LenProperties DEF ReplayInv, ReplayTypes, Record
<1>2. Shipped \in Seq(Copy) /\ Len(Shipped) = Len(sent)
      /\ \A i \in 1 .. Len(sent) : Shipped[i] = sent[i].made
  BY <1>1 DEF Shipped
<1>3. merger \in Copy /\ merger' \in Copy
  BY DEF ReplayInv, ReplayTypes
<1>4. CASE (\E ids \in SUBSET ActionId : Decode(ids)) \/ Merge
  <2>1. sent' = sent /\ replica' = replica
    BY <1>4 DEF Decode, Merge, MergeFull, MergePartial
  <2> QED
    BY <1>3, <2>1 DEF Lagging!Next, Lagging!Work, Shipped
<1>5. CASE EncodeData
  <2> DEFINE record == [data |-> tracker.data, made |-> merger]
  <2>1. record \in Record /\ record.made = merger
    BY DEF ReplayInv, ReplayTypes, Record
  <2> HIDE DEF record
  <2>2. sent' = Append(sent, record) /\ merger' = merger /\ replica' = replica
    BY <1>5 DEF EncodeData, record
  <2>3. /\ sent' \in Seq(Record) /\ Len(sent') = Len(sent) + 1
        /\ sent'[Len(sent) + 1] = record
        /\ \A i \in 1 .. Len(sent) : sent'[i] = sent[i]
        /\ DOMAIN sent' = 1 .. Len(sent) + 1
    BY <1>1, <2>1, <2>2, AppendProperties, LenProperties
  <2> DEFINE longer == Append(Shipped, merger)
  <2>4. /\ longer \in Seq(Copy) /\ Len(longer) = Len(sent) + 1
        /\ longer[Len(sent) + 1] = merger
        /\ \A i \in 1 .. Len(sent) : longer[i] = sent[i].made
    BY <1>2, <1>3, AppendProperties
  <2> HIDE DEF longer
  <2>5. \A i \in 1 .. Len(sent) + 1 : sent'[i].made = longer[i]
    BY <1>1, <2>1, <2>3, <2>4
  <2>6. longer = [i \in 1 .. Len(sent) + 1 |-> longer[i]]
    BY <2>4, LenProperties
  <2>7. Shipped' = [i \in 1 .. Len(sent) + 1 |-> sent'[i].made]
    BY <2>3 DEF Shipped
  <2>8. Shipped' = longer
    BY <2>5, <2>6, <2>7
  <2>9. Shipped' = Append(Shipped, merger)
    BY <2>8 DEF longer
  <2>10. Lagging!Ship
    BY <2>2, <2>9 DEF Lagging!Ship, Shipped
  <2> QED
    BY <2>10 DEF Lagging!Next
<1>6. CASE ReplayRecord
  <2>1. sent # <<>> /\ sent' = Tail(sent) /\ 1 \in 1 .. Len(sent) /\ replica' = sent[1].made
    BY <1>6, ReplayRecordGoesOn
  <2>2. Shipped # <<>> /\ replica' = Head(Shipped)
    BY <1>2, <2>1, EmptySeq
  <2>3. /\ sent' \in Seq(Record) /\ Len(sent') = Len(sent) - 1
        /\ \A i \in 1 .. Len(sent) - 1 : sent'[i] = sent[i + 1]
        /\ DOMAIN sent' = 1 .. Len(sent) - 1
    BY <1>1, <2>1, HeadTailProperties, LenProperties
  <2> DEFINE rest == Tail(Shipped)
  <2>4. /\ rest \in Seq(Copy) /\ Len(rest) = Len(sent) - 1
        /\ \A i \in 1 .. Len(sent) - 1 : rest[i] = sent[i + 1].made
    BY <1>1, <1>2, <2>2, HeadTailProperties
  <2> HIDE DEF rest
  <2>5. \A i \in 1 .. Len(sent) - 1 : sent'[i].made = rest[i]
    BY <2>3, <2>4
  <2>6. rest = [i \in 1 .. Len(sent) - 1 |-> rest[i]]
    BY <2>4, LenProperties
  <2>7. Shipped' = [i \in 1 .. Len(sent) - 1 |-> sent'[i].made]
    BY <2>3 DEF Shipped
  <2>8. Shipped' = rest /\ merger' = merger
    BY <1>6, <2>5, <2>6, <2>7 DEF ReplayRecord
  <2>9. Shipped' = Tail(Shipped)
    BY <2>8 DEF rest
  <2>10. Lagging!Receive
    BY <2>2, <2>8, <2>9 DEF Lagging!Receive, Shipped
  <2> QED
    BY <2>10 DEF Lagging!Next
<1>7. CASE UNCHANGED replayVars
  BY <1>7 DEF replayVars, Shipped
<1> QED
  BY <1>4, <1>5, <1>6, <1>7 DEF ReplayNext

(* The MCRT computation shows the states that the merge computation had at *)
(* every encodeData, in order, and no other ones.                          *)
THEOREM ReplayImplementsLaggingCopy == ReplaySpec => ImplementsLaggingCopy
<1>1. ReplayInit => Lagging!Init
  BY DEF ReplayInit, Lagging!Init
<1>2. ReplayInv /\ ReplayInv' /\ [ReplayNext]_replayVars => [Lagging!Next]_Lagging!vars
  BY ReplayStepLags DEF Lagging!vars, Shipped
<1> QED
  BY <1>1, <1>2, ReplayInvariant, PTL DEF ReplaySpec, ImplementsLaggingCopy, Lagging!Spec

-------------------------------------------------------------------------------
(* The sweep of partial merges, for every image size and every sizes of    *)
(* the steps.                                                              *)
(*                                                                         *)
(* The argument counts Distance(t), how far the window has to move before  *)
(* it reaches tile t.  A step of two tiles or more refreshes t or brings   *)
(* the window closer to it, also when the previous window ended exactly at *)
(* the last tile and the next one starts there again.  So waiting[t] plus  *)
(* Distance(t) stays below the number of tiles.                            *)
(* How far tile t lies ahead of the first tile of a window.                *)
Distance(start, t) ==
    LET ahead == ActiveStartId(start, TotalTiles)
    IN  IF ahead <= t THEN t - ahead ELSE t - ahead + TotalTiles

(* The strengthening of WaitBound that is inductive.                       *)
SweepInv ==
    /\ TypeOK
    /\ \A t \in Tile :
         waiting[t] + Distance(partialMergeStartTileId, t) < TotalTiles

USE TotalTilesAssumption, RequestsAssumption DEF Tile, TileIds

(* The window start stays within 0 .. TotalTiles.                          *)
LEMMA NextStartType ==
    ASSUME NEW s \in 0 .. TotalTiles, NEW request \in Requests
    PROVE  NextStartTileId(s, request, TotalTiles) \in 0 .. TotalTiles
BY DEF NextStartTileId, ActiveEndId, ActiveStartId, Least

(* Every state of PartialMergeSweep is well typed.                         *)
THEOREM SweepTypeCorrect == Spec => []TypeOK
<1>1. Init => TypeOK
  BY DEF Init, TypeOK
<1>2. TypeOK /\ [Next]_vars => TypeOK'
  <2> SUFFICES ASSUME TypeOK, [Next]_vars PROVE TypeOK'
    OBVIOUS
  <2>1. ASSUME NEW tiles, Refresh(tiles)
        PROVE  waiting' \in [Tile -> 0 .. TotalTiles]
    BY <2>1 DEF TypeOK, Refresh, Least
  <2>2. ASSUME NEW request \in Requests, PartialMergeStep(request)
        PROVE  TypeOK'
    BY <2>1, <2>2, NextStartType DEF TypeOK, PartialMergeStep
  <2>3. CASE FullMergeStep
    BY <2>1, <2>3 DEF TypeOK, FullMergeStep
  <2>4. CASE UNCHANGED vars
    BY <2>4 DEF TypeOK, vars
  <2>5. QED
    BY <2>2, <2>3, <2>4 DEF Next
<1>3. QED
  BY <1>1, <1>2, PTL DEF Spec

(* Distances are smaller than the image.                                   *)
LEMMA DistanceRange ==
    ASSUME NEW s \in 0 .. TotalTiles, NEW t \in Tile
    PROVE  Distance(s, t) \in 0 .. TotalTiles - 1
BY DEF Distance, ActiveStartId, Least

(* A partial step that does not refresh t moves the window closer to it.   *)
LEMMA StepCloser ==
    ASSUME 1 \notin Requests \/ TotalTiles = 1,
           TypeOK, NEW request \in Requests, PartialMergeStep(request),
           NEW t \in Tile,
           t \notin PartialMergeTiles(partialMergeStartTileId, request, TotalTiles)
    PROVE  Distance(partialMergeStartTileId', t) < Distance(partialMergeStartTileId, t)
<1>1. request \in Nat /\ request >= 1
  OBVIOUS
<1>2. request >= 2
  <2>1. CASE TotalTiles = 1
    BY <1>1, <2>1 DEF PartialMergeTiles, ActiveEndId, ActiveStartId, Least, TypeOK
  <2>2. CASE 1 \notin Requests
    BY <1>1, <2>2
  <2>3. QED
    BY <2>1, <2>2
<1>3. QED
  BY <1>2 DEF PartialMergeStep, NextStartTileId, PartialMergeTiles, ActiveEndId,
              ActiveStartId, Least, TypeOK, Distance

(* With partial merges of two tiles or more, no tile of any image waits    *)
(* longer than one sweep (PartialMergeSweep!WaitBound).                    *)
THEOREM SweepReachesEveryTile ==
    (1 \notin Requests \/ TotalTiles = 1) => (Spec => []WaitBound)
<1> SUFFICES ASSUME 1 \notin Requests \/ TotalTiles = 1
             PROVE  Spec => []WaitBound
  OBVIOUS
<1>1. TypeOK => \A t \in Tile :
                   Distance(partialMergeStartTileId, t) \in 0 .. TotalTiles - 1
  BY DistanceRange DEF TypeOK
<1>2. Init => SweepInv
  BY DEF Init, SweepInv, TypeOK, Distance, ActiveStartId, Least
<1>3. SweepInv /\ TypeOK' /\ [Next]_vars => SweepInv'
  <2> SUFFICES ASSUME SweepInv, TypeOK', [Next]_vars, NEW t \in Tile
               PROVE  waiting'[t] + Distance(partialMergeStartTileId', t) < TotalTiles
    BY DEF SweepInv
  <2>1. Distance(partialMergeStartTileId', t) \in 0 .. TotalTiles - 1
    BY DistanceRange DEF TypeOK
  <2>2. CASE waiting'[t] = 0
    BY <2>1, <2>2
  <2>3. ASSUME NEW request \in Requests, PartialMergeStep(request)
        PROVE  waiting'[t] + Distance(partialMergeStartTileId', t) < TotalTiles
    <3>1. CASE t \in PartialMergeTiles(partialMergeStartTileId, request, TotalTiles)
      BY <2>2, <2>3, <3>1 DEF PartialMergeStep, Refresh, SweepInv, TypeOK
    <3>2. CASE t \notin PartialMergeTiles(partialMergeStartTileId, request, TotalTiles)
      <4>1. Distance(partialMergeStartTileId', t) < Distance(partialMergeStartTileId, t)
        BY <2>3, <3>2, StepCloser DEF SweepInv
      <4>2. waiting'[t] <= waiting[t] + 1
        BY <2>3, <3>2 DEF PartialMergeStep, Refresh, SweepInv, TypeOK, Least
      <4>3. waiting[t] \in Nat /\ waiting'[t] \in Nat /\ Distance(partialMergeStartTileId, t) \in Nat
        <5>1. waiting[t] \in 0 .. TotalTiles /\ waiting'[t] \in 0 .. TotalTiles
          BY DEF SweepInv, TypeOK
        <5>2. Distance(partialMergeStartTileId, t) \in 0 .. TotalTiles - 1
          BY DistanceRange DEF SweepInv, TypeOK
        <5>3. QED
          BY <5>1, <5>2, TotalTilesAssumption
      <4>4. QED
        BY <2>1, <4>1, <4>2, <4>3 DEF SweepInv
    <3>3. QED
      BY <3>1, <3>2
  <2>4. CASE FullMergeStep
    BY <2>2, <2>4 DEF FullMergeStep, Refresh, SweepInv, TypeOK
  <2>5. CASE UNCHANGED vars
    BY <2>5 DEF vars, SweepInv, Distance
  <2>6. QED
    BY <2>3, <2>4, <2>5 DEF Next
<1>4. SweepInv => WaitBound
  BY <1>1 DEF SweepInv, WaitBound, TypeOK
<1>5. QED
  BY <1>2, <1>3, <1>4, SweepTypeCorrect, PTL DEF Spec

-------------------------------------------------------------------------------
(* The panels of the telemetry.  The tables of the stack are a path down   *)
(* the tree from its root, no table is on it twice, and so what is         *)
(* selected in the last table does not change the path.                    *)
Selected(d, table) == PanelsOf(table)[d.currId[table]]

Stacked(d) ==
    /\ d.stack \in Seq(Tables)
    /\ \A i, j \in 1 .. Len(d.stack) : d.stack[i] = d.stack[j] => i = j
    /\ \A i \in 1 .. Len(d.stack) :
         d.stack[i] = IF i = 1 THEN Root ELSE Selected(d, d.stack[i - 1])

DisplayFields ==
    {"active", "testMode", "hAlign", "vAlign", "fontFile", "testFontFile", "overlay", "archive",
     "initialPanel", "rootTable", "stack", "currId"}

PanelsOk(d) ==
    /\ DOMAIN d = DisplayFields
    /\ d.currId \in [Tables -> Nat]
    /\ \A table \in Tables : d.currId[table] \in DOMAIN PanelsOf(table)
    /\ Stacked(d)

(* The path that was asked for is the one that is shown.                   *)
Shows(d, path) ==
    /\ Len(d.stack) = Len(path)
    /\ \A i \in 1 .. Len(path) : Selected(d, d.stack[i]) = path[i]

LEMMA TablesHavePanels ==
    ASSUME NEW table \in Tables
    PROVE  /\ Len(PanelsOf(table)) \in Nat /\ Len(PanelsOf(table)) >= 1
           /\ DOMAIN PanelsOf(table) = 1 .. Len(PanelsOf(table))
<1>1. PanelsOf(table) \in Seq(STRING) /\ PanelsOf(table) # <<>>
  BY PanelsAssumption
<1> QED
  BY <1>1, LenProperties, EmptySeq

LEMMA SelectedOnce ==
    ASSUME NEW d, NEW table \in Tables, NEW other \in Tables,
           d.currId[table] \in DOMAIN PanelsOf(table), d.currId[other] \in DOMAIN PanelsOf(other),
           Selected(d, table) = Selected(d, other)
    PROVE  table = other
<1> DEFINE i == d.currId[table]
           j == d.currId[other]
<1>1. PanelsOf(table)[i] = PanelsOf(other)[j]
  BY DEF Selected
<1> HIDE DEF i, j
<1> QED
  BY <1>1, PanelsAssumption DEF i, j

LEMMA StackType ==
    ASSUME NEW d, d.stack \in Seq(Tables)
    PROVE  /\ Len(d.stack) \in Nat
           /\ \A i \in 1 .. Len(d.stack) : d.stack[i] \in Tables
           /\ d.stack # <<>> <=> Len(d.stack) >= 1
           /\ d.stack # <<>> => Last(d.stack) = d.stack[Len(d.stack)]
                                /\ Last(d.stack) \in Tables
<1>1. Len(d.stack) \in Nat /\ \A i \in 1 .. Len(d.stack) : d.stack[i] \in Tables
  BY LenProperties, ElementOfSeq
<1>2. d.stack # <<>> <=> Len(d.stack) >= 1
  BY <1>1, EmptySeq
<1> QED
  BY <1>1, <1>2 DEF Last

LEMMA CurrentIsSelected ==
    ASSUME NEW d, d.stack # <<>>
    PROVE  CurrentPanel(d) = Selected(d, Last(d.stack))
BY DEF CurrentPanel, Selected

(* Another panel of the last table.                                        *)
LEMMA SelectInLast ==
    ASSUME NEW d, PanelsOk(d), d.stack # <<>>, NEW n \in DOMAIN PanelsOf(Last(d.stack))
    PROVE  LET made == [d EXCEPT !.currId[Last(d.stack)] = n]
           IN  /\ PanelsOk(made)
               /\ made.stack = d.stack /\ made.rootTable = d.rootTable
               /\ made.initialPanel = d.initialPanel
               /\ Selected(made, Last(d.stack)) = PanelsOf(Last(d.stack))[n]
               /\ \A i \in 1 .. Len(d.stack) - 1 :
                    Selected(made, d.stack[i]) = Selected(d, d.stack[i])
<1> DEFINE top == Last(d.stack)
           made == [d EXCEPT !.currId[top] = n]
           L == Len(d.stack)
<1>1. /\ L \in Nat /\ L >= 1 /\ top = d.stack[L] /\ top \in Tables
      /\ \A i \in 1 .. L : d.stack[i] \in Tables
  BY StackType DEF PanelsOk, Stacked
<1>2. n \in Nat
  BY <1>1, TablesHavePanels
<1> HIDE DEF L, top
<1>3. /\ DOMAIN made = DisplayFields /\ made.stack = d.stack /\ made.rootTable = d.rootTable
      /\ made.initialPanel = d.initialPanel
      /\ made.currId = [d.currId EXCEPT ![top] = n]
  BY DEF PanelsOk, DisplayFields
<1> HIDE DEF made
<1>4. /\ made.currId \in [Tables -> Nat] /\ made.currId[top] = n
      /\ \A table \in Tables : table # top => made.currId[table] = d.currId[table]
  BY <1>1, <1>2, <1>3 DEF PanelsOk
<1>5. \A table \in Tables : made.currId[table] \in DOMAIN PanelsOf(table)
  BY <1>4 DEF PanelsOk, top
<1>6. ASSUME NEW i \in 1 .. L - 1 PROVE d.stack[i] # top /\ d.stack[i] \in Tables
  <2>1. i \in 1 .. L /\ L \in 1 .. L /\ i # L
    BY <1>1
  <2>2. d.stack[i] = d.stack[L] => i = L
    BY <2>1 DEF PanelsOk, Stacked, L
  <2> QED
    BY <1>1, <2>1, <2>2
<1>7. \A i \in 1 .. L - 1 : Selected(made, d.stack[i]) = Selected(d, d.stack[i])
  BY <1>4, <1>6 DEF Selected
<1>8. Stacked(made)
  <2>1. \A i \in 1 .. L : d.stack[i] = IF i = 1 THEN Root ELSE Selected(made, d.stack[i - 1])
    <3>1. ASSUME NEW i \in 1 .. L, i # 1
          PROVE  d.stack[i] = Selected(made, d.stack[i - 1])
      <4>1. i - 1 \in 1 .. L - 1
        BY <1>1, <3>1
      <4> QED
        BY <1>7, <3>1, <4>1 DEF PanelsOk, Stacked, L
    <3> QED
      BY <1>1, <3>1 DEF PanelsOk, Stacked, L
  <2> QED
    BY <1>3, <2>1 DEF PanelsOk, Stacked, L
<1>9. Selected(made, top) = PanelsOf(top)[n]
  BY <1>4 DEF Selected
<1> QED
  BY <1>3, <1>4, <1>5, <1>7, <1>8, <1>9 DEF PanelsOk, top, made, L

LEMMA ChildOk ==
    ASSUME NEW d, PanelsOk(d)
    PROVE  LET made == CurrentPanelToChild(d)
           IN  /\ PanelsOk(made)
               /\ made.currId = d.currId
               /\ made.rootTable = d.rootTable /\ made.initialPanel = d.initialPanel
               /\ made.stack = <<>> <=> d.stack = <<>>
               /\ d.stack # <<>> /\ CurrentPanel(d) \in DOMAIN ChildPanels =>
                    made.stack = Append(d.stack, CurrentPanel(d))
<1> DEFINE panel == CurrentPanel(d)
           longer == Append(d.stack, panel)
           L == Len(d.stack)
           made == [d EXCEPT !.stack = longer]
<1>1. CASE d.stack = <<>> \/ panel \notin DOMAIN ChildPanels
  BY <1>1 DEF CurrentPanelToChild
<1>2. CASE d.stack # <<>> /\ panel \in DOMAIN ChildPanels
  <2>1. CurrentPanelToChild(d) = made
    BY <1>2 DEF CurrentPanelToChild
  <2>2. /\ L \in Nat /\ L >= 1 /\ Last(d.stack) = d.stack[L]
        /\ \A i \in 1 .. L : d.stack[i] \in Tables
    BY <1>2, StackType DEF PanelsOk, Stacked
  <2>3. panel = Selected(d, d.stack[L]) /\ panel \in Tables
    BY <1>2, <2>2, CurrentIsSelected DEF Tables
  <2>4. /\ longer \in Seq(Tables) /\ Len(longer) = L + 1 /\ longer # <<>>
        /\ longer[L + 1] = panel /\ \A i \in 1 .. L : longer[i] = d.stack[i]
    BY <2>2, <2>3, AppendProperties, EmptySeq DEF PanelsOk, Stacked
  <2>5. /\ DOMAIN made = DisplayFields /\ made.stack = longer /\ made.currId = d.currId
        /\ made.rootTable = d.rootTable /\ made.initialPanel = d.initialPanel
    BY DEF PanelsOk, DisplayFields
  <2> HIDE DEF made, longer
  <2>6. \A table : Selected(made, table) = Selected(d, table)
    BY <2>5 DEF Selected
  <2> HIDE DEF panel
  <2>7. ASSUME NEW i \in 1 .. L PROVE d.stack[i] # panel
    <3>1. d.stack[L] \in Tables /\ d.currId[d.stack[L]] \in DOMAIN PanelsOf(d.stack[L])
      BY <2>2 DEF PanelsOk
    <3>2. panel # Root
      BY <2>3, <3>1, PanelsAssumption DEF Selected
    <3>3. CASE i = 1
      BY <2>2, <3>2, <3>3 DEF PanelsOk, Stacked
    <3>4. CASE i # 1
      <4>1. i - 1 \in 1 .. L /\ d.stack[i] = Selected(d, d.stack[i - 1])
        BY <2>2, <3>4 DEF PanelsOk, Stacked
      <4>2. d.stack[i - 1] \in Tables /\ d.currId[d.stack[i - 1]] \in DOMAIN PanelsOf(d.stack[i - 1])
        BY <2>2, <4>1 DEF PanelsOk
      <4>3. d.stack[i] = panel => d.stack[i - 1] = d.stack[L]
        BY <2>3, <3>1, <4>1, <4>2, SelectedOnce
      <4>4. d.stack[i - 1] = d.stack[L] => i - 1 = L
        <5>1. \A j, k \in 1 .. L : d.stack[j] = d.stack[k] => j = k
          BY DEF PanelsOk, Stacked
        <5>2. L \in 1 .. L
          BY <2>2
        <5> QED
          BY <4>1, <5>1, <5>2
      <4>5. i - 1 # L
        <5>1. L \in Nat
          BY <2>2
        <5> QED
          BY <5>1
      <4> QED
        BY <4>3, <4>4, <4>5
    <3> QED
      BY <3>3, <3>4
  <2>8. \A i, j \in 1 .. L + 1 : longer[i] = longer[j] => i = j
    <3>1. \A i \in 1 .. L + 1 : i \in 1 .. L \/ i = L + 1
      BY <2>2
    <3>2. \A i, j \in 1 .. L : longer[i] = longer[j] => i = j
      BY <2>4 DEF PanelsOk, Stacked
    <3>3. \A i \in 1 .. L : longer[i] # longer[L + 1]
      BY <2>4, <2>7
    <3> QED
      BY <3>1, <3>2, <3>3
  <2>9. ASSUME NEW i \in 1 .. L + 1
        PROVE  longer[i] = IF i = 1 THEN Root ELSE Selected(made, longer[i - 1])
    <3>1. CASE i = 1
      BY <2>2, <2>4, <3>1 DEF PanelsOk, Stacked
    <3>2. CASE i # 1 /\ i \in 1 .. L
      <4>1. i - 1 \in 1 .. L
        BY <2>2, <3>2
      <4> QED
        BY <2>4, <2>6, <3>2, <4>1 DEF PanelsOk, Stacked
    <3>3. CASE i = L + 1
      <4>1. i - 1 = L /\ i # 1
        BY <2>2, <3>3
      <4> QED
        BY <2>2, <2>3, <2>4, <2>6, <3>3, <4>1
    <3> QED
      BY <2>2, <3>1, <3>2, <3>3
  <2>10. Stacked(made)
    BY <2>4, <2>5, <2>8, <2>9 DEF Stacked
  <2>11. PanelsOk(made)
    BY <2>5, <2>10 DEF PanelsOk
  <2> QED
    BY <1>2, <2>1, <2>4, <2>5, <2>11 DEF longer, panel
<1> QED
  BY <1>1, <1>2

LEMMA ParentOk ==
    ASSUME NEW d, PanelsOk(d)
    PROVE  LET made == CurrentPanelToParent(d)
           IN  /\ PanelsOk(made)
               /\ made.rootTable = d.rootTable /\ made.initialPanel = d.initialPanel
               /\ made.stack = <<>> <=> d.stack = <<>>
<1> DEFINE L == Len(d.stack)
           shorter == Front(d.stack)
           made == [d EXCEPT !.stack = shorter]
<1>1. L \in Nat /\ \A i \in 1 .. L : d.stack[i] \in Tables
  BY StackType DEF PanelsOk, Stacked
<1>2. CASE L <= 1
  BY <1>2 DEF CurrentPanelToParent
<1>3. CASE L >= 2
  <2>1. CurrentPanelToParent(d) = made
    BY <1>1, <1>3 DEF CurrentPanelToParent
  <2>2. d.stack \in Seq(Tables) /\ shorter = SubSeq(d.stack, 1, L - 1)
    BY DEF PanelsOk, Stacked, Front
  <2>3. /\ shorter \in Seq(Tables) /\ Len(shorter) = L - 1
        /\ \A i \in 1 .. L - 1 : shorter[i] = d.stack[i]
    BY <1>1, <1>3, <2>2, SubSeqProperties
  <2>4. shorter # <<>> /\ d.stack # <<>>
    <3> HIDE DEF shorter
    <3>1. shorter # <<>>
      BY <1>1, <1>3, <2>3, EmptySeq
    <3>2. d.stack # <<>>
      BY <1>1, <1>3, EmptySeq
    <3> QED
      BY <3>1, <3>2
  <2>5. /\ DOMAIN made = DisplayFields /\ made.stack = shorter /\ made.currId = d.currId
        /\ made.rootTable = d.rootTable /\ made.initialPanel = d.initialPanel
    BY DEF PanelsOk, DisplayFields
  <2> HIDE DEF made, shorter
  <2>6. \A table : Selected(made, table) = Selected(d, table)
    BY <2>5 DEF Selected
  <2>7. \A i \in 1 .. L - 1 : i \in 1 .. L /\ (i # 1 => i - 1 \in 1 .. L - 1)
    BY <1>1
  <2>8. \A i, j \in 1 .. L - 1 : shorter[i] = shorter[j] => i = j
    BY <2>3, <2>7 DEF PanelsOk, Stacked
  <2>9. \A i \in 1 .. L - 1 :
          shorter[i] = IF i = 1 THEN Root ELSE Selected(made, shorter[i - 1])
    BY <2>3, <2>6, <2>7 DEF PanelsOk, Stacked
  <2>10. Stacked(made)
    BY <2>3, <2>5, <2>8, <2>9 DEF Stacked
  <2> QED
    BY <2>1, <2>4, <2>5, <2>10 DEF PanelsOk
<1> QED
  BY <1>1, <1>2, <1>3

(* The other panels of a table.                                            *)
LEMMA NextOk ==
    ASSUME NEW d, PanelsOk(d),
           NEW made \in {CurrentPanelToNext(d), CurrentPanelToPrev(d)}
    PROVE  /\ PanelsOk(made)
           /\ made.rootTable = d.rootTable /\ made.initialPanel = d.initialPanel
           /\ made.stack = d.stack
<1>1. CASE d.stack = <<>>
  BY <1>1 DEF CurrentPanelToNext, CurrentPanelToPrev
<1>2. CASE d.stack # <<>>
  <2> DEFINE top == Last(d.stack)
             N == Len(PanelsOf(top))
             id == d.currId[top]
  <2>1. top \in Tables /\ N \in Nat /\ N >= 1 /\ DOMAIN PanelsOf(top) = 1 .. N
    BY <1>2, StackType, TablesHavePanels DEF PanelsOk, Stacked
  <2>2. id \in 1 .. N
    BY <2>1 DEF PanelsOk
  <2>3. DOMAIN d = DisplayFields /\ d.currId \in [Tables -> Nat]
    BY DEF PanelsOk
  <2>4. PICK n \in DOMAIN PanelsOf(top) : made = [d EXCEPT !.currId[top] = n]
    <3>1. CASE made = CurrentPanelToNext(d)
      <4>1. made = [d EXCEPT !.currId[top] = IF id = N THEN 1 ELSE id + 1]
        BY <1>2, <3>1 DEF CurrentPanelToNext
      <4>2. (IF id = N THEN 1 ELSE id + 1) \in 1 .. N
        BY <2>1, <2>2
      <4> QED
        BY <2>1, <4>1, <4>2
    <3>2. CASE made = CurrentPanelToPrev(d)
      <4>1. made = [d EXCEPT !.currId[top] = IF id = 1 THEN N ELSE id - 1]
        BY <1>2, <3>2 DEF CurrentPanelToPrev
      <4>2. (IF id = 1 THEN N ELSE id - 1) \in 1 .. N
        BY <2>1, <2>2
      <4> QED
        BY <2>1, <4>1, <4>2
    <3> QED
      BY <3>1, <3>2
  <2> QED
    BY <1>2, <2>4, SelectInLast
<1> QED
  BY <1>1, <1>2

LEMMA RootOk ==
    ASSUME NEW d, DOMAIN d = DisplayFields, d.currId \in [Tables -> Nat],
           \A table \in Tables : d.currId[table] \in DOMAIN PanelsOf(table)
    PROVE  LET made == StackInit(d, Root)
           IN  /\ PanelsOk(made)
               /\ made.stack = <<Root>> /\ made.currId = d.currId
               /\ made.rootTable = d.rootTable /\ made.initialPanel = d.initialPanel
<1> DEFINE made == StackInit(d, Root)
<1>1. /\ DOMAIN made = DisplayFields /\ made.stack = <<Root>> /\ made.currId = d.currId
      /\ made.rootTable = d.rootTable /\ made.initialPanel = d.initialPanel
  BY DEF StackInit, DisplayFields
<1> HIDE DEF made
<1>2. <<Root>> \in Seq(Tables) /\ Len(<<Root>>) = 1 /\ <<Root>>[1] = Root
  BY DEF Tables
<1>3. Stacked(made)
  BY <1>1, <1>2 DEF Stacked
<1> QED
  BY <1>1, <1>3 DEF PanelsOk, made

-------------------------------------------------------------------------------
(* switchPanelByName.                                                      *)
LEMMA FoundPath ==
    ASSUME NEW d, NEW path \in PanelPaths, FindPanelTest(d, path)
    PROVE  /\ path \in Seq(STRING) /\ Len(path) \in Nat /\ d.rootTable
           /\ \A level \in 1 .. Len(path) :
                /\ TableAt(path, level) \in Tables
                /\ level # 1 => path[level - 1] \in DOMAIN ChildPanels
                /\ FindPanel(TableAt(path, level), path[level])
                     \in DOMAIN PanelsOf(TableAt(path, level))
                /\ PanelsOf(TableAt(path, level))[FindPanel(TableAt(path, level), path[level])]
                     = path[level]
<1> DEFINE L == Len(path)
<1>1. path \in Seq(STRING) /\ L \in Nat /\ DOMAIN path = 1 .. L
  BY PanelsAssumption, LenProperties
<1>2. \A level \in 1 .. L : FindPanel(TableAt(path, level), path[level]) # 0
  BY <1>1 DEF FindPanelTest
<1>3. ASSUME NEW level \in 1 .. L, level # 1
      PROVE  path[level - 1] \in DOMAIN ChildPanels
  <2>1. level \in 2 .. L /\ level - 1 \in 1 .. L
    BY <1>1, <1>3
  <2>2. FindPanel(TableAt(path, level - 1), path[level - 1]) # 0
    BY <1>2, <2>1
  <2> QED
    BY <2>1, <2>2, PanelsAssumption
<1>4. ASSUME NEW level \in 1 .. L
      PROVE  TableAt(path, level) \in Tables
  BY <1>3 DEF TableAt, Tables
<1>5. ASSUME NEW table, NEW name, FindPanel(table, name) # 0
      PROVE  /\ FindPanel(table, name) \in DOMAIN PanelsOf(table)
             /\ PanelsOf(table)[FindPanel(table, name)] = name
  BY <1>5 DEF FindPanel
<1> QED
  BY <1>1, <1>2, <1>3, <1>4, <1>5 DEF FindPanelTest

(* The displays that differ from d in their panels only, as a set.         *)
Turned(d) ==
    {d} \cup {[d EXCEPT !.stack = p[1], !.currId = p[2]] : p \in Seq(Tables) \X [Tables -> Nat]}

(* The display once switchPanelByName has gone down some levels.           *)
Entered(d, path, level) ==
    /\ PanelsOk(d) /\ Len(d.stack) = level
    /\ \A i \in 1 .. level :
         d.stack[i] = TableAt(path, i) /\ Selected(d, TableAt(path, i)) = path[i]

SameBut(made, d) == made.rootTable = d.rootTable /\ made.initialPanel = d.initialPanel

LEMMA EnterOk ==
    ASSUME NEW d, NEW path \in PanelPaths, FindPanelTest(d, path), NEW level \in 1 .. Len(path),
           NEW at, PanelsOk(at), SameBut(at, d), level # 1 => Entered(at, path, level - 1)
    PROVE  Entered(EnterPanel(at, path, level), path, level)
           /\ SameBut(EnterPanel(at, path, level), d)
<1> DEFINE table == TableAt(path, level)
           n == FindPanel(table, path[level])
           there == IF level = 1 THEN StackInit(at, Root) ELSE CurrentPanelToChild(at)
           made == [there EXCEPT !.currId[table] = n]
<1>1. /\ Len(path) \in Nat /\ table \in Tables /\ n \in DOMAIN PanelsOf(table)
      /\ PanelsOf(table)[n] = path[level]
      /\ level # 1 => path[level - 1] \in DOMAIN ChildPanels
  BY FoundPath
<1>2. EnterPanel(at, path, level) = made
  BY DEF EnterPanel
<1> HIDE DEF n
<1>3. /\ PanelsOk(there) /\ SameBut(there, d)
      /\ Len(there.stack) = level /\ there.stack[level] = table
      /\ \A i \in 1 .. level - 1 :
           there.stack[i] = TableAt(path, i) /\ Selected(there, TableAt(path, i)) = path[i]
  <2>1. CASE level = 1
    <3>1. there = StackInit(at, Root)
      BY <2>1
    <3>2. /\ PanelsOk(there) /\ there.stack = <<Root>>
          /\ there.rootTable = at.rootTable /\ there.initialPanel = at.initialPanel
      BY <3>1, RootOk DEF PanelsOk
    <3>3. table = Root /\ Len(<<Root>>) = 1 /\ <<Root>>[1] = Root
      BY <2>1 DEF TableAt
    <3> HIDE DEF there, table
    <3> QED
      BY <2>1, <3>2, <3>3 DEF SameBut
  <2>2. CASE level # 1
    <3>1. there = CurrentPanelToChild(at) /\ table = path[level - 1]
      BY <2>2 DEF TableAt
    <3>2. level - 1 \in 1 .. level - 1 /\ level - 1 \in Nat /\ level - 1 >= 1
      BY <1>1, <2>2
    <3>3. Entered(at, path, level - 1)
      BY <2>2
    <3>4. /\ Len(at.stack) = level - 1 /\ at.stack \in Seq(Tables)
          /\ at.stack # <<>> /\ Last(at.stack) = at.stack[level - 1]
      BY <3>2, <3>3, StackType DEF Entered, PanelsOk, Stacked
    <3>5. CurrentPanel(at) = path[level - 1]
      BY <3>2, <3>3, <3>4, CurrentIsSelected DEF Entered
    <3>6. /\ PanelsOk(there) /\ there.stack = Append(at.stack, path[level - 1])
          /\ there.currId = at.currId
          /\ there.rootTable = at.rootTable /\ there.initialPanel = at.initialPanel
      BY <1>1, <2>2, <3>1, <3>4, <3>5, ChildOk
    <3> HIDE DEF there
    <3>7. \A t : Selected(there, t) = Selected(at, t)
      BY <3>6 DEF Selected
    <3>8. path[level - 1] \in Tables
      BY <1>1, <2>2 DEF Tables
    <3>9. /\ Len(there.stack) = (level - 1) + 1 /\ there.stack[(level - 1) + 1] = path[level - 1]
          /\ \A i \in 1 .. level - 1 : there.stack[i] = at.stack[i]
      BY <3>4, <3>6, <3>8, AppendProperties
    <3>10. (level - 1) + 1 = level
      BY <1>1
    <3> HIDE DEF table
    <3> QED
      BY <3>1, <3>3, <3>6, <3>7, <3>9, <3>10 DEF SameBut, Entered
  <2> QED
    BY <2>1, <2>2
<1> HIDE DEF there, table
<1>4. there.stack # <<>> /\ Last(there.stack) = table
  <2>1. Len(there.stack) >= 1 /\ there.stack \in Seq(Tables)
    BY <1>1, <1>3 DEF PanelsOk, Stacked
  <2> QED
    BY <1>3, <2>1, StackType
<1> DEFINE changed == [there EXCEPT !.currId[Last(there.stack)] = n]
<1>a. n \in DOMAIN PanelsOf(Last(there.stack))
  BY <1>1, <1>4
<1>b. /\ PanelsOk(changed)
      /\ changed.stack = there.stack /\ changed.rootTable = there.rootTable
      /\ changed.initialPanel = there.initialPanel
      /\ Selected(changed, Last(there.stack)) = PanelsOf(Last(there.stack))[n]
      /\ \A i \in 1 .. Len(there.stack) - 1 :
           Selected(changed, there.stack[i]) = Selected(there, there.stack[i])
  BY <1>3, <1>4, <1>a, SelectInLast
<1>c. made = changed
  BY <1>4
<1> HIDE DEF changed
<1>5. /\ PanelsOk(made) /\ made.stack = there.stack /\ SameBut(made, there)
      /\ Selected(made, table) = path[level]
      /\ \A i \in 1 .. level - 1 : Selected(made, there.stack[i]) = Selected(there, there.stack[i])
  <2> HIDE DEF made
  <2> QED
    BY <1>1, <1>3, <1>4, <1>b, <1>c DEF SameBut
<1> HIDE DEF made
<1>6. ASSUME NEW i \in 1 .. level
      PROVE  made.stack[i] = TableAt(path, i) /\ Selected(made, TableAt(path, i)) = path[i]
  <2>1. CASE i = level
    BY <1>3, <1>5, <2>1 DEF table
  <2>2. CASE i # level
    <3>1. i \in 1 .. level - 1
      BY <1>1, <2>2
    <3> QED
      BY <1>3, <1>5, <3>1
  <2> QED
    BY <2>1, <2>2
<1> QED
  BY <1>2, <1>3, <1>5, <1>6 DEF Entered, SameBut

(* Where the loop of switchPanelByName stays.                              *)
LEMMA TurnedType ==
    ASSUME NEW d, PanelsOk(d), NEW x \in Turned(d)
    PROVE  /\ DOMAIN x = DisplayFields /\ x.stack \in Seq(Tables) /\ x.currId \in [Tables -> Nat]
           /\ SameBut(x, d)
           /\ \A s \in Seq(Tables) : [x EXCEPT !.stack = s] \in Turned(d)
           /\ \A c \in [Tables -> Nat] : [x EXCEPT !.currId = c] \in Turned(d)
<1> DEFINE Turn(s, c) == [d EXCEPT !.stack = s, !.currId = c]
<1>1. ASSUME NEW s \in Seq(Tables), NEW c \in [Tables -> Nat] PROVE Turn(s, c) \in Turned(d)
  <2> DEFINE p == <<s, c>>
  <2>1. p \in Seq(Tables) \X [Tables -> Nat] /\ p[1] = s /\ p[2] = c
    OBVIOUS
  <2> HIDE DEF p
  <2>2. Turn(s, c) = [d EXCEPT !.stack = p[1], !.currId = p[2]]
    BY <2>1
  <2> QED
    BY <2>1, <2>2 DEF Turned
<1>2. d.stack \in Seq(Tables) /\ d.currId \in [Tables -> Nat] /\ DOMAIN d = DisplayFields
  BY DEF PanelsOk, Stacked
<1>3. CASE x = d
  <2>1. ASSUME NEW s \in Seq(Tables) PROVE [d EXCEPT !.stack = s] = Turn(s, d.currId)
    BY <1>2 DEF DisplayFields
  <2>2. ASSUME NEW c \in [Tables -> Nat] PROVE [d EXCEPT !.currId = c] = Turn(d.stack, c)
    BY <1>2 DEF DisplayFields
  <2> HIDE DEF Turn
  <2>3. ASSUME NEW s \in Seq(Tables) PROVE [x EXCEPT !.stack = s] \in Turned(d)
    <3>1. Turn(s, d.currId) \in Turned(d)
      BY <1>1, <1>2
    <3> QED
      BY <1>3, <2>1, <3>1
  <2>4. ASSUME NEW c \in [Tables -> Nat] PROVE [x EXCEPT !.currId = c] \in Turned(d)
    <3>1. Turn(d.stack, c) \in Turned(d)
      BY <1>1, <1>2
    <3> QED
      BY <1>3, <2>2, <3>1
  <2>5. DOMAIN x = DisplayFields /\ x.stack = d.stack /\ x.currId = d.currId /\ SameBut(x, d)
    BY <1>2, <1>3 DEF SameBut
  <2> QED
    BY <1>2, <2>3, <2>4, <2>5, Zenon
<1>4. CASE x # d
  <2>1. PICK p \in Seq(Tables) \X [Tables -> Nat] : x = Turn(p[1], p[2])
    BY <1>4 DEF Turned
  <2>2. p[1] \in Seq(Tables) /\ p[2] \in [Tables -> Nat]
    OBVIOUS
  <2>3. DOMAIN x = DisplayFields /\ x.stack = p[1] /\ x.currId = p[2] /\ SameBut(x, d)
    BY <1>2, <2>1 DEF DisplayFields, SameBut
  <2>4. ASSUME NEW s \in Seq(Tables) PROVE [x EXCEPT !.stack = s] = Turn(s, p[2])
    BY <1>2, <2>1 DEF DisplayFields
  <2>5. ASSUME NEW c \in [Tables -> Nat] PROVE [x EXCEPT !.currId = c] = Turn(p[1], c)
    BY <1>2, <2>1 DEF DisplayFields
  <2> HIDE DEF Turn
  <2>6. ASSUME NEW s \in Seq(Tables) PROVE [x EXCEPT !.stack = s] \in Turned(d)
    <3>1. Turn(s, p[2]) \in Turned(d)
      BY <1>1, <2>2
    <3> QED
      BY <2>4, <3>1
  <2>7. ASSUME NEW c \in [Tables -> Nat] PROVE [x EXCEPT !.currId = c] \in Turned(d)
    <3>1. Turn(p[1], c) \in Turned(d)
      BY <1>1, <2>2
    <3> QED
      BY <2>5, <3>1
  <2> QED
    BY <2>2, <2>3, <2>6, <2>7, Zenon
<1> QED
  BY <1>3, <1>4

LEMMA EnterStays ==
    ASSUME NEW d, PanelsOk(d), NEW path \in PanelPaths, FindPanelTest(d, path),
           NEW x \in Turned(d), NEW level \in 1 .. Len(path)
    PROVE  EnterPanel(x, path, level) \in Turned(d)
<1> DEFINE table == TableAt(path, level)
           n == FindPanel(table, path[level])
           there == IF level = 1 THEN StackInit(x, Root) ELSE CurrentPanelToChild(x)
<1>1. table \in Tables /\ n \in Nat
  BY FoundPath, TablesHavePanels
<1>2. there \in Turned(d)
  <2>1. Root \in Tables /\ <<Root>> \in Seq(Tables)
    BY DEF Tables
  <2>2. StackInit(x, Root) \in Turned(d)
    BY <2>1, TurnedType DEF StackInit
  <2>3. CASE x.stack = <<>> \/ CurrentPanel(x) \notin DOMAIN ChildPanels
    BY <2>2, <2>3 DEF CurrentPanelToChild
  <2>4. CASE x.stack # <<>> /\ CurrentPanel(x) \in DOMAIN ChildPanels
    <3>1. CurrentPanel(x) \in Tables
      BY <2>4 DEF Tables
    <3>2. Append(x.stack, CurrentPanel(x)) \in Seq(Tables)
      BY <3>1, TurnedType, AppendProperties
    <3>3. [x EXCEPT !.stack = Append(x.stack, CurrentPanel(x))] \in Turned(d)
      BY <3>2, TurnedType
    <3>4. CurrentPanelToChild(x) = [x EXCEPT !.stack = Append(x.stack, CurrentPanel(x))]
      BY <2>4 DEF CurrentPanelToChild
    <3> QED
      BY <2>2, <3>3, <3>4
  <2> QED
    BY <2>3, <2>4
<1>3. EnterPanel(x, path, level) = [there EXCEPT !.currId[table] = n]
  BY DEF EnterPanel
<1> HIDE DEF there, table, n
<1> DEFINE c == [there.currId EXCEPT ![table] = n]
<1>4. c \in [Tables -> Nat] /\ DOMAIN there = DisplayFields
  BY <1>1, <1>2, TurnedType
<1>5. [there EXCEPT !.currId[table] = n] = [there EXCEPT !.currId = c]
  BY <1>4
<1> HIDE DEF c
<1>6. [there EXCEPT !.currId = c] \in Turned(d)
  BY <1>2, <1>4, TurnedType
<1> QED
  BY <1>3, <1>5, <1>6

LEMMA PathIsEntered ==
    ASSUME NEW d, PanelsOk(d), NEW path \in PanelPaths, FindPanelTest(d, path)
    PROVE  LET made == SwitchPanelByName(d, path)
           IN  IF path = <<>> THEN made = d
               ELSE Entered(made, path, Len(path)) /\ SameBut(made, d)
<1> DEFINE L == Len(path)
           step == [p \in Turned(d) \X (1 .. L) |-> EnterPanel(p[1], path, p[2])]
           Run(f) == f = [level \in 0 .. L |->
                            IF level = 0 THEN d ELSE EnterPanel(f[level - 1], path, level)]
           After == CHOOSE f : Run(f)
<1>1. path \in Seq(STRING) /\ L \in Nat
  BY FoundPath
<1>2. d \in Turned(d)
  BY DEF Turned
<1>3. step \in [Turned(d) \X (1 .. L) -> Turned(d)]
  <2>1. \A p \in Turned(d) \X (1 .. L) : EnterPanel(p[1], path, p[2]) \in Turned(d)
    BY EnterStays
  <2> QED
    BY <2>1
<1> HIDE DEF step
<1>4. PICK g : IsRun(g, Turned(d), d, step, L)
  BY <1>1, <1>2, <1>3, LoopRuns
<1>5. /\ g \in [0 .. L -> Turned(d)]
      /\ g[0] = d
      /\ \A n \in 1 .. L : g[n] = EnterPanel(g[n - 1], path, n)
  <2>1. g \in [0 .. L -> Turned(d)] /\ g[0] = d
    BY <1>4 DEF IsRun
  <2>2. ASSUME NEW n \in 1 .. L PROVE g[n] = EnterPanel(g[n - 1], path, n)
    <3>1. g[n] = step[<<g[n - 1], n>>]
      BY <1>4 DEF IsRun
    <3>2. n - 1 \in 0 .. L
      BY <1>1
    <3>3. <<g[n - 1], n>> \in Turned(d) \X (1 .. L)
      BY <2>1, <3>2
    <3> QED
      BY <3>1, <3>3 DEF step
  <2> QED
    BY <2>1, <2>2
<1>6. Run(g)
  <2>1. g = [n \in 0 .. L |-> g[n]]
    BY <1>5
  <2>2. \A n \in 0 .. L : g[n] = IF n = 0 THEN d ELSE EnterPanel(g[n - 1], path, n)
    BY <1>1, <1>5
  <2> QED
    BY <2>1, <2>2
<1>7. Run(After)
  BY <1>6
<1>8. SwitchPanelByName(d, path) = After[L]
  BY DEF SwitchPanelByName
<1> HIDE DEF After
<1>9. \A n \in 0 .. L : After[n] = IF n = 0 THEN d ELSE EnterPanel(After[n - 1], path, n)
  BY <1>7
<1> DEFINE Good(n) == Entered(After[n], path, n) /\ SameBut(After[n], d)
           T == {n \in Nat : n \in 1 .. L => Good(n)}
<1>10. ASSUME NEW n \in 1 .. L, n # 1 => Good(n - 1) PROVE Good(n)
  <2>1. After[n] = EnterPanel(After[n - 1], path, n)
    BY <1>1, <1>9
  <2>2. PanelsOk(After[n - 1]) /\ SameBut(After[n - 1], d)
    <3>1. CASE n = 1
      <4>1. After[0] = d
        BY <1>1, <1>9
      <4> QED
        BY <3>1, <4>1 DEF SameBut
    <3>2. CASE n # 1
      BY <1>10, <3>2 DEF Entered
    <3> QED
      BY <3>1, <3>2
  <2>3. n # 1 => Entered(After[n - 1], path, n - 1)
    BY <1>10
  <2> QED
    BY <2>1, <2>2, <2>3, EnterOk
<1> HIDE DEF Good
<1>11. 0 \in T
  OBVIOUS
<1>12. ASSUME NEW n \in Nat, n \in T PROVE n + 1 \in T
  <2> SUFFICES ASSUME n + 1 \in 1 .. L PROVE Good(n + 1)
    OBVIOUS
  <2>1. n + 1 # 1 => n \in 1 .. L
    BY <1>1
  <2>2. (n + 1) - 1 = n
    OBVIOUS
  <2> QED
    BY <1>10, <1>12, <2>1, <2>2
<1>13. \A n \in Nat : n \in T => n + 1 \in T
  BY <1>12
<1> HIDE DEF T
<1>14. Nat \subseteq T
  BY <1>11, <1>13, NatSetInduction
<1>15. CASE path = <<>>
  <2>1. L = 0
    BY <1>15
  <2> QED
    BY <1>8, <1>9, <1>15, <2>1
<1>16. CASE path # <<>>
  <2>1. L \in 1 .. L
    BY <1>1, <1>16, EmptySeq
  <2> QED
    BY <1>1, <1>8, <1>14, <1>16, <2>1 DEF T, Good
<1> QED
  BY <1>15, <1>16

LEMMA SwitchOk ==
    ASSUME NEW d, PanelsOk(d), NEW path \in PanelPaths
    PROVE  LET made == SwitchPanelByName(d, path)
           IN  /\ PanelsOk(made) /\ SameBut(made, d)
               /\ d.stack # <<>> => made.stack # <<>>
               /\ ~ FindPanelTest(d, path) => made = d
               /\ FindPanelTest(d, path) /\ path # <<>> => Shows(made, path)
<1> DEFINE made == SwitchPanelByName(d, path)
<1>1. CASE ~ FindPanelTest(d, path)
  <2>1. made = d
    BY <1>1 DEF SwitchPanelByName
  <2> QED
    BY <1>1, <2>1 DEF SameBut
<1>2. CASE FindPanelTest(d, path) /\ path = <<>>
  <2>1. made = d
    BY <1>2, PathIsEntered
  <2> QED
    BY <1>2, <2>1 DEF SameBut
<1>3. CASE FindPanelTest(d, path) /\ path # <<>>
  <2>1. Entered(made, path, Len(path)) /\ SameBut(made, d)
    BY <1>3, PathIsEntered
  <2>2. path \in Seq(STRING)
    BY <1>3, FoundPath
  <2>3. Len(path) \in Nat /\ Len(path) >= 1
    BY <1>3, <2>2, EmptySeq, LenProperties
  <2> HIDE DEF made
  <2>4. made.stack # <<>>
    BY <2>1, <2>3, EmptySeq DEF Entered
  <2> QED
    BY <1>3, <2>1, <2>4 DEF Entered, Shows, made
<1> QED
  BY <1>1, <1>2, <1>3

(* The telemetry display is set up once, with the panel to begin with.     *)
DisplayOk(d) ==
    /\ PanelsOk(d)
    /\ d.rootTable \in BOOLEAN
    /\ d.rootTable <=> d.stack # <<>>
    /\ d.initialPanel \in PanelPaths \cup {<<>>}

LEMMA SetupOk ==
    ASSUME NEW d, DisplayOk(d)
    PROVE  LET made == SetupRootPanelTable(d)
           IN  /\ PanelsOk(made) /\ made.rootTable = TRUE /\ made.stack # <<>>
               /\ made.initialPanel = d.initialPanel
               /\ d.rootTable => made = d
<1> USE DEF DisplayOk
<1>0. PanelsOk(d) /\ d.currId \in [Tables -> Nat] /\ DOMAIN d = DisplayFields
      /\ \A table \in Tables : d.currId[table] \in DOMAIN PanelsOf(table)
  BY DEF PanelsOk
<1>1. CASE d.rootTable
  BY <1>1 DEF SetupRootPanelTable
<1>2. CASE ~ d.rootTable
  <2> DEFINE begun == [d EXCEPT !.rootTable = TRUE, !.currId[Root] = 1]
             rooted == StackInit(begun, Root)
  <2>1. /\ DOMAIN begun = DisplayFields /\ begun.rootTable = TRUE
        /\ begun.initialPanel = d.initialPanel
        /\ begun.currId = [d.currId EXCEPT ![Root] = 1]
    BY <1>0 DEF DisplayFields
  <2> HIDE DEF begun
  <2>2. begun.currId \in [Tables -> Nat]
    <3>1. d.currId \in [Tables -> Nat]
      BY <1>0
    <3>2. [d.currId EXCEPT ![Root] = 1] \in [Tables -> Nat]
      BY <3>1
    <3> QED
      BY <2>1, <3>2
  <2>3. \A table \in Tables : begun.currId[table] \in DOMAIN PanelsOf(table)
    <3>1. 1 \in DOMAIN PanelsOf(Root)
      BY TablesHavePanels DEF Tables
    <3> QED
      BY <1>0, <2>1, <3>1
  <2>4. /\ PanelsOk(rooted) /\ rooted.stack = <<Root>> /\ rooted.rootTable = TRUE
        /\ rooted.initialPanel = d.initialPanel
    BY <2>1, <2>2, <2>3, RootOk
  <2> HIDE DEF rooted
  <2>5. CASE d.initialPanel = <<>>
    <3>1. SetupRootPanelTable(d) = rooted
      BY <1>2, <2>5 DEF SetupRootPanelTable, rooted, begun
    <3>2. rooted.stack # <<>>
      BY <2>4
    <3> QED
      BY <1>2, <2>4, <3>1, <3>2
  <2>6. CASE d.initialPanel # <<>>
    <3>1. SetupRootPanelTable(d) = SwitchPanelByName(rooted, d.initialPanel)
      BY <1>2, <2>6 DEF SetupRootPanelTable, rooted, begun
    <3>2. d.initialPanel \in PanelPaths /\ rooted.stack # <<>>
      BY <2>4, <2>6
    <3>3. LET made == SwitchPanelByName(rooted, d.initialPanel)
          IN  PanelsOk(made) /\ SameBut(made, rooted) /\ made.stack # <<>>
      BY <2>4, <3>2, SwitchOk
    <3> QED
      BY <1>2, <2>4, <3>1, <3>3 DEF SameBut
  <2> QED
    BY <2>5, <2>6
<1> QED
  BY <1>1, <1>2

(* What is drawn with keeps the panels, but for the set-up.                *)
Keeps(made, d) ==
    /\ DisplayOk(made)
    /\ made.initialPanel = d.initialPanel
    /\ d.rootTable => made.rootTable = TRUE /\ made.stack = d.stack /\ made.currId = d.currId

LEMMA SamePanels ==
    ASSUME NEW d, NEW made, DisplayOk(d), DOMAIN made = DisplayFields,
           made.rootTable = d.rootTable, made.initialPanel = d.initialPanel,
           made.stack = d.stack, made.currId = d.currId
    PROVE  Keeps(made, d)
<1>1. Stacked(made)
  BY DEF DisplayOk, PanelsOk, Stacked, Selected
<1>2. PanelsOk(made)
  BY <1>1 DEF DisplayOk, PanelsOk
<1> QED
  BY <1>2 DEF Keeps, DisplayOk

LEMMA BakeKeepsPanels ==
    ASSUME NEW d, DisplayOk(d), NEW frame, NEW info, NEW top2bottom, NEW withPrevArchive,
           NEW out \in BakeOverlayRgb888(d, frame, info, top2bottom, withPrevArchive)
    PROVE  Keeps(out.display, d)
<1> DEFINE overlay == IF d.overlay = Nothing THEN NewOverlay(info.overlay[1], info.overlay[2])
                      ELSE Resize(d.overlay, info.overlay[1], info.overlay[2])
           sized == [d EXCEPT !.overlay = overlay]
           ready == IF d.testMode THEN sized ELSE SetupRootPanelTable(sized)
<1>1. \/ out.display \in {d, sized, [sized EXCEPT !.active = FALSE]}
      \/ \E o, a : out.display = [ready EXCEPT !.overlay = o, !.archive = a]
  <2> DEFINE entered == DrawnOverlay(ready, ItemsOf(ready, overlay))
             Flushed(reversed) == DrawFlushAllItems(entered, reversed)
             Final(reversed) == FinalizeOverlay(ready, Flushed(reversed), frame, info, top2bottom,
                                                withPrevArchive)
             Outcome(reversed) ==
                 [display |-> [ready EXCEPT !.overlay = Flushed(reversed),
                                            !.archive = Final(reversed).archive],
                  frame |-> Final(reversed).frame, baked |-> TRUE]
             Plain(after) == {[display |-> after, frame |-> frame, baked |-> FALSE]}
  <2>1. out \in CASE ~ d.active -> Plain(d)
                  [] d.active /\ d.testMode /\ ~ d.testFontFile -> Plain(sized)
                  [] d.active /\ ~ d.testMode /\ ~ d.fontFile -> Plain([sized EXCEPT !.active = FALSE])
                  [] OTHER -> {Outcome(reversed) : reversed \in FlushOrders(entered)}
    BY DEF BakeOverlayRgb888
  <2> HIDE DEF sized, ready, entered, Outcome, Plain
  <2>2. \/ out \in Plain(d) \/ out \in Plain(sized) \/ out \in Plain([sized EXCEPT !.active = FALSE])
        \/ out \in {Outcome(reversed) : reversed \in FlushOrders(entered)}
    BY <2>1, Zenon
  <2>3. ASSUME NEW after, out \in Plain(after) PROVE out.display = after
    BY <2>3 DEF Plain
  <2>4. ASSUME out \in {Outcome(reversed) : reversed \in FlushOrders(entered)}
        PROVE  \E o, a : out.display = [ready EXCEPT !.overlay = o, !.archive = a]
    <3>1. PICK reversed \in FlushOrders(entered) : out = Outcome(reversed)
      BY <2>4
    <3> HIDE DEF Flushed, Final
    <3>2. out.display = [ready EXCEPT !.overlay = Flushed(reversed), !.archive = Final(reversed).archive]
      BY <3>1 DEF Outcome
    <3> QED
      BY <3>2
  <2> QED
    BY <2>2, <2>3, <2>4
<1> HIDE DEF overlay
<1>2. DOMAIN d = DisplayFields
  BY DEF DisplayOk, PanelsOk
<1>3. Keeps(sized, d)
  <2>1. /\ DOMAIN sized = DisplayFields /\ sized.rootTable = d.rootTable
        /\ sized.initialPanel = d.initialPanel /\ sized.stack = d.stack /\ sized.currId = d.currId
    BY <1>2 DEF DisplayFields
  <2> HIDE DEF sized
  <2> QED
    BY <2>1, SamePanels
<1>4. Keeps(d, d)
  BY <1>2, SamePanels
<1> HIDE DEF sized
<1>5. ASSUME NEW made, Keeps(made, d), NEW new, DOMAIN new = DisplayFields,
             new.rootTable = made.rootTable, new.initialPanel = made.initialPanel,
             new.stack = made.stack, new.currId = made.currId
      PROVE  Keeps(new, d)
  <2>1. DisplayOk(made)
    BY <1>5 DEF Keeps
  <2>2. Keeps(new, made)
    BY <1>5, <2>1, SamePanels
  <2> QED
    BY <1>5, <2>2 DEF Keeps
<1>6. Keeps([sized EXCEPT !.active = FALSE], d)
  <2> DEFINE off == [sized EXCEPT !.active = FALSE]
  <2>1. DOMAIN sized = DisplayFields
    BY <1>3 DEF Keeps, DisplayOk, PanelsOk
  <2>2. /\ DOMAIN off = DisplayFields /\ off.rootTable = sized.rootTable
        /\ off.initialPanel = sized.initialPanel /\ off.stack = sized.stack
        /\ off.currId = sized.currId
    BY <2>1 DEF DisplayFields
  <2> HIDE DEF off
  <2>3. Keeps(off, d)
    BY <1>3, <1>5, <2>2
  <2> QED
    BY <2>3 DEF off
<1>7. Keeps(ready, d)
  <2>1. CASE d.testMode
    BY <1>3, <2>1
  <2>2. CASE ~ d.testMode
    <3>1. ready = SetupRootPanelTable(sized) /\ DisplayOk(sized)
      BY <1>3, <2>2 DEF Keeps
    <3> HIDE DEF ready
    <3>2. /\ PanelsOk(ready) /\ ready.rootTable = TRUE /\ ready.stack # <<>>
          /\ ready.initialPanel = sized.initialPanel
          /\ sized.rootTable => ready = sized
      BY <3>1, SetupOk
    <3> QED
      BY <1>3, <3>1, <3>2 DEF Keeps, DisplayOk
  <2> QED
    BY <2>1, <2>2
<1> HIDE DEF ready
<1>8. ASSUME NEW o, NEW a, out.display = [ready EXCEPT !.overlay = o, !.archive = a]
      PROVE  Keeps(out.display, d)
  <2>1. DOMAIN ready = DisplayFields
    BY <1>7 DEF Keeps, DisplayOk, PanelsOk
  <2> DEFINE new == out.display
  <2>2. /\ DOMAIN new = DisplayFields /\ new.rootTable = ready.rootTable
        /\ new.initialPanel = ready.initialPanel /\ new.stack = ready.stack
        /\ new.currId = ready.currId
    BY <1>8, <2>1 DEF DisplayFields
  <2> HIDE DEF new
  <2>3. Keeps(new, d)
    BY <1>5, <1>7, <2>2
  <2> QED
    BY <2>3 DEF new
<1> QED
  BY <1>1, <1>3, <1>4, <1>6, <1>8

-------------------------------------------------------------------------------
(* The display, step by step: a path that was asked for is shown until the *)
(* user moves on.                                                          *)
DisplayInv ==
    /\ DisplayOk(display)
    /\ asked \in PanelPaths \cup {<<>>}
    /\ asked # <<>> => Shows(display, asked)

LEMMA StillShown ==
    ASSUME NEW d, NEW made, NEW path \in PanelPaths \cup {<<>>}, DisplayOk(d), Keeps(made, d),
           path # <<>> => Shows(d, path)
    PROVE  path # <<>> => Shows(made, path)
<1> SUFFICES ASSUME path # <<>> PROVE Shows(made, path)
  OBVIOUS
<1>1. Len(path) \in Nat /\ Len(path) >= 1
  BY PanelsAssumption, LenProperties, EmptySeq
<1>2. d.stack # <<>>
  BY <1>1, EmptySeq DEF Shows
<1>3. made.stack = d.stack /\ made.currId = d.currId
  BY <1>2 DEF Keeps, DisplayOk
<1> QED
  BY <1>3 DEF Shows, Selected

LEMMA DisplayKept ==
    ASSUME DisplayInv, Keeps(display', display), asked' = asked
    PROVE  DisplayInv'
<1>1. DisplayOk(display) /\ asked \in PanelPaths \cup {<<>>} /\ (asked # <<>> => Shows(display, asked))
  BY DEF DisplayInv
<1>2. asked # <<>> => Shows(display', asked)
  BY <1>1, StillShown
<1>3. DisplayOk(display')
  BY DEF Keeps
<1> QED
  BY <1>1, <1>2, <1>3 DEF DisplayInv

(* A setting of the display that has nothing to do with its panels.        *)
LEMMA SettingKept ==
    ASSUME DisplayInv, asked' = asked,
           \/ display' = display
           \/ \E on : \/ display' = [display EXCEPT !.active = on]
                      \/ display' = [display EXCEPT !.testMode = on]
                      \/ display' = [display EXCEPT !.hAlign = on]
                      \/ display' = [display EXCEPT !.vAlign = on]
    PROVE  DisplayInv'
<1>1. DisplayOk(display) /\ DOMAIN display = DisplayFields
  BY DEF DisplayInv, DisplayOk, PanelsOk
<1>2. /\ DOMAIN display' = DisplayFields /\ display'.rootTable = display.rootTable
      /\ display'.initialPanel = display.initialPanel /\ display'.stack = display.stack
      /\ display'.currId = display.currId
  BY <1>1 DEF DisplayFields
<1>3. Keeps(display', display)
  BY <1>1, <1>2, SamePanels
<1> QED
  BY <1>3, DisplayKept

(* The user moves on: nothing is asked for any more.                       *)
LEMMA MovedOn ==
    ASSUME DisplayInv, PanelsOk(display'), SameBut(display', display),
           display'.stack = <<>> <=> display.stack = <<>>, asked' = <<>>
    PROVE  DisplayInv'
BY DEF DisplayInv, DisplayOk, SameBut

LEMMA DisplayStarts == DisplayInit => DisplayInv
<1> SUFFICES ASSUME DisplayInit PROVE DisplayInv
  OBVIOUS
<1>1. PICK size \in Sizes, on \in BOOLEAN, fontFile \in BOOLEAN :
          /\ display = [active |-> on, testMode |-> FALSE,
                        hAlign |-> "MIDDLE", vAlign |-> "MIDDLE",
                        fontFile |-> fontFile, testFontFile |-> fontFile,
                        overlay |-> Nothing, archive |-> <<>>, initialPanel |-> <<>>,
                        rootTable |-> FALSE, stack |-> <<>>, currId |-> [t \in Tables |-> 1]]
          /\ asked = <<>>
  BY DEF DisplayInit, ClientStarts
<1>2. /\ DOMAIN display = DisplayFields /\ display.rootTable = FALSE /\ display.stack = <<>>
      /\ display.initialPanel = <<>> /\ display.currId = [t \in Tables |-> 1]
  BY <1>1 DEF DisplayFields
<1>3. \A table \in Tables : display.currId[table] = 1 /\ 1 \in DOMAIN PanelsOf(table)
  BY <1>2, TablesHavePanels
<1>4. display.currId \in [Tables -> Nat]
  BY <1>2
<1>5. Stacked(display)
  BY <1>2 DEF Stacked
<1> QED
  BY <1>1, <1>2, <1>3, <1>4, <1>5 DEF DisplayInv, DisplayOk, PanelsOk

LEMMA DisplaySteps == DisplayInv /\ [DisplayNext]_displayVars => DisplayInv'
<1> SUFFICES ASSUME DisplayInv, [DisplayNext]_displayVars PROVE DisplayInv'
  OBVIOUS
<1>0. DisplayOk(display) /\ PanelsOk(display) /\ DOMAIN display = DisplayFields
  BY DEF DisplayInv, DisplayOk, PanelsOk
<1>1. ASSUME NEW given, GetBeautyRgb888(given) PROVE DisplayInv'
  <2>1. PICK frame, info, withPrevArchive :
            \E out \in BakeOverlayRgb888(display, frame, info, receiver.top2bottom, withPrevArchive) :
                display' = out.display /\ asked' = asked
    BY <1>1 DEF GetBeautyRgb888
  <2>2. Keeps(display', display)
    <3>1. PICK out \in BakeOverlayRgb888(display, frame, info, receiver.top2bottom, withPrevArchive) :
              display' = out.display
      BY <2>1
    <3> QED
      BY <1>0, <3>1, BakeKeepsPanels
  <2> QED
    BY <2>1, <2>2, DisplayKept
<1>2. ASSUME NEW size, ReceiveImage(size) \/ SetTelemetryOverlayReso(size) PROVE DisplayInv'
  BY <1>2, SettingKept DEF ReceiveImage, SetTelemetryOverlayReso
<1>3. CASE HearOfFrame
  BY <1>3, SettingKept DEF HearOfFrame
<1>4. ASSUME NEW on, SetTelemetryOverlayActive(on) \/ SetTestMode(on)
      PROVE DisplayInv'
  BY <1>4, SettingKept DEF SetTelemetryOverlayActive, SetTestMode, Configure
<1>5. ASSUME NEW align, SetTestHAlign(align) \/ SetTestVAlign(align) PROVE DisplayInv'
  BY <1>5, SettingKept DEF SetTestHAlign, SetTestVAlign, Configure
<1>6. CASE GetAllPanelName
  <2>1. display' = SetupRootPanelTable(display) /\ asked' = asked
    BY <1>6 DEF GetAllPanelName, Configure
  <2>2. LET made == SetupRootPanelTable(display)
        IN  /\ PanelsOk(made) /\ made.rootTable = TRUE /\ made.stack # <<>>
            /\ made.initialPanel = display.initialPanel
            /\ display.rootTable => made = display
    BY <1>0, SetupOk
  <2>3. Keeps(display', display)
    BY <1>0, <2>1, <2>2 DEF Keeps, DisplayOk
  <2> QED
    BY <2>1, <2>3, DisplayKept
<1>7. ASSUME NEW path \in PanelPaths, SetTelemetryInitialPanel(path) PROVE DisplayInv'
  <2>1. display' = [display EXCEPT !.initialPanel = path] /\ asked' = asked
    BY <1>7 DEF SetTelemetryInitialPanel, SwitchPanel
  <2>2. /\ DOMAIN display' = DisplayFields /\ display'.rootTable = display.rootTable
        /\ display'.initialPanel = path /\ display'.stack = display.stack
        /\ display'.currId = display.currId
    BY <1>0, <2>1 DEF DisplayFields
  <2>3. PanelsOk(display')
    BY <1>0, <2>2 DEF PanelsOk, Stacked, Selected
  <2>4. DisplayOk(display')
    BY <1>0, <2>2, <2>3 DEF DisplayOk
  <2>5. asked' # <<>> => Shows(display', asked')
    BY <2>1, <2>2 DEF DisplayInv, Shows, Selected
  <2> QED
    BY <2>1, <2>4, <2>5 DEF DisplayInv
<1>8. ASSUME NEW path \in PanelPaths, SwitchTelemetryPanelByName(path) PROVE DisplayInv'
  <2>1. /\ display' = SwitchPanelByName(display, path)
        /\ asked' = IF FindPanelTest(display, path) THEN path ELSE asked
    BY <1>8 DEF SwitchTelemetryPanelByName, SwitchPanel
  <2>2. /\ PanelsOk(display') /\ SameBut(display', display)
        /\ display.stack # <<>> => display'.stack # <<>>
        /\ ~ FindPanelTest(display, path) => display' = display
        /\ FindPanelTest(display, path) /\ path # <<>> => Shows(display', path)
    BY <1>0, <2>1, SwitchOk
  <2>3. CASE ~ FindPanelTest(display, path)
    BY <2>1, <2>2, <2>3, SettingKept
  <2>4. CASE FindPanelTest(display, path)
    <3>1. display.stack # <<>>
      BY <1>0, <2>4 DEF FindPanelTest, DisplayOk
    <3>2. DisplayOk(display')
      BY <1>0, <2>2, <3>1 DEF DisplayOk, SameBut
    <3> QED
      BY <2>1, <2>2, <2>4, <3>2 DEF DisplayInv
  <2> QED
    BY <2>3, <2>4
<1>9. CASE SwitchTelemetryPanelToNext \/ SwitchTelemetryPanelToPrev
  <2>1. display' \in {CurrentPanelToNext(display), CurrentPanelToPrev(display)} /\ asked' = <<>>
    BY <1>9 DEF SwitchTelemetryPanelToNext, SwitchTelemetryPanelToPrev, SwitchPanel
  <2>2. PanelsOk(display') /\ SameBut(display', display) /\ display'.stack = display.stack
    BY <1>0, <2>1, NextOk DEF SameBut
  <2> QED
    BY <2>1, <2>2, MovedOn
<1>10. CASE SwitchTelemetryPanelToParent
  <2>1. display' = CurrentPanelToParent(display) /\ asked' = <<>>
    BY <1>10 DEF SwitchTelemetryPanelToParent, SwitchPanel
  <2>2. PanelsOk(display') /\ SameBut(display', display)
        /\ (display'.stack = <<>> <=> display.stack = <<>>)
    BY <1>0, <2>1, ParentOk DEF SameBut
  <2> QED
    BY <2>1, <2>2, MovedOn
<1>11. CASE SwitchTelemetryPanelToChild
  <2>1. display' = CurrentPanelToChild(display) /\ asked' = <<>>
    BY <1>11 DEF SwitchTelemetryPanelToChild, SwitchPanel
  <2>2. PanelsOk(display') /\ SameBut(display', display)
        /\ (display'.stack = <<>> <=> display.stack = <<>>)
    BY <1>0, <2>1, ChildOk DEF SameBut
  <2> QED
    BY <2>1, <2>2, MovedOn
<1>12. CASE UNCHANGED displayVars
  BY <1>12, SettingKept DEF displayVars
<1> QED
  BY <1>1, <1>2, <1>3, <1>4, <1>5, <1>6, <1>7, <1>8, <1>9, <1>10, <1>11, <1>12 DEF DisplayNext

LEMMA DisplayInvShows == DisplayInv => PanelsFollowTheStack
<1> SUFFICES ASSUME DisplayInv PROVE PanelsFollowTheStack
  OBVIOUS
<1> DEFINE L == Len(display.stack)
           showing == [i \in DOMAIN display.stack |->
                          PanelsOf(display.stack[i])[display.currId[display.stack[i]]]]
<1>1. DisplayOk(display) /\ Stacked(display)
  BY DEF DisplayInv, DisplayOk, PanelsOk
<1>2. L \in Nat /\ DOMAIN display.stack = 1 .. L
  BY <1>1, LenProperties DEF Stacked
<1>3. \A i \in DOMAIN display.stack :
        display.stack[i] = IF i = 1 THEN Root
                           ELSE PanelsOf(display.stack[i - 1])[display.currId[display.stack[i - 1]]]
  BY <1>1, <1>2 DEF Stacked, Selected
<1>4. asked # <<>> => asked = showing
  <2> SUFFICES ASSUME asked # <<>> PROVE asked = showing
    OBVIOUS
  <2>1. asked \in Seq(STRING) /\ Shows(display, asked)
    BY PanelsAssumption DEF DisplayInv
  <2>2. Len(asked) = L /\ DOMAIN asked = 1 .. L
    BY <2>1, LenProperties DEF Shows
  <2>3. asked = [i \in 1 .. L |-> asked[i]]
    BY <2>1, <2>2, LenProperties
  <2>4. \A i \in 1 .. L : asked[i] = PanelsOf(display.stack[i])[display.currId[display.stack[i]]]
    BY <2>1, <2>2 DEF Shows, Selected
  <2> QED
    BY <1>2, <2>3, <2>4
<1> QED
  BY <1>1, <1>3, <1>4 DEF PanelsFollowTheStack, DisplayOk

(* Whatever is drawn, set and switched, in any order and whether the       *)
(* panels exist yet or not, the tables the user has gone down are a path,  *)
(* and a panel asked for by name is the one shown until the user moves on. *)
THEOREM PanelsAlwaysFollowTheStack == DisplaySpec => []PanelsFollowTheStack
<1>1. DisplayInit => DisplayInv
  BY DisplayStarts
<1>2. DisplayInv /\ [DisplayNext]_displayVars => DisplayInv'
  BY DisplaySteps
<1>3. DisplayInv => PanelsFollowTheStack
  BY DisplayInvShows
<1> QED
  BY <1>1, <1>2, <1>3, PTL DEF DisplaySpec

-------------------------------------------------------------------------------
(* verifyMcrtFeedback.  A sum over machines, taken one machine at a time.  *)
LEMMA SumOverIs ==
    ASSUME NEW M, IsFiniteSet(M), NEW f
    PROVE  \E t : SumsUp(M, f, t) /\ SumOver(M, f) = t[M]
<1> DEFINE t == CHOOSE t : t = [s \in SUBSET M |->
                   IF s = {} THEN 0
                   ELSE LET x == CHOOSE x \in s : TRUE
                        IN  f[x] + t[s \ {x}]]
<1>1. SumOver(M, f) = t[M]
  BY DEF SumOver, MapThenSumSet, MapThenFoldSet
<1>2. t = CHOOSE u : SumsUp(M, f, u)
  BY DEF SumsUp, AnyOf
<1>3. \E u : SumsUp(M, f, u)
  BY SumExists
<1>4. SumsUp(M, f, t)
  BY <1>2, <1>3
<1> QED
  BY <1>1, <1>4

LEMMA SumsAgree ==
    ASSUME NEW M, IsFiniteSet(M), NEW S \in SUBSET M, NEW f, NEW g, NEW t, NEW u,
           SumsUp(M, f, t), SumsUp(S, g, u), \A m \in S : f[m] = g[m]
    PROVE  t[S] = u[S]
<1> DEFINE Good == {n \in Nat : \A s \in SUBSET S : Cardinality(s) <= n => t[s] = u[s]}
<1>0. IsFiniteSet(S)
  BY FS_Subset
<1>1. ASSUME NEW s \in SUBSET S
      PROVE  /\ t[s] = IF s = {} THEN 0 ELSE f[AnyOf(s)] + t[s \ {AnyOf(s)}]
             /\ u[s] = IF s = {} THEN 0 ELSE g[AnyOf(s)] + u[s \ {AnyOf(s)}]
  <2>1. s \in SUBSET M
    OBVIOUS
  <2> QED
    BY <2>1 DEF SumsUp
<1>2. 0 \in Good
  <2>1. ASSUME NEW s \in SUBSET S, Cardinality(s) <= 0 PROVE t[s] = u[s]
    <3>1. s = {}
      BY <1>0, <2>1, FS_Subset, FS_CardinalityType, FS_EmptySet
    <3> QED
      BY <1>1, <3>1
  <2> QED
    BY <2>1
<1>3. ASSUME NEW n \in Nat, n \in Good PROVE n + 1 \in Good
  <2> SUFFICES ASSUME NEW s \in SUBSET S, Cardinality(s) <= n + 1 PROVE t[s] = u[s]
    OBVIOUS
  <2>1. CASE s = {}
    BY <1>1, <2>1
  <2>2. CASE s # {}
    <3> DEFINE x == AnyOf(s)
               less == s \ {x}
    <3>1. x \in S /\ less \in SUBSET S /\ Cardinality(less) <= n
      BY <1>0, <2>2, OneLess
    <3>2. t[less] = u[less]
      BY <1>3, <3>1
    <3>3. t[s] = f[x] + t[less] /\ u[s] = g[x] + u[less]
      BY <1>1, <2>2
    <3> HIDE DEF x, less
    <3> QED
      BY <3>1, <3>2, <3>3
  <2> QED
    BY <2>1, <2>2
<1>4. Nat \subseteq Good
  <2> HIDE DEF Good
  <2> QED
    BY <1>2, <1>3, NatSetInduction
<1>5. Cardinality(S) \in Nat
  BY <1>0, FS_CardinalityType
<1>6. Cardinality(S) \in Good /\ Cardinality(S) <= Cardinality(S)
  BY <1>4, <1>5
<1> QED
  BY <1>6

LEMMA SumOverNone ==
    ASSUME NEW f
    PROVE  SumOver({}, f) = 0
<1>1. IsFiniteSet({})
  BY FS_EmptySet
<1>2. PICK t : SumsUp({}, f, t) /\ SumOver({}, f) = t[{}]
  BY <1>1, SumOverIs
<1> QED
  BY <1>2 DEF SumsUp

OneMore(S, m, more) == m \notin S /\ more = S \cup {m}
Alike(f, g, S) == \A x \in S : g[x] = f[x]

LEMMA SumOverOneMore ==
    ASSUME NEW S, IsFiniteSet(S), NEW m, NEW M, OneMore(S, m, M), NEW f, NEW g,
           Numbers(f, M), Alike(f, g, S)
    PROVE  SumOver(S, g) \in Int /\ SumOver(M, f) = f[m] + SumOver(S, g)
<1>1. IsFiniteSet(M)
  BY FS_AddElement DEF OneMore
<1>2. S \in SUBSET M /\ M \in SUBSET M /\ m \in M /\ M \ {m} = S
  BY DEF OneMore
<1>3. PICK t : SumsUp(M, f, t) /\ SumOver(M, f) = t[M]
  BY <1>1, SumOverIs
<1>4. PICK u : SumsUp(S, g, u) /\ SumOver(S, g) = u[S]
  BY SumOverIs
<1>5. t[S] = u[S]
  BY <1>1, <1>2, <1>3, <1>4, SumsAgree DEF Alike
<1>6. t[S] \in Int /\ t[M] = f[m] + t[M \ {m}]
  BY <1>1, <1>2, <1>3, SumTakesAny
<1> QED
  BY <1>2, <1>3, <1>4, <1>5, <1>6

LEMMA SumOverType ==
    ASSUME NEW S, IsFiniteSet(S), NEW f
    PROVE  /\ Numbers(f, S) => SumOver(S, f) \in Int
           /\ (\A m \in S : f[m] \in Nat) => SumOver(S, f) \in Nat
<1>1. PICK t : SumsUp(S, f, t) /\ SumOver(S, f) = t[S]
  BY SumOverIs
<1>2. ASSUME Numbers(f, S) PROVE t[S] \in Int
  BY <1>1, <1>2, SumTakesAny
<1>3. ASSUME \A m \in S : f[m] \in Nat PROVE t[S] \in Nat
  <2>1. \A m \in S : f[m] \in Nat /\ f[m] \in Nat /\ f[m] <= f[m]
    BY <1>3
  <2> QED
    BY <1>1, <2>1, SumGrows
<1> QED
  BY <1>1, <1>2, <1>3
-------------------------------------------------------------------------------
(* The buffers of a feedback, in whatever order they are read.             *)
LEMMA ConcatRange ==
    ASSUME NEW C, NEW s \in Seq(C), NEW t \in Seq(C)
    PROVE  s \o t \in Seq(C) /\ Range(s \o t) = Range(s) \cup Range(t)
<1> DEFINE a == Len(s)
           b == Len(t)
<1>1. /\ s \o t \in Seq(C) /\ Len(s \o t) = a + b
      /\ \A i \in 1 .. a + b : (s \o t)[i] = IF i <= a THEN s[i] ELSE t[i - a]
  BY ConcatProperties
<1>2. a \in Nat /\ b \in Nat /\ DOMAIN s = 1 .. a /\ DOMAIN t = 1 .. b
  BY LenProperties
<1>3. DOMAIN (s \o t) = 1 .. a + b
  BY <1>1, LenProperties
<1> HIDE DEF a, b
<1>4. ASSUME NEW i \in 1 .. a PROVE i \in 1 .. a + b /\ (s \o t)[i] = s[i]
  BY <1>1, <1>2
<1>5. ASSUME NEW i \in 1 .. b PROVE a + i \in 1 .. a + b /\ (s \o t)[a + i] = t[i]
  <2>1. a + i \in 1 .. a + b /\ ~ (a + i <= a) /\ (a + i) - a = i
    BY <1>2
  <2> QED
    BY <1>1, <2>1
<1>6. ASSUME NEW i \in 1 .. a + b, ~ (i <= a)
      PROVE  i - a \in 1 .. b /\ (s \o t)[i] = t[i - a]
  BY <1>1, <1>2, <1>6
<1>7. ASSUME NEW i \in 1 .. a + b, i <= a
      PROVE  i \in 1 .. a /\ (s \o t)[i] = s[i]
  BY <1>1, <1>2, <1>7
<1>8. \A x : (\E i \in 1 .. a + b : (s \o t)[i] = x)
               <=> (\E i \in 1 .. a : s[i] = x) \/ (\E i \in 1 .. b : t[i] = x)
  BY <1>4, <1>5, <1>6, <1>7
<1>9. \A x : x \in Range(s \o t) <=> x \in Range(s) \cup Range(t)
  BY <1>2, <1>3, <1>8 DEF Range
<1> QED
  BY <1>1, <1>9

LEMMA FlattenRange ==
    ASSUME NEW C, NEW seqs \in Seq(Seq(C))
    PROVE  /\ FlattenSeq(seqs) \in Seq(C)
           /\ Range(FlattenSeq(seqs)) = UNION {Range(seqs[i]) : i \in 1 .. Len(seqs)}
<1> DEFINE L == Len(seqs)
           X == Seq(C)
           step == [p \in X \X (1 .. L) |-> p[1] \o seqs[p[2]]]
           Run(f) == f = [i \in 1 .. L |-> IF i = 1 THEN seqs[i] ELSE f[i - 1] \o seqs[i]]
           flatten == CHOOSE f : Run(f)
<1>1. L \in Nat /\ \A i \in 1 .. L : seqs[i] \in X
  BY LenProperties, ElementOfSeq
<1>2. step \in [X \X (1 .. L) -> X]
  BY <1>1, ConcatProperties
<1>3. <<>> \in X
  BY EmptySeq
<1>4. PICK f : IsRun(f, X, <<>>, step, L)
  <2> HIDE DEF step, X, L
  <2> QED
    BY <1>1, <1>2, <1>3, LoopRuns
<1>5. /\ f[0] = <<>>
      /\ \A i \in 0 .. L : f[i] \in X
      /\ \A i \in 1 .. L : f[i] = f[i - 1] \o seqs[i]
  <2>1. f \in [0 .. L -> X] /\ f[0] = <<>>
    BY <1>4 DEF IsRun
  <2>2. ASSUME NEW i \in 1 .. L PROVE f[i] = f[i - 1] \o seqs[i]
    <3>1. i - 1 \in 0 .. L
      BY <1>1
    <3>2. <<f[i - 1], i>> \in X \X (1 .. L)
      BY <2>1, <3>1
    <3>3. step[<<f[i - 1], i>>] = f[i - 1] \o seqs[i]
      BY <3>2
    <3> HIDE DEF step
    <3> QED
      BY <1>4, <3>3 DEF IsRun
  <2> QED
    BY <2>1, <2>2
<1>6. \E g : Run(g)
  <2> DEFINE g == [i \in 1 .. L |-> f[i]]
  <2>1. ASSUME NEW i \in 1 .. L
        PROVE  f[i] = IF i = 1 THEN seqs[i] ELSE g[i - 1] \o seqs[i]
    <3>1. CASE i = 1
      <4>1. f[i] = <<>> \o seqs[i]
        <5>1. f[i] = f[i - 1] \o seqs[i]
          BY <1>5
        <5>2. i - 1 = 0
          BY <3>1
        <5> QED
          BY <1>5, <5>1, <5>2
      <4>2. <<>> \o seqs[i] = seqs[i]
        BY <1>1, ConcatEmptySeq
      <4> QED
        BY <3>1, <4>1, <4>2
    <3>2. CASE i # 1
      <4>1. i - 1 \in 1 .. L
        BY <1>1, <3>2
      <4>2. g[i - 1] = f[i - 1]
        BY <4>1
      <4> HIDE DEF g
      <4> QED
        BY <1>5, <3>2, <4>2
    <3> QED
      BY <3>1, <3>2
  <2>2. g = [i \in 1 .. L |-> IF i = 1 THEN seqs[i] ELSE g[i - 1] \o seqs[i]]
    BY <2>1
  <2> HIDE DEF g
  <2>3. Run(g)
    BY <2>2
  <2> QED
    BY <2>3
<1>7. Run(flatten)
  BY <1>6
<1>8. FlattenSeq(seqs) = IF L = 0 THEN seqs ELSE flatten[L]
  BY DEF FlattenSeq
<1> HIDE DEF flatten
<1>9. \A i \in 1 .. L : flatten[i] = IF i = 1 THEN seqs[i] ELSE flatten[i - 1] \o seqs[i]
  BY <1>7
<1> DEFINE Upto(n) == UNION {Range(seqs[i]) : i \in 1 .. n}
           T == {n \in Nat : n <= L => /\ n # 0 => flatten[n] = f[n]
                                       /\ Range(f[n]) = Upto(n)}
<1> HIDE DEF L, X
<1>10. 0 \in T
  <2>1. Range(<<>>) = {}
    BY DEF Range
  <2>2. Upto(0) = {}
    OBVIOUS
  <2> QED
    BY <1>5, <2>1, <2>2
<1>11. ASSUME NEW n \in Nat, n \in T PROVE n + 1 \in T
  <2> SUFFICES ASSUME n + 1 <= L
               PROVE  flatten[n + 1] = f[n + 1] /\ Range(f[n + 1]) = Upto(n + 1)
    OBVIOUS
  <2>1. n + 1 \in 1 .. L /\ n \in 0 .. L /\ (n + 1) - 1 = n /\ n <= L
    BY <1>1
  <2>2. f[n + 1] = f[n] \o seqs[n + 1] /\ f[n] \in X /\ seqs[n + 1] \in X
    BY <1>1, <1>5, <2>1
  <2>3. Range(f[n + 1]) = Range(f[n]) \cup Range(seqs[n + 1])
    BY <2>2, ConcatRange DEF X
  <2>4. 1 .. n + 1 = (1 .. n) \cup {n + 1}
    OBVIOUS
  <2>5. Upto(n + 1) = Upto(n) \cup Range(seqs[n + 1])
    BY <2>4
  <2>6. Range(f[n]) = Upto(n)
    BY <1>11, <2>1
  <2>7. flatten[n + 1] = f[n + 1]
    <3>1. CASE n = 0
      <4>1. flatten[n + 1] = seqs[n + 1]
        BY <1>9, <2>1, <3>1
      <4>2. <<>> \o seqs[n + 1] = seqs[n + 1]
        BY <2>2, ConcatEmptySeq DEF X
      <4> QED
        BY <1>5, <2>2, <3>1, <4>1, <4>2
    <3>2. CASE n # 0
      <4>1. flatten[n] = f[n]
        BY <1>11, <2>1, <3>2
      <4>2. flatten[n + 1] = flatten[n] \o seqs[n + 1]
        <5>1. flatten[n + 1] = IF n + 1 = 1 THEN seqs[n + 1]
                               ELSE flatten[(n + 1) - 1] \o seqs[n + 1]
          BY <1>9, <2>1
        <5>2. n + 1 # 1
          BY <3>2
        <5> QED
          BY <2>1, <5>1, <5>2
      <4> QED
        BY <2>2, <4>1, <4>2
    <3> QED
      BY <3>1, <3>2
  <2> HIDE DEF Upto
  <2> QED
    BY <2>3, <2>5, <2>6, <2>7
<1>12. L \in T
  <2> HIDE DEF T
  <2> QED
    BY <1>1, <1>10, <1>11, NatSetInduction
<1>13. CASE L = 0
  <2>1. seqs = <<>> /\ seqs \in Seq(C)
    BY <1>13, EmptySeq DEF L
  <2>2. Range(f[L]) = Upto(L) /\ f[L] = <<>>
    BY <1>5, <1>12, <1>13
  <2> QED
    BY <1>8, <1>13, <2>1, <2>2 DEF L
<1>14. CASE L # 0
  <2>1. flatten[L] = f[L] /\ Range(f[L]) = Upto(L)
    BY <1>1, <1>12, <1>14
  <2>2. L \in 0 .. L
    BY <1>1
  <2> QED
    BY <1>5, <1>8, <1>14, <2>1, <2>2 DEF X, L
<1> QED
  BY <1>13, <1>14

PlaneKind == {"beauty", "beautyNumSample"}
MachineKind == {"merge", "feedback", "decoded", "merged", "minusOne"}
Slot == (MachineKind \cup {"mergeAll"}) \X Nat \X PlaneKind

SlotsOf(kinds, ms) == {<<k, m, p>> : k \in kinds, m \in ms, p \in PlaneKind}

SlotSet(count) ==
    SlotsOf({"mergeAll"}, {NoMachine}) \cup SlotsOf(MachineKind, 0 .. count - 1)

LEMMA MachineSlotsRange ==
    ASSUME NEW n \in Nat, NEW K \in SUBSET MachineKind, NEW kinds \in Seq(K), Range(kinds) = K
    PROVE  /\ MachineSlots(n, kinds) \in Seq(Slot)
           /\ Range(MachineSlots(n, kinds)) = SlotsOf(K, 0 .. n - 1)
<1> DEFINE pair(m, k) == [p \in 1 .. 2 |-> <<kinds[k], m - 1, Plane[p]>>]
           row(m) == [k \in DOMAIN kinds |-> pair(m, k)]
           rows == [m \in 1 .. n |-> FlattenSeq(row(m))]
<1>1. DOMAIN kinds = 1 .. Len(kinds) /\ Len(kinds) \in Nat /\ \A k \in DOMAIN kinds : kinds[k] \in K
  BY LenProperties, ElementOfSeq
<1>2. /\ \A p \in 1 .. 2 : Plane[p] \in PlaneKind
      /\ \A name \in PlaneKind : \E p \in 1 .. 2 : Plane[p] = name
  <2>1. 1 .. 2 = {1, 2} /\ Plane[1] = "beauty" /\ Plane[2] = "beautyNumSample"
    BY DEF Plane
  <2> QED
    BY <2>1 DEF PlaneKind
<1>3. ASSUME NEW m \in 1 .. n, NEW k \in DOMAIN kinds
      PROVE  pair(m, k) \in Seq(Slot) /\ Range(pair(m, k)) = SlotsOf({kinds[k]}, {m - 1})
  <2>1. m - 1 \in Nat /\ kinds[k] \in MachineKind
    BY <1>1
  <2>2. \A p \in 1 .. 2 : <<kinds[k], m - 1, Plane[p]>> \in Slot
    BY <1>2, <2>1 DEF Slot
  <2>3. pair(m, k) \in [1 .. 2 -> Slot]
    BY <2>2
  <2>4. pair(m, k) \in Seq(Slot)
    BY <2>3, SeqDef
  <2>5. Range(pair(m, k)) = {<<kinds[k], m - 1, Plane[p]>> : p \in 1 .. 2}
    BY DEF Range
  <2>6. {<<kinds[k], m - 1, Plane[p]>> : p \in 1 .. 2} = SlotsOf({kinds[k]}, {m - 1})
    BY <1>2 DEF SlotsOf
  <2> QED
    BY <2>4, <2>5, <2>6
<1> HIDE DEF pair
<1>4. ASSUME NEW m \in 1 .. n
      PROVE  /\ FlattenSeq(row(m)) \in Seq(Slot)
             /\ Range(FlattenSeq(row(m))) = SlotsOf(K, {m - 1})
  <2>1. row(m) \in [1 .. Len(kinds) -> Seq(Slot)]
    BY <1>1, <1>3
  <2>2. row(m) \in Seq(Seq(Slot)) /\ Len(row(m)) = Len(kinds)
    BY <1>1, <2>1, SeqDef, LenProperties
  <2>3. \A k \in 1 .. Len(kinds) : Range(row(m)[k]) = SlotsOf({kinds[k]}, {m - 1})
    BY <1>1, <1>3
  <2>4. UNION {SlotsOf({kinds[k]}, {m - 1}) : k \in 1 .. Len(kinds)} = SlotsOf(K, {m - 1})
    <3>1. ASSUME NEW x \in SlotsOf(K, {m - 1})
          PROVE  \E k \in 1 .. Len(kinds) : x \in SlotsOf({kinds[k]}, {m - 1})
      <4>1. PICK k \in K, p \in PlaneKind : x = <<k, m - 1, p>>
        BY DEF SlotsOf
      <4>2. PICK i \in 1 .. Len(kinds) : kinds[i] = k
        BY <1>1 DEF Range
      <4> QED
        BY <4>1, <4>2 DEF SlotsOf
    <3>2. ASSUME NEW k \in 1 .. Len(kinds), NEW x \in SlotsOf({kinds[k]}, {m - 1})
          PROVE  x \in SlotsOf(K, {m - 1})
      <4>1. kinds[k] \in K
        BY <1>1
      <4> QED
        BY <4>1 DEF SlotsOf
    <3> QED
      BY <3>1, <3>2
  <2> HIDE DEF row
  <2>5. FlattenSeq(row(m)) \in Seq(Slot)
        /\ Range(FlattenSeq(row(m))) = UNION {Range(row(m)[k]) : k \in 1 .. Len(row(m))}
    BY <2>2, FlattenRange
  <2>6. UNION {Range(row(m)[k]) : k \in 1 .. Len(kinds)}
          = UNION {SlotsOf({kinds[k]}, {m - 1}) : k \in 1 .. Len(kinds)}
    BY <2>3
  <2> QED
    BY <2>2, <2>4, <2>5, <2>6
<1> HIDE DEF row
<1>5. rows \in Seq(Seq(Slot)) /\ Len(rows) = n
  <2>1. rows \in [1 .. n -> Seq(Slot)]
    BY <1>4
  <2> QED
    BY <2>1, SeqDef, LenProperties
<1>6. \A m \in 1 .. n : Range(rows[m]) = SlotsOf(K, {m - 1})
  BY <1>4
<1>7. MachineSlots(n, kinds) = FlattenSeq(rows)
  BY DEF MachineSlots, row, pair
<1> HIDE DEF rows
<1>8. FlattenSeq(rows) \in Seq(Slot)
      /\ Range(FlattenSeq(rows)) = UNION {Range(rows[m]) : m \in 1 .. n}
  BY <1>5, FlattenRange
<1>9. UNION {Range(rows[m]) : m \in 1 .. n} = UNION {SlotsOf(K, {m - 1}) : m \in 1 .. n}
  BY <1>6
<1>10. UNION {SlotsOf(K, {m - 1}) : m \in 1 .. n} = SlotsOf(K, 0 .. n - 1)
  <2>1. \A m \in 1 .. n : m - 1 \in 0 .. n - 1
    OBVIOUS
  <2>2. \A m \in 0 .. n - 1 : m + 1 \in 1 .. n /\ (m + 1) - 1 = m
    OBVIOUS
  <2>3. ASSUME NEW x \in SlotsOf(K, 0 .. n - 1)
        PROVE  x \in UNION {SlotsOf(K, {m - 1}) : m \in 1 .. n}
    <3>1. PICK k \in K, m \in 0 .. n - 1, p \in PlaneKind : x = <<k, m, p>>
      BY DEF SlotsOf
    <3>2. x \in SlotsOf(K, {(m + 1) - 1})
      BY <2>2, <3>1 DEF SlotsOf
    <3> QED
      BY <2>2, <3>2
  <2>4. ASSUME NEW m \in 1 .. n, NEW x \in SlotsOf(K, {m - 1})
        PROVE  x \in SlotsOf(K, 0 .. n - 1)
    BY <2>1 DEF SlotsOf
  <2> QED
    BY <2>3, <2>4
<1> QED
  BY <1>7, <1>8, <1>9, <1>10

LEMMA SlotsRange ==
    ASSUME NEW n \in Nat
    PROVE  /\ MergeSlots(n) \in Seq(Slot) /\ McrtSlots(n) \in Seq(Slot) /\ Slots(n) \in Seq(Slot)
           /\ Range(MergeSlots(n)) \cup Range(McrtSlots(n)) = Range(Slots(n))
           /\ SlotsOf({"feedback"}, 0 .. n - 1) \subseteq Range(McrtSlots(n))
           /\ Range(Slots(n)) = SlotSet(n)
<1> DEFINE all == [p \in 1 .. 2 |-> <<"mergeAll", NoMachine, Plane[p]>>]
           mcrt == {"feedback", "decoded", "merged", "minusOne"}
<1>1. /\ MachineSlots(n, <<"merge">>) \in Seq(Slot)
      /\ Range(MachineSlots(n, <<"merge">>)) = SlotsOf({"merge"}, 0 .. n - 1)
  <2>1. {"merge"} \in SUBSET MachineKind /\ <<"merge">> \in Seq({"merge"})
    BY DEF MachineKind
  <2>2. Range(<<"merge">>) = {"merge"}
    BY DEF Range
  <2> QED
    BY <2>1, <2>2, MachineSlotsRange
<1>2. /\ MachineSlots(n, McrtBuffer) \in Seq(Slot)
      /\ Range(MachineSlots(n, McrtBuffer)) = SlotsOf(mcrt, 0 .. n - 1)
  <2>1. mcrt \in SUBSET MachineKind /\ McrtBuffer \in Seq(mcrt)
    BY DEF MachineKind, McrtBuffer
  <2>2. Range(McrtBuffer) = mcrt
    <3>1. DOMAIN McrtBuffer = {1, 2, 3, 4}
      BY DEF McrtBuffer
    <3> QED
      BY <3>1 DEF Range, McrtBuffer
  <2> HIDE DEF mcrt
  <2> QED
    BY <2>1, <2>2, MachineSlotsRange
<1>3. all \in Seq(Slot) /\ Range(all) = SlotsOf({"mergeAll"}, {NoMachine})
  <2>1. 1 .. 2 = {1, 2} /\ Plane[1] = "beauty" /\ Plane[2] = "beautyNumSample"
    BY DEF Plane
  <2>2. NoMachine \in Nat
    BY VerifyAssumption DEF NoMachine
  <2>3. all \in [1 .. 2 -> Slot]
    BY <2>1, <2>2 DEF Slot, PlaneKind
  <2>4. Range(all) = {all[1], all[2]}
    BY <2>1 DEF Range
  <2>5. all[1] = <<"mergeAll", NoMachine, "beauty">>
        /\ all[2] = <<"mergeAll", NoMachine, "beautyNumSample">>
    BY <2>1
  <2> HIDE DEF all
  <2> QED
    BY <2>3, <2>4, <2>5, SeqDef DEF SlotsOf, PlaneKind
<1>4. MergeSlots(n) = all \o MachineSlots(n, <<"merge">>)
  BY DEF MergeSlots
<1> HIDE DEF all
<1>5. MergeSlots(n) \in Seq(Slot)
      /\ Range(MergeSlots(n)) = SlotsOf({"mergeAll"}, {NoMachine}) \cup SlotsOf({"merge"}, 0 .. n - 1)
  BY <1>1, <1>3, <1>4, ConcatRange
<1>6. McrtSlots(n) \in Seq(Slot) /\ Range(McrtSlots(n)) = SlotsOf(mcrt, 0 .. n - 1)
  BY <1>2 DEF McrtSlots
<1>7. Slots(n) \in Seq(Slot) /\ Range(Slots(n)) = Range(MergeSlots(n)) \cup Range(McrtSlots(n))
  <2>1. Slots(n) = MergeSlots(n) \o McrtSlots(n)
    BY DEF Slots
  <2>2. MergeSlots(n) \in Seq(Slot) /\ McrtSlots(n) \in Seq(Slot)
    BY <1>5, <1>6
  <2> QED
    BY <2>1, <2>2, ConcatRange
<1>8. SlotsOf({"merge"}, 0 .. n - 1) \cup SlotsOf(mcrt, 0 .. n - 1) = SlotsOf(MachineKind, 0 .. n - 1)
  BY DEF SlotsOf, MachineKind
<1>9. SlotsOf({"feedback"}, 0 .. n - 1) \subseteq SlotsOf(mcrt, 0 .. n - 1)
  BY DEF SlotsOf
<1> QED
  BY <1>5, <1>6, <1>7, <1>8, <1>9 DEF SlotSet

-------------------------------------------------------------------------------
(* Reading.  A read succeeds if every file of a buffer can be read, and    *)
(* then every buffer holds what its file says.                             *)
Held(format, id, slot) == AsRead(format, slot, FileOf(format, id, slot))

LEMMA ReadAllReads ==
    ASSUME NEW format, NEW id, NEW slots \in Seq(Slot), Range(slots) \subseteq DOMAIN buffers
    PROVE  LET read == ReadAll(format, id, slots)
           IN  /\ read.ok <=> \A slot \in Range(slots) : Held(format, id, slot) # Missing
               /\ DOMAIN read.buffers = DOMAIN buffers
               /\ read.ok =>
                    /\ \A slot \in Range(slots) : read.buffers[slot] = Held(format, id, slot)
                    /\ \A slot \in Range(slots) : slot[2] # NoMachine => slot[2] \in read.machines
<1> DEFINE content == [slot \in Range(slots) |-> AsRead(format, slot, FileOf(format, id, slot))]
           missing == {i \in DOMAIN slots : content[slots[i]] = Missing}
           complete == {slots[i] : i \in {j \in DOMAIN slots : \A k \in missing : j < k}}
           tried == {slots[i][2] : i \in {j \in DOMAIN slots : \A k \in missing : j <= k}}
           read == ReadAll(format, id, slots)
<1>1. /\ read.ok = (missing = {})
      /\ read.machines = tried \ {NoMachine}
      /\ read.buffers = [slot \in DOMAIN buffers |->
                           IF slot \in complete THEN content[slot] ELSE buffers[slot]]
  BY DEF ReadAll
<1>2. \A i \in DOMAIN slots : slots[i] \in Range(slots)
  BY DEF Range
<1>3. \A slot \in Range(slots) : \E i \in DOMAIN slots : slot = slots[i]
  BY DEF Range
<1>4. \A slot \in Range(slots) : content[slot] = Held(format, id, slot)
  BY DEF Held
<1> HIDE DEF content, read
<1>5. missing = {} <=> \A slot \in Range(slots) : Held(format, id, slot) # Missing
  BY <1>2, <1>3, <1>4
<1>6. ASSUME missing = {}, NEW slot \in Range(slots)
      PROVE  slot \in complete /\ slot[2] \in tried
  BY <1>3, <1>6
<1> HIDE DEF missing, complete, tried
<1>7. ASSUME read.ok, NEW slot \in Range(slots)
      PROVE  /\ read.buffers[slot] = Held(format, id, slot)
             /\ slot[2] # NoMachine => slot[2] \in read.machines
  <2>1. slot \in complete /\ slot[2] \in tried /\ slot \in DOMAIN buffers
    BY <1>1, <1>6, <1>7
  <2> QED
    BY <1>1, <1>4, <2>1
<1>8. DOMAIN read.buffers = DOMAIN buffers
  BY <1>1
<1> QED
  BY <1>1, <1>5, <1>7, <1>8 DEF read

-------------------------------------------------------------------------------
(* What is known between two options: unless a read has failed since       *)
(* -init, the buffers of all machines are what the files hold.             *)
LoadedFrom(format, id) ==
    /\ loaded = <<format, id>>
    /\ numMachines >= 1
    /\ Machines \subseteq readMachines
    /\ \A slot \in SlotSet(numMachines) :
         buffers[slot] = Held(format, id, slot) /\ buffers[slot] # Missing

VerifyInv ==
    /\ files \in Dumps
    /\ numMachines \in 0 .. MaxMachines
    /\ DOMAIN buffers = SlotSet(MaxMachines)
    /\ loaded # <<>> => \E format \in Format, id \in FeedbackId : LoadedFrom(format, id)

LEMMA SlotsWithin ==
    ASSUME NEW n \in 0 .. MaxMachines
    PROVE  n \in Nat /\ SlotSet(n) \subseteq SlotSet(MaxMachines)
<1>1. MaxMachines \in Nat
  BY VerifyAssumption
<1>2. 0 .. n - 1 \subseteq 0 .. MaxMachines - 1
  BY <1>1
<1> QED
  BY <1>1, <1>2 DEF SlotSet, SlotsOf

LEMMA EmptyBuffersDomain == DOMAIN EmptyBuffers = SlotSet(MaxMachines)
<1>1. Range(Slots(MaxMachines)) = SlotSet(MaxMachines)
  BY VerifyAssumption, SlotsRange
<1> QED
  BY <1>1 DEF EmptyBuffers

LEMMA VerifyStarts == VerifyInit => VerifyInv
<1> SUFFICES ASSUME VerifyInit PROVE VerifyInv
  OBVIOUS
<1>1. PICK dump \in Dumps : ProgramStarts(dump)
  BY DEF VerifyInit
<1>2. MaxMachines \in Nat
  BY VerifyAssumption
<1>3. numMachines \in 0 .. MaxMachines
  BY <1>1, <1>2 DEF ProgramStarts
<1> QED
  BY <1>1, <1>3, EmptyBuffersDomain DEF ProgramStarts, VerifyInv

LEMMA ReadKeepsVerifyInv ==
    ASSUME VerifyInv, NEW format \in Format, NEW id \in FeedbackId, ReadOptionStep(format, id)
    PROVE  VerifyInv'
<1> DEFINE n == numMachines
           merge == ReadAll(format, id, MergeSlots(n))
           mcrt == ReadAll(format, id, McrtSlots(n))
           all == ReadAll(format, id, Slots(n))
<1>1. files' = files /\ numMachines' = n /\ files \in Dumps /\ n \in 0 .. MaxMachines
      /\ DOMAIN buffers = SlotSet(MaxMachines)
  BY DEF ReadOptionStep, VerifyInv
<1>2. CASE n = 0
  <2>1. buffers' = buffers /\ loaded' = loaded
    BY <1>2 DEF ReadOptionStep, ReadOption
  <2>2. ASSUME NEW f \in Format, NEW i \in FeedbackId, LoadedFrom(f, i) PROVE FALSE
    BY <1>2, <2>2 DEF LoadedFrom
  <2>3. loaded = <<>>
    BY <2>2 DEF VerifyInv
  <2> QED
    BY <1>1, <2>1, <2>3 DEF VerifyInv
<1>3. CASE n # 0
  <2>1. /\ buffers' = all.buffers
        /\ readMachines' = IF merge.ok THEN readMachines \cup mcrt.machines ELSE readMachines
        /\ loaded' = IF all.ok THEN <<format, id>> ELSE <<>>
    BY <1>3 DEF ReadOptionStep, ReadOption
  <2>2. /\ n \in Nat /\ Range(Slots(n)) = SlotSet(n) /\ Range(Slots(n)) \subseteq DOMAIN buffers
        /\ Range(MergeSlots(n)) \subseteq Range(Slots(n))
        /\ Range(McrtSlots(n)) \subseteq Range(Slots(n))
        /\ SlotsOf({"feedback"}, 0 .. n - 1) \subseteq Range(McrtSlots(n))
        /\ MergeSlots(n) \in Seq(Slot) /\ McrtSlots(n) \in Seq(Slot) /\ Slots(n) \in Seq(Slot)
    BY <1>1, SlotsWithin, SlotsRange
  <2>3. /\ all.ok <=> \A slot \in Range(Slots(n)) : Held(format, id, slot) # Missing
        /\ DOMAIN all.buffers = DOMAIN buffers
        /\ all.ok => \A slot \in Range(Slots(n)) : all.buffers[slot] = Held(format, id, slot)
    BY <2>2, ReadAllReads
  <2>4. merge.ok <=> \A slot \in Range(MergeSlots(n)) : Held(format, id, slot) # Missing
    BY <2>2, ReadAllReads
  <2>5. /\ mcrt.ok <=> \A slot \in Range(McrtSlots(n)) : Held(format, id, slot) # Missing
        /\ mcrt.ok => \A slot \in Range(McrtSlots(n)) : slot[2] # NoMachine => slot[2] \in mcrt.machines
    BY <2>2, ReadAllReads
  <2> HIDE DEF all, merge, mcrt
  <2>6. CASE ~ all.ok
    <3>1. loaded' = <<>> /\ DOMAIN buffers' = SlotSet(MaxMachines)
      BY <1>1, <2>1, <2>3, <2>6
    <3> QED
      BY <1>1, <3>1 DEF VerifyInv
  <2>7. CASE all.ok
    <3>1. merge.ok /\ mcrt.ok
      BY <2>2, <2>3, <2>4, <2>5, <2>7
    <3>2. \A m \in 0 .. n - 1 : m \in readMachines'
      <4> SUFFICES ASSUME NEW m \in 0 .. n - 1 PROVE m \in readMachines'
        OBVIOUS
      <4>1. <<"feedback", m, "beauty">> \in Range(McrtSlots(n))
        BY <2>2 DEF SlotsOf, PlaneKind
      <4>2. m # NoMachine
        BY <1>1, VerifyAssumption DEF NoMachine
      <4>3. <<"feedback", m, "beauty">>[2] = m
        OBVIOUS
      <4>4. m \in mcrt.machines
        BY <2>5, <3>1, <4>1, <4>2, <4>3
      <4> QED
        BY <2>1, <3>1, <4>4
    <3>3. Machines' \subseteq readMachines'
      BY <1>1, <3>2 DEF Machines
    <3>4. ASSUME NEW slot \in SlotSet(n)
          PROVE  buffers'[slot] = Held(format, id, slot)' /\ buffers'[slot] # Missing
      <4>1. Held(format, id, slot)' = Held(format, id, slot)
        BY <1>1 DEF Held, FileOf, AsRead, ReadBeautyPPM, ReadBeautyNumSamplePPM, ReadBeautyFBD,
                    ReadBeautyNumSampleFBD, LoadPPM, LoadFBD
      <4>2. all.buffers[slot] = Held(format, id, slot) /\ Held(format, id, slot) # Missing
        BY <2>2, <2>3, <2>7
      <4> QED
        BY <2>1, <4>1, <4>2
    <3>5. SlotSet(numMachines)' = SlotSet(n)
      BY <1>1 DEF SlotSet, SlotsOf, MachineKind, PlaneKind, NoMachine
    <3>6. n >= 1
      BY <1>1, <1>3
    <3>7. LoadedFrom(format, id)'
      BY <1>1, <2>1, <2>7, <3>3, <3>4, <3>5, <3>6 DEF LoadedFrom
    <3> QED
      BY <1>1, <2>1, <2>3, <3>7 DEF VerifyInv
  <2> QED
    BY <2>6, <2>7
<1> QED
  BY <1>2, <1>3

LEMMA VerifyStep == VerifyInv /\ [VerifyNext]_verifyVars => VerifyInv'
<1> SUFFICES ASSUME VerifyInv, [VerifyNext]_verifyVars PROVE VerifyInv'
  OBVIOUS
<1>1. ASSUME NEW count \in 1 .. MaxMachines, InitOption(count) PROVE VerifyInv'
  <2>1. /\ files' = files /\ numMachines' = count /\ loaded' = <<>>
        /\ DOMAIN buffers' = SlotSet(MaxMachines)
    BY <1>1, EmptyBuffersDomain DEF InitOption
  <2>2. count \in 0 .. MaxMachines
    BY VerifyAssumption
  <2> QED
    BY <2>1, <2>2 DEF VerifyInv
<1>2. ASSUME NEW format \in Format, NEW id \in FeedbackId, ReadOptionStep(format, id)
      PROVE  VerifyInv'
  BY <1>2, ReadKeepsVerifyInv
<1>3. ASSUME UNCHANGED <<files, numMachines, buffers, readMachines, loaded>> PROVE VerifyInv'
  <2>1. ASSUME NEW format, NEW id, LoadedFrom(format, id) PROVE LoadedFrom(format, id)'
    <3>1. ASSUME NEW slot PROVE Held(format, id, slot)' = Held(format, id, slot)
      BY <1>3 DEF Held, FileOf, AsRead, ReadBeautyPPM, ReadBeautyNumSamplePPM, ReadBeautyFBD,
                  ReadBeautyNumSampleFBD, LoadPPM, LoadFBD
    <3>2. Machines' = Machines
      BY <1>3 DEF Machines
    <3>3. SlotSet(numMachines)' = SlotSet(numMachines)
      BY <1>3 DEF SlotSet, SlotsOf, MachineKind, PlaneKind, NoMachine
    <3> QED
      BY <1>3, <2>1, <3>1, <3>2, <3>3 DEF LoadedFrom
  <2> QED
    BY <1>3, <2>1 DEF VerifyInv
<1>4. CASE VerifyOption
  BY <1>3, <1>4 DEF VerifyOption
<1>5. CASE UNCHANGED verifyVars
  BY <1>3, <1>5 DEF verifyVars
<1> QED
  BY <1>1, <1>2, <1>4, <1>5 DEF VerifyNext

-------------------------------------------------------------------------------
(* A weighted average that comes out even, times the weights, and the      *)
(* tolerance for it.                                                       *)
LEMMA TimesKeepsOrder ==
    ASSUME NEW a \in Int, NEW b \in Int, NEW n \in Nat \ {0}
    PROVE  a * n <= b * n <=> a <= b
<1>1. ASSUME NEW x \in Int, NEW y \in Int, x <= y PROVE x * n <= y * n
  <2>1. PICK d \in Nat : y = x + d
    <3>1. y - x \in Nat /\ y = x + (y - x)
      BY <1>1
    <3> QED
      BY <3>1
  <2>2. y * n = x * n + d * n
    BY <2>1
  <2>3. d * n \in Nat /\ x * n \in Int
    OBVIOUS
  <2> QED
    BY <2>2, <2>3
<1>2. ASSUME b < a PROVE b * n < a * n
  <2>1. b + 1 <= a
    BY <1>2
  <2>2. (b + 1) * n <= a * n
    BY <1>1, <2>1
  <2>3. (b + 1) * n = b * n + n
    OBVIOUS
  <2>4. b * n \in Int /\ a * n \in Int
    OBVIOUS
  <2> QED
    BY <2>2, <2>3, <2>4
<1>3. a * n \in Int /\ b * n \in Int
  OBVIOUS
<1> QED
  BY <1>1, <1>2, <1>3

LEMMA AbsMinus ==
    ASSUME NEW a \in Int
    PROVE  Abs(0 - a) = Abs(a)
BY DEF Abs

LEMMA ToleranceTimes ==
    ASSUME NEW x \in Int, NEW average \in Int, NEW n \in Nat \ {0}, NEW k \in Nat
    PROVE  Abs(x * n - average * n) <= k * n <=> Abs(average - x) <= k
<1> DEFINE d == average - x
<1>1. x * n - average * n = (-d) * n /\ d \in Int
  OBVIOUS
<1>2. Abs(average - x) = IF d < 0 THEN -d ELSE d
  BY DEF Abs
<1> HIDE DEF d
<1>3. Abs((-d) * n) = Abs(d) * n /\ Abs(d) \in Int
  <2>1. CASE d < 0
    <3>1. ~ ((-d) * n <= 0 * n)
      BY <1>1, <2>1, TimesKeepsOrder
    <3>2. 0 * n = 0 /\ (-d) * n \in Int
      BY <1>1
    <3> QED
      BY <1>1, <2>1, <3>1, <3>2 DEF Abs
  <2>2. CASE ~ (d < 0)
    <3>1. (-d) * n <= 0 * n
      BY <1>1, <2>2, TimesKeepsOrder
    <3>2. 0 * n = 0 /\ (-d) * n = -(d * n) /\ d * n \in Int
      BY <1>1
    <3> QED
      BY <1>1, <2>2, <3>1, <3>2 DEF Abs
  <2> QED
    BY <2>1, <2>2
<1>4. Abs(d) * n <= k * n <=> Abs(d) <= k
  BY <1>3, TimesKeepsOrder
<1> QED
  BY <1>1, <1>3, <1>4 DEF d

-------------------------------------------------------------------------------
(* Merging.  The colours c and the samples n of the machines below L: what *)
(* is merged of some of them holds, times the samples, all their light.    *)
Counted(n, S, i) == SumOver(S, [m \in S |-> n[m][i]])
Light(c, n, S, i) == SumOver(S, [m \in S |-> c[m][i] * n[m][i]])

Fits(c, n, m, size) == Len(c[m]) = size /\ Len(n[m]) = size
AllFit(c, n, S, size) == \A m \in S : Fits(c, n, m, size)

MachineImages(c, n, L) ==
    /\ L \in Nat
    /\ \A m \in 0 .. L - 1 : c[m] \in Seq(Int) /\ n[m] \in Seq(Nat)
    /\ \A S \in SUBSET (0 .. L - 1), size \in Nat : AllFit(c, n, S, size) =>
         \A i \in 1 .. size : Counted(n, S, i) # 0 =>
             (Light(c, n, S, i) \div Counted(n, S, i)) * Counted(n, S, i) = Light(c, n, S, i)

PixelIsAverage(w, c, n, S, i) ==
    /\ w.numSample[i] = Counted(n, S, i)
    /\ w.beauty[i] * Counted(n, S, i) = Light(c, n, S, i)
    /\ Counted(n, S, i) = 0 => w.beauty[i] = 0

MergedOf(w, c, n, S, size) ==
    /\ w \in [beauty : Seq(Int), numSample : Seq(Nat), ok : BOOLEAN]
    /\ Len(w.beauty) = size /\ Len(w.numSample) = size
    /\ w.ok <=> AllFit(c, n, S, size)
    /\ w.ok => \A i \in 1 .. size : PixelIsAverage(w, c, n, S, i)

LEMMA NothingMerged ==
    ASSUME NEW c, NEW n, NEW size \in Nat
    PROVE  MergedOf(CleanFb(size), c, n, {}, size)
<1> DEFINE w == CleanFb(size)
<1>1. /\ w = [beauty |-> ZeroFb(size), numSample |-> ZeroFb(size), ok |-> TRUE]
      /\ ZeroFb(size) = [i \in 1 .. size |-> 0]
  BY DEF CleanFb, ZeroFb
<1>2. ZeroFb(size) \in [1 .. size -> Nat] /\ ZeroFb(size) \in [1 .. size -> Int]
  BY <1>1
<1>3. ZeroFb(size) \in Seq(Nat) /\ ZeroFb(size) \in Seq(Int) /\ Len(ZeroFb(size)) = size
  BY <1>2, SeqDef, LenProperties
<1>4. \A i : Counted(n, {}, i) = 0 /\ Light(c, n, {}, i) = 0
  BY SumOverNone DEF Counted, Light
<1>5. ASSUME NEW i \in 1 .. size PROVE PixelIsAverage(w, c, n, {}, i)
  <2>1. w.numSample[i] = 0 /\ w.beauty[i] = 0
    BY <1>1
  <2> QED
    BY <1>4, <2>1 DEF PixelIsAverage
<1> HIDE DEF w
<1>6. w.beauty = ZeroFb(size) /\ w.numSample = ZeroFb(size) /\ w.ok = TRUE
  BY <1>1
<1>7. w \in [beauty : Seq(Int), numSample : Seq(Nat), ok : BOOLEAN]
  BY <1>1, <1>3
<1> QED
  BY <1>3, <1>5, <1>6, <1>7 DEF MergedOf, AllFit, w

AddsUp(c, n, S, x, more, i) ==
    /\ Counted(n, S, i) \in Nat /\ Light(c, n, S, i) \in Int
    /\ c[x][i] \in Int /\ n[x][i] \in Nat
    /\ Counted(n, more, i) = n[x][i] + Counted(n, S, i)
    /\ Light(c, n, more, i) = c[x][i] * n[x][i] + Light(c, n, S, i)

LEMMA CountedOneMore ==
    ASSUME NEW c, NEW n, NEW L, MachineImages(c, n, L), NEW S, NEW x, NEW more,
           more \subseteq 0 .. L - 1, OneMore(S, x, more), NEW size \in Nat, NEW i \in 1 .. size,
           AllFit(c, n, more, size)
    PROVE  AddsUp(c, n, S, x, more, i)
<1> DEFINE ns(T) == [m \in T |-> n[m][i]]
           cs(T) == [m \in T |-> c[m][i] * n[m][i]]
<1>1. S \subseteq more /\ x \in more
  BY DEF OneMore
<1>2. ASSUME NEW m \in more PROVE c[m][i] \in Int /\ n[m][i] \in Nat /\ c[m][i] * n[m][i] \in Int
  <2>1. c[m] \in Seq(Int) /\ n[m] \in Seq(Nat) /\ Len(c[m]) = size /\ Len(n[m]) = size
    BY DEF MachineImages, AllFit, Fits
  <2>2. c[m][i] \in Int /\ n[m][i] \in Nat
    BY <2>1, ElementOfSeq
  <2> QED
    BY <2>2
<1>3. IsFiniteSet(S)
  <2>1. IsFiniteSet(0 .. L - 1)
    BY FS_Interval DEF MachineImages
  <2> QED
    BY <1>1, <2>1, FS_Subset
<1>4. ASSUME NEW T, NEW m \in T
      PROVE  ns(T)[m] = n[m][i] /\ cs(T)[m] = c[m][i] * n[m][i]
  OBVIOUS
<1>6. Counted(n, S, i) = SumOver(S, ns(S)) /\ Counted(n, more, i) = SumOver(more, ns(more))
  BY DEF Counted
<1>7. Light(c, n, S, i) = SumOver(S, cs(S)) /\ Light(c, n, more, i) = SumOver(more, cs(more))
  BY DEF Light
<1> HIDE DEF ns, cs
<1>5. /\ Alike(ns(more), ns(S), S) /\ Alike(cs(more), cs(S), S)
      /\ \A m \in S : ns(S)[m] \in Nat
      /\ ns(more)[x] = n[x][i] /\ cs(more)[x] = c[x][i] * n[x][i]
      /\ Numbers(ns(more), more) /\ Numbers(cs(more), more)
  <2>1. ASSUME NEW m \in S
        PROVE  /\ ns(S)[m] = n[m][i] /\ cs(S)[m] = c[m][i] * n[m][i]
               /\ ns(more)[m] = n[m][i] /\ cs(more)[m] = c[m][i] * n[m][i] /\ n[m][i] \in Nat
    BY <1>1, <1>2, <1>4
  <2>2. ASSUME NEW m \in more PROVE ns(more)[m] \in Int /\ cs(more)[m] \in Int
    BY <1>2, <1>4
  <2>3. ns(more)[x] = n[x][i] /\ cs(more)[x] = c[x][i] * n[x][i]
    BY <1>1, <1>4
  <2> QED
    BY <2>1, <2>2, <2>3 DEF Alike, Numbers
<1>8. SumOver(more, ns(more)) = ns(more)[x] + SumOver(S, ns(S))
  BY <1>3, <1>5, SumOverOneMore
<1>9. SumOver(S, cs(S)) \in Int /\ SumOver(more, cs(more)) = cs(more)[x] + SumOver(S, cs(S))
  BY <1>3, <1>5, SumOverOneMore
<1>10. SumOver(S, ns(S)) \in Nat
  BY <1>3, <1>5, SumOverType
<1> QED
  BY <1>1, <1>2, <1>5, <1>6, <1>7, <1>8, <1>9, <1>10 DEF AddsUp

LEMMA MergeFbMerges ==
    ASSUME NEW c, NEW n, NEW L, MachineImages(c, n, L), NEW S \in SUBSET (0 .. L - 1),
           NEW x \in 0 .. L - 1, NEW more, OneMore(S, x, more),
           NEW size \in Nat, NEW w, MergedOf(w, c, n, S, size)
    PROVE  MergedOf(MergeFb(w, c[x], n[x]), c, n, more, size)
<1> DEFINE out == MergeFb(w, c[x], n[x])
           total == [i \in DOMAIN c[x] |-> w.numSample[i] + n[x][i]]
           average(i) == IF total[i] = 0 THEN 0
                         ELSE (w.beauty[i] * w.numSample[i] + c[x][i] * n[x][i]) \div total[i]
<1>1. /\ w \in [beauty : Seq(Int), numSample : Seq(Nat), ok : BOOLEAN]
      /\ Len(w.beauty) = size /\ Len(w.numSample) = size
      /\ w.ok <=> AllFit(c, n, S, size)
  BY DEF MergedOf
<1>2. CASE ~ (w.ok /\ Fits(c, n, x, size))
  <2>1. out = [w EXCEPT !.ok = FALSE]
    BY <1>1, <1>2 DEF MergeFb, Fits
  <2>2. ~ AllFit(c, n, more, size)
    BY <1>1, <1>2 DEF OneMore, AllFit
  <2> HIDE DEF out
  <2>3. /\ out \in [beauty : Seq(Int), numSample : Seq(Nat), ok : BOOLEAN]
        /\ out.beauty = w.beauty /\ out.numSample = w.numSample /\ out.ok = FALSE
    BY <1>1, <2>1
  <2>4. MergedOf(out, c, n, more, size)
    BY <1>1, <2>2, <2>3 DEF MergedOf
  <2> QED
    BY <2>4 DEF out
<1>3. CASE w.ok /\ Fits(c, n, x, size)
  <2>1. /\ c[x] \in Seq(Int) /\ n[x] \in Seq(Nat) /\ Len(c[x]) = size /\ Len(n[x]) = size
        /\ DOMAIN c[x] = 1 .. size /\ DOMAIN w.beauty = 1 .. size
    BY <1>1, <1>3, LenProperties DEF MachineImages, Fits
  <2>2. out = [w EXCEPT !.beauty = [i \in 1 .. size |-> average(i)], !.numSample = total]
    BY <1>1, <1>3, <2>1 DEF MergeFb
  <2>3. AllFit(c, n, more, size) /\ more \subseteq 0 .. L - 1
    BY <1>1, <1>3 DEF OneMore, AllFit
  <2>4. ASSUME NEW i \in 1 .. size
        PROVE  /\ total[i] = Counted(n, more, i) /\ total[i] \in Nat
               /\ average(i) \in Int
               /\ average(i) * total[i] = Light(c, n, more, i)
               /\ total[i] = 0 => average(i) = 0
    <3>1. /\ Counted(n, S, i) \in Nat /\ Light(c, n, S, i) \in Int
          /\ c[x][i] \in Int /\ n[x][i] \in Nat
          /\ Counted(n, more, i) = n[x][i] + Counted(n, S, i)
          /\ Light(c, n, more, i) = c[x][i] * n[x][i] + Light(c, n, S, i)
      <4>1. AddsUp(c, n, S, x, more, i)
        BY <2>3, CountedOneMore
      <4> QED
        BY <4>1 DEF AddsUp
    <3>2. /\ w.numSample[i] = Counted(n, S, i)
          /\ w.beauty[i] * Counted(n, S, i) = Light(c, n, S, i)
          /\ Counted(n, S, i) = 0 => w.beauty[i] = 0
      BY <1>3 DEF MergedOf, PixelIsAverage
    <3>3. total[i] = w.numSample[i] + n[x][i]
      BY <2>1
    <3>4. w.beauty[i] \in Int
      BY <1>1, ElementOfSeq
    <3> DEFINE T == Counted(n, more, i)
               light == Light(c, n, more, i)
    <3>5. total[i] = T /\ T \in Nat /\ light \in Int
      BY <3>1, <3>2, <3>3
    <3>6. w.beauty[i] * w.numSample[i] + c[x][i] * n[x][i] = light
      BY <3>1, <3>2
    <3>7. average(i) = IF T = 0 THEN 0 ELSE light \div T
      BY <3>5, <3>6
    <3>8. T # 0 => (light \div T) * T = light
      <4>1. more \in SUBSET (0 .. L - 1)
        BY <2>3
      <4> QED
        BY <2>3, <4>1 DEF MachineImages
    <3>9. T = 0 => light = 0
      <4> SUFFICES ASSUME T = 0 PROVE light = 0
        OBVIOUS
      <4>1. n[x][i] = 0 /\ Counted(n, S, i) = 0
        BY <3>1
      <4>2. Light(c, n, S, i) = 0
        BY <3>2, <3>4, <4>1
      <4> QED
        BY <3>1, <4>1, <4>2
    <3> HIDE DEF T, light, average, total
    <3>10. CASE T = 0
      BY <3>5, <3>7, <3>9, <3>10 DEF T, light
    <3>11. CASE T # 0
      <4>1. light \div T \in Int
        BY <3>5, <3>11
      <4> QED
        BY <3>5, <3>7, <3>8, <3>11, <4>1 DEF T, light
    <3> QED
      BY <3>10, <3>11
  <2> DEFINE beauty == [i \in 1 .. size |-> average(i)]
  <2>5. beauty \in [1 .. size -> Int] /\ \A i \in 1 .. size : beauty[i] = average(i)
    BY <2>4
  <2>6. total \in [1 .. size -> Nat]
    BY <2>1, <2>4
  <2>7. out = [w EXCEPT !.beauty = beauty, !.numSample = total]
    BY <2>2
  <2> HIDE DEF out, beauty, total, average
  <2>8. beauty \in Seq(Int) /\ Len(beauty) = size /\ total \in Seq(Nat) /\ Len(total) = size
    BY <2>5, <2>6, SeqDef, LenProperties
  <2>9. /\ out \in [beauty : Seq(Int), numSample : Seq(Nat), ok : BOOLEAN]
        /\ out.beauty = beauty /\ out.numSample = total /\ out.ok = w.ok
    BY <1>1, <2>7, <2>8
  <2>10. ASSUME NEW i \in 1 .. size PROVE PixelIsAverage(out, c, n, more, i)
    BY <2>4, <2>5, <2>9 DEF PixelIsAverage
  <2>11. MergedOf(out, c, n, more, size)
    BY <1>3, <2>3, <2>8, <2>9, <2>10 DEF MergedOf
  <2> QED
    BY <2>11 DEF out
<1> QED
  BY <1>2, <1>3

-------------------------------------------------------------------------------
(* What has been read of a dump, and what is merged of it.                 *)
Colours == [m \in Machines |-> Beauty("merged", m)]
Samples == [m \in Machines |-> NumSample("merged", m)]

LEMMA DumpHolds ==
    ASSUME files \in Dumps, NEW format \in Format, NEW id \in FeedbackId
    PROVE  /\ \A slot \in SlotSet(MaxMachines) : Held(format, id, slot) # Missing =>
                Held(format, id, slot) \in Seq(IF slot[3] = "beauty" THEN Int ELSE Nat)
           /\ \A S \in SUBSET (0 .. MaxMachines - 1) :
                (\A m \in S : /\ Held(format, id, <<"merged", m, "beauty">>) # Missing
                              /\ Held(format, id, <<"merged", m, "beautyNumSample">>) # Missing) =>
                \A i \in UNION {DOMAIN Held(format, id, <<"merged", m, "beauty">>) : m \in S} :
                  (\A m \in S : i \in DOMAIN Held(format, id, <<"merged", m, "beauty">>)
                                      \cap DOMAIN Held(format, id, <<"merged", m, "beautyNumSample">>)) =>
                  LET n == SumOver(S, [m \in S |-> Held(format, id, <<"merged", m, "beautyNumSample">>)[i]])
                      c == SumOver(S, [m \in S |-> Held(format, id, <<"merged", m, "beauty">>)[i]
                                                * Held(format, id, <<"merged", m, "beautyNumSample">>)[i]])
                  IN  n # 0 => (c \div n) * n = c
<1>1. Range(Slots(MaxMachines)) = SlotSet(MaxMachines)
  BY VerifyAssumption, SlotsRange
<1> QED
  BY <1>1, DumpsAssumption DEF Held, FileOf

LEMMA LoadedTypes ==
    ASSUME VerifyInv, NEW format \in Format, NEW id \in FeedbackId, LoadedFrom(format, id),
           NEW slot \in SlotSet(numMachines)
    PROVE  /\ slot[3] = "beauty" => buffers[slot] \in Seq(Int)
           /\ slot[3] = "beautyNumSample" => buffers[slot] \in Seq(Nat)
<1>1. slot \in SlotSet(MaxMachines)
  BY SlotsWithin DEF VerifyInv
<1>2. buffers[slot] = Held(format, id, slot) /\ Held(format, id, slot) # Missing
  BY DEF LoadedFrom
<1>3. buffers[slot] \in Seq(IF slot[3] = "beauty" THEN Int ELSE Nat)
  BY <1>1, <1>2, DumpHolds DEF VerifyInv
<1> QED
  BY <1>3

LEMMA BuffersTyped ==
    ASSUME VerifyInv, NEW format \in Format, NEW id \in FeedbackId, LoadedFrom(format, id),
           NEW kind \in MachineKind, NEW m \in Machines
    PROVE  Beauty(kind, m) \in Seq(Int) /\ NumSample(kind, m) \in Seq(Nat)
<1>1. <<kind, m, "beauty">> \in SlotSet(numMachines)
      /\ <<kind, m, "beautyNumSample">> \in SlotSet(numMachines)
  BY DEF SlotSet, SlotsOf, PlaneKind, Machines
<1> QED
  BY <1>1, LoadedTypes DEF Beauty, NumSample

LEMMA MergeAllTyped ==
    ASSUME VerifyInv, NEW format \in Format, NEW id \in FeedbackId, LoadedFrom(format, id)
    PROVE  /\ Beauty("mergeAll", NoMachine) \in Seq(Int)
           /\ NumSample("mergeAll", NoMachine) \in Seq(Nat)
<1>1. <<"mergeAll", NoMachine, "beauty">> \in SlotSet(numMachines)
      /\ <<"mergeAll", NoMachine, "beautyNumSample">> \in SlotSet(numMachines)
  BY DEF SlotSet, SlotsOf, PlaneKind
<1> QED
  BY <1>1, LoadedTypes DEF Beauty, NumSample

LEMMA LoadedImages ==
    ASSUME VerifyInv, NEW format \in Format, NEW id \in FeedbackId, LoadedFrom(format, id)
    PROVE  MachineImages(Colours, Samples, numMachines)
<1> DEFINE c(m) == Held(format, id, <<"merged", m, "beauty">>)
           n(m) == Held(format, id, <<"merged", m, "beautyNumSample">>)
<1>1. files \in Dumps /\ numMachines \in Nat /\ Machines \subseteq 0 .. MaxMachines - 1
  BY VerifyAssumption DEF VerifyInv, Machines
<1>2. ASSUME NEW m \in Machines
      PROVE  /\ Colours[m] = c(m) /\ Samples[m] = n(m) /\ c(m) # Missing /\ n(m) # Missing
             /\ Colours[m] \in Seq(Int) /\ Samples[m] \in Seq(Nat)
  <2>1. "merged" \in MachineKind
    BY DEF MachineKind
  <2>2. <<"merged", m, "beauty">> \in SlotSet(numMachines)
        /\ <<"merged", m, "beautyNumSample">> \in SlotSet(numMachines)
    BY <2>1 DEF SlotSet, SlotsOf, PlaneKind, Machines
  <2>3. Beauty("merged", m) = c(m) /\ NumSample("merged", m) = n(m) /\ c(m) # Missing /\ n(m) # Missing
    BY <2>2 DEF LoadedFrom, Beauty, NumSample
  <2>4. Beauty("merged", m) \in Seq(Int) /\ NumSample("merged", m) \in Seq(Nat)
    BY <2>1, BuffersTyped
  <2> QED
    BY <2>3, <2>4 DEF Colours, Samples
<1>3. ASSUME NEW S \in SUBSET Machines, NEW size \in Nat, AllFit(Colours, Samples, S, size),
             NEW i \in 1 .. size, Counted(Samples, S, i) # 0
      PROVE  (Light(Colours, Samples, S, i) \div Counted(Samples, S, i)) * Counted(Samples, S, i)
               = Light(Colours, Samples, S, i)
  <2>1. S \in SUBSET (0 .. MaxMachines - 1) /\ \A m \in S : c(m) # Missing /\ n(m) # Missing
    BY <1>1, <1>2
  <2>2. ASSUME NEW m \in S PROVE i \in DOMAIN c(m) /\ i \in DOMAIN n(m)
    <3>1. /\ c(m) \in Seq(Int) /\ n(m) \in Seq(Nat) /\ Len(c(m)) = size /\ Len(n(m)) = size
      BY <1>2, <1>3 DEF AllFit, Fits
    <3> QED
      BY <3>1, LenProperties
  <2>3. S # {}
    <3>1. Counted(Samples, {}, i) = 0
      BY SumOverNone DEF Counted
    <3> QED
      BY <1>3, <3>1
  <2>4. i \in UNION {DOMAIN c(m) : m \in S}
    BY <2>2, <2>3
  <2> DEFINE T == SumOver(S, [m \in S |-> n(m)[i]])
             light == SumOver(S, [m \in S |-> c(m)[i] * n(m)[i]])
  <2>5. T # 0 => (light \div T) * T = light
    <3>1. \A j \in UNION {DOMAIN c(m) : m \in S} :
            (\A m \in S : j \in DOMAIN c(m) \cap DOMAIN n(m)) =>
              LET total == SumOver(S, [m \in S |-> n(m)[j]])
                  sum == SumOver(S, [m \in S |-> c(m)[j] * n(m)[j]])
              IN  total # 0 => (sum \div total) * total = sum
      BY <1>1, <2>1, DumpHolds
    <3>2. \A m \in S : i \in DOMAIN c(m) \cap DOMAIN n(m)
      BY <2>2
    <3> HIDE DEF c, n
    <3> QED
      BY <2>4, <3>1, <3>2
  <2>6. Counted(Samples, S, i) = T
    <3>1. [m \in S |-> Samples[m][i]] = [m \in S |-> n(m)[i]]
      BY <1>2
    <3> QED
      BY <3>1 DEF Counted
  <2>7. Light(Colours, Samples, S, i) = light
    <3>1. [m \in S |-> Colours[m][i] * Samples[m][i]] = [m \in S |-> c(m)[i] * n(m)[i]]
      BY <1>2
    <3> QED
      BY <3>1 DEF Light
  <2> HIDE DEF T, light
  <2> QED
    BY <1>3, <2>5, <2>6, <2>7
<1> QED
  BY <1>1, <1>2, <1>3 DEF MachineImages, Machines

LEMMA CombineMergedIs ==
    ASSUME VerifyInv, NEW format \in Format, NEW id \in FeedbackId, LoadedFrom(format, id),
           NEW omit
    PROVE  MergedOf(CombineMerged(omit), Colours, Samples, Machines \ {omit},
                    Len(Beauty("feedback", 0)))
<1> DEFINE L == numMachines
           size == Len(Beauty("feedback", 0))
           FbRec == [beauty : Seq(Int), numSample : Seq(Nat), ok : BOOLEAN]
           S(k) == (0 .. k - 1) \ {omit}
           J == [k \in 0 .. L |-> {w \in FbRec : MergedOf(w, Colours, Samples, S(k), size)}]
           Round(w, k) == IF k - 1 = omit THEN w
                          ELSE MergeFb(w, Beauty("merged", k - 1), NumSample("merged", k - 1))
           body == [p \in FbRec \X (1 .. L) |-> Round(p[1], p[2])]
           Run(f) == f = [m \in 0 .. L |-> IF m = 0 THEN CleanFb(size) ELSE Round(f[m - 1], m)]
           combined == CHOOSE f : Run(f)
<1>1. L \in Nat /\ 0 \in Machines /\ size \in Nat
  <2>1. L \in Nat /\ 0 \in Machines
    BY SlotsWithin DEF VerifyInv, LoadedFrom, Machines
  <2>2. "feedback" \in MachineKind
    BY DEF MachineKind
  <2>3. Beauty("feedback", 0) \in Seq(Int)
    BY <2>1, <2>2, BuffersTyped
  <2> QED
    BY <2>1, <2>3, LenProperties
<1>2. MachineImages(Colours, Samples, L)
  BY LoadedImages
<1>3. CombineMerged(omit) = combined[L]
  BY DEF CombineMerged
<1> HIDE DEF size, FbRec
<1>4. CleanFb(size) \in J[0]
  <2>1. S(0) = {}
    OBVIOUS
  <2>2. MergedOf(CleanFb(size), Colours, Samples, {}, size)
    BY <1>1, NothingMerged
  <2>3. CleanFb(size) \in FbRec
    BY <2>2 DEF MergedOf, FbRec
  <2>4. 0 \in 0 .. L
    BY <1>1
  <2> HIDE DEF S
  <2> QED
    BY <2>1, <2>2, <2>3, <2>4
<1>5. ASSUME NEW k \in 1 .. L, NEW w \in J[k - 1]
      PROVE  w \in FbRec /\ Round(w, k) \in J[k]
  <2>1. k - 1 \in 0 .. L - 1 /\ k - 1 \in 0 .. L /\ k \in 0 .. L /\ k - 1 \in Machines
    BY <1>1 DEF Machines
  <2>2. w \in FbRec /\ MergedOf(w, Colours, Samples, S(k - 1), size)
    BY <2>1
  <2>3. CASE k - 1 = omit
    <3>1. S(k) = S(k - 1)
      BY <2>1, <2>3
    <3>2. Round(w, k) = w
      BY <2>3
    <3> HIDE DEF S, Round
    <3> QED
      BY <2>1, <2>2, <3>1, <3>2
  <2>4. CASE k - 1 # omit
    <3>1. OneMore(S(k - 1), k - 1, S(k)) /\ S(k - 1) \in SUBSET (0 .. L - 1)
      <4>1. 0 .. k - 1 = (0 .. (k - 1) - 1) \cup {k - 1}
        BY <2>1
      <4>2. k - 1 \notin 0 .. (k - 1) - 1 /\ 0 .. (k - 1) - 1 \subseteq 0 .. L - 1
        BY <1>1, <2>1
      <4> QED
        BY <2>4, <4>1, <4>2 DEF OneMore
    <3>2. Round(w, k) = MergeFb(w, Colours[k - 1], Samples[k - 1])
      BY <2>1, <2>4 DEF Colours, Samples
    <3> HIDE DEF S, Round
    <3>3. MergedOf(Round(w, k), Colours, Samples, S(k), size)
      BY <1>1, <1>2, <2>1, <2>2, <3>1, <3>2, MergeFbMerges
    <3>4. Round(w, k) \in FbRec
      BY <3>3 DEF MergedOf, FbRec
    <3> QED
      BY <2>1, <2>2, <3>3, <3>4
  <2> QED
    BY <2>3, <2>4
<1> HIDE DEF J, Round, S
<1>6. StaysIn(J, body, L)
  <2>1. ASSUME NEW k \in 1 .. L, NEW w \in J[k - 1] PROVE body[<<w, k>>] \in J[k]
    <3>1. w \in FbRec /\ Round(w, k) \in J[k]
      BY <1>5
    <3>2. body[<<w, k>>] = Round(w, k)
      BY <3>1
    <3> HIDE DEF body
    <3> QED
      BY <3>1, <3>2
  <2> HIDE DEF body
  <2> QED
    BY <2>1 DEF StaysIn
<1>7. PICK f : StayingRun(f, J, body, CleanFb(size), L)
  <2> HIDE DEF body
  <2> QED
    BY <1>1, <1>4, <1>6, RunStays
<1>8. /\ f[0] = CleanFb(size)
      /\ \A k \in 0 .. L : f[k] \in J[k]
      /\ \A k \in 1 .. L : f[k] = Round(f[k - 1], k)
  <2>1. ASSUME NEW k \in 1 .. L PROVE f[k] = Round(f[k - 1], k)
    <3>1. k - 1 \in 0 .. L
      BY <1>1
    <3>2. f[k - 1] \in J[k - 1] /\ f[k] = body[<<f[k - 1], k>>]
      <4> HIDE DEF body
      <4> QED
        BY <1>7, <3>1 DEF StayingRun
    <3>3. f[k - 1] \in FbRec
      BY <1>5, <3>2
    <3>4. body[<<f[k - 1], k>>] = Round(f[k - 1], k)
      BY <3>3
    <3> HIDE DEF body
    <3> QED
      BY <3>2, <3>4
  <2> HIDE DEF body
  <2> QED
    BY <1>7, <2>1 DEF StayingRun
<1> HIDE DEF body
<1>9. Run(combined)
  <2> DEFINE g == [k \in 0 .. L |-> f[k]]
  <2>1. ASSUME NEW k \in 0 .. L
        PROVE  f[k] = IF k = 0 THEN CleanFb(size) ELSE Round(g[k - 1], k)
    <3>1. CASE k = 0
      BY <1>8, <3>1
    <3>2. CASE k # 0
      <4>1. k \in 1 .. L /\ k - 1 \in 0 .. L
        BY <1>1, <3>2
      <4>2. g[k - 1] = f[k - 1]
        BY <4>1
      <4> HIDE DEF g
      <4> QED
        BY <1>8, <3>2, <4>1, <4>2
    <3> QED
      BY <3>1, <3>2
  <2>2. g = [k \in 0 .. L |-> IF k = 0 THEN CleanFb(size) ELSE Round(g[k - 1], k)]
    BY <2>1
  <2> HIDE DEF g
  <2>3. Run(g)
    BY <2>2
  <2> QED
    BY <2>3
<1> HIDE DEF combined
<1>10. \A k \in 0 .. L : combined[k] = IF k = 0 THEN CleanFb(size) ELSE Round(combined[k - 1], k)
  BY <1>9
<1>11. InStep(combined, f, L)
  <2>1. combined[0] = f[0]
    BY <1>1, <1>8, <1>10
  <2>2. ASSUME NEW k \in 1 .. L, combined[k - 1] = f[k - 1] PROVE combined[k] = f[k]
    <3>1. k \in 0 .. L /\ k # 0
      OBVIOUS
    <3>2. combined[k] = Round(combined[k - 1], k)
      BY <1>10, <3>1
    <3> QED
      BY <1>8, <2>2, <3>2
  <2> QED
    BY <1>1, <2>1, <2>2 DEF InStep
<1>12. combined[L] = f[L]
  BY <1>1, <1>11, LoopsAgree
<1>13. f[L] \in J[L]
  BY <1>1, <1>8
<1>14. MergedOf(f[L], Colours, Samples, S(L), size)
  BY <1>1, <1>13 DEF J
<1>15. S(L) = Machines \ {omit}
  BY DEF S, Machines
<1> QED
  BY <1>3, <1>12, <1>14, <1>15 DEF size

-------------------------------------------------------------------------------
(* What is merged of some machines is, within the tolerance, an image x    *)
(* with the samples y if and only if x is the average of these machines.   *)
LEMMA CountedType ==
    ASSUME NEW c, NEW n, NEW L, MachineImages(c, n, L), NEW S \in SUBSET (0 .. L - 1),
           NEW size \in Nat, NEW i \in 1 .. size, AllFit(c, n, S, size)
    PROVE  Counted(n, S, i) \in Nat /\ Light(c, n, S, i) \in Int
<1> DEFINE ns == [m \in S |-> n[m][i]]
           cs == [m \in S |-> c[m][i] * n[m][i]]
<1>1. ASSUME NEW m \in S PROVE ns[m] \in Nat /\ cs[m] \in Int
  <2>1. c[m] \in Seq(Int) /\ n[m] \in Seq(Nat) /\ Len(c[m]) = size /\ Len(n[m]) = size
    BY DEF MachineImages, AllFit, Fits
  <2>2. c[m][i] \in Int /\ n[m][i] \in Nat
    BY <2>1, ElementOfSeq
  <2> QED
    BY <2>2
<1>2. IsFiniteSet(S)
  <2>1. IsFiniteSet(0 .. L - 1)
    BY FS_Interval DEF MachineImages
  <2> QED
    BY <2>1, FS_Subset
<1>3. Counted(n, S, i) = SumOver(S, ns) /\ Light(c, n, S, i) = SumOver(S, cs)
  BY DEF Counted, Light
<1> HIDE DEF ns, cs
<1>4. Numbers(cs, S)
  BY <1>1 DEF Numbers
<1> QED
  BY <1>1, <1>2, <1>3, <1>4, SumOverType

PixelClose(c, n, S, x, y, i) ==
    /\ Abs(y[i] - Counted(n, S, i)) <= Tolerance
    /\ IF Counted(n, S, i) = 0 THEN Abs(x[i]) <= Tolerance
       ELSE Abs(x[i] * Counted(n, S, i) - Light(c, n, S, i)) <= Tolerance * Counted(n, S, i)

DumpedAs(dump, c, n, S) ==
    \A m \in S : /\ dump[<<"merged", m, "beauty">>] = c[m]
                 /\ dump[<<"merged", m, "beautyNumSample">>] = n[m]

LEMMA AverageOfDump ==
    ASSUME NEW c, NEW n, NEW S, NEW dump, DumpedAs(dump, c, n, S), NEW x, NEW y
    PROVE  IsAverageOf(S, dump, x, y) <=> /\ AllFit(c, n, S, Len(x))
                                          /\ Len(y) = Len(x)
                                          /\ \A i \in DOMAIN x : PixelClose(c, n, S, x, y, i)
<1> DEFINE dc(m) == dump[<<"merged", m, "beauty">>]
           dn(m) == dump[<<"merged", m, "beautyNumSample">>]
<1>1. \A m \in S : dc(m) = c[m] /\ dn(m) = n[m]
  BY DEF DumpedAs
<1>2. ASSUME NEW i
      PROVE  /\ SumOver(S, [m \in S |-> dn(m)[i]]) = Counted(n, S, i)
             /\ SumOver(S, [m \in S |-> dc(m)[i] * dn(m)[i]]) = Light(c, n, S, i)
  <2>1. [m \in S |-> dn(m)[i]] = [m \in S |-> n[m][i]]
    BY <1>1
  <2>2. [m \in S |-> dc(m)[i] * dn(m)[i]] = [m \in S |-> c[m][i] * n[m][i]]
    BY <1>1
  <2> QED
    BY <2>1, <2>2 DEF Counted, Light
<1>3. IsAverageOf(S, dump, x, y) <=>
        /\ \A m \in S : Len(dc(m)) = Len(x) /\ Len(dn(m)) = Len(x)
        /\ Len(y) = Len(x)
        /\ \A i \in DOMAIN x : PixelClose(c, n, S, x, y, i)
  <2> DEFINE T(i) == SumOver(S, [m \in S |-> dn(m)[i]])
             light(i) == SumOver(S, [m \in S |-> dc(m)[i] * dn(m)[i]])
             Close(i) == /\ Abs(y[i] - T(i)) <= Tolerance
                         /\ IF T(i) = 0 THEN Abs(x[i]) <= Tolerance
                            ELSE Abs(x[i] * T(i) - light(i)) <= Tolerance * T(i)
  <2>1. IsAverageOf(S, dump, x, y) <=>
          /\ \A m \in S : Len(dc(m)) = Len(x) /\ Len(dn(m)) = Len(x)
          /\ Len(y) = Len(x)
          /\ \A i \in DOMAIN x : Close(i)
    BY DEF IsAverageOf
  <2>2. \A i : T(i) = Counted(n, S, i) /\ light(i) = Light(c, n, S, i)
    BY <1>2
  <2> HIDE DEF T, light
  <2>3. \A i : Close(i) <=> PixelClose(c, n, S, x, y, i)
    BY <2>2 DEF PixelClose
  <2> HIDE DEF Close, dc, dn
  <2> QED
    BY <2>1, <2>3
<1>4. (\A m \in S : Len(dc(m)) = Len(x) /\ Len(dn(m)) = Len(x)) <=> AllFit(c, n, S, Len(x))
  <2> HIDE DEF dc, dn
  <2>1. ASSUME NEW m \in S
        PROVE  (Len(dc(m)) = Len(x) /\ Len(dn(m)) = Len(x)) <=> Fits(c, n, m, Len(x))
    BY <1>1 DEF Fits
  <2> QED
    BY <2>1 DEF AllFit
<1> QED
  BY <1>3, <1>4

LEMMA MergedIsAverage ==
    ASSUME NEW c, NEW n, NEW L, MachineImages(c, n, L), NEW S \in SUBSET (0 .. L - 1),
           NEW size \in Nat, NEW w, MergedOf(w, c, n, S, size),
           NEW dump, DumpedAs(dump, c, n, S), NEW x \in Seq(Int), NEW y \in Seq(Nat)
    PROVE  (w.ok /\ IsSame(w.beauty, x) /\ IsSame(w.numSample, y))
             <=> (Len(x) = size /\ IsAverageOf(S, dump, x, y))
<1>1. /\ w.beauty \in Seq(Int) /\ w.numSample \in Seq(Nat)
      /\ Len(w.beauty) = size /\ Len(w.numSample) = size
      /\ w.ok <=> AllFit(c, n, S, size)
  BY DEF MergedOf
<1>2. CASE ~ (w.ok /\ Len(x) = size /\ Len(y) = size)
  <2>1. ~ (w.ok /\ IsSame(w.beauty, x) /\ IsSame(w.numSample, y))
    BY <1>1, <1>2 DEF IsSame
  <2>2. ~ (Len(x) = size /\ IsAverageOf(S, dump, x, y))
    <3> SUFFICES ASSUME Len(x) = size, IsAverageOf(S, dump, x, y) PROVE FALSE
      OBVIOUS
    <3>1. AllFit(c, n, S, Len(x)) /\ Len(y) = Len(x)
      BY AverageOfDump
    <3> QED
      BY <1>1, <1>2, <3>1
  <2> QED
    BY <2>1, <2>2
<1>3. CASE w.ok /\ Len(x) = size /\ Len(y) = size
  <2>1. /\ DOMAIN x = 1 .. size /\ DOMAIN w.beauty = 1 .. size /\ DOMAIN w.numSample = 1 .. size
        /\ AllFit(c, n, S, size)
    BY <1>1, <1>3, LenProperties
  <2>2. ASSUME NEW i \in 1 .. size
        PROVE  PixelClose(c, n, S, x, y, i) <=>
                 /\ Abs(w.beauty[i] - x[i]) <= Tolerance
                 /\ Abs(w.numSample[i] - y[i]) <= Tolerance
    <3> DEFINE T == Counted(n, S, i)
               light == Light(c, n, S, i)
    <3>1. T \in Nat /\ light \in Int
      BY <2>1, CountedType
    <3>2. w.numSample[i] = T /\ w.beauty[i] * T = light /\ (T = 0 => w.beauty[i] = 0)
      BY <1>3 DEF MergedOf, PixelIsAverage
    <3>3. w.beauty[i] \in Int /\ x[i] \in Int /\ y[i] \in Nat
      BY <1>1, <1>3, ElementOfSeq
    <3>4. PixelClose(c, n, S, x, y, i) <=>
            /\ Abs(y[i] - T) <= Tolerance
            /\ IF T = 0 THEN Abs(x[i]) <= Tolerance
               ELSE Abs(x[i] * T - light) <= Tolerance * T
      BY DEF PixelClose
    <3> HIDE DEF T, light
    <3>5. Abs(y[i] - T) = Abs(w.numSample[i] - y[i])
      BY <3>1, <3>2, <3>3 DEF Abs
    <3>6. CASE T = 0
      <4>1. Abs(w.beauty[i] - x[i]) = Abs(x[i])
        <5>1. w.beauty[i] = 0
          BY <3>2, <3>6
        <5> QED
          BY <3>3, <5>1, AbsMinus
      <4> QED
        BY <3>4, <3>5, <3>6, <4>1
    <3>7. CASE T # 0
      <4>1. T \in Nat \ {0} /\ Tolerance \in Nat
        BY <3>1, <3>7, VerifyAssumption
      <4>2. Abs(x[i] * T - w.beauty[i] * T) <= Tolerance * T
              <=> Abs(w.beauty[i] - x[i]) <= Tolerance
        BY <3>3, <4>1, ToleranceTimes
      <4> QED
        BY <3>2, <3>4, <3>5, <3>7, <4>2
    <3> QED
      BY <3>6, <3>7
  <2>3. IsAverageOf(S, dump, x, y) <=> \A i \in 1 .. size : PixelClose(c, n, S, x, y, i)
    BY <1>3, <2>1, AverageOfDump
  <2>4. (IsSame(w.beauty, x) /\ IsSame(w.numSample, y)) <=>
          \A i \in 1 .. size : /\ Abs(w.beauty[i] - x[i]) <= Tolerance
                               /\ Abs(w.numSample[i] - y[i]) <= Tolerance
    BY <1>1, <1>3, <2>1 DEF IsSame
  <2> QED
    BY <1>3, <2>2, <2>3, <2>4
<1> QED
  BY <1>2, <1>3

-------------------------------------------------------------------------------
(* The verdict.  One by one, what the four checks of verify compare.       *)
LEMMA SameIsSymmetric ==
    ASSUME NEW a \in Seq(Int), NEW b \in Seq(Int)
    PROVE  IsSame(a, b) <=> IsSame(b, a)
<1>1. DOMAIN a = 1 .. Len(a) /\ DOMAIN b = 1 .. Len(b)
  BY LenProperties
<1>2. ASSUME NEW x \in Int, NEW y \in Int PROVE Abs(x - y) = Abs(y - x)
  BY DEF Abs
<1>3. ASSUME Len(a) = Len(b), NEW i \in 1 .. Len(a) PROVE Abs(a[i] - b[i]) = Abs(b[i] - a[i])
  <2>1. a[i] \in Int /\ b[i] \in Int
    BY <1>3, ElementOfSeq
  <2> QED
    BY <1>2, <2>1
<1> QED
  BY <1>1, <1>3 DEF IsSame

(* The dump that VerdictIsRight speaks of is what the buffers hold.        *)
IsLoadedDump(dump) ==
    dump = [slot \in Range(Slots(numMachines)) |->
              AsRead(loaded[1], slot, FileOf(loaded[1], loaded[2], slot))]

DumpShows(dump) ==
    /\ \A kind \in MachineKind, m \in Machines :
         /\ dump[<<kind, m, "beauty">>] = Beauty(kind, m)
         /\ dump[<<kind, m, "beautyNumSample">>] = NumSample(kind, m)
    /\ dump[<<"mergeAll", NoMachine, "beauty">>] = Beauty("mergeAll", NoMachine)
    /\ dump[<<"mergeAll", NoMachine, "beautyNumSample">>] = NumSample("mergeAll", NoMachine)

LEMMA LoadedDumpShows ==
    ASSUME VerifyInv, NEW format \in Format, NEW id \in FeedbackId, LoadedFrom(format, id),
           NEW dump, IsLoadedDump(dump)
    PROVE  DumpShows(dump)
<1>1. Range(Slots(numMachines)) = SlotSet(numMachines)
  BY SlotsWithin, SlotsRange DEF VerifyInv
<1>2. loaded[1] = format /\ loaded[2] = id
  BY DEF LoadedFrom
<1>3. ASSUME NEW slot \in SlotSet(numMachines) PROVE dump[slot] = buffers[slot]
  <2>1. dump[slot] = Held(format, id, slot)
    BY <1>1, <1>2 DEF IsLoadedDump, Held
  <2> QED
    BY <2>1 DEF LoadedFrom
<1>4. ASSUME NEW kind \in MachineKind, NEW m \in Machines
      PROVE  <<kind, m, "beauty">> \in SlotSet(numMachines)
             /\ <<kind, m, "beautyNumSample">> \in SlotSet(numMachines)
  BY DEF SlotSet, SlotsOf, PlaneKind, Machines
<1>5. <<"mergeAll", NoMachine, "beauty">> \in SlotSet(numMachines)
      /\ <<"mergeAll", NoMachine, "beautyNumSample">> \in SlotSet(numMachines)
  BY DEF SlotSet, SlotsOf, PlaneKind
<1> QED
  BY <1>3, <1>4, <1>5 DEF DumpShows, Beauty, NumSample

(* The images of each check, as they were dumped.                          *)
SameImage(kind, m, other, n) ==
    IsSame(Beauty(kind, m), Beauty(other, n)) /\ IsSame(NumSample(kind, m), NumSample(other, n))

AverageImage(S, dump, kind, m, size) ==
    /\ Len(Beauty(kind, m)) = size
    /\ IsAverageOf(S, dump, Beauty(kind, m), NumSample(kind, m))

LEMMA SameImageIs ==
    ASSUME NEW kind, NEW m, NEW other, NEW n,
           Beauty(kind, m) \in Seq(Int), NumSample(kind, m) \in Seq(Nat),
           Beauty(other, n) \in Seq(Int), NumSample(other, n) \in Seq(Nat)
    PROVE  SameImage(kind, m, other, n) <=> IsSameAs(kind, m, Beauty(other, n), NumSample(other, n))
<1>1. NumSample(kind, m) \in Seq(Int) /\ NumSample(other, n) \in Seq(Int)
  BY SeqMonotonic
<1>2. IsSame(Beauty(kind, m), Beauty(other, n)) <=> IsSame(Beauty(other, n), Beauty(kind, m))
  BY SameIsSymmetric
<1>3. IsSame(NumSample(kind, m), NumSample(other, n)) <=> IsSame(NumSample(other, n), NumSample(kind, m))
  BY <1>1, SameIsSymmetric
<1> QED
  BY <1>2, <1>3 DEF SameImage, IsSameAs

LEMMA CombinedIsAverage ==
    ASSUME VerifyInv, NEW format \in Format, NEW id \in FeedbackId, LoadedFrom(format, id),
           NEW dump, DumpShows(dump), NEW omit, NEW kind \in MachineKind, NEW m \in Machines
    PROVE  (/\ CombineMerged(omit).ok
            /\ IsSameAs(kind, m, CombineMerged(omit).beauty, CombineMerged(omit).numSample))
             <=> AverageImage(Machines \ {omit}, dump, kind, m, Len(Beauty("feedback", 0)))
<1> DEFINE w == CombineMerged(omit)
           S == Machines \ {omit}
           size == Len(Beauty("feedback", 0))
           x == Beauty(kind, m)
           y == NumSample(kind, m)
<1>1. MergedOf(w, Colours, Samples, S, size) /\ MachineImages(Colours, Samples, numMachines)
  BY CombineMergedIs, LoadedImages
<1>2. S \in SUBSET (0 .. numMachines - 1)
  BY DEF Machines
<1>3. "feedback" \in MachineKind /\ "merged" \in MachineKind
  BY DEF MachineKind
<1>4. size \in Nat
  <2>1. 0 \in Machines
    BY SlotsWithin DEF VerifyInv, LoadedFrom, Machines
  <2> QED
    BY <1>3, <2>1, BuffersTyped, LenProperties
<1>5. x \in Seq(Int) /\ y \in Seq(Nat)
  BY BuffersTyped
<1>6. DumpedAs(dump, Colours, Samples, S)
  BY <1>3 DEF DumpedAs, DumpShows, Colours, Samples
<1> HIDE DEF w, S, size, x, y
<1>7. (w.ok /\ IsSame(w.beauty, x) /\ IsSame(w.numSample, y))
        <=> (Len(x) = size /\ IsAverageOf(S, dump, x, y))
  BY <1>1, <1>2, <1>4, <1>5, <1>6, MergedIsAverage
<1> QED
  BY <1>7 DEF w, S, size, x, y, IsSameAs, AverageImage

(* All four together say that the dump is consistent.                      *)
LEMMA VerifyIsConsistent ==
    ASSUME VerifyInv, NEW format \in Format, NEW id \in FeedbackId, LoadedFrom(format, id),
           NEW dump, IsLoadedDump(dump)
    PROVE  (/\ VerifyMergeAllWithMcrtFeedback
            /\ VerifyMergeWithMcrtDecoded
            /\ VerifyReconstructMergeWithFeedback
            /\ VerifyMinusOne) <=> Consistent(dump, Machines)
<1> DEFINE size == Len(Beauty("feedback", 0))
           Same(m) == SameImage("feedback", m, "mergeAll", NoMachine)
           Decoded(m) == SameImage("decoded", m, "merge", m)
           All(m, n) == AverageImage(Machines, dump, "feedback", m, n)
           Others(m, n) == AverageImage(Machines \ {m}, dump, "minusOne", m, n)
<1>1. DumpShows(dump) /\ 0 \in Machines
  BY LoadedDumpShows, SlotsWithin DEF VerifyInv, LoadedFrom, Machines
<1>2. {"feedback", "decoded", "merge", "minusOne"} \subseteq MachineKind
  BY DEF MachineKind
<1>3. VerifyMergeAllWithMcrtFeedback <=> \A m \in Machines : Same(m)
  <2>1. ASSUME NEW m \in Machines
        PROVE  Same(m) <=> IsSameAs("feedback", m, Beauty("mergeAll", NoMachine),
                                                   NumSample("mergeAll", NoMachine))
    BY <1>2, BuffersTyped, MergeAllTyped, SameImageIs
  <2> QED
    BY <2>1 DEF VerifyMergeAllWithMcrtFeedback
<1>4. VerifyMergeWithMcrtDecoded <=> \A m \in Machines : Decoded(m)
  <2>1. ASSUME NEW m \in Machines
        PROVE  Decoded(m) <=> IsSameAs("decoded", m, Beauty("merge", m), NumSample("merge", m))
    BY <1>2, BuffersTyped, SameImageIs
  <2> QED
    BY <2>1 DEF VerifyMergeWithMcrtDecoded
<1>5. VerifyReconstructMergeWithFeedback <=> \A m \in Machines : All(m, size)
  <2>1. Machines \ {NoMachine} = Machines
    BY VerifyAssumption DEF VerifyInv, Machines, NoMachine
  <2>2. ASSUME NEW m \in Machines
        PROVE  (/\ CombineMerged(NoMachine).ok
                /\ IsSameAs("feedback", m, CombineMerged(NoMachine).beauty,
                                           CombineMerged(NoMachine).numSample))
                 <=> AverageImage(Machines \ {NoMachine}, dump, "feedback", m, size)
    BY <1>1, <1>2, CombinedIsAverage
  <2> QED
    BY <1>1, <2>1, <2>2 DEF VerifyReconstructMergeWithFeedback
<1>6. VerifyMinusOne <=> \A m \in Machines : Others(m, size)
  <2>1. ASSUME NEW m \in Machines
        PROVE  (/\ CombineMerged(m).ok
                /\ IsSameAs("minusOne", m, CombineMerged(m).beauty, CombineMerged(m).numSample))
                 <=> Others(m, size)
    BY <1>1, <1>2, CombinedIsAverage
  <2> QED
    BY <2>1 DEF VerifyMinusOne
<1>7. ASSUME NEW m \in Machines, \A k \in Machines : Same(k)
      PROVE  Len(Beauty("feedback", m)) = size
  BY <1>1, <1>7 DEF SameImage, IsSame
<1>8. Consistent(dump, Machines) <=>
        \A m \in Machines : /\ Same(m) /\ Decoded(m)
                            /\ All(m, Len(Beauty("feedback", m)))
                            /\ Others(m, Len(Beauty("feedback", m)))
  <2>1. Range(Plane) = PlaneKind
    BY DEF Range, Plane, PlaneKind
  <2>2. ASSUME NEW m \in Machines
        PROVE  (\A p \in PlaneKind :
                  /\ IsSame(dump[<<"feedback", m, p>>], dump[<<"mergeAll", NoMachine, p>>])
                  /\ IsSame(dump[<<"decoded", m, p>>], dump[<<"merge", m, p>>]))
                 <=> Same(m) /\ Decoded(m)
    BY <1>1, <1>2 DEF PlaneKind, SameImage, DumpShows
  <2>3. ASSUME NEW m \in Machines
        PROVE  /\ dump[<<"feedback", m, "beauty">>] = Beauty("feedback", m)
               /\ dump[<<"feedback", m, "beautyNumSample">>] = NumSample("feedback", m)
               /\ dump[<<"minusOne", m, "beauty">>] = Beauty("minusOne", m)
               /\ dump[<<"minusOne", m, "beautyNumSample">>] = NumSample("minusOne", m)
    BY <1>1, <1>2 DEF DumpShows
  <2> DEFINE C(m) ==
        /\ \A p \in Range(Plane) :
             /\ IsSame(dump[<<"feedback", m, p>>], dump[<<"mergeAll", NoMachine, p>>])
             /\ IsSame(dump[<<"decoded", m, p>>], dump[<<"merge", m, p>>])
        /\ IsAverageOf(Machines, dump, dump[<<"feedback", m, "beauty">>],
                                       dump[<<"feedback", m, "beautyNumSample">>])
        /\ Len(dump[<<"minusOne", m, "beauty">>]) = Len(dump[<<"feedback", m, "beauty">>])
        /\ IsAverageOf(Machines \ {m}, dump, dump[<<"minusOne", m, "beauty">>],
                                             dump[<<"minusOne", m, "beautyNumSample">>])
  <2>4. Consistent(dump, Machines) <=> \A m \in Machines : C(m)
    BY DEF Consistent
  <2>5. ASSUME NEW m \in Machines
        PROVE  C(m) <=> /\ Same(m) /\ Decoded(m)
                        /\ All(m, Len(Beauty("feedback", m)))
                        /\ Others(m, Len(Beauty("feedback", m)))
    BY <2>1, <2>2, <2>3 DEF AverageImage
  <2> HIDE DEF C, Same, Decoded, All, Others
  <2> QED
    BY <2>4, <2>5
<1> HIDE DEF size, Same, Decoded, All, Others
<1>9. (/\ \A m \in Machines : Same(m)
       /\ \A m \in Machines : Decoded(m)
       /\ \A m \in Machines : All(m, size)
       /\ \A m \in Machines : Others(m, size)) <=> Consistent(dump, Machines)
  BY <1>7, <1>8
<1> QED
  BY <1>3, <1>4, <1>5, <1>6, <1>9

LEMMA VerdictStep == VerifyInv /\ [VerifyNext]_verifyVars =>
    [VerifyOption /\ loaded # <<>> =>
        LET dump == [slot \in Range(Slots(numMachines)) |->
                        AsRead(loaded[1], slot, FileOf(loaded[1], loaded[2], slot))]
        IN  verdict' = "verified" <=> Consistent(dump, Machines)]_verifyVars
<1> DEFINE dump == [slot \in Range(Slots(numMachines)) |->
                      AsRead(loaded[1], slot, FileOf(loaded[1], loaded[2], slot))]
<1> SUFFICES ASSUME VerifyInv, VerifyOption, loaded # <<>>
             PROVE  verdict' = "verified" <=> Consistent(dump, Machines)
  OBVIOUS
<1>1. PICK format \in Format, id \in FeedbackId : LoadedFrom(format, id)
  BY DEF VerifyInv
<1> DEFINE right == /\ VerifyMergeAllWithMcrtFeedback
                    /\ VerifyMergeWithMcrtDecoded
                    /\ VerifyReconstructMergeWithFeedback
                    /\ VerifyMinusOne
<1>2. IsLoadedDump(dump)
  BY DEF IsLoadedDump
<1> HIDE DEF dump
<1>3. right <=> Consistent(dump, Machines)
  BY <1>1, <1>2, VerifyIsConsistent
<1>4. VerifyResults = {right}
  <2>1. numMachines # 0 /\ Machines \subseteq readMachines
    BY <1>1 DEF LoadedFrom
  <2> QED
    BY <2>1 DEF VerifyResults
<1> HIDE DEF right
<1>5. PICK ok \in VerifyResults : verdict' = IF ok THEN "verified" ELSE "failed"
  BY DEF VerifyOption
<1>6. ok = right
  BY <1>4, <1>5
<1>7. verdict' = "verified" <=> ok
  BY <1>5
<1> QED
  BY <1>3, <1>6, <1>7

(* Whatever was read before and however many machines there are, verify    *)
(* accepts a dump if and only if it is consistent.                         *)
THEOREM VerdictIsAlwaysRight == VerifySpec => VerdictIsRight
<1>1. VerifyInit => VerifyInv
  BY VerifyStarts
<1>2. VerifyInv /\ [VerifyNext]_verifyVars => VerifyInv'
  BY VerifyStep
<1> QED
  BY <1>1, <1>2, VerdictStep, PTL DEF VerifySpec, VerdictIsRight
===============================================================================
