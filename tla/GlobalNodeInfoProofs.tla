------------------------- MODULE GlobalNodeInfoProofs -------------------------
(***************************************************************************)
(* GlobalNodeInfo: nothing that an MCRT computation sets is lost or        *)
(* overtaken on its way to the client, every comment arrives once and in   *)
(* order, and the clocks agree with what is shown of them.                 *)
(*                                                                         *)
(* A sender and its receiver are related by what the receiver will be once *)
(* it has decoded the messages in the channel (its base) and then what the *)
(* sender has queued (Rest).  Whatever is done to a sender passes into its *)
(* queue (Passes); to send the queue only moves it to the base; and to     *)
(* decode a message moves it from there into the receiver.  What a         *)
(* receiver will be depends on nothing but its values and its comments     *)
(* (Ahead), so that it does not matter what it has queued itself.          *)
(*                                                                         *)
(* The clocks have an invariant of their own, which holds whatever other   *)
(* threads set: a machine is told of by itself alone, so that the name of  *)
(* a host finds a McrtNodeInfo of that host, and the last offset that is   *)
(* sent there undoes the shift that was set.                               *)
(***************************************************************************)
EXTENDS GlobalNodeInfo, LoopTheorems

-------------------------------------------------------------------------------
(* The state of one McrtNodeInfo.                                          *)
Stages == {NotActive} \cup {Stage(p, step) : p \in Phase, step \in {"START", "PROCESS", "DONE"}}
Datum == Nat \cup Number \cup Host \cup {NoHost} \cup Stages
Remark == Origin \X Nat
Comments == Seq(Remark)
Change == [key : Key, value : Datum] \cup [key : {"genericComment"}, value : Comments]
Changes == Seq(Change)

Info == [ value     : [Key -> Datum],
          array     : Changes,
          comment   : Comments,
          workStage : Stages,
          workProcessed : [Phase -> Nat],
          loadGeometriesRequestFlush : BOOLEAN,
          tessellationRequestFlush   : BOOLEAN ]

(* The values without those of the clock, which the merge computation sets *)
(* itself.                                                                 *)
NoClock == Key \ ClockKey

LEMMA KeyFacts ==
    /\ {"hostName", "cpuTotal", "coreUsage", "renderPrepStatsStage"} \subseteq NoClock
    /\ ClockKey \subseteq Key /\ "genericComment" \notin Key
    /\ \A p \in Phase : /\ TotalKey[p] \in NoClock \ {"hostName"}
                        /\ ProcessedKey[p] \in NoClock \ {"hostName"}
BY DEF Key, NoClock, ClockKey, CountKey, TotalKey, ProcessedKey, Phase, LoadGeometry, Tessellation

LEMMA NewInfoType == NewInfo \in Info
<1>1. <<>> \in Changes /\ <<>> \in Comments
  BY EmptySeq DEF Changes, Comments
<1>2. NewInfo.value \in [Key -> Datum]
  BY DEF NewInfo, Datum, Stages
<1> QED
  BY <1>1, <1>2 DEF NewInfo, Info, Stages

NewValue(value, key, new, k) ==
    IF key = "cpuTotal" /\ k = "coreUsage" THEN 0 ELSE IF k = key THEN new ELSE value[k]

LEMMA AssignedType ==
    ASSUME NEW value \in [Key -> Datum], NEW key \in Key, NEW new \in Datum
    PROVE  Assigned(value, key, new) \in [Key -> Datum]
<1>1. 0 \in Datum /\ "coreUsage" \in Key /\ "cpuTotal" \in Key
  BY KeyFacts DEF Datum, NoClock
<1> QED
  BY <1>1 DEF Assigned

LEMMA AssignedIs ==
    ASSUME NEW value \in [Key -> Datum], NEW key \in Key, NEW new, NEW k \in Key
    PROVE  Assigned(value, key, new)[k] = NewValue(value, key, new, k)
<1>1. "coreUsage" \in Key /\ "cpuTotal" \in Key
  BY KeyFacts DEF NoClock
<1> QED
  BY <1>1 DEF Assigned, NewValue

LEMMA CommentsType ==
    ASSUME NEW first \in Comments, NEW second \in Comments
    PROVE  first \o second \in Comments
BY ConcatProperties DEF Comments

LEMMA CommentsAssociate ==
    ASSUME NEW first \in Comments, NEW second \in Comments, NEW third \in Comments
    PROVE  (first \o second) \o third = first \o (second \o third)
BY ConcatAssociative DEF Comments

LEMMA NoComments ==
    /\ <<>> \in Comments
    /\ \A comments \in Comments : comments \o <<>> = comments /\ <<>> \o comments = comments
BY EmptySeq, ConcatEmptySeq DEF Comments

LEMMA InfoFields ==
    ASSUME NEW info \in Info
    PROVE  /\ info.value \in [Key -> Datum] /\ info.array \in Changes /\ info.comment \in Comments
           /\ info.workStage \in Stages /\ info.workProcessed \in [Phase -> Nat]
BY DEF Info

(* What info and made have in common when a setter made the one from the   *)
(* other, but for value, array and comment.                                *)
SameWork(info, made) ==
    /\ made \in Info
    /\ made.workStage = info.workStage
    /\ made.workProcessed = info.workProcessed
    /\ made.loadGeometriesRequestFlush = info.loadGeometriesRequestFlush
    /\ made.tessellationRequestFlush = info.tessellationRequestFlush

LEMMA SetValueMakes ==
    ASSUME NEW info \in Info, NEW decodeOnly \in BOOLEAN, NEW key \in Key, NEW new \in Datum
    PROVE  LET made == SetValue(info, decodeOnly, key, new)
           IN  /\ SameWork(info, made)
               /\ made.value = Assigned(info.value, key, new)
               /\ made.array = IF decodeOnly THEN info.array
                               ELSE Append(info.array, Entry(key, new))
               /\ made.comment = info.comment
<1>1. Entry(key, new) \in Change
  BY DEF Entry, Change
<1>2. Append(info.array, Entry(key, new)) \in Changes
  BY <1>1, AppendProperties DEF Changes, Info
<1>3. Assigned(info.value, key, new) \in [Key -> Datum]
  BY AssignedType DEF Info
<1> QED
  BY <1>2, <1>3 DEF SetValue, Info, SameWork

LEMMA EnqMakes ==
    ASSUME NEW info \in Info, NEW comments \in Comments
    PROVE  LET made == EnqGenericComment(info, comments)
           IN  /\ SameWork(info, made)
               /\ made.value = info.value
               /\ made.array = info.array
               /\ made.comment = info.comment \o comments
<1>1. info.comment \o comments \in Comments
  BY ConcatProperties DEF Info, Comments
<1> QED
  BY <1>1 DEF EnqGenericComment, Info, SameWork

(* A change, sorted out.                                                   *)
LEMMA ChangeIs ==
    ASSUME NEW change \in Change
    PROVE  IF change.key = "genericComment" THEN change.value \in Comments
           ELSE change.key \in Key /\ change.value \in Datum
BY KeyFacts DEF Change

LEMMA DecodeEntryMakes ==
    ASSUME NEW info \in Info, NEW decodeOnly \in BOOLEAN, NEW change \in Change
    PROVE  LET made == DecodeEntry(info, decodeOnly, change)
           IN  /\ SameWork(info, made)
               /\ IF change.key = "genericComment"
                    THEN /\ made.value = info.value /\ made.array = info.array
                         /\ made.comment = info.comment \o change.value
                    ELSE /\ made.value = Assigned(info.value, change.key, change.value)
                         /\ made.array = IF decodeOnly THEN info.array
                                         ELSE Append(info.array, Entry(change.key, change.value))
                         /\ made.comment = info.comment
<1>1. CASE change.key = "genericComment"
  <2>1. change.value \in Comments
    BY <1>1, ChangeIs
  <2>2. DecodeEntry(info, decodeOnly, change) = EnqGenericComment(info, change.value)
    BY <1>1 DEF DecodeEntry
  <2> QED
    BY <1>1, <2>1, <2>2, EnqMakes
<1>2. CASE change.key # "genericComment"
  <2>1. change.key \in Key /\ change.value \in Datum
    BY <1>2, ChangeIs
  <2>2. DecodeEntry(info, decodeOnly, change) = SetValue(info, decodeOnly, change.key, change.value)
    BY <1>2 DEF DecodeEntry
  <2> QED
    BY <1>2, <2>1, <2>2, SetValueMakes
<1> QED
  BY <1>1, <1>2

LEMMA DecodeEntryType ==
    ASSUME NEW info \in Info, NEW decodeOnly \in BOOLEAN, NEW change \in Change
    PROVE  DecodeEntry(info, decodeOnly, change) \in Info
BY DecodeEntryMakes DEF SameWork

-------------------------------------------------------------------------------
(* decode, as a loop over the changes.                                     *)
IsDecoding(f, info, decodeOnly, entries) ==
    /\ f \in [0 .. Len(entries) -> Info]
    /\ f[0] = info
    /\ \A n \in 1 .. Len(entries) : f[n] = DecodeEntry(f[n - 1], decodeOnly, entries[n])
    /\ DecodeInfo(info, decodeOnly, entries) = f[Len(entries)]

LEMMA DecodeRuns ==
    ASSUME NEW info \in Info, NEW decodeOnly \in BOOLEAN, NEW entries \in Changes
    PROVE  \E f : IsDecoding(f, info, decodeOnly, entries)
<1> DEFINE L == Len(entries)
           step == [p \in Info \X (1 .. L) |-> DecodeEntry(p[1], decodeOnly, entries[p[2]])]
           Run(f) == f = [n \in 0 .. L |->
                            IF n = 0 THEN info ELSE DecodeEntry(f[n - 1], decodeOnly, entries[n])]
           After == CHOOSE f : Run(f)
<1>1. L \in Nat /\ \A n \in 1 .. L : entries[n] \in Change
  BY LenProperties, ElementOfSeq DEF Changes
<1>2. step \in [Info \X (1 .. L) -> Info]
  BY <1>1, DecodeEntryType
<1> HIDE DEF step
<1>3. PICK g : IsRun(g, Info, info, step, L)
  BY <1>1, <1>2, LoopRuns
<1>4. /\ g \in [0 .. L -> Info]
      /\ g[0] = info
      /\ \A n \in 1 .. L : g[n] = DecodeEntry(g[n - 1], decodeOnly, entries[n])
  <2>1. g \in [0 .. L -> Info] /\ g[0] = info
    BY <1>3 DEF IsRun
  <2>2. ASSUME NEW n \in 1 .. L PROVE g[n] = DecodeEntry(g[n - 1], decodeOnly, entries[n])
    <3>1. g[n] = step[<<g[n - 1], n>>]
      BY <1>3 DEF IsRun
    <3>2. n - 1 \in 0 .. L
      BY <1>1
    <3>3. <<g[n - 1], n>> \in Info \X (1 .. L)
      BY <2>1, <3>2
    <3> QED
      BY <3>1, <3>3 DEF step
  <2> QED
    BY <2>1, <2>2
<1>5. Run(g)
  <2>1. g = [n \in 0 .. L |-> g[n]]
    BY <1>4
  <2>2. \A n \in 0 .. L : g[n] = IF n = 0 THEN info ELSE DecodeEntry(g[n - 1], decodeOnly, entries[n])
    BY <1>1, <1>4
  <2> QED
    BY <2>1, <2>2
<1>6. Run(After)
  BY <1>5
<1>7. DecodeInfo(info, decodeOnly, entries) = After[L]
  BY DEF DecodeInfo
<1> HIDE DEF After
<1>8. \A n \in 0 .. L :
         After[n] = IF n = 0 THEN info ELSE DecodeEntry(After[n - 1], decodeOnly, entries[n])
  BY <1>6
<1>9. \A n \in 0 .. L : After[n] = g[n]
  <2>1. After[0] = g[0]
    BY <1>1, <1>4, <1>8
  <2>2. ASSUME NEW n \in 1 .. L, After[n - 1] = g[n - 1] PROVE After[n] = g[n]
    <3>1. n \in 0 .. L /\ n # 0
      BY <1>1
    <3>2. After[n] = DecodeEntry(After[n - 1], decodeOnly, entries[n])
      BY <1>8, <3>1
    <3>3. g[n] = DecodeEntry(g[n - 1], decodeOnly, entries[n])
      BY <1>4
    <3> QED
      BY <2>2, <3>2, <3>3
  <2>3. \A n \in 1 .. L : After[n - 1] = g[n - 1] => After[n] = g[n]
    BY <2>2
  <2>4. InStep(After, g, L)
    BY <1>1, <2>1, <2>3 DEF InStep
  <2> QED
    BY <2>4, LoopsAgree
<1>10. g[L] = DecodeInfo(info, decodeOnly, entries)
  BY <1>1, <1>7, <1>9
<1>11. IsDecoding(g, info, decodeOnly, entries)
  BY <1>4, <1>10 DEF IsDecoding
<1> QED
  BY <1>11

LEMMA DecodeNothing ==
    ASSUME NEW info \in Info, NEW decodeOnly \in BOOLEAN
    PROVE  DecodeInfo(info, decodeOnly, <<>>) = info
<1>1. <<>> \in Changes /\ Len(<<>>) = 0
  BY EmptySeq DEF Changes
<1>2. PICK f : IsDecoding(f, info, decodeOnly, <<>>)
  BY <1>1, DecodeRuns
<1> QED
  BY <1>1, <1>2 DEF IsDecoding

LEMMA DecodeType ==
    ASSUME NEW info \in Info, NEW decodeOnly \in BOOLEAN, NEW entries \in Changes
    PROVE  DecodeInfo(info, decodeOnly, entries) \in Info
<1>1. PICK f : IsDecoding(f, info, decodeOnly, entries)
  BY DecodeRuns
<1>2. Len(entries) \in 0 .. Len(entries)
  BY LenProperties DEF Changes
<1> QED
  BY <1>1, <1>2 DEF IsDecoding

LEMMA DecodeAppend ==
    ASSUME NEW info \in Info, NEW decodeOnly \in BOOLEAN, NEW entries \in Changes,
           NEW change \in Change
    PROVE  /\ Append(entries, change) \in Changes
           /\ DecodeInfo(info, decodeOnly, Append(entries, change))
                = DecodeEntry(DecodeInfo(info, decodeOnly, entries), decodeOnly, change)
<1> DEFINE L == Len(entries)
           longer == Append(entries, change)
<1>1. /\ longer \in Changes /\ Len(longer) = L + 1 /\ longer[L + 1] = change
      /\ \A n \in 1 .. L : longer[n] = entries[n]
      /\ L \in Nat
  BY AppendProperties, LenProperties DEF Changes
<1> HIDE DEF longer
<1>2. PICK f :
         /\ f[0] = info
         /\ \A n \in 1 .. L : f[n] = DecodeEntry(f[n - 1], decodeOnly, entries[n])
         /\ DecodeInfo(info, decodeOnly, entries) = f[L]
  BY DecodeRuns DEF IsDecoding
<1>3. PICK g :
         /\ g[0] = info
         /\ \A n \in 1 .. L + 1 : g[n] = DecodeEntry(g[n - 1], decodeOnly, longer[n])
         /\ DecodeInfo(info, decodeOnly, longer) = g[L + 1]
  <2>1. PICK g : IsDecoding(g, info, decodeOnly, longer)
    BY <1>1, DecodeRuns
  <2> QED
    BY <1>1, <2>1 DEF IsDecoding
<1>4. \A n \in 0 .. L : g[n] = f[n]
  <2>1. ASSUME NEW n \in 1 .. L, g[n - 1] = f[n - 1] PROVE g[n] = f[n]
    <3>1. n \in 1 .. L + 1 /\ longer[n] = entries[n]
      BY <1>1
    <3>2. f[n] = DecodeEntry(f[n - 1], decodeOnly, entries[n])
      BY <1>2
    <3>3. g[n] = DecodeEntry(g[n - 1], decodeOnly, longer[n])
      BY <1>3, <3>1
    <3> QED
      BY <2>1, <3>1, <3>2, <3>3
  <2>2. g[0] = f[0] /\ L \in Nat
    BY <1>1, <1>2, <1>3
  <2>3. InStep(g, f, L)
    BY <2>1, <2>2 DEF InStep
  <2> QED
    BY <2>3, LoopsAgree
<1>5. g[L + 1] = DecodeEntry(g[L], decodeOnly, change)
  <2>1. L + 1 \in 1 .. L + 1 /\ (L + 1) - 1 = L
    BY <1>1
  <2> QED
    BY <1>1, <1>3, <2>1
<1> QED
  BY <1>1, <1>2, <1>3, <1>4, <1>5 DEF longer

-------------------------------------------------------------------------------
(* What is in a channel: every message has changes of some origins.        *)
Message == UNION {[origins -> Changes] : origins \in SUBSET Origin}
Channel == Seq(Message)

LEMMA ChangesOfType ==
    ASSUME NEW message \in Message, NEW o \in Origin
    PROVE  ChangesOf(message, o) \in Changes
<1>1. <<>> \in Changes
  BY EmptySeq DEF Changes
<1>2. PICK origins \in SUBSET Origin : message \in [origins -> Changes]
  BY DEF Message
<1> QED
  BY <1>1, <1>2 DEF ChangesOf

LEMMA DecodeChangesOf ==
    ASSUME NEW info \in Info, NEW decodeOnly \in BOOLEAN, NEW message \in Message, NEW o \in Origin
    PROVE  DecodeInfo(info, decodeOnly, ChangesOf(message, o)) \in Info
BY ChangesOfType, DecodeType

(* AfterMessages, as a loop over the messages.                             *)
IsReceiving(f, o, info, messages) ==
    /\ f \in [0 .. Len(messages) -> Info]
    /\ f[0] = info
    /\ \A n \in 1 .. Len(messages) : f[n] = DecodeInfo(f[n - 1], TRUE, ChangesOf(messages[n], o))
    /\ AfterMessages(o, info, messages) = f[Len(messages)]

LEMMA AfterMessagesRuns ==
    ASSUME NEW info \in Info, NEW o \in Origin, NEW messages \in Channel
    PROVE  \E f : IsReceiving(f, o, info, messages)
<1> DEFINE L == Len(messages)
           step == [p \in Info \X (1 .. L) |-> DecodeInfo(p[1], TRUE, ChangesOf(messages[p[2]], o))]
           Run(f) == f = [n \in 0 .. L |->
                            IF n = 0 THEN info ELSE DecodeInfo(f[n - 1], TRUE, ChangesOf(messages[n], o))]
           After == CHOOSE f : Run(f)
<1>1. L \in Nat /\ \A n \in 1 .. L : messages[n] \in Message
  BY LenProperties, ElementOfSeq DEF Channel
<1>2. step \in [Info \X (1 .. L) -> Info]
  BY <1>1, DecodeChangesOf
<1> HIDE DEF step
<1>3. PICK g : IsRun(g, Info, info, step, L)
  BY <1>1, <1>2, LoopRuns
<1>4. /\ g \in [0 .. L -> Info]
      /\ g[0] = info
      /\ \A n \in 1 .. L : g[n] = DecodeInfo(g[n - 1], TRUE, ChangesOf(messages[n], o))
  <2>1. g \in [0 .. L -> Info] /\ g[0] = info
    BY <1>3 DEF IsRun
  <2>2. ASSUME NEW n \in 1 .. L PROVE g[n] = DecodeInfo(g[n - 1], TRUE, ChangesOf(messages[n], o))
    <3>1. g[n] = step[<<g[n - 1], n>>]
      BY <1>3 DEF IsRun
    <3>2. n - 1 \in 0 .. L
      BY <1>1
    <3>3. <<g[n - 1], n>> \in Info \X (1 .. L)
      BY <2>1, <3>2
    <3> QED
      BY <3>1, <3>3 DEF step
  <2> QED
    BY <2>1, <2>2
<1>5. Run(g)
  <2>1. g = [n \in 0 .. L |-> g[n]]
    BY <1>4
  <2>2. \A n \in 0 .. L : g[n] = IF n = 0 THEN info ELSE DecodeInfo(g[n - 1], TRUE, ChangesOf(messages[n], o))
    BY <1>1, <1>4
  <2> QED
    BY <2>1, <2>2
<1>6. Run(After)
  BY <1>5
<1>7. AfterMessages(o, info, messages) = After[L]
  BY DEF AfterMessages
<1> HIDE DEF After
<1>8. \A n \in 0 .. L :
         After[n] = IF n = 0 THEN info ELSE DecodeInfo(After[n - 1], TRUE, ChangesOf(messages[n], o))
  BY <1>6
<1>9. \A n \in 0 .. L : After[n] = g[n]
  <2>1. After[0] = g[0]
    <3>1. 0 \in 0 .. L
      BY <1>1
    <3>2. After[0] = info
      BY <1>8, <3>1
    <3> QED
      BY <1>4, <3>2
  <2>2. ASSUME NEW n \in 1 .. L, After[n - 1] = g[n - 1] PROVE After[n] = g[n]
    <3>1. n \in 0 .. L /\ n # 0
      BY <1>1
    <3>2. After[n] = DecodeInfo(After[n - 1], TRUE, ChangesOf(messages[n], o))
      BY <1>8, <3>1
    <3>3. g[n] = DecodeInfo(g[n - 1], TRUE, ChangesOf(messages[n], o))
      BY <1>4
    <3> QED
      BY <2>2, <3>2, <3>3
  <2>3. \A n \in 1 .. L : After[n - 1] = g[n - 1] => After[n] = g[n]
    BY <2>2
  <2>4. InStep(After, g, L)
    BY <1>1, <2>1, <2>3 DEF InStep
  <2> QED
    BY <2>4, LoopsAgree
<1>10. g[L] = AfterMessages(o, info, messages)
  BY <1>1, <1>7, <1>9
<1>11. IsReceiving(g, o, info, messages)
  BY <1>4, <1>10 DEF IsReceiving
<1> QED
  BY <1>11

LEMMA AfterNoMessages ==
    ASSUME NEW info \in Info, NEW o \in Origin
    PROVE  AfterMessages(o, info, <<>>) = info
<1>1. <<>> \in Channel /\ Len(<<>>) = 0
  BY EmptySeq DEF Channel
<1>2. PICK f : IsReceiving(f, o, info, <<>>)
  BY <1>1, AfterMessagesRuns
<1> QED
  BY <1>1, <1>2 DEF IsReceiving

LEMMA AfterMessagesType ==
    ASSUME NEW info \in Info, NEW o \in Origin, NEW messages \in Channel
    PROVE  AfterMessages(o, info, messages) \in Info
<1>1. PICK f : IsReceiving(f, o, info, messages)
  BY AfterMessagesRuns
<1>2. Len(messages) \in 0 .. Len(messages)
  BY LenProperties DEF Channel
<1> QED
  BY <1>1, <1>2 DEF IsReceiving

LEMMA AfterMessagesAppend ==
    ASSUME NEW info \in Info, NEW o \in Origin, NEW messages \in Channel,
           NEW message \in Message
    PROVE  /\ Append(messages, message) \in Channel
           /\ AfterMessages(o, info, Append(messages, message))
                = DecodeInfo(AfterMessages(o, info, messages), TRUE, ChangesOf(message, o))
<1> DEFINE L == Len(messages)
           longer == Append(messages, message)
<1>1. /\ longer \in Channel /\ Len(longer) = L + 1 /\ longer[L + 1] = message
      /\ \A n \in 1 .. L : longer[n] = messages[n]
      /\ L \in Nat
  BY AppendProperties, LenProperties DEF Channel
<1> HIDE DEF longer
<1>2. PICK f :
         /\ f[0] = info
         /\ \A n \in 1 .. L : f[n] = DecodeInfo(f[n - 1], TRUE, ChangesOf(messages[n], o))
         /\ AfterMessages(o, info, messages) = f[L]
  <2>1. PICK f : IsReceiving(f, o, info, messages)
    BY AfterMessagesRuns
  <2> QED
    BY <2>1 DEF IsReceiving
<1>3. PICK g :
         /\ g[0] = info
         /\ \A n \in 1 .. L + 1 : g[n] = DecodeInfo(g[n - 1], TRUE, ChangesOf(longer[n], o))
         /\ AfterMessages(o, info, longer) = g[L + 1]
  <2>1. PICK g : IsReceiving(g, o, info, longer)
    BY <1>1, AfterMessagesRuns
  <2> QED
    BY <1>1, <2>1 DEF IsReceiving
<1>4. \A n \in 0 .. L : g[n] = f[n]
  <2>1. ASSUME NEW n \in 1 .. L, g[n - 1] = f[n - 1] PROVE g[n] = f[n]
    <3>1. n \in 1 .. L + 1 /\ longer[n] = messages[n]
      BY <1>1
    <3>2. f[n] = DecodeInfo(f[n - 1], TRUE, ChangesOf(messages[n], o))
      BY <1>2
    <3>3. g[n] = DecodeInfo(g[n - 1], TRUE, ChangesOf(longer[n], o))
      BY <1>3, <3>1
    <3> QED
      BY <2>1, <3>1, <3>2, <3>3
  <2>2. g[0] = f[0] /\ L \in Nat
    BY <1>1, <1>2, <1>3
  <2>3. InStep(g, f, L)
    BY <2>1, <2>2 DEF InStep
  <2> QED
    BY <2>3, LoopsAgree
<1>5. g[L + 1] = DecodeInfo(g[L], TRUE, ChangesOf(message, o))
  <2>1. L + 1 \in 1 .. L + 1 /\ (L + 1) - 1 = L
    BY <1>1
  <2> QED
    BY <1>1, <1>3, <2>1
<1>6. g[L] = f[L]
  BY <1>1, <1>4
<1>7. AfterMessages(o, info, longer) = DecodeInfo(f[L], TRUE, ChangesOf(message, o))
  BY <1>3, <1>5, <1>6
<1>8. AfterMessages(o, info, longer)
        = DecodeInfo(AfterMessages(o, info, messages), TRUE, ChangesOf(message, o))
  BY <1>2, <1>7
<1> QED
  BY <1>1, <1>8 DEF longer

LEMMA AfterMessagesHead ==
    ASSUME NEW info \in Info, NEW o \in Origin, NEW messages \in Channel, messages # <<>>
    PROVE  /\ Head(messages) \in Message /\ Tail(messages) \in Channel
           /\ AfterMessages(o, info, messages)
                = AfterMessages(o, DecodeInfo(info, TRUE, ChangesOf(Head(messages), o)),
                                Tail(messages))
<1> DEFINE Next1(s) == DecodeInfo(info, TRUE, ChangesOf(Head(s), o))
           T == {s \in Channel : s # <<>> =>
                    AfterMessages(o, info, s) = AfterMessages(o, Next1(s), Tail(s))}
<1>1. <<>> \in T
  BY EmptySeq DEF Channel
<1>2. ASSUME NEW s \in Channel, NEW e \in Message, s \in T PROVE Append(s, e) \in T
  <2>1. /\ Append(s, e) \in Channel
        /\ AfterMessages(o, info, Append(s, e))
             = DecodeInfo(AfterMessages(o, info, s), TRUE, ChangesOf(e, o))
    BY AfterMessagesAppend
  <2>2. /\ Head(Append(s, e)) = IF s = <<>> THEN e ELSE Head(s)
        /\ Tail(Append(s, e)) = IF s = <<>> THEN <<>> ELSE Append(Tail(s), e)
    BY HeadTailAppend DEF Channel
  <2>3. CASE s = <<>>
    <3> DEFINE after == DecodeInfo(info, TRUE, ChangesOf(e, o))
    <3>1. after \in Info
      BY DecodeChangesOf
    <3> HIDE DEF after
    <3>2. AfterMessages(o, info, <<>>) = info /\ AfterMessages(o, after, <<>>) = after
      BY <3>1, AfterNoMessages
    <3>3. AfterMessages(o, info, Append(s, e)) = after
      BY <2>1, <2>3, <3>2 DEF after
    <3>4. Next1(Append(s, e)) = after /\ Tail(Append(s, e)) = <<>>
      BY <2>2, <2>3 DEF after
    <3> QED
      BY <2>1, <3>2, <3>3, <3>4
  <2>4. CASE s # <<>>
    <3> DEFINE after == DecodeInfo(info, TRUE, ChangesOf(Head(s), o))
    <3>1. Head(s) \in Message /\ Tail(s) \in Channel
      BY <2>4, HeadTailProperties DEF Channel
    <3>2. after \in Info
      BY <3>1, DecodeChangesOf
    <3>3. AfterMessages(o, info, s) = AfterMessages(o, after, Tail(s))
      BY <1>2, <2>4
    <3>4. Next1(Append(s, e)) = after /\ Tail(Append(s, e)) = Append(Tail(s), e)
      BY <2>2, <2>4
    <3> HIDE DEF after
    <3>5. AfterMessages(o, after, Append(Tail(s), e))
            = DecodeInfo(AfterMessages(o, after, Tail(s)), TRUE, ChangesOf(e, o))
      BY <3>1, <3>2, AfterMessagesAppend
    <3> HIDE DEF Next1
    <3> QED
      BY <2>1, <3>3, <3>4, <3>5
  <2> QED
    BY <2>3, <2>4
<1>3. Channel \subseteq T
  <2> HIDE DEF T
  <2> QED
    BY <1>1, <1>2, SeqInduction DEF Channel
<1> QED
  BY <1>3, HeadTailProperties DEF Channel

-------------------------------------------------------------------------------
(* a has the values of b, as far as they are in K, and has p before its    *)
(* comments.  Both stay so whatever is decoded, wherever that is.          *)
Ahead(a, b, p, K) ==
    /\ \A key \in K : a.value[key] = b.value[key]
    /\ a.comment = p \o b.comment

LEMMA AheadEntry ==
    ASSUME NEW a \in Info, NEW b \in Info, NEW p \in Comments, NEW K \in SUBSET Key, Ahead(a, b, p, K),
           NEW d \in BOOLEAN, NEW e \in BOOLEAN, NEW change \in Change
    PROVE  Ahead(DecodeEntry(a, d, change), DecodeEntry(b, e, change), p, K)
<1> DEFINE c == DecodeEntry(a, d, change)
           f == DecodeEntry(b, e, change)
<1>1. CASE change.key = "genericComment"
  <2>1. change.value \in Comments /\ b.comment \in Comments
    BY <1>1, ChangeIs, InfoFields
  <2>2. (p \o b.comment) \o change.value = p \o (b.comment \o change.value)
    BY <2>1, CommentsAssociate
  <2>3. c.value = a.value /\ c.comment = a.comment \o change.value
    BY <1>1, DecodeEntryMakes
  <2>4. f.value = b.value /\ f.comment = b.comment \o change.value
    BY <1>1, DecodeEntryMakes
  <2> HIDE DEF c, f
  <2>5. Ahead(c, f, p, K)
    BY <2>2, <2>3, <2>4 DEF Ahead
  <2> QED
    BY <2>5 DEF c, f
<1>2. CASE change.key # "genericComment"
  <2>1. change.key \in Key /\ change.value \in Datum
    BY <1>2, ChangeIs
  <2>2. a.value \in [Key -> Datum] /\ b.value \in [Key -> Datum]
    BY InfoFields
  <2>3. c.value = Assigned(a.value, change.key, change.value) /\ c.comment = a.comment
    BY <1>2, DecodeEntryMakes
  <2>4. f.value = Assigned(b.value, change.key, change.value) /\ f.comment = b.comment
    BY <1>2, DecodeEntryMakes
  <2> HIDE DEF c, f
  <2>5. ASSUME NEW key \in K PROVE c.value[key] = f.value[key]
    <3>1. key \in Key /\ a.value[key] = b.value[key]
      BY DEF Ahead
    <3>2. c.value[key] = NewValue(a.value, change.key, change.value, key)
      BY <2>1, <2>2, <2>3, <3>1, AssignedIs
    <3>3. f.value[key] = NewValue(b.value, change.key, change.value, key)
      BY <2>1, <2>2, <2>4, <3>1, AssignedIs
    <3> QED
      BY <3>1, <3>2, <3>3 DEF NewValue
  <2>6. Ahead(c, f, p, K)
    BY <2>3, <2>4, <2>5 DEF Ahead
  <2> QED
    BY <2>6 DEF c, f
<1> QED
  BY <1>1, <1>2

LEMMA AheadDecode ==
    ASSUME NEW a \in Info, NEW b \in Info, NEW p \in Comments, NEW K \in SUBSET Key, Ahead(a, b, p, K),
           NEW d \in BOOLEAN, NEW e \in BOOLEAN, NEW changes \in Changes
    PROVE  Ahead(DecodeInfo(a, d, changes), DecodeInfo(b, e, changes), p, K)
<1> DEFINE T == {s \in Changes : Ahead(DecodeInfo(a, d, s), DecodeInfo(b, e, s), p, K)}
<1>1. <<>> \in T
  BY DecodeNothing, EmptySeq DEF Changes
<1>2. ASSUME NEW s \in Changes, NEW change \in Change, s \in T PROVE Append(s, change) \in T
  <2>1. DecodeInfo(a, d, s) \in Info /\ DecodeInfo(b, e, s) \in Info
    BY DecodeType
  <2>2. Ahead(DecodeEntry(DecodeInfo(a, d, s), d, change),
              DecodeEntry(DecodeInfo(b, e, s), e, change), p, K)
    BY <1>2, <2>1, AheadEntry
  <2> QED
    BY <2>2, DecodeAppend
<1>3. Changes \subseteq T
  <2> HIDE DEF T
  <2> QED
    BY <1>1, <1>2, SeqInduction DEF Changes
<1> QED
  BY <1>3

LEMMA AheadMessages ==
    ASSUME NEW a \in Info, NEW b \in Info, NEW p \in Comments, NEW K \in SUBSET Key, Ahead(a, b, p, K),
           NEW o \in Origin, NEW messages \in Channel
    PROVE  Ahead(AfterMessages(o, a, messages), AfterMessages(o, b, messages), p, K)
<1> DEFINE T == {s \in Channel : Ahead(AfterMessages(o, a, s), AfterMessages(o, b, s), p, K)}
<1>1. <<>> \in T
  BY AfterNoMessages, EmptySeq DEF Channel
<1>2. ASSUME NEW s \in Channel, NEW message \in Message, s \in T PROVE Append(s, message) \in T
  <2> DEFINE aNow == AfterMessages(o, a, s)
             bNow == AfterMessages(o, b, s)
  <2>1. aNow \in Info /\ bNow \in Info
    BY AfterMessagesType
  <2>2. Ahead(aNow, bNow, p, K) /\ ChangesOf(message, o) \in Changes
    BY <1>2, ChangesOfType
  <2> HIDE DEF aNow, bNow
  <2>3. Ahead(DecodeInfo(aNow, TRUE, ChangesOf(message, o)),
              DecodeInfo(bNow, TRUE, ChangesOf(message, o)), p, K)
    BY <2>1, <2>2, AheadDecode
  <2> QED
    BY <2>3, AfterMessagesAppend DEF aNow, bNow
<1>3. Channel \subseteq T
  <2> HIDE DEF T
  <2> QED
    BY <1>1, <1>2, SeqInduction DEF Channel
<1> QED
  BY <1>3

-------------------------------------------------------------------------------
(* What a receiver that is base will be once it has decoded what the       *)
(* sender info has queued.  Info becomes made: the receiver will have made *)
(* its values if it had those of info, and c more comments.                *)
Rest(base, info) == DecodeInfo(base, TRUE, info.array)
Agree(a, b, K) == \A key \in K : a.value[key] = b.value[key]

Passes(info, made, c) ==
    /\ made \in Info
    /\ \A base \in Info :
          /\ \A K \in SUBSET Key : Agree(Rest(base, info), info, K) => Agree(Rest(base, made), made, K)
          /\ Rest(base, made).comment = Rest(base, info).comment \o c

(* Nothing becomes of the comments.                                        *)
Keeps(info, made) == Passes(info, made, <<>>) /\ made.comment = info.comment

LEMMA RestAppend ==
    ASSUME NEW base \in Info, NEW info \in Info, NEW made, NEW change \in Change,
           made.array = Append(info.array, change)
    PROVE  Rest(base, made) = DecodeEntry(Rest(base, info), TRUE, change)
<1> DEFINE decodeOnly == TRUE
<1>1. decodeOnly \in BOOLEAN /\ info.array \in Changes
  BY InfoFields
<1> HIDE DEF decodeOnly
<1>2. DecodeInfo(base, decodeOnly, Append(info.array, change))
        = DecodeEntry(DecodeInfo(base, decodeOnly, info.array), decodeOnly, change)
  BY <1>1, DecodeAppend
<1> QED
  BY <1>2 DEF Rest, decodeOnly

LEMMA ReceiverMakes ==
    ASSUME NEW info \in Info, NEW change \in Change
    PROVE  LET made == DecodeEntry(info, TRUE, change)
           IN  IF change.key = "genericComment"
                 THEN made.value = info.value /\ made.comment = info.comment \o change.value
                 ELSE /\ made.value = Assigned(info.value, change.key, change.value)
                      /\ made.comment = info.comment
<1> DEFINE decodeOnly == TRUE
           made == DecodeEntry(info, decodeOnly, change)
<1>1. decodeOnly \in BOOLEAN
  OBVIOUS
<1> HIDE DEF decodeOnly
<1>2. IF change.key = "genericComment"
        THEN made.value = info.value /\ made.comment = info.comment \o change.value
        ELSE /\ made.value = Assigned(info.value, change.key, change.value)
             /\ made.comment = info.comment
  BY <1>1, DecodeEntryMakes
<1> QED
  BY <1>2 DEF decodeOnly

LEMMA RestType ==
    ASSUME NEW base \in Info, NEW info \in Info
    PROVE  Rest(base, info) \in Info
BY DecodeType, InfoFields DEF Rest

LEMMA KeepsTrans ==
    ASSUME NEW info \in Info, NEW made, NEW further, Keeps(info, made), Keeps(made, further)
    PROVE  Keeps(info, further)
<1>1. ASSUME NEW base \in Info
      PROVE  Rest(base, further).comment = Rest(base, info).comment \o <<>>
  <2>1. Rest(base, info).comment \in Comments
    BY RestType, InfoFields
  <2>2. Rest(base, info).comment \o <<>> = Rest(base, info).comment
    BY <2>1, NoComments
  <2>3. Rest(base, made).comment = Rest(base, info).comment
    BY <2>2 DEF Keeps, Passes
  <2>4. Rest(base, further).comment = Rest(base, made).comment \o <<>>
    BY DEF Keeps, Passes
  <2> QED
    BY <2>2, <2>3, <2>4
<1> QED
  BY <1>1 DEF Keeps, Passes

(* The setters of the work area.                                           *)
LEMMA WorkKeeps ==
    ASSUME NEW info \in Info, NEW made \in Info,
           made.value = info.value, made.array = info.array, made.comment = info.comment
    PROVE  Keeps(info, made)
<1>1. ASSUME NEW base \in Info PROVE Rest(base, info).comment \o <<>> = Rest(base, info).comment
  BY RestType, InfoFields, NoComments
<1> QED
  BY <1>1 DEF Keeps, Passes, Rest, Agree

LEMMA SetKeeps ==
    ASSUME NEW info \in Info, NEW key \in Key, NEW new \in Datum
    PROVE  Keeps(info, SetValue(info, FALSE, key, new))
<1> DEFINE made == SetValue(info, FALSE, key, new)
           change == Entry(key, new)
<1>1. /\ made \in Info /\ made.comment = info.comment
      /\ made.value = Assigned(info.value, key, new)
      /\ made.array = Append(info.array, change)
  BY SetValueMakes DEF SameWork
<1>2. /\ change \in Change /\ change.key = key /\ change.value = new
      /\ change.key # "genericComment"
  BY KeyFacts DEF Entry, Change
<1> HIDE DEF made, change
<1> SUFFICES ASSUME NEW base \in Info
             PROVE  /\ \A K \in SUBSET Key :
                         Agree(Rest(base, info), info, K) => Agree(Rest(base, made), made, K)
                    /\ Rest(base, made).comment = Rest(base, info).comment \o <<>>
  BY <1>1 DEF Keeps, Passes, made
<1> DEFINE before == Rest(base, info)
           after == Rest(base, made)
<1>3. before \in Info /\ before.value \in [Key -> Datum] /\ before.comment \in Comments
  BY RestType, InfoFields
<1>4. after = DecodeEntry(before, TRUE, change)
  <2>1. made.array = Append(info.array, change) /\ change \in Change
    BY <1>1, <1>2
  <2> QED
    BY <2>1, RestAppend, ZenonT(60)
<1> HIDE DEF before
<1>5. after.value = Assigned(before.value, key, new) /\ after.comment = before.comment
  BY <1>2, <1>3, <1>4, ReceiverMakes
<1> HIDE DEF after
<1>6. ASSUME NEW K \in SUBSET Key, Agree(before, info, K) PROVE Agree(after, made, K)
  <2> SUFFICES ASSUME NEW k \in K PROVE after.value[k] = made.value[k]
    BY DEF Agree
  <2>1. k \in Key /\ before.value[k] = info.value[k] /\ info.value \in [Key -> Datum]
    BY <1>6, InfoFields DEF Agree
  <2>2. after.value[k] = NewValue(before.value, key, new, k)
    BY <1>3, <1>5, <2>1, AssignedIs
  <2>3. made.value[k] = NewValue(info.value, key, new, k)
    BY <1>1, <2>1, AssignedIs
  <2> QED
    BY <2>1, <2>2, <2>3 DEF NewValue
<1>7. after.comment = before.comment \o <<>>
  BY <1>3, <1>5, NoComments
<1> QED
  BY <1>6, <1>7 DEF before, after

(* A queued comment becomes the receiver's, after those that it has.       *)
LEMMA FlushCommentsPasses ==
    ASSUME NEW info \in Info
    PROVE  LET made == FlushComments(info)
           IN  /\ Passes(info, made, info.comment)
               /\ made.comment = <<>> /\ made.value = info.value
               /\ SameWork(info, made)
<1>1. CASE info.comment = <<>>
  <2>1. FlushComments(info) = info
    BY <1>1 DEF FlushComments
  <2>2. Keeps(info, info)
    BY WorkKeeps
  <2> QED
    BY <1>1, <2>1, <2>2 DEF Keeps, SameWork
<1>2. CASE info.comment # <<>>
  <2> DEFINE made == FlushComments(info)
             change == Entry("genericComment", info.comment)
  <2>1. /\ change \in Change /\ change.key = "genericComment" /\ change.value = info.comment
        /\ info.array \in Changes
    BY InfoFields DEF Entry, Change
  <2> HIDE DEF change
  <2>2. Append(info.array, change) \in Changes
    BY <2>1, AppendProperties DEF Changes
  <2>3. made = [info EXCEPT !.array = Append(info.array, change), !.comment = <<>>]
    BY <1>2 DEF FlushComments, change
  <2>4. /\ SameWork(info, made) /\ made.comment = <<>> /\ made.value = info.value
        /\ made.array = Append(info.array, change)
    BY <2>2, <2>3, NoComments DEF SameWork, Info
  <2> HIDE DEF made
  <2>5. ASSUME NEW base \in Info
        PROVE  /\ Rest(base, made).value = Rest(base, info).value
               /\ Rest(base, made).comment = Rest(base, info).comment \o info.comment
    <3> DEFINE before == Rest(base, info)
    <3>1. before \in Info
      BY RestType
    <3>2. Rest(base, made) = DecodeEntry(before, TRUE, change)
      BY <2>1, <2>4, RestAppend, ZenonT(60)
    <3> HIDE DEF before
    <3>3. DecodeEntry(before, TRUE, change).value = before.value
          /\ DecodeEntry(before, TRUE, change).comment = before.comment \o info.comment
      BY <2>1, <3>1, ReceiverMakes
    <3> QED
      BY <3>2, <3>3 DEF before
  <2>6. Passes(info, made, info.comment)
    BY <2>4, <2>5 DEF Passes, Agree, SameWork
  <2> QED
    BY <2>4, <2>6 DEF made
<1> QED
  BY <1>1, <1>2

LEMMA KeepsThenPasses ==
    ASSUME NEW info \in Info, NEW made, NEW further, NEW c \in Comments,
           Keeps(info, made), Passes(made, further, c)
    PROVE  Passes(info, further, c)
<1>1. ASSUME NEW base \in Info
      PROVE  Rest(base, further).comment = Rest(base, info).comment \o c
  <2>1. Rest(base, info).comment \in Comments
    BY RestType, InfoFields
  <2>2. Rest(base, info).comment \o <<>> = Rest(base, info).comment
    BY <2>1, NoComments
  <2>3. Rest(base, made).comment = Rest(base, info).comment
    BY <2>2 DEF Keeps, Passes
  <2>4. Rest(base, further).comment = Rest(base, made).comment \o c
    BY DEF Passes
  <2> QED
    BY <2>3, <2>4
<1> QED
  BY <1>1 DEF Keeps, Passes

(* What the setters leave as it is, apart from the work area.              *)
Good(info, made) == made \in Info /\ Keeps(info, made)

LEMMA SetGood ==
    ASSUME NEW info \in Info, NEW key \in Key, NEW new \in Datum
    PROVE  Good(info, SetValue(info, FALSE, key, new))
<1>1. Keeps(info, SetValue(info, FALSE, key, new))
  BY SetKeeps
<1> QED
  BY <1>1 DEF Good, Keeps, Passes

LEMMA GoodTrans ==
    ASSUME NEW info \in Info, NEW made, NEW further, Good(info, made), Good(made, further)
    PROVE  Good(info, further)
BY KeepsTrans DEF Good

(* The changes that an MCRT computation sends are none of the clock, and   *)
(* the name of the host is that of its own.                                *)
OwnChange(host) ==
    {change \in Change : /\ change.key \notin ClockKey
                         /\ change.key = "hostName" => change.value = host}
OwnChanges(host) == Seq(OwnChange(host))

Reports(info, made) ==
    /\ Good(info, made)
    /\ \A host \in Host : info.array \in OwnChanges(host) => made.array \in OwnChanges(host)

LEMMA ReportsTrans ==
    ASSUME NEW info \in Info, NEW made, NEW further, Reports(info, made), Reports(made, further)
    PROVE  Reports(info, further)
BY GoodTrans DEF Reports

LEMMA SetReports ==
    ASSUME NEW info \in Info, NEW key \in NoClock \ {"hostName"}, NEW new \in Datum
    PROVE  Reports(info, SetValue(info, FALSE, key, new))
<1>1. key \in Key /\ key \notin ClockKey /\ key # "hostName"
  BY DEF NoClock
<1>2. Good(info, SetValue(info, FALSE, key, new))
  BY <1>1, SetGood
<1>3. SetValue(info, FALSE, key, new).array = Append(info.array, Entry(key, new))
  BY <1>1, SetValueMakes
<1>4. ASSUME NEW host \in Host, info.array \in OwnChanges(host)
      PROVE  Append(info.array, Entry(key, new)) \in OwnChanges(host)
  <2>1. Entry(key, new) \in OwnChange(host)
    BY <1>1 DEF Entry, OwnChange, Change
  <2> QED
    BY <1>4, <2>1, AppendProperties DEF OwnChanges
<1> QED
  BY <1>2, <1>3, <1>4 DEF Reports

LEMMA SetStageReports ==
    ASSUME NEW info \in Info, NEW stage \in Stages
    PROVE  Reports(info, SetStage(info, stage))
<1>1. "renderPrepStatsStage" \in NoClock \ {"hostName"} /\ stage \in Datum
  BY KeyFacts DEF Datum
<1> QED
  BY <1>1, SetReports DEF SetStage

LEMMA RequestReports ==
    ASSUME NEW info \in Info, NEW phase, NEW request \in BOOLEAN
    PROVE  Reports(info, WithRequest(info, phase, request))
<1> DEFINE made == WithRequest(info, phase, request)
<1>1. made \in Info
  BY DEF WithRequest, Info
<1>2. made.value = info.value /\ made.array = info.array /\ made.comment = info.comment
  BY DEF WithRequest, Info
<1> HIDE DEF made
<1>3. Reports(info, made)
  BY <1>1, <1>2, WorkKeeps DEF Reports, Good
<1> QED
  BY <1>3 DEF made

(* The first and the last step of a phase.                                 *)
LEMMA BoundaryReports ==
    ASSUME NEW info \in Info, NEW stage \in Stages, NEW key \in NoClock \ {"hostName"},
           NEW count \in Nat, NEW phase
    PROVE  Reports(info, WithRequest(SetValue(SetStage(info, stage), FALSE, key, count), phase, FALSE))
<1> DEFINE staged == SetStage(info, stage)
           counted == SetValue(staged, FALSE, key, count)
<1>1. Reports(info, staged)
  BY SetStageReports
<1>2. count \in Datum
  BY DEF Datum
<1>3. staged \in Info
  BY <1>1 DEF Reports, Good
<1> HIDE DEF staged
<1>4. Reports(staged, counted)
  BY <1>2, <1>3, SetReports
<1>5. counted \in Info
  BY <1>4 DEF Reports, Good
<1>6. Reports(info, counted)
  BY <1>1, <1>4, ReportsTrans
<1> HIDE DEF counted
<1>7. Reports(counted, WithRequest(counted, phase, FALSE))
  <2> DEFINE request == FALSE
  <2>1. request \in BOOLEAN
    OBVIOUS
  <2> HIDE DEF request
  <2>2. Reports(counted, WithRequest(counted, phase, request))
    BY <1>5, <2>1, RequestReports
  <2> QED
    BY <2>2 DEF request
<1>8. Reports(info, WithRequest(counted, phase, FALSE))
  BY <1>6, <1>7, ReportsTrans
<1> QED
  BY <1>8 DEF counted, staged

LEMMA ProcessReports ==
    ASSUME NEW info \in Info, NEW phase \in Phase, NEW count \in Nat
    PROVE  Reports(info, ProcessPhase(info, phase, count))
<1> DEFINE worked == [info EXCEPT !.workStage = Stage(phase, "PROCESS"), !.workProcessed[phase] = count]
<1> DEFINE processed == [info.workProcessed EXCEPT ![phase] = count]
<1>1. /\ worked \in Info
      /\ worked.value = info.value /\ worked.array = info.array /\ worked.comment = info.comment
  <2>1. processed \in [Phase -> Nat] /\ Stage(phase, "PROCESS") \in Stages
    BY DEF Info, Stages
  <2>2. worked = [info EXCEPT !.workStage = Stage(phase, "PROCESS"), !.workProcessed = processed]
    BY DEF Info
  <2> HIDE DEF processed, worked
  <2> QED
    BY <2>1, <2>2 DEF Info
<1>2. ProcessPhase(info, phase, count) = WithRequest(worked, phase, TRUE)
  BY DEF ProcessPhase
<1> HIDE DEF worked
<1>3. Reports(info, worked)
  BY <1>1, WorkKeeps DEF Reports, Good
<1>4. Reports(worked, WithRequest(worked, phase, TRUE))
  <2> DEFINE request == TRUE
  <2>1. request \in BOOLEAN
    OBVIOUS
  <2> HIDE DEF request
  <2>2. Reports(worked, WithRequest(worked, phase, request))
    BY <1>1, <2>1, RequestReports
  <2> QED
    BY <2>2 DEF request
<1> QED
  BY <1>2, <1>3, <1>4, ReportsTrans

LEMMA StagesIs ==
    ASSUME NEW stage \in Stages
    PROVE  \/ stage = NotActive
           \/ /\ PhaseOf(stage) \in Phase
              /\ StepOf(stage) \in {"START", "PROCESS", "DONE"}
              /\ stage = Stage(PhaseOf(stage), StepOf(stage))
BY DEF Stages, Stage, PhaseOf, StepOf

LEMMA StatsReport ==
    ASSUME NEW info \in Info, NEW stage \in Stages, NEW count \in Nat
    PROVE  Reports(info, SetRenderPrepStats(info, stage, count))
<1> DEFINE phase == PhaseOf(stage)
<1>1. CASE stage = NotActive
  <2>1. SetRenderPrepStats(info, stage, count) = SetStage(info, stage)
    BY <1>1 DEF SetRenderPrepStats, StepOf, NotActive, Stage
  <2> QED
    BY <2>1, SetStageReports
<1>2. CASE stage # NotActive
  <2>1. phase \in Phase /\ StepOf(stage) \in {"START", "PROCESS", "DONE"}
    BY <1>2, StagesIs
  <2>2. TotalKey[phase] \in NoClock \ {"hostName"} /\ ProcessedKey[phase] \in NoClock \ {"hostName"}
    BY <2>1, KeyFacts
  <2>3. Stage(phase, "START") \in Stages /\ Stage(phase, "DONE") \in Stages
    BY <2>1 DEF Stages
  <2> HIDE DEF phase
  <2>4. CASE StepOf(stage) = "START"
    <3>1. SetRenderPrepStats(info, stage, count) = StartPhase(info, phase, count)
      BY <2>4 DEF SetRenderPrepStats, phase
    <3> QED
      BY <2>2, <2>3, <3>1, BoundaryReports DEF StartPhase
  <2>5. CASE StepOf(stage) = "PROCESS"
    <3>1. SetRenderPrepStats(info, stage, count) = ProcessPhase(info, phase, count)
      BY <2>5 DEF SetRenderPrepStats, phase
    <3> QED
      BY <2>1, <3>1, ProcessReports
  <2>6. CASE StepOf(stage) = "DONE"
    <3>1. SetRenderPrepStats(info, stage, count) = FinishPhase(info, phase, count)
      BY <2>6 DEF SetRenderPrepStats, phase
    <3> QED
      BY <2>2, <2>3, <3>1, BoundaryReports DEF FinishPhase
  <2> QED
    BY <2>1, <2>4, <2>5, <2>6
<1> QED
  BY <1>1, <1>2

LEMMA FlushStageReports ==
    ASSUME NEW info \in Info, NEW phases \in SUBSET Phase
    PROVE  Reports(info, FlushStage(info, phases))
<1> DEFINE staged == SetStage(info, info.workStage)
           phase == PhaseOf(info.workStage)
<1>1. Reports(info, staged)
  BY InfoFields, SetStageReports
<1>2. staged \in Info
  BY <1>1 DEF Reports, Good
<1>3. CASE phase \in phases
  <2>1. /\ phase \in Phase /\ ProcessedKey[phase] \in NoClock \ {"hostName"}
        /\ info.workProcessed[phase] \in Datum
    BY <1>3, InfoFields, KeyFacts DEF Datum
  <2>2. FlushStage(info, phases) = SetValue(staged, FALSE, ProcessedKey[phase], info.workProcessed[phase])
    BY <1>3 DEF FlushStage
  <2> HIDE DEF staged, phase
  <2>3. Reports(staged, SetValue(staged, FALSE, ProcessedKey[phase], info.workProcessed[phase]))
    BY <1>2, <2>1, SetReports
  <2> QED
    BY <1>1, <2>2, <2>3, ReportsTrans
<1>4. CASE phase \notin phases
  BY <1>1, <1>4 DEF FlushStage
<1> QED
  BY <1>3, <1>4

LEMMA FlushWorkReports ==
    ASSUME NEW info \in Info
    PROVE  Reports(info, FlushRenderPrepStats(info))
<1>1. LoadGeometry \in SUBSET Phase /\ Tessellation \in SUBSET Phase
  BY DEF Phase
<1>2. Reports(info, info)
  BY WorkKeeps DEF Reports, Good
<1>3. CASE info.loadGeometriesRequestFlush
  <2> DEFINE flushed == FlushStage(info, LoadGeometry)
             made == [flushed EXCEPT !.loadGeometriesRequestFlush = FALSE]
  <2>1. FlushRenderPrepStats(info) = made
    BY <1>3 DEF FlushRenderPrepStats
  <2>2. Reports(info, flushed)
    BY <1>1, FlushStageReports
  <2>3. flushed \in Info
    BY <2>2 DEF Reports, Good
  <2> HIDE DEF flushed
  <2>4. made \in Info /\ made.value = flushed.value /\ made.array = flushed.array
        /\ made.comment = flushed.comment
    BY <2>3 DEF Info
  <2> HIDE DEF made
  <2>5. Reports(flushed, made)
    BY <2>3, <2>4, WorkKeeps DEF Reports, Good
  <2> QED
    BY <2>1, <2>2, <2>5, ReportsTrans
<1>4. CASE ~info.loadGeometriesRequestFlush /\ info.tessellationRequestFlush
  <2> DEFINE flushed == FlushStage(info, Tessellation)
             made == [flushed EXCEPT !.tessellationRequestFlush = FALSE]
  <2>1. FlushRenderPrepStats(info) = made
    BY <1>4 DEF FlushRenderPrepStats
  <2>2. Reports(info, flushed)
    BY <1>1, FlushStageReports
  <2>3. flushed \in Info
    BY <2>2 DEF Reports, Good
  <2> HIDE DEF flushed
  <2>4. made \in Info /\ made.value = flushed.value /\ made.array = flushed.array
        /\ made.comment = flushed.comment
    BY <2>3 DEF Info
  <2> HIDE DEF made
  <2>5. Reports(flushed, made)
    BY <2>3, <2>4, WorkKeeps DEF Reports, Good
  <2> QED
    BY <2>1, <2>2, <2>5, ReportsTrans
<1>5. CASE ~info.loadGeometriesRequestFlush /\ ~info.tessellationRequestFlush
  BY <1>2, <1>5 DEF FlushRenderPrepStats
<1> QED
  BY <1>3, <1>4, <1>5

LEMMA FlushPasses ==
    ASSUME NEW info \in Info
    PROVE  Passes(info, FlushEncodeData(info), info.comment)
<1> DEFINE flushed == FlushRenderPrepStats(info)
<1>1. flushed \in Info /\ Keeps(info, flushed)
  BY FlushWorkReports DEF Reports, Good
<1>2. flushed.comment = info.comment /\ info.comment \in Comments
  BY <1>1, InfoFields DEF Keeps
<1> HIDE DEF flushed
<1>3. Passes(flushed, FlushComments(flushed), info.comment)
  BY <1>1, <1>2, FlushCommentsPasses
<1>4. Passes(info, FlushComments(flushed), info.comment)
  BY <1>1, <1>2, <1>3, KeepsThenPasses
<1> QED
  BY <1>4 DEF FlushEncodeData, flushed

LEMMA FlushEmpties ==
    ASSUME NEW info \in Info
    PROVE  FlushEncodeData(info) \in Info /\ FlushEncodeData(info).comment = <<>>
<1>1. FlushRenderPrepStats(info) \in Info
  BY FlushWorkReports DEF Reports, Good
<1>2. FlushComments(FlushRenderPrepStats(info)).comment = <<>>
  BY <1>1, FlushCommentsPasses
<1> QED
  BY <1>2, FlushPasses DEF FlushEncodeData, Passes

(* Only at an MCRT computation is there something in the work area.        *)
Calm(info) == ~info.loadGeometriesRequestFlush /\ ~info.tessellationRequestFlush

LEMMA FlushOfCalm ==
    ASSUME NEW info \in Info, Calm(info)
    PROVE  FlushEncodeData(info).value = info.value /\ Calm(FlushEncodeData(info))
<1>1. FlushRenderPrepStats(info) = info
  BY DEF FlushRenderPrepStats, Calm
<1>2. FlushEncodeData(info) = FlushComments(info)
  BY <1>1 DEF FlushEncodeData
<1>3. FlushComments(info).value = info.value /\ SameWork(info, FlushComments(info))
  BY FlushCommentsPasses
<1> QED
  BY <1>2, <1>3 DEF Calm, SameWork

(* A comment waits until the next flush.                                   *)
LEMMA EnqPasses ==
    ASSUME NEW info \in Info, NEW comments \in Comments
    PROVE  Passes(info, EnqGenericComment(info, comments), <<>>)
<1> DEFINE made == EnqGenericComment(info, comments)
<1>1. made \in Info /\ made.value = info.value /\ made.array = info.array
  BY EnqMakes DEF SameWork
<1> HIDE DEF made
<1>2. ASSUME NEW base \in Info PROVE Rest(base, info).comment \o <<>> = Rest(base, info).comment
  BY RestType, InfoFields, NoComments
<1>3. Passes(info, made, <<>>)
  BY <1>1, <1>2 DEF Passes, Rest, Agree
<1> QED
  BY <1>3 DEF made

LEMMA PassesOn ==
    ASSUME NEW info \in Info, NEW made, NEW further, Passes(info, made, <<>>), Passes(made, further, <<>>)
    PROVE  Passes(info, further, <<>>)
<1>1. ASSUME NEW base \in Info
      PROVE  Rest(base, further).comment = Rest(base, info).comment \o <<>>
  <2>1. Rest(base, info).comment \in Comments
    BY RestType, InfoFields
  <2>2. Rest(base, info).comment \o <<>> = Rest(base, info).comment
    BY <2>1, NoComments
  <2>3. Rest(base, made).comment = Rest(base, info).comment
    BY <2>2 DEF Passes
  <2>4. Rest(base, further).comment = Rest(base, made).comment \o <<>>
    BY DEF Passes
  <2> QED
    BY <2>2, <2>3, <2>4
<1> QED
  BY <1>1 DEF Passes

(* The merge computation passes on what it decodes.                        *)
LEMMA RelayEntryPasses ==
    ASSUME NEW info \in Info, NEW change \in Change
    PROVE  /\ Passes(info, DecodeEntry(info, FALSE, change), <<>>)
           /\ Calm(info) => Calm(DecodeEntry(info, FALSE, change))
<1>1. CASE change.key = "genericComment"
  <2>1. change.value \in Comments
    BY <1>1, ChangeIs
  <2>2. DecodeEntry(info, FALSE, change) = EnqGenericComment(info, change.value)
    BY <1>1 DEF DecodeEntry
  <2>3. Passes(info, EnqGenericComment(info, change.value), <<>>)
    BY <2>1, EnqPasses
  <2>4. SameWork(info, EnqGenericComment(info, change.value))
    BY <2>1, EnqMakes
  <2> QED
    BY <2>2, <2>3, <2>4 DEF Calm, SameWork
<1>2. CASE change.key # "genericComment"
  <2>1. change.key \in Key /\ change.value \in Datum
    BY <1>2, ChangeIs
  <2>2. DecodeEntry(info, FALSE, change) = SetValue(info, FALSE, change.key, change.value)
    BY <1>2 DEF DecodeEntry
  <2>3. Keeps(info, SetValue(info, FALSE, change.key, change.value))
    BY <2>1, SetKeeps
  <2>4. SameWork(info, SetValue(info, FALSE, change.key, change.value))
    BY <2>1, SetValueMakes
  <2> QED
    BY <2>2, <2>3, <2>4 DEF Calm, SameWork, Keeps
<1> QED
  BY <1>1, <1>2

LEMMA RelayPasses ==
    ASSUME NEW info \in Info, NEW changes \in Changes
    PROVE  /\ Passes(info, DecodeInfo(info, FALSE, changes), <<>>)
           /\ Calm(info) => Calm(DecodeInfo(info, FALSE, changes))
<1> DEFINE decodeOnly == FALSE
           After(s) == DecodeInfo(info, decodeOnly, s)
           T == {s \in Changes : Passes(info, After(s), <<>>) /\ (Calm(info) => Calm(After(s)))}
<1>1. <<>> \in T
  <2>1. decodeOnly \in BOOLEAN
    OBVIOUS
  <2> HIDE DEF decodeOnly
  <2>2. After(<<>>) = info
    BY <2>1, DecodeNothing
  <2>3. Passes(info, info, <<>>)
    BY WorkKeeps DEF Keeps
  <2> QED
    BY <2>2, <2>3, EmptySeq DEF Changes
<1>2. ASSUME NEW s \in Changes, NEW change \in Change, s \in T PROVE Append(s, change) \in T
  <2>1. decodeOnly \in BOOLEAN /\ decodeOnly = FALSE
    OBVIOUS
  <2> HIDE DEF decodeOnly
  <2>2. After(s) \in Info /\ Append(s, change) \in Changes
    BY <2>1, DecodeType, DecodeAppend
  <2>3. After(Append(s, change)) = DecodeEntry(After(s), decodeOnly, change)
    BY <2>1, DecodeAppend
  <2>4. Passes(info, After(s), <<>>) /\ (Calm(info) => Calm(After(s)))
    BY <1>2
  <2> DEFINE before == After(s)
             after == After(Append(s, change))
  <2> HIDE DEF After
  <2>5. /\ Passes(before, DecodeEntry(before, FALSE, change), <<>>)
        /\ Calm(before) => Calm(DecodeEntry(before, FALSE, change))
    BY <2>2, RelayEntryPasses
  <2>6. Passes(before, after, <<>>) /\ (Calm(before) => Calm(after))
    BY <2>1, <2>3, <2>5
  <2>7. Passes(info, after, <<>>)
    BY <2>4, <2>6, PassesOn
  <2> QED
    BY <2>2, <2>4, <2>6, <2>7
<1>3. Changes \subseteq T
  <2> HIDE DEF T
  <2> QED
    BY <1>1, <1>2, SeqInduction DEF Changes
<1> QED
  BY <1>3

-------------------------------------------------------------------------------
(* One hop of the way: the receiver will agree with the sender on K, and   *)
(* will have these comments (Pending).                                     *)
AtReceiver(m, sender, messages, receiver) == Rest(AfterMessages(m, receiver, messages), sender)
Hop(m, sender, messages, receiver, K) == Agree(AtReceiver(m, sender, messages, receiver), sender, K)
Pending(m, sender, messages, receiver) == AtReceiver(m, sender, messages, receiver).comment

LEMMA PendingType ==
    ASSUME NEW m \in Origin, NEW sender \in Info, NEW messages \in Channel, NEW receiver \in Info
    PROVE  /\ AtReceiver(m, sender, messages, receiver) \in Info
           /\ Pending(m, sender, messages, receiver) \in Comments
<1>1. AfterMessages(m, receiver, messages) \in Info
  BY AfterMessagesType
<1>2. AtReceiver(m, sender, messages, receiver) \in Info
  BY <1>1, RestType DEF AtReceiver
<1> QED
  BY <1>2, InfoFields DEF Pending

LEMMA HopPasses ==
    ASSUME NEW m \in Origin, NEW sender \in Info, NEW messages \in Channel, NEW receiver \in Info,
           NEW made, NEW c, Passes(sender, made, c), NEW K \in SUBSET Key,
           Hop(m, sender, messages, receiver, K)
    PROVE  Hop(m, made, messages, receiver, K)
<1>1. AfterMessages(m, receiver, messages) \in Info
  BY AfterMessagesType
<1> QED
  BY <1>1 DEF Hop, AtReceiver, Passes

LEMMA PendingPasses ==
    ASSUME NEW m \in Origin, NEW sender \in Info, NEW messages \in Channel, NEW receiver \in Info,
           NEW made, NEW c, Passes(sender, made, c)
    PROVE  Pending(m, made, messages, receiver) = Pending(m, sender, messages, receiver) \o c
<1>1. AfterMessages(m, receiver, messages) \in Info
  BY AfterMessagesType
<1> QED
  BY <1>1 DEF Pending, AtReceiver, Passes

LEMMA ClearedIs ==
    ASSUME NEW info \in Info
    PROVE  /\ Cleared(info) \in Info
           /\ Cleared(info).value = info.value /\ Cleared(info).comment = info.comment
           /\ Cleared(info).array = <<>>
           /\ Calm(info) => Calm(Cleared(info))
<1>1. <<>> \in Changes
  BY EmptySeq DEF Changes
<1> QED
  BY <1>1 DEF Cleared, Info, Calm

LEMMA HopSends ==
    ASSUME NEW m \in Origin, NEW sender \in Info, NEW messages \in Channel, NEW receiver \in Info,
           NEW message \in Message, ChangesOf(message, m) = sender.array, NEW K
    PROVE  LET sent == Append(messages, message)
           IN  /\ sent \in Channel
               /\ Hop(m, sender, messages, receiver, K) => Hop(m, Cleared(sender), sent, receiver, K)
               /\ Pending(m, Cleared(sender), sent, receiver) = Pending(m, sender, messages, receiver)
<1> DEFINE sent == Append(messages, message)
           after == AfterMessages(m, receiver, messages)
           made == Cleared(sender)
           decodeOnly == TRUE
<1>1. /\ sent \in Channel
      /\ AfterMessages(m, receiver, sent) = DecodeInfo(after, TRUE, sender.array)
  <2>1. /\ Append(messages, message) \in Channel
        /\ AfterMessages(m, receiver, Append(messages, message))
             = DecodeInfo(AfterMessages(m, receiver, messages), TRUE, ChangesOf(message, m))
    BY AfterMessagesAppend
  <2> QED
    BY <2>1
<1>2. after \in Info /\ sender.array \in Changes /\ decodeOnly \in BOOLEAN
  BY AfterMessagesType, InfoFields
<1>3. made.value = sender.value /\ made.array = <<>>
  BY ClearedIs
<1> HIDE DEF after, sent, made, decodeOnly
<1>4. DecodeInfo(after, decodeOnly, sender.array) \in Info
  BY <1>2, DecodeType
<1>5. DecodeInfo(DecodeInfo(after, decodeOnly, sender.array), decodeOnly, <<>>)
        = DecodeInfo(after, decodeOnly, sender.array)
  BY <1>2, <1>4, DecodeNothing
<1>6. AtReceiver(m, made, sent, receiver) = AtReceiver(m, sender, messages, receiver)
  BY <1>1, <1>3, <1>5 DEF AtReceiver, Rest, after, decodeOnly
<1> QED
  BY <1>1, <1>3, <1>6 DEF Hop, Pending, Agree, sent, made

LEMMA HopReceiver ==
    ASSUME NEW m \in Origin, NEW sender \in Info, NEW messages \in Channel, NEW receiver \in Info,
           NEW made \in Info, NEW p \in Comments, NEW K \in SUBSET Key,
           Ahead(receiver, made, p, K)
    PROVE  /\ Hop(m, sender, messages, receiver, K) => Hop(m, sender, messages, made, K)
           /\ Pending(m, sender, messages, receiver) = p \o Pending(m, sender, messages, made)
<1> DEFINE before == AfterMessages(m, receiver, messages)
           after == AfterMessages(m, made, messages)
           decodeOnly == TRUE
<1>1. Ahead(before, after, p, K)
  BY AheadMessages
<1>2. before \in Info /\ after \in Info /\ sender.array \in Changes /\ decodeOnly \in BOOLEAN
  BY AfterMessagesType, InfoFields
<1> HIDE DEF before, after, decodeOnly
<1>3. Ahead(DecodeInfo(before, decodeOnly, sender.array), DecodeInfo(after, decodeOnly, sender.array), p, K)
  BY <1>1, <1>2, AheadDecode
<1>4. Ahead(AtReceiver(m, sender, messages, receiver), AtReceiver(m, sender, messages, made), p, K)
  BY <1>3 DEF AtReceiver, Rest, before, after, decodeOnly
<1> QED
  BY <1>4 DEF Ahead, Hop, Agree, Pending

(* made is what the receiver becomes as it decodes a message.              *)
Receives(m, messages, receiver, made, p, K) ==
    /\ messages # <<>>
    /\ made \in Info /\ p \in Comments /\ K \in SUBSET Key
    /\ Ahead(DecodeInfo(receiver, TRUE, ChangesOf(Head(messages), m)), made, p, K)

LEMMA HopReceives ==
    ASSUME NEW m \in Origin, NEW sender \in Info, NEW messages \in Channel, NEW receiver \in Info,
           NEW made, NEW p, NEW K, Receives(m, messages, receiver, made, p, K)
    PROVE  /\ Hop(m, sender, messages, receiver, K) => Hop(m, sender, Tail(messages), made, K)
           /\ Pending(m, sender, messages, receiver) = p \o Pending(m, sender, Tail(messages), made)
<1> DEFINE decoded == DecodeInfo(receiver, TRUE, ChangesOf(Head(messages), m))
           rest == Tail(messages)
<1>1. /\ Head(messages) \in Message /\ rest \in Channel
      /\ AfterMessages(m, receiver, messages) = AfterMessages(m, decoded, rest)
  BY AfterMessagesHead DEF Receives
<1>2. decoded \in Info
  BY <1>1, DecodeChangesOf
<1>3. AtReceiver(m, sender, messages, receiver) = AtReceiver(m, sender, rest, decoded)
  BY <1>1 DEF AtReceiver
<1> HIDE DEF decoded, rest
<1>4. Ahead(decoded, made, p, K) /\ made \in Info /\ p \in Comments /\ K \in SUBSET Key
  BY DEF decoded, Receives
<1>5. /\ Hop(m, sender, rest, decoded, K) => Hop(m, sender, rest, made, K)
      /\ Pending(m, sender, rest, decoded) = p \o Pending(m, sender, rest, made)
  BY <1>1, <1>2, <1>4, HopReceiver
<1> QED
  BY <1>1, <1>3, <1>5 DEF Hop, Pending, rest

(* A sender that keeps its comments for itself.                            *)
LEMMA PendingStays ==
    ASSUME NEW m \in Origin, NEW sender \in Info, NEW messages \in Channel, NEW receiver \in Info,
           NEW made, Passes(sender, made, <<>>)
    PROVE  Pending(m, made, messages, receiver) = Pending(m, sender, messages, receiver)
<1> DEFINE none == <<>>
<1>1. Passes(sender, made, none)
  OBVIOUS
<1> HIDE DEF none
<1>2. Pending(m, made, messages, receiver) = Pending(m, sender, messages, receiver) \o none
  BY <1>1, PendingPasses
<1>3. Pending(m, sender, messages, receiver) \in Comments
  BY PendingType
<1> QED
  BY <1>2, <1>3, NoComments DEF none

-------------------------------------------------------------------------------
(* The whole way of m's values and comments: from the MCRT computation     *)
(* (info), over the merge computation (relay), to the client (shown).      *)
(* With another thread that sets values, these may get lost on the way to  *)
(* the merge computation.                                                  *)
UpKeys == IF ConcurrentSets THEN {} ELSE NoClock

WayType(info, up, relay, down, shown, s, h) ==
    /\ info \in Info /\ relay \in Info /\ shown \in Info
    /\ up \in Channel /\ down \in Channel
    /\ s \in Comments /\ h \in Comments

Way(m, info, up, relay, down, shown, s, h) ==
    /\ Hop(m, info, up, relay, UpKeys)
    /\ Hop(m, relay, down, shown, Key)
    /\ s = h \o (Pending(m, relay, down, shown) \o Pending(m, info, up, relay) \o info.comment)

LEMMA KeySets == UpKeys \in SUBSET NoClock /\ UpKeys \in SUBSET Key /\ Key \in SUBSET Key /\ {} \in SUBSET Key
BY DEF UpKeys, NoClock

(* An MCRT computation sets a value, or reports a stage.                   *)
LEMMA InfoSets ==
    ASSUME NEW m \in Origin, NEW info, NEW up, NEW relay, NEW down, NEW shown, NEW s, NEW h,
           WayType(info, up, relay, down, shown, s, h), Way(m, info, up, relay, down, shown, s, h),
           NEW made, Good(info, made)
    PROVE  Way(m, made, up, relay, down, shown, s, h)
<1>1. /\ info \in Info /\ relay \in Info /\ up \in Channel
      /\ Passes(info, made, <<>>) /\ made.comment = info.comment
  BY DEF WayType, Good, Keeps
<1>2. Hop(m, made, up, relay, UpKeys)
  BY <1>1, KeySets, HopPasses DEF Way
<1>3. Pending(m, made, up, relay) = Pending(m, info, up, relay)
  BY <1>1, PendingStays
<1> QED
  BY <1>1, <1>2, <1>3 DEF Way

(* It makes a comment.                                                     *)
LEMMA InfoSays ==
    ASSUME NEW m \in Origin, NEW info, NEW up, NEW relay, NEW down, NEW shown, NEW s, NEW h,
           WayType(info, up, relay, down, shown, s, h), Way(m, info, up, relay, down, shown, s, h),
           NEW c \in Comments
    PROVE  Way(m, EnqGenericComment(info, c), up, relay, down, shown, s \o c, h)
<1> DEFINE made == EnqGenericComment(info, c)
           p == Pending(m, relay, down, shown)
           q == Pending(m, info, up, relay)
<1>1. /\ info \in Info /\ relay \in Info /\ up \in Channel /\ info.comment \in Comments
      /\ p \in Comments /\ q \in Comments /\ h \in Comments
  BY PendingType, InfoFields DEF WayType
<1>2. Passes(info, made, <<>>)
  BY <1>1, EnqPasses
<1>3. made.comment = info.comment \o c
  BY <1>1, EnqMakes
<1> HIDE DEF made
<1>4. Hop(m, made, up, relay, UpKeys)
  BY <1>1, <1>2, KeySets, HopPasses DEF Way
<1>5. Pending(m, made, up, relay) = q
  BY <1>1, <1>2, PendingStays
<1>6. s = h \o (p \o q \o info.comment)
  BY DEF Way
<1> HIDE DEF p, q
<1>7. p \o q \in Comments /\ (p \o q \o info.comment) \in Comments
  BY <1>1, CommentsType
<1>8. (h \o (p \o q \o info.comment)) \o c = h \o ((p \o q \o info.comment) \o c)
  BY <1>1, <1>7, CommentsAssociate, ZenonT(60)
<1>9. (p \o q \o info.comment) \o c = (p \o q) \o (info.comment \o c)
  <2> DEFINE pq == p \o q
  <2>1. pq \in Comments
    BY <1>7
  <2> HIDE DEF pq
  <2>2. (pq \o info.comment) \o c = pq \o (info.comment \o c)
    BY <1>1, <2>1, CommentsAssociate
  <2> QED
    BY <2>2 DEF pq
<1>10. s \o c = h \o (p \o q \o made.comment)
  BY <1>3, <1>6, <1>8, <1>9
<1> QED
  BY <1>4, <1>5, <1>10 DEF Way, p, q, made

(* It flushes: its comments are queued.                                    *)
LEMMA InfoFlushes ==
    ASSUME NEW m \in Origin, NEW info, NEW up, NEW relay, NEW down, NEW shown, NEW s, NEW h,
           WayType(info, up, relay, down, shown, s, h), Way(m, info, up, relay, down, shown, s, h)
    PROVE  Way(m, FlushEncodeData(info), up, relay, down, shown, s, h)
<1> DEFINE made == FlushEncodeData(info)
           c == info.comment
           p == Pending(m, relay, down, shown)
           q == Pending(m, info, up, relay)
<1>1. /\ info \in Info /\ relay \in Info /\ up \in Channel /\ c \in Comments
      /\ p \in Comments /\ q \in Comments /\ h \in Comments
  BY PendingType, InfoFields DEF WayType
<1>2. Passes(info, made, c) /\ made.comment = <<>>
  BY <1>1, FlushPasses, FlushEmpties
<1>3. s = h \o (p \o q \o c)
  BY DEF Way
<1> HIDE DEF made, c
<1>4. Hop(m, made, up, relay, UpKeys)
  BY <1>1, <1>2, KeySets, HopPasses DEF Way
<1>5. Pending(m, made, up, relay) = q \o c
  BY <1>1, <1>2, PendingPasses
<1> HIDE DEF p, q
<1>6. (p \o q) \o c = p \o (q \o c)
  BY <1>1, CommentsAssociate
<1>7. q \o c \in Comments
  BY <1>1, CommentsType
<1>8. p \o (q \o c) \in Comments
  BY <1>1, <1>7, CommentsType
<1>9. (p \o (q \o c)) \o <<>> = p \o (q \o c)
  BY <1>8, NoComments
<1>10. s = h \o (p \o Pending(m, made, up, relay) \o made.comment)
  BY <1>2, <1>3, <1>5, <1>6, <1>9
<1> QED
  BY <1>4, <1>10 DEF Way, p, made

(* It sends what is queued, or says the same of its comments.              *)
SaysSame(some, others) ==
    \A base \in Info : DecodeInfo(base, TRUE, some).comment = DecodeInfo(base, TRUE, others).comment
Encodes(encoded, queued) ==
    IF ConcurrentSets THEN SaysSame(encoded, queued) ELSE encoded = queued

LEMMA PendingSends ==
    ASSUME NEW m \in Origin, NEW sender \in Info, NEW messages \in Channel, NEW receiver \in Info,
           NEW message \in Message, SaysSame(ChangesOf(message, m), sender.array)
    PROVE  Pending(m, Cleared(sender), Append(messages, message), receiver)
             = Pending(m, sender, messages, receiver)
<1> DEFINE sent == Append(messages, message)
           after == AfterMessages(m, receiver, messages)
           encoded == ChangesOf(message, m)
           made == Cleared(sender)
           decodeOnly == TRUE
<1>1. AfterMessages(m, receiver, sent) = DecodeInfo(after, TRUE, encoded)
  BY AfterMessagesAppend
<1>2. after \in Info /\ encoded \in Changes /\ decodeOnly \in BOOLEAN
  BY AfterMessagesType, ChangesOfType
<1>3. made.array = <<>>
  BY ClearedIs
<1>4. DecodeInfo(after, TRUE, encoded).comment = DecodeInfo(after, TRUE, sender.array).comment
  BY <1>2 DEF SaysSame
<1> HIDE DEF after, sent, made, encoded, decodeOnly
<1>5. DecodeInfo(after, decodeOnly, encoded) \in Info
  BY <1>2, DecodeType
<1>6. DecodeInfo(DecodeInfo(after, decodeOnly, encoded), decodeOnly, <<>>)
        = DecodeInfo(after, decodeOnly, encoded)
  BY <1>2, <1>5, DecodeNothing
<1>7. AtReceiver(m, made, sent, receiver) = DecodeInfo(after, decodeOnly, encoded)
  BY <1>1, <1>3, <1>6 DEF AtReceiver, Rest, decodeOnly
<1>8. Pending(m, made, sent, receiver) = Pending(m, sender, messages, receiver)
  BY <1>4, <1>7 DEF Pending, AtReceiver, Rest, after, decodeOnly
<1> QED
  BY <1>8 DEF sent, made

LEMMA InfoSends ==
    ASSUME NEW m \in Origin, NEW info, NEW up, NEW relay, NEW down, NEW shown, NEW s, NEW h,
           WayType(info, up, relay, down, shown, s, h), Way(m, info, up, relay, down, shown, s, h),
           NEW message \in Message, Encodes(ChangesOf(message, m), info.array)
    PROVE  Way(m, Cleared(info), Append(up, message), relay, down, shown, s, h)
<1> DEFINE sent == Append(up, message)
           made == Cleared(info)
<1>1. info \in Info /\ relay \in Info /\ up \in Channel
  BY DEF WayType
<1>2. made.comment = info.comment
  BY <1>1, ClearedIs
<1>3. Hop(m, made, sent, relay, UpKeys)
  <2>1. CASE ConcurrentSets
    BY <2>1 DEF Hop, Agree, UpKeys
  <2>2. CASE ~ConcurrentSets
    <3>1. ChangesOf(message, m) = info.array
      BY <2>2 DEF Encodes
    <3>2. Hop(m, info, up, relay, UpKeys) => Hop(m, made, sent, relay, UpKeys)
      BY <1>1, <3>1, HopSends
    <3> QED
      BY <3>2 DEF Way
  <2> QED
    BY <2>1, <2>2
<1>4. Pending(m, made, sent, relay) = Pending(m, info, up, relay)
  <2>1. SaysSame(ChangesOf(message, m), info.array)
    BY DEF Encodes, SaysSame
  <2> QED
    BY <1>1, <2>1, PendingSends
<1> HIDE DEF sent, made
<1>5. Way(m, made, sent, relay, down, shown, s, h)
  BY <1>2, <1>3, <1>4 DEF Way
<1> QED
  BY <1>5 DEF sent, made

(* The merge computation decodes a message.                                *)
LEMMA RelayDecodes ==
    ASSUME NEW m \in Origin, NEW info, NEW up, NEW relay, NEW down, NEW shown, NEW s, NEW h,
           WayType(info, up, relay, down, shown, s, h), Way(m, info, up, relay, down, shown, s, h),
           up # <<>>
    PROVE  Way(m, info, Tail(up), DecodeInfo(relay, FALSE, ChangesOf(Head(up), m)), down, shown, s, h)
<1> DEFINE changes == ChangesOf(Head(up), m)
           decoded == DecodeInfo(relay, TRUE, changes)
           made == DecodeInfo(relay, FALSE, changes)
           none == <<>>
           rest == Tail(up)
<1>1. /\ info \in Info /\ relay \in Info /\ up \in Channel /\ shown \in Info /\ down \in Channel
      /\ changes \in Changes /\ none \in Comments /\ UpKeys \in SUBSET Key
  BY AfterMessagesHead, ChangesOfType, NoComments, KeySets DEF WayType
<1>2. Passes(relay, made, <<>>)
  <2> HIDE DEF changes
  <2> QED
    BY <1>1, RelayPasses
<1>3. made \in Info
  BY <1>2 DEF Passes
<1>4. Ahead(decoded, made, none, UpKeys)
  <2> DEFINE d == TRUE
             e == FALSE
  <2>1. d \in BOOLEAN /\ e \in BOOLEAN
    OBVIOUS
  <2>2. Ahead(relay, relay, none, UpKeys)
    BY <1>1, InfoFields, NoComments DEF Ahead
  <2> HIDE DEF d, e, none, changes
  <2>3. Ahead(DecodeInfo(relay, d, changes), DecodeInfo(relay, e, changes), none, UpKeys)
    BY <1>1, <2>1, <2>2, AheadDecode
  <2> QED
    BY <2>3 DEF d, e
<1>5. Receives(m, up, relay, made, none, UpKeys) /\ rest \in Channel
  BY <1>1, <1>3, <1>4, AfterMessagesHead DEF Receives
<1> HIDE DEF none, made, changes
<1>6. /\ Hop(m, info, up, relay, UpKeys) => Hop(m, info, rest, made, UpKeys)
      /\ Pending(m, info, up, relay) = none \o Pending(m, info, rest, made)
  BY <1>1, <1>5, HopReceives
<1>7. Pending(m, info, rest, made) \in Comments
  BY <1>1, <1>3, <1>5, PendingType
<1>8. Pending(m, info, up, relay) = Pending(m, info, rest, made)
  BY <1>6, <1>7, NoComments DEF none
<1>9. Hop(m, made, down, shown, Key)
  BY <1>1, <1>2, KeySets, HopPasses DEF Way
<1>10. Pending(m, made, down, shown) = Pending(m, relay, down, shown)
  BY <1>1, <1>2, PendingStays
<1>11. Way(m, info, rest, made, down, shown, s, h)
  BY <1>6, <1>8, <1>9, <1>10 DEF Way
<1> QED
  BY <1>11 DEF made, changes, rest

(* It sets the values of the clock.                                        *)
LEMMA ShiftMakes ==
    ASSUME NEW info \in Info, NEW shift \in Number
    PROVE  /\ Good(info, WithShift(info, shift))
           /\ Ahead(info, WithShift(info, shift), <<>>, NoClock)
           /\ Calm(info) => Calm(WithShift(info, shift))
<1> DEFINE shifted == SetValue(info, FALSE, "clockTimeShift", shift)
           made == SetValue(shifted, FALSE, "lastRunClockOffsetTime", 1)
<1>1. /\ "clockTimeShift" \in Key /\ "lastRunClockOffsetTime" \in Key
      /\ "clockTimeShift" \in ClockKey /\ "lastRunClockOffsetTime" \in ClockKey
      /\ shift \in Datum /\ 1 \in Datum
  BY KeyFacts DEF ClockKey, Datum
<1>2. /\ SameWork(info, shifted)
      /\ shifted.value = Assigned(info.value, "clockTimeShift", shift)
      /\ shifted.comment = info.comment
  BY <1>1, SetValueMakes
<1>3. Good(info, shifted) /\ shifted \in Info
  BY <1>1, SetGood DEF Good
<1> HIDE DEF shifted
<1>4. /\ SameWork(shifted, made)
      /\ made.value = Assigned(shifted.value, "lastRunClockOffsetTime", 1)
      /\ made.comment = shifted.comment
  BY <1>1, <1>3, SetValueMakes, ZenonT(60)
<1>5. Good(shifted, made)
  BY <1>1, <1>3, SetGood
<1> HIDE DEF made
<1>6. Good(info, made)
  BY <1>3, <1>5, GoodTrans
<1>7. info.value \in [Key -> Datum] /\ shifted.value \in [Key -> Datum] /\ info.comment \in Comments
  BY <1>3, InfoFields
<1>8. ASSUME NEW key \in NoClock PROVE info.value[key] = made.value[key]
  <2>1. key \in Key /\ key # "clockTimeShift" /\ key # "lastRunClockOffsetTime"
    BY <1>1 DEF NoClock
  <2>2. shifted.value[key] = NewValue(info.value, "clockTimeShift", shift, key)
    BY <1>1, <1>2, <1>7, <2>1, AssignedIs
  <2>3. made.value[key] = NewValue(shifted.value, "lastRunClockOffsetTime", 1, key)
    BY <1>1, <1>4, <1>7, <2>1, AssignedIs
  <2> QED
    BY <2>1, <2>2, <2>3 DEF NewValue
<1>9. Ahead(info, made, <<>>, NoClock)
  BY <1>2, <1>4, <1>7, <1>8, NoComments DEF Ahead
<1>10. Calm(info) => Calm(made)
  BY <1>2, <1>4 DEF SameWork, Calm
<1> QED
  BY <1>6, <1>9, <1>10 DEF WithShift, made, shifted

LEMMA RelaySetsClock ==
    ASSUME NEW m \in Origin, NEW info, NEW up, NEW relay, NEW down, NEW shown, NEW s, NEW h,
           WayType(info, up, relay, down, shown, s, h), Way(m, info, up, relay, down, shown, s, h),
           NEW shift \in Number
    PROVE  Way(m, info, up, WithShift(relay, shift), down, shown, s, h)
<1> DEFINE made == WithShift(relay, shift)
           none == <<>>
<1>1. /\ info \in Info /\ relay \in Info /\ up \in Channel /\ shown \in Info /\ down \in Channel
      /\ none \in Comments /\ UpKeys \in SUBSET Key
  BY NoComments, KeySets DEF WayType
<1>2. made \in Info /\ Passes(relay, made, <<>>) /\ Ahead(relay, made, none, UpKeys)
  <2>1. Ahead(relay, made, none, NoClock)
    BY <1>1, ShiftMakes
  <2>2. Good(relay, made)
    BY <1>1, ShiftMakes
  <2>3. Ahead(relay, made, none, UpKeys)
    BY <2>1, KeySets DEF Ahead
  <2> QED
    BY <2>2, <2>3 DEF Good, Keeps
<1> HIDE DEF none, made
<1>3. /\ Hop(m, info, up, relay, UpKeys) => Hop(m, info, up, made, UpKeys)
      /\ Pending(m, info, up, relay) = none \o Pending(m, info, up, made)
  BY <1>1, <1>2, HopReceiver, SMTT(30)
<1>4. Pending(m, info, up, made) \in Comments
  BY <1>1, <1>2, PendingType
<1>5. Pending(m, info, up, relay) = Pending(m, info, up, made)
  BY <1>3, <1>4, NoComments DEF none
<1>6. Hop(m, made, down, shown, Key)
  BY <1>1, <1>2, KeySets, HopPasses DEF Way
<1>7. Pending(m, made, down, shown) = Pending(m, relay, down, shown)
  BY <1>1, <1>2, PendingStays
<1>8. Way(m, info, up, made, down, shown, s, h)
  BY <1>3, <1>5, <1>6, <1>7 DEF Way
<1> QED
  BY <1>8 DEF made

(* It sends what is queued, its comments last.                             *)
LEMMA RelaySends ==
    ASSUME NEW m \in Origin, NEW info, NEW up, NEW relay, NEW down, NEW shown, NEW s, NEW h,
           WayType(info, up, relay, down, shown, s, h), Way(m, info, up, relay, down, shown, s, h),
           Calm(relay), NEW message \in Message,
           ChangesOf(message, m) = FlushEncodeData(relay).array
    PROVE  Way(m, info, up, Cleared(FlushEncodeData(relay)), Append(down, message), shown, s, h)
<1> DEFINE flushed == FlushEncodeData(relay)
           made == Cleared(flushed)
           sent == Append(down, message)
           c == relay.comment
           p == Pending(m, relay, down, shown)
           q == Pending(m, info, up, relay)
           later == Pending(m, info, up, made)
<1>1. /\ info \in Info /\ relay \in Info /\ up \in Channel /\ shown \in Info /\ down \in Channel
      /\ c \in Comments /\ UpKeys \in SUBSET Key /\ Key \in SUBSET Key
  BY InfoFields, KeySets DEF WayType
<1>2. /\ flushed \in Info /\ flushed.comment = <<>> /\ flushed.value = relay.value
      /\ Passes(relay, flushed, c)
  BY <1>1, FlushPasses, FlushEmpties, FlushOfCalm
<1> HIDE DEF flushed
<1>3. made \in Info /\ made.value = relay.value /\ made.comment = <<>>
  BY <1>2, ClearedIs
<1> HIDE DEF made
<1>4. Ahead(relay, made, c, UpKeys)
  BY <1>1, <1>3, NoComments DEF Ahead
<1> HIDE DEF c
<1>5. /\ Hop(m, info, up, relay, UpKeys) => Hop(m, info, up, made, UpKeys)
      /\ Pending(m, info, up, relay) = c \o Pending(m, info, up, made)
  BY <1>1, <1>3, <1>4, HopReceiver
<1>6. Hop(m, flushed, down, shown, Key)
  BY <1>1, <1>2, HopPasses DEF Way
<1>7. Pending(m, flushed, down, shown) = p \o c
  BY <1>1, <1>2, PendingPasses
<1>8. /\ sent \in Channel
      /\ Hop(m, flushed, down, shown, Key) => Hop(m, made, sent, shown, Key)
      /\ Pending(m, made, sent, shown) = Pending(m, flushed, down, shown)
  <2>1. ChangesOf(message, m) = flushed.array
    BY DEF flushed
  <2> QED
    BY <1>1, <1>2, <2>1, HopSends DEF made
<1>9. p \in Comments /\ later \in Comments
  BY <1>1, <1>3, PendingType
<1>10. s = h \o (p \o q \o info.comment)
  BY DEF Way
<1>11. q = c \o later
  BY <1>5
<1> HIDE DEF p, q, later, sent
<1>12. p \o (c \o later) = (p \o c) \o later
  BY <1>1, <1>9, CommentsAssociate
<1>13. s = h \o ((p \o c) \o later \o info.comment)
  BY <1>10, <1>11, <1>12
<1>14. Way(m, info, up, made, sent, shown, s, h)
  BY <1>5, <1>6, <1>7, <1>8, <1>13 DEF Way, later
<1> QED
  BY <1>14 DEF made, flushed, sent

(* The client decodes a message and takes the comments.                    *)
LEMMA ShownDecodes ==
    ASSUME NEW m \in Origin, NEW info, NEW up, NEW relay, NEW down, NEW shown, NEW s, NEW h,
           WayType(info, up, relay, down, shown, s, h), Way(m, info, up, relay, down, shown, s, h),
           down # <<>>
    PROVE  LET decoded == DecodeInfo(shown, TRUE, ChangesOf(Head(down), m))
           IN  /\ decoded \in Info /\ decoded.comment \in Comments
               /\ [decoded EXCEPT !.comment = <<>>] \in Info
               /\ Way(m, info, up, relay, Tail(down), [decoded EXCEPT !.comment = <<>>],
                      s, h \o decoded.comment)
<1> DEFINE decoded == DecodeInfo(shown, TRUE, ChangesOf(Head(down), m))
           made == [decoded EXCEPT !.comment = <<>>]
           c == decoded.comment
           rest == Tail(down)
           p == Pending(m, relay, down, shown)
           later == Pending(m, relay, rest, made)
           q == Pending(m, info, up, relay)
           own == info.comment
<1>1. /\ info \in Info /\ relay \in Info /\ up \in Channel /\ shown \in Info /\ down \in Channel
      /\ h \in Comments /\ own \in Comments /\ Key \in SUBSET Key
  BY InfoFields, KeySets DEF WayType
<1>2. decoded \in Info /\ c \in Comments
  <2>1. Head(down) \in Message
    BY <1>1, AfterMessagesHead
  <2>2. decoded \in Info
    BY <1>1, <2>1, DecodeChangesOf
  <2> HIDE DEF decoded
  <2> QED
    BY <2>2, InfoFields
<1>3. made \in Info /\ made.value = decoded.value /\ made.comment = <<>>
  <2> HIDE DEF decoded
  <2> QED
    BY <1>2, NoComments DEF Info
<1>4. Ahead(decoded, made, c, Key)
  <2> HIDE DEF decoded
  <2> QED
    BY <1>2, <1>3, NoComments DEF Ahead
<1>5. Receives(m, down, shown, made, c, Key) /\ rest \in Channel
  BY <1>1, <1>2, <1>3, <1>4, AfterMessagesHead DEF Receives
<1> HIDE DEF made, c
<1>6. /\ Hop(m, relay, down, shown, Key) => Hop(m, relay, rest, made, Key)
      /\ Pending(m, relay, down, shown) = c \o Pending(m, relay, rest, made)
  BY <1>1, <1>5, HopReceives
<1>7. later \in Comments /\ q \in Comments
  BY <1>1, <1>3, <1>5, PendingType
<1>8. p = c \o later /\ s = h \o (p \o q \o own)
  BY <1>6 DEF Way
<1> HIDE DEF decoded, p, q, later, own, rest
<1>9. (c \o later) \o q = c \o (later \o q)
  BY <1>2, <1>7, CommentsAssociate
<1>10. later \o q \in Comments
  BY <1>7, CommentsType
<1> DEFINE both == later \o q
<1>11. both \in Comments
  BY <1>10
<1>12. (c \o later) \o q = c \o both
  BY <1>9
<1> HIDE DEF both
<1>13. (c \o both) \o own = c \o (both \o own)
  BY <1>1, <1>2, <1>11, CommentsAssociate
<1>14. both \o own \in Comments
  BY <1>1, <1>11, CommentsType
<1>15. h \o (c \o (both \o own)) = (h \o c) \o (both \o own)
  BY <1>1, <1>2, <1>14, CommentsAssociate
<1>16. s = (h \o c) \o (both \o own)
  BY <1>8, <1>12, <1>13, <1>15
<1>17. Way(m, info, up, relay, rest, made, s, h \o c)
  BY <1>6, <1>16 DEF Way, both, later, q, own
<1> QED
  BY <1>2, <1>3, <1>17 DEF made, decoded, c, rest

-------------------------------------------------------------------------------
(* What a GlobalNodeInfo knows, and what it becomes.                       *)
Known == UNION {[machines -> Info] : machines \in SUBSET Machine}

LEMMA KnownIs ==
    ASSUME NEW known \in Known
    PROVE  /\ DOMAIN known \in SUBSET Machine
           /\ known \in [DOMAIN known -> Info]
           /\ \A m \in DOMAIN known : known[m] \in Info
BY DEF Known

LEMMA KnownOf ==
    ASSUME NEW machines \in SUBSET Machine, NEW known \in [machines -> Info]
    PROVE  known \in Known /\ DOMAIN known = machines
BY DEF Known

LEMMA InfoAtType ==
    ASSUME NEW known \in Known, NEW m
    PROVE  InfoAt(known, m) \in Info
BY KnownIs, NewInfoType DEF InfoAt

LEMMA MessageIs ==
    ASSUME NEW message \in Message
    PROVE  DOMAIN message \in SUBSET Origin
BY DEF Message

LEMMA DecodeMessageIs ==
    ASSUME NEW known \in Known, NEW decodeOnly \in BOOLEAN, NEW message \in Message
    PROVE  /\ DecodeMessage(known, decodeOnly, message) \in Known
           /\ \A m \in Machine : InfoAt(DecodeMessage(known, decodeOnly, message), m)
                                   = DecodeInfo(InfoAt(known, m), decodeOnly, ChangesOf(message, m))
<1> DEFINE machines == DOMAIN known \cup (DOMAIN message \ {MergeItem})
           now(m) == DecodeInfo(InfoAt(known, m), decodeOnly, ChangesOf(message, m))
           decoded == [m \in machines |-> now(m)]
<1>1. DecodeMessage(known, decodeOnly, message) = decoded
  BY DEF DecodeMessage
<1>2. machines \in SUBSET Machine /\ Machine \subseteq Origin
  BY KnownIs, MessageIs DEF Origin
<1>3. ASSUME NEW m \in Machine PROVE now(m) \in Info
  <2>1. InfoAt(known, m) \in Info /\ m \in Origin
    BY <1>2, InfoAtType
  <2> QED
    BY <2>1, DecodeChangesOf
<1>4. ASSUME NEW m \in Machine, m \notin machines PROVE now(m) = NewInfo
  <2>1. m # MergeItem
    BY ConstantsAssumption
  <2>2. InfoAt(known, m) = NewInfo /\ ChangesOf(message, m) = <<>>
    BY <1>4, <2>1 DEF InfoAt, ChangesOf
  <2> QED
    BY <2>2, NewInfoType, DecodeNothing
<1> HIDE DEF now, machines
<1>5. decoded \in [machines -> Info]
  BY <1>2, <1>3
<1>6. decoded \in Known
  BY <1>2, <1>5, KnownOf
<1>7. \A m \in Machine : InfoAt(decoded, m) = now(m)
  BY <1>4 DEF InfoAt
<1> QED
  BY <1>1, <1>6, <1>7 DEF now

LEMMA EmptyingNew ==
    /\ [NewInfo EXCEPT !.comment = <<>>] = NewInfo
    /\ [NewInfo EXCEPT !.array = <<>>] = NewInfo
<1> DEFINE info == NewInfo
<1>1. info \in Info /\ info.comment = <<>> /\ info.array = <<>>
  BY NewInfoType DEF NewInfo
<1> HIDE DEF info
<1>2. [info EXCEPT !.comment = info.comment] = info /\ [info EXCEPT !.array = info.array] = info
  BY <1>1 DEF Info
<1> QED
  BY <1>1, <1>2 DEF info

LEMMA DeqIs ==
    ASSUME NEW known \in Known
    PROVE  /\ DeqGenericComment(known) \in Known
           /\ \A m \in Machine : InfoAt(DeqGenericComment(known), m)
                                   = [InfoAt(known, m) EXCEPT !.comment = <<>>]
<1> DEFINE taken == [m \in DOMAIN known |-> [known[m] EXCEPT !.comment = <<>>]]
<1>1. ASSUME NEW m \in DOMAIN known PROVE [known[m] EXCEPT !.comment = <<>>] \in Info
  <2> DEFINE info == known[m]
  <2>1. info \in Info
    BY KnownIs
  <2> HIDE DEF info
  <2>2. [info EXCEPT !.comment = <<>>] \in Info
    BY <2>1, NoComments DEF Info
  <2> QED
    BY <2>2 DEF info
<1>2. taken \in [DOMAIN known -> Info] /\ DOMAIN known \in SUBSET Machine
  BY <1>1, KnownIs
<1>3. taken \in Known
  BY <1>2, KnownOf
<1>4. [NewInfo EXCEPT !.comment = <<>>] = NewInfo
  BY EmptyingNew
<1>5. \A m \in Machine : InfoAt(taken, m) = [InfoAt(known, m) EXCEPT !.comment = <<>>]
  BY <1>4 DEF InfoAt
<1> QED
  BY <1>3, <1>5 DEF DeqGenericComment

(* encode at the merge computation.                                        *)
LEMMA FlushNew ==
    /\ FlushEncodeData(NewInfo) = NewInfo
    /\ Cleared(NewInfo) = NewInfo
    /\ Calm(NewInfo)
<1>1. /\ NewInfo.loadGeometriesRequestFlush = FALSE /\ NewInfo.tessellationRequestFlush = FALSE
      /\ NewInfo.comment = <<>> /\ NewInfo.array = <<>>
  BY DEF NewInfo
<1>2. NewInfo = [NewInfo EXCEPT !.array = <<>>]
  BY EmptyingNew
<1> QED
  BY <1>1, <1>2 DEF FlushEncodeData, FlushComments, FlushRenderPrepStats, Cleared, Calm

Flushed(known) == [m \in DOMAIN known |-> FlushEncodeData(known[m])]
Sent(known) == [m \in DOMAIN known |-> Cleared(FlushEncodeData(known[m]))]

LEMMA SentIs ==
    ASSUME NEW known \in Known
    PROVE  /\ Sent(known) \in Known
           /\ \A m \in Machine : InfoAt(Sent(known), m) = Cleared(FlushEncodeData(InfoAt(known, m)))
<1>1. ASSUME NEW m \in DOMAIN known PROVE Cleared(FlushEncodeData(known[m])) \in Info
  <2>1. known[m] \in Info
    BY KnownIs
  <2>2. FlushEncodeData(known[m]) \in Info
    BY <2>1, FlushEmpties
  <2> QED
    BY <2>2, ClearedIs
<1>2. Sent(known) \in [DOMAIN known -> Info] /\ DOMAIN known \in SUBSET Machine
  BY <1>1, KnownIs DEF Sent
<1>3. Sent(known) \in Known
  BY <1>2, KnownOf
<1>4. ASSUME NEW m \in Machine
      PROVE  InfoAt(Sent(known), m) = Cleared(FlushEncodeData(InfoAt(known, m)))
  <2>1. DOMAIN Sent(known) = DOMAIN known
    BY DEF Sent
  <2>2. CASE m \in DOMAIN known
    BY <2>1, <2>2 DEF InfoAt, Sent
  <2>3. CASE m \notin DOMAIN known
    <3>1. InfoAt(known, m) = NewInfo /\ InfoAt(Sent(known), m) = NewInfo
      BY <2>1, <2>3 DEF InfoAt
    <3> QED
      BY <3>1, FlushNew
  <2> QED
    BY <2>2, <2>3
<1> QED
  BY <1>3, <1>4

LEMMA EncodedType ==
    ASSUME NEW known \in Known, NEW comment \in Comments
    PROVE  MessageOf(Flushed(known), comment) \in Message
<1> DEFINE flushed == Flushed(known)
           changed == {m \in DOMAIN flushed : flushed[m].array # <<>>}
           comments == IF comment = <<>> THEN {} ELSE {MergeItem}
           entry == Entry("genericComment", comment)
           part(o) == IF o = MergeItem THEN <<entry>> ELSE flushed[o].array
<1>1. DOMAIN flushed = DOMAIN known /\ DOMAIN known \in SUBSET Machine
  BY KnownIs DEF Flushed
<1>2. changed \cup comments \in SUBSET Origin
  BY <1>1 DEF Origin
<1>3. <<entry>> \in Changes
  <2>1. entry \in Change
    BY DEF Entry, Change
  <2> HIDE DEF entry
  <2> QED
    BY <2>1 DEF Changes
<1>4. ASSUME NEW o \in changed \cup comments PROVE part(o) \in Changes
  <2>1. CASE o = MergeItem
    BY <1>3, <2>1
  <2>2. CASE o # MergeItem
    <3>1. o \in DOMAIN known
      BY <1>1, <1>4, <2>2
    <3>2. known[o] \in Info /\ flushed[o] = FlushEncodeData(known[o])
      BY <3>1, KnownIs DEF Flushed
    <3>3. flushed[o] \in Info
      BY <3>2, FlushEmpties
    <3> HIDE DEF flushed
    <3>4. flushed[o].array \in Changes
      BY <3>3, InfoFields
    <3> QED
      BY <2>2, <3>4
  <2> QED
    BY <2>1, <2>2
<1>5. MessageOf(flushed, comment) = [o \in changed \cup comments |-> part(o)]
  BY DEF MessageOf
<1> HIDE DEF part, changed, comments, flushed
<1>6. [o \in changed \cup comments |-> part(o)] \in [changed \cup comments -> Changes]
  BY <1>4
<1> QED
  BY <1>2, <1>5, <1>6 DEF Message, flushed

LEMMA EncodedChanges ==
    ASSUME NEW known \in Known, NEW comment \in Comments, NEW m \in Machine
    PROVE  ChangesOf(MessageOf(Flushed(known), comment), m) = FlushEncodeData(InfoAt(known, m)).array
<1>1. m # MergeItem
  BY ConstantsAssumption
<1>2. DOMAIN Flushed(known) = DOMAIN known
  BY DEF Flushed
<1>3. CASE m \in DOMAIN known
  <2>1. Flushed(known)[m] = FlushEncodeData(known[m]) /\ InfoAt(known, m) = known[m]
    BY <1>3 DEF Flushed, InfoAt
  <2> QED
    BY <1>1, <1>2, <1>3, <2>1 DEF ChangesOf, MessageOf
<1>4. CASE m \notin DOMAIN known
  <2>1. InfoAt(known, m) = NewInfo /\ NewInfo.array = <<>>
    BY <1>4 DEF InfoAt, NewInfo
  <2> QED
    BY <1>1, <1>2, <1>4, <2>1, FlushNew DEF ChangesOf, MessageOf
<1> QED
  BY <1>3, <1>4

LEMMA EncodedComments ==
    ASSUME NEW known \in Known, NEW comment \in Comments
    PROVE  ChangesOf(MessageOf(Flushed(known), comment), MergeItem)
             = IF comment = <<>> THEN <<>> ELSE <<Entry("genericComment", comment)>>
<1>1. MergeItem \notin DOMAIN Flushed(known)
  BY KnownIs, ConstantsAssumption DEF Flushed
<1> QED
  BY <1>1 DEF ChangesOf, MessageOf

-------------------------------------------------------------------------------
(* The inductive invariant: the way of every MCRT computation and that of  *)
(* the merge computation's comments.  What is being encoded is what is     *)
(* queued, or at least the comments, if another thread sets values         *)
(* meanwhile; a message of an MCRT computation is of that one alone; and   *)
(* the merge computation has no work area to flush.                        *)
Parts ==
    /\ hostOf \in [Machine -> Host]
    /\ nodes \in [Machine -> Info]
    /\ toMerge \in [Machine -> Channel]
    /\ toClient \in Channel
    /\ merge \in [nodes : Known, comment : Comments]
    /\ client \in [nodes : Known]
    /\ said \in [Origin -> Comments] /\ heard \in [Origin -> Comments]

Inputs ==
    /\ reported \in [Machine -> [stage : Stages, count : Nat]]
    /\ inputs \in Nat

EncodesWhatIsQueued ==
    /\ encoding \in [Machine -> Changes]
    /\ \A m \in Machine : encoding[m] = NoEncoding \/ Encodes(encoding[m], nodes[m].array)

MessagesAreOwn == \A m \in Machine : toMerge[m] \in Seq([{m} -> Changes])

MergeIsCalm == \A m \in Machine : Calm(InfoAt(merge.nodes, m))

WayOf(m) == Way(m, nodes[m], toMerge[m], InfoAt(merge.nodes, m), toClient,
                InfoAt(client.nodes, m), said[m], heard[m])
Ways == \A m \in Machine : WayOf(m)

MergeItemsWay ==
    said[MergeItem] = heard[MergeItem] \o AfterMessages(MergeItem, NewInfo, toClient).comment
                        \o merge.comment

OnTheWay ==
    /\ Parts /\ Inputs
    /\ EncodesWhatIsQueued /\ MessagesAreOwn /\ MergeIsCalm
    /\ Ways /\ MergeItemsWay

LEMMA PartsOfWay ==
    ASSUME Parts, NEW m \in Machine
    PROVE  /\ WayType(nodes[m], toMerge[m], InfoAt(merge.nodes, m), toClient,
                      InfoAt(client.nodes, m), said[m], heard[m])
           /\ m \in Origin /\ m # MergeItem
<1>1. m \in Origin /\ m # MergeItem
  BY ConstantsAssumption DEF Origin
<1>2. merge.nodes \in Known /\ client.nodes \in Known
  BY DEF Parts
<1>3. InfoAt(merge.nodes, m) \in Info /\ InfoAt(client.nodes, m) \in Info
  BY <1>2, InfoAtType
<1> QED
  BY <1>1, <1>3 DEF WayType, Parts

(* At the start there is only the name of the host to tell.                *)
LEMMA WayStarts ==
    ASSUME NEW m \in Origin
    PROVE  Way(m, NewInfo, <<>>, NewInfo, <<>>, NewInfo, <<>>, <<>>)
<1> DEFINE info == NewInfo
           none == <<>>
           decodeOnly == TRUE
<1>1. info \in Info /\ info.array = <<>> /\ info.comment = none /\ decodeOnly \in BOOLEAN
  BY NewInfoType DEF NewInfo
<1>2. none \in Comments /\ none \o none = none
  BY NoComments
<1> HIDE DEF info, decodeOnly
<1>3. AfterMessages(m, info, <<>>) = info
  BY <1>1, AfterNoMessages
<1>4. DecodeInfo(info, decodeOnly, <<>>) = info
  BY <1>1, DecodeNothing
<1>5. AtReceiver(m, info, <<>>, info) = info
  BY <1>1, <1>3, <1>4 DEF AtReceiver, Rest, decodeOnly
<1>6. Pending(m, info, <<>>, info) = none /\ \A K : Hop(m, info, <<>>, info, K)
  BY <1>1, <1>5 DEF Pending, Hop, Agree
<1> HIDE DEF none
<1>7. none = none \o (none \o none \o none)
  BY <1>2
<1>8. Way(m, info, <<>>, info, <<>>, info, none, none)
  BY <1>1, <1>6, <1>7 DEF Way
<1> QED
  BY <1>8 DEF info, none

LEMMA Starts == Init => OnTheWay
<1> SUFFICES ASSUME Init PROVE OnTheWay
  OBVIOUS
<1>1. hostOf \in [Machine -> Host]
  <2>1. [Machine -> Host] # {}
    <3>1. PICK h \in Host : TRUE
      BY ConstantsAssumption
    <3>2. [m \in Machine |-> h] \in [Machine -> Host]
      OBVIOUS
    <3> QED
      BY <3>2
  <2>2. \E placement \in [Machine -> Host] : TRUE
    BY <2>1
  <2>3. (CHOOSE placement \in [Machine -> Host] : TRUE) \in [Machine -> Host]
    BY <2>2
  <2> QED
    BY <2>3 DEF Init, Placements
<1>2. <<>> \in Channel /\ <<>> \in Comments /\ <<>> \in Changes
  BY EmptySeq, NoComments DEF Channel, Changes
<1>3. <<>> \in Known
  <2>1. {} \in SUBSET Machine /\ <<>> \in [{} -> Info]
    OBVIOUS
  <2> QED
    BY <2>1, KnownOf
<1>4. ASSUME NEW m \in Machine
      PROVE  /\ Good(NewInfo, SetValue(NewInfo, FALSE, "hostName", hostOf[m]))
             /\ SetValue(NewInfo, FALSE, "hostName", hostOf[m]) \in Info
  <2>1. hostOf[m] \in Datum /\ "hostName" \in Key
    BY <1>1, KeyFacts DEF Datum, NoClock
  <2> QED
    BY <2>1, SetGood, NewInfoType DEF Good
<1>5. nodes \in [Machine -> Info]
  BY <1>4 DEF Init
<1>6. Parts
  BY <1>1, <1>2, <1>3, <1>5 DEF Init, Parts
<1>7. Inputs
  BY DEF Init, Inputs, Stages
<1>8. EncodesWhatIsQueued /\ MessagesAreOwn
  BY <1>2 DEF Init, EncodesWhatIsQueued, MessagesAreOwn, NoEncoding
<1>9. ASSUME NEW m \in Machine
      PROVE InfoAt(merge.nodes, m) = NewInfo /\ InfoAt(client.nodes, m) = NewInfo
  <2>1. merge.nodes = <<>> /\ client.nodes = <<>>
    BY DEF Init
  <2>2. m \notin DOMAIN <<>>
    OBVIOUS
  <2> QED
    BY <2>1, <2>2 DEF InfoAt
<1>10. MergeIsCalm
  BY <1>9, FlushNew DEF MergeIsCalm
<1>11. ASSUME NEW m \in Machine PROVE WayOf(m)
  <2> DEFINE made == SetValue(NewInfo, FALSE, "hostName", hostOf[m])
             info == NewInfo
             none == <<>>
  <2>1. m \in Origin /\ info \in Info /\ none \in Channel /\ none \in Comments
    BY <1>2, NewInfoType DEF Origin
  <2>2. WayType(info, none, info, none, info, none, none)
    BY <2>1 DEF WayType
  <2>3. Way(m, info, none, info, none, info, none, none)
    BY <2>1, WayStarts
  <2>4. Good(info, made)
    BY <1>4
  <2>5. /\ nodes[m] = made /\ toMerge[m] = none /\ toClient = none
        /\ said[m] = none /\ heard[m] = none
    BY <2>1 DEF Init
  <2> HIDE DEF made, info, none
  <2>6. Way(m, made, none, info, none, info, none, none)
    BY <2>1, <2>2, <2>3, <2>4, InfoSets
  <2> QED
    BY <1>9, <2>5, <2>6 DEF WayOf, info
<1>12. MergeItemsWay
  <2> DEFINE info == NewInfo
  <2>1. MergeItem \in Origin /\ info \in Info /\ info.comment = <<>>
    BY NewInfoType DEF Origin, NewInfo
  <2> HIDE DEF info
  <2>2. AfterMessages(MergeItem, info, <<>>) = info
    BY <2>1, AfterNoMessages
  <2>3. /\ said[MergeItem] = <<>> /\ heard[MergeItem] = <<>> /\ toClient = <<>>
        /\ merge.comment = <<>>
    BY <2>1 DEF Init
  <2>4. <<>> = <<>> \o <<>> \o <<>>
    BY NoComments
  <2> QED
    BY <2>1, <2>2, <2>3, <2>4 DEF MergeItemsWay, info
<1> QED
  BY <1>6, <1>7, <1>8, <1>10, <1>11, <1>12 DEF OnTheWay, Ways

-------------------------------------------------------------------------------
(* The steps of an MCRT computation change its McrtNodeInfo and what it    *)
(* has said.                                                               *)
InfoStep(m, made, spoken) ==
    /\ nodes' = [nodes EXCEPT ![m] = made]
    /\ said' = [said EXCEPT ![m] = spoken]
    /\ UNCHANGED <<hostOf, toMerge, merge, toClient, client, heard>>

LEMMA InfoStepKeepsWays ==
    ASSUME OnTheWay, NEW m \in Machine, NEW made \in Info, NEW spoken \in Comments,
           Way(m, made, toMerge[m], InfoAt(merge.nodes, m), toClient,
               InfoAt(client.nodes, m), spoken, heard[m]),
           InfoStep(m, made, spoken)
    PROVE  Parts' /\ Ways' /\ MergeItemsWay' /\ MessagesAreOwn' /\ MergeIsCalm'
<1>1. m \in Origin /\ m # MergeItem
  BY PartsOfWay DEF OnTheWay
<1>2. Parts'
  BY <1>1 DEF OnTheWay, Parts, InfoStep
<1>3. MessagesAreOwn' /\ MergeIsCalm'
  BY DEF OnTheWay, MessagesAreOwn, MergeIsCalm, InfoStep
<1>4. MergeItemsWay'
  <2>1. said'[MergeItem] = said[MergeItem]
    BY <1>1 DEF OnTheWay, Parts, InfoStep, Origin
  <2> QED
    BY <2>1 DEF OnTheWay, MergeItemsWay, InfoStep
<1>5. ASSUME NEW n \in Machine PROVE WayOf(n)'
  <2>1. CASE n = m
    <3>1. nodes'[n] = made /\ said'[n] = spoken
      BY <1>1, <2>1 DEF OnTheWay, Parts, InfoStep
    <3> QED
      BY <2>1, <3>1 DEF WayOf, InfoStep
  <2>2. CASE n # m
    <3>1. nodes'[n] = nodes[n] /\ said'[n] = said[n]
      BY <1>1, <2>2 DEF OnTheWay, Parts, InfoStep, Origin
    <3>2. WayOf(n)
      BY DEF OnTheWay, Ways
    <3> QED
      BY <3>1, <3>2 DEF WayOf, InfoStep
  <2> QED
    BY <2>1, <2>2
<1> QED
  BY <1>2, <1>3, <1>4, <1>5 DEF Ways

(* An input comes between two encodes, or, by another thread, into one.    *)
LEMMA InputAndEncodes ==
    ASSUME OnTheWay, NEW kind, NEW m \in Machine, Input(kind, m),
           NEW made, Passes(nodes[m], made, <<>>), nodes' = [nodes EXCEPT ![m] = made]
    PROVE  EncodesWhatIsQueued' /\ inputs' \in Nat
<1> DEFINE info == nodes[m]
           none == <<>>
<1>1. info \in Info /\ nodes'[m] = made /\ encoding[m] \in Changes
  BY DEF OnTheWay, Parts, EncodesWhatIsQueued
<1>2. encoding' = encoding /\ (encoding[m] = NoEncoding \/ ConcurrentSets)
  BY DEF Input
<1>3. Passes(info, made, none)
  OBVIOUS
<1> HIDE DEF info, none
<1>4. ASSUME NEW base \in Info
      PROVE  DecodeInfo(base, TRUE, made.array).comment = DecodeInfo(base, TRUE, info.array).comment
  <2>1. Rest(base, info).comment \in Comments
    BY <1>1, RestType, InfoFields
  <2>2. Rest(base, made).comment = Rest(base, info).comment \o none
    BY <1>3 DEF Passes
  <2>3. Rest(base, made).comment = Rest(base, info).comment
    BY <2>1, <2>2, NoComments DEF none
  <2> QED
    BY <2>3 DEF Rest
<1>5. encoding[m] = NoEncoding \/ Encodes(encoding[m], made.array)
  <2>1. CASE ConcurrentSets
    <3>1. encoding[m] = NoEncoding \/ SaysSame(encoding[m], info.array)
      BY <2>1 DEF OnTheWay, EncodesWhatIsQueued, Encodes, info
    <3> QED
      BY <1>4, <2>1, <3>1 DEF Encodes, SaysSame
  <2> QED
    BY <1>2, <2>1
<1>6. ASSUME NEW n \in Machine PROVE encoding[n] = NoEncoding \/ Encodes(encoding[n], nodes'[n].array)
  <2>1. CASE n = m
    BY <1>1, <1>5, <2>1
  <2>2. CASE n # m
    <3>1. nodes'[n] = nodes[n]
      BY <2>2 DEF OnTheWay, Parts
    <3> QED
      BY <3>1 DEF OnTheWay, EncodesWhatIsQueued
  <2> QED
    BY <2>1, <2>2
<1> QED
  BY <1>2, <1>6 DEF OnTheWay, EncodesWhatIsQueued, Inputs, Input

(* To set a value or a stage.                                              *)
LEMMA GoodInputKeeps ==
    ASSUME OnTheWay, NEW kind, NEW m \in Machine, Input(kind, m),
           NEW made, Good(nodes[m], made), nodes' = [nodes EXCEPT ![m] = made],
           UNCHANGED said, Inputs'
    PROVE  OnTheWay'
<1>1. /\ WayType(nodes[m], toMerge[m], InfoAt(merge.nodes, m), toClient,
                 InfoAt(client.nodes, m), said[m], heard[m])
      /\ m \in Origin
      /\ Way(m, nodes[m], toMerge[m], InfoAt(merge.nodes, m), toClient,
             InfoAt(client.nodes, m), said[m], heard[m])
  BY PartsOfWay DEF OnTheWay, Ways, WayOf
<1>2. Way(m, made, toMerge[m], InfoAt(merge.nodes, m), toClient,
          InfoAt(client.nodes, m), said[m], heard[m])
  BY <1>1, InfoSets
<1>3. made \in Info /\ said[m] \in Comments
  BY <1>1 DEF Good, WayType
<1>4. InfoStep(m, made, said[m])
  <2>1. said = [said EXCEPT ![m] = said[m]]
    BY <1>1 DEF OnTheWay, Parts
  <2> QED
    BY <2>1 DEF InfoStep, Input
<1>5. Parts' /\ Ways' /\ MergeItemsWay' /\ MessagesAreOwn' /\ MergeIsCalm'
  BY <1>2, <1>3, <1>4, InfoStepKeepsWays
<1>6. EncodesWhatIsQueued'
  <2>1. Passes(nodes[m], made, <<>>)
    BY DEF Good, Keeps
  <2> QED
    BY <2>1, InputAndEncodes
<1> QED
  BY <1>5, <1>6 DEF OnTheWay

LEMMA SetLoadKeeps ==
    ASSUME OnTheWay, NEW m \in Machine, SetLoad(m)
    PROVE  OnTheWay'
<1>1. PICK key \in {"cpuTotal", "coreUsage"}, new \in Number :
         nodes' = [nodes EXCEPT ![m] = SetValue(nodes[m], FALSE, key, new)]
  BY DEF SetLoad
<1>2. nodes[m] \in Info /\ key \in Key /\ new \in Datum
  BY KeyFacts DEF OnTheWay, Parts, NoClock, Datum
<1>3. Good(nodes[m], SetValue(nodes[m], FALSE, key, new))
  BY <1>2, SetGood
<1>4. Input("values", m) /\ UNCHANGED said /\ UNCHANGED reported
  BY DEF SetLoad
<1>5. Inputs'
  BY <1>4 DEF OnTheWay, Inputs, Input
<1> QED
  BY <1>1, <1>3, <1>4, <1>5, GoodInputKeeps

LEMMA NextStagesType ==
    ASSUME NEW stage \in Stages, NEW next \in NextStages(stage)
    PROVE  next \in Stages
<1>1. CASE StepOf(stage) \in {"NOT_ACTIVE", "DONE"}
  BY <1>1, ConstantsAssumption DEF NextStages, Stages
<1>2. CASE StepOf(stage) \notin {"NOT_ACTIVE", "DONE"}
  <2>1. stage # NotActive
    BY <1>2 DEF NotActive, Stage, StepOf
  <2>2. PhaseOf(stage) \in Phase
    BY <2>1, StagesIs
  <2> QED
    BY <1>2, <2>2 DEF NextStages, Stages
<1> QED
  BY <1>1, <1>2

LEMMA ReportStageKeeps ==
    ASSUME OnTheWay, NEW m \in Machine, ReportStage(m)
    PROVE  OnTheWay'
<1>1. PICK stage \in NextStages(reported[m].stage) :
         /\ nodes' = [nodes EXCEPT ![m] = SetRenderPrepStats(nodes[m], stage, inputs')]
         /\ reported' = [reported EXCEPT ![m] = [stage |-> stage, count |-> inputs']]
  BY DEF ReportStage
<1>2. Input("stages", m) /\ UNCHANGED said
  BY DEF ReportStage
<1>3. inputs' \in Nat
  BY <1>2 DEF OnTheWay, Inputs, Input
<1>4. nodes[m] \in Info /\ reported[m].stage \in Stages
  BY DEF OnTheWay, Parts, Inputs
<1>5. stage \in Stages
  BY <1>4, NextStagesType
<1>6. Good(nodes[m], SetRenderPrepStats(nodes[m], stage, inputs'))
  BY <1>3, <1>4, <1>5, StatsReport DEF Reports
<1>7. Inputs'
  BY <1>1, <1>3, <1>5 DEF OnTheWay, Inputs
<1> QED
  BY <1>1, <1>2, <1>6, <1>7, GoodInputKeeps

LEMMA CommentType ==
    ASSUME NEW o \in Origin, Parts
    PROVE  /\ <<Comment(o)>> \in Comments
           /\ Append(said[o], Comment(o)) = said[o] \o <<Comment(o)>>
           /\ said[o] \o <<Comment(o)>> \in Comments
<1>1. said[o] \in Comments
  BY DEF Parts
<1>2. Len(said[o]) + 1 \in Nat
  BY <1>1, LenProperties DEF Comments
<1>3. Comment(o) \in Remark
  BY <1>2 DEF Comment, Remark
<1>4. <<Comment(o)>> \in Comments
  BY <1>3 DEF Comments
<1>5. Append(said[o], Comment(o)) = said[o] \o <<Comment(o)>>
  BY <1>1, <1>3, AppendIsConcat DEF Comments
<1> QED
  BY <1>1, <1>4, <1>5, CommentsType

LEMMA SayCommentKeeps ==
    ASSUME OnTheWay, NEW m \in Machine, SayComment(m)
    PROVE  OnTheWay'
<1> DEFINE c == <<Comment(m)>>
           made == EnqGenericComment(nodes[m], c)
           spoken == said[m] \o c
<1>1. /\ WayType(nodes[m], toMerge[m], InfoAt(merge.nodes, m), toClient,
                 InfoAt(client.nodes, m), said[m], heard[m])
      /\ m \in Origin
      /\ Way(m, nodes[m], toMerge[m], InfoAt(merge.nodes, m), toClient,
             InfoAt(client.nodes, m), said[m], heard[m])
  BY PartsOfWay DEF OnTheWay, Ways, WayOf
<1>2. c \in Comments /\ spoken \in Comments /\ Append(said[m], Comment(m)) = spoken
  BY <1>1, CommentType DEF OnTheWay
<1>3. nodes' = [nodes EXCEPT ![m] = made] /\ Input("comments", m) /\ UNCHANGED reported
  BY DEF SayComment
<1>4. said' = [said EXCEPT ![m] = spoken]
  BY <1>2 DEF SayComment
<1> HIDE DEF c
<1>5. Way(m, made, toMerge[m], InfoAt(merge.nodes, m), toClient,
          InfoAt(client.nodes, m), spoken, heard[m])
  BY <1>1, <1>2, InfoSays
<1>6. made \in Info
  BY <1>1, <1>2, EnqMakes DEF WayType, SameWork
<1>7. InfoStep(m, made, spoken)
  BY <1>3, <1>4 DEF InfoStep, Input
<1> HIDE DEF made, spoken
<1>8. Parts' /\ Ways' /\ MergeItemsWay' /\ MessagesAreOwn' /\ MergeIsCalm'
  BY <1>2, <1>5, <1>6, <1>7, InfoStepKeepsWays
<1>9. EncodesWhatIsQueued'
  <2>1. Passes(nodes[m], made, <<>>)
    BY <1>1, <1>2, EnqPasses DEF made, WayType
  <2> QED
    BY <1>3, <2>1, InputAndEncodes
<1>10. Inputs'
  BY <1>3 DEF OnTheWay, Inputs, Input
<1> QED
  BY <1>8, <1>9, <1>10 DEF OnTheWay

-------------------------------------------------------------------------------
(* encodeTable, in its two steps.                                          *)
LEMMA BeginEncodeKeeps ==
    ASSUME OnTheWay, NEW m \in Machine, BeginEncode(m)
    PROVE  OnTheWay'
<1> DEFINE made == FlushEncodeData(nodes[m])
<1>1. /\ WayType(nodes[m], toMerge[m], InfoAt(merge.nodes, m), toClient,
                 InfoAt(client.nodes, m), said[m], heard[m])
      /\ m \in Origin
      /\ Way(m, nodes[m], toMerge[m], InfoAt(merge.nodes, m), toClient,
             InfoAt(client.nodes, m), said[m], heard[m])
  BY PartsOfWay DEF OnTheWay, Ways, WayOf
<1>2. made \in Info /\ said[m] \in Comments
  BY <1>1, FlushEmpties DEF WayType
<1>3. Way(m, made, toMerge[m], InfoAt(merge.nodes, m), toClient,
          InfoAt(client.nodes, m), said[m], heard[m])
  BY <1>1, InfoFlushes
<1>4. /\ nodes' = [nodes EXCEPT ![m] = made]
      /\ encoding' = [encoding EXCEPT ![m] = made.array]
      /\ UNCHANGED <<hostOf, toMerge, merge, toClient, client, said, heard, reported, inputs>>
  BY DEF BeginEncode, channels, history
<1> HIDE DEF made
<1>5. InfoStep(m, made, said[m])
  <2>1. said = [said EXCEPT ![m] = said[m]]
    BY <1>1 DEF OnTheWay, Parts
  <2> QED
    BY <1>4, <2>1 DEF InfoStep
<1>6. Parts' /\ Ways' /\ MergeItemsWay' /\ MessagesAreOwn' /\ MergeIsCalm'
  BY <1>2, <1>3, <1>5, InfoStepKeepsWays
<1>7. EncodesWhatIsQueued'
  <2>1. made.array \in Changes
    BY <1>2, InfoFields
  <2>2. encoding' \in [Machine -> Changes]
    BY <1>4, <2>1 DEF OnTheWay, EncodesWhatIsQueued
  <2>3. ASSUME NEW n \in Machine
        PROVE  encoding'[n] = NoEncoding \/ Encodes(encoding'[n], nodes'[n].array)
    <3>1. CASE n = m
      <4>1. encoding'[n] = made.array /\ nodes'[n] = made
        BY <1>4, <3>1 DEF OnTheWay, EncodesWhatIsQueued, Parts
      <4> QED
        BY <4>1 DEF Encodes, SaysSame
    <3>2. CASE n # m
      <4>1. encoding'[n] = encoding[n] /\ nodes'[n] = nodes[n]
        BY <1>4, <3>2 DEF OnTheWay, EncodesWhatIsQueued, Parts
      <4> QED
        BY <4>1 DEF OnTheWay, EncodesWhatIsQueued
    <3> QED
      BY <3>1, <3>2
  <2> QED
    BY <2>2, <2>3 DEF EncodesWhatIsQueued
<1>8. Inputs'
  BY <1>4 DEF OnTheWay, Inputs
<1> QED
  BY <1>6, <1>7, <1>8 DEF OnTheWay

LEMMA EndEncodeKeeps ==
    ASSUME OnTheWay, NEW m \in Machine, EndEncode(m)
    PROVE  OnTheWay'
<1> DEFINE message == [o \in {m} |-> encoding[m]]
           made == Cleared(nodes[m])
           sent == Append(toMerge[m], message)
<1>1. /\ WayType(nodes[m], toMerge[m], InfoAt(merge.nodes, m), toClient,
                 InfoAt(client.nodes, m), said[m], heard[m])
      /\ m \in Origin
      /\ Way(m, nodes[m], toMerge[m], InfoAt(merge.nodes, m), toClient,
             InfoAt(client.nodes, m), said[m], heard[m])
  BY PartsOfWay DEF OnTheWay, Ways, WayOf
<1>2. Encodes(encoding[m], nodes[m].array) /\ encoding[m] \in Changes
  BY DEF EndEncode, OnTheWay, EncodesWhatIsQueued
<1>3. /\ nodes' = [nodes EXCEPT ![m] = made]
      /\ toMerge' = [toMerge EXCEPT ![m] = sent]
      /\ encoding' = [encoding EXCEPT ![m] = NoEncoding]
      /\ UNCHANGED <<hostOf, merge, toClient, client, said, heard, reported, inputs>>
  BY DEF EndEncode, history
<1>4. message \in [{m} -> Changes]
  BY <1>2
<1>5. message \in Message /\ Encodes(ChangesOf(message, m), nodes[m].array)
  <2>1. {m} \in SUBSET Origin
    BY <1>1
  <2>2. DOMAIN message = {m} /\ message[m] = encoding[m]
    OBVIOUS
  <2> HIDE DEF message
  <2> QED
    BY <1>2, <1>4, <2>1, <2>2 DEF Message, ChangesOf
<1> HIDE DEF message
<1>6. made \in Info
  BY <1>1, ClearedIs DEF WayType
<1>7. sent \in Channel /\ sent \in Seq([{m} -> Changes])
  <2>1. toMerge[m] \in Channel /\ toMerge[m] \in Seq([{m} -> Changes])
    BY DEF OnTheWay, Parts, MessagesAreOwn
  <2>2. sent \in Channel
    BY <1>5, <2>1, AppendProperties DEF Channel
  <2>3. sent \in Seq([{m} -> Changes])
    BY <1>4, <2>1, AppendProperties
  <2> QED
    BY <2>2, <2>3
<1>8. Way(m, made, sent, InfoAt(merge.nodes, m), toClient, InfoAt(client.nodes, m), said[m], heard[m])
  BY <1>1, <1>5, InfoSends
<1> HIDE DEF made, sent
<1>9. Parts'
  BY <1>3, <1>6, <1>7 DEF OnTheWay, Parts
<1>10. EncodesWhatIsQueued'
  <2>1. encoding' \in [Machine -> Changes]
    BY <1>3, EmptySeq DEF OnTheWay, EncodesWhatIsQueued, NoEncoding, Changes
  <2>2. ASSUME NEW n \in Machine
        PROVE  encoding'[n] = NoEncoding \/ Encodes(encoding'[n], nodes'[n].array)
    <3>1. CASE n = m
      BY <1>3, <3>1 DEF OnTheWay, EncodesWhatIsQueued
    <3>2. CASE n # m
      <4>1. encoding'[n] = encoding[n] /\ nodes'[n] = nodes[n]
        BY <1>3, <3>2 DEF OnTheWay, EncodesWhatIsQueued, Parts
      <4> QED
        BY <4>1 DEF OnTheWay, EncodesWhatIsQueued
    <3> QED
      BY <3>1, <3>2
  <2> QED
    BY <2>1, <2>2 DEF EncodesWhatIsQueued
<1>11. MessagesAreOwn'
  <2>1. ASSUME NEW n \in Machine PROVE toMerge'[n] \in Seq([{n} -> Changes])
    <3>1. toMerge[n] \in Seq([{n} -> Changes])
      BY DEF OnTheWay, MessagesAreOwn
    <3>2. toMerge'[n] = IF n = m THEN sent ELSE toMerge[n]
      BY <1>3 DEF OnTheWay, Parts
    <3> QED
      BY <1>7, <3>1, <3>2
  <2> QED
    BY <2>1 DEF MessagesAreOwn
<1>12. MergeIsCalm' /\ MergeItemsWay' /\ Inputs'
  BY <1>3 DEF OnTheWay, MergeIsCalm, MergeItemsWay, Inputs
<1>13. ASSUME NEW n \in Machine PROVE WayOf(n)'
  <2>1. WayOf(n)
    BY DEF OnTheWay, Ways
  <2>2. /\ nodes'[n] = IF n = m THEN made ELSE nodes[n]
        /\ toMerge'[n] = IF n = m THEN sent ELSE toMerge[n]
    BY <1>3 DEF OnTheWay, Parts
  <2> QED
    BY <1>3, <1>8, <2>1, <2>2 DEF WayOf
<1> QED
  BY <1>9, <1>10, <1>11, <1>12, <1>13 DEF OnTheWay, Ways

(* A first message of an MCRT computation: nothing is known of it yet.      *)
LEMMA MergeMeetsKeeps ==
    ASSUME OnTheWay, NEW m \in Machine, MergeMeets(m)
    PROVE  OnTheWay'
<1> DEFINE known == merge.nodes
           met == [n \in DOMAIN known \cup {m} |-> InfoAt(known, n)]
<1>1. known \in Known /\ merge.comment \in Comments
  BY DEF OnTheWay, Parts
<1>2. /\ merge' = [merge EXCEPT !.nodes = met]
      /\ UNCHANGED <<hostOf, nodes, encoding, toMerge, toClient, client, said, heard, reported, inputs>>
  BY DEF MergeMeets, mcrtVars, history
<1> HIDE DEF known
<1>3. met \in Known
  <2>1. DOMAIN known \cup {m} \in SUBSET Machine
    BY <1>1, KnownIs
  <2>2. met \in [DOMAIN known \cup {m} -> Info]
    BY <1>1, InfoAtType
  <2> HIDE DEF met
  <2> QED
    BY <2>1, <2>2, KnownOf
<1>4. \A n \in Machine : InfoAt(met, n) = InfoAt(known, n)
  BY DEF InfoAt
<1> HIDE DEF met
<1>5. merge' \in [nodes : Known, comment : Comments] /\ merge'.nodes = met
      /\ merge'.comment = merge.comment
  BY <1>1, <1>2, <1>3 DEF OnTheWay, Parts
<1>6. Parts' /\ Inputs' /\ EncodesWhatIsQueued' /\ MessagesAreOwn' /\ MergeItemsWay'
  BY <1>2, <1>5 DEF OnTheWay, Parts, Inputs, EncodesWhatIsQueued, MessagesAreOwn, MergeItemsWay
<1>7. \A n \in Machine : InfoAt(merge'.nodes, n) = InfoAt(merge.nodes, n)
  BY <1>4, <1>5 DEF known
<1>8. MergeIsCalm' /\ Ways'
  BY <1>2, <1>7 DEF OnTheWay, MergeIsCalm, Ways, WayOf
<1> QED
  BY <1>6, <1>8 DEF OnTheWay

LEMMA MergeDecodeKeeps ==
    ASSUME OnTheWay, NEW m \in Machine, MergeDecode(m)
    PROVE  OnTheWay'
<1> DEFINE known == merge.nodes
           message == Head(toMerge[m])
           decodeOnly == FALSE
           decoded == DecodeMessage(known, decodeOnly, message)
           rest == Tail(toMerge[m])
<1>1. known \in Known /\ merge.comment \in Comments /\ decodeOnly \in BOOLEAN
  BY DEF OnTheWay, Parts
<1>2. /\ merge' = [merge EXCEPT !.nodes = decoded]
      /\ toMerge' = [toMerge EXCEPT ![m] = rest]
      /\ toMerge[m] # <<>>
      /\ UNCHANGED <<hostOf, nodes, encoding, toClient, client, said, heard, reported, inputs>>
  BY DEF MergeDecode, mcrtVars, history
<1>3. toMerge[m] \in Channel /\ toMerge[m] \in Seq([{m} -> Changes]) /\ m \in Origin
  BY PartsOfWay DEF OnTheWay, Parts, MessagesAreOwn
<1>4. /\ message \in Message /\ rest \in Channel
      /\ message \in [{m} -> Changes] /\ rest \in Seq([{m} -> Changes])
  <2>1. message \in Message /\ rest \in Channel
    BY <1>2, <1>3, HeadTailProperties DEF Channel
  <2>2. message \in [{m} -> Changes] /\ rest \in Seq([{m} -> Changes])
    BY <1>2, <1>3, HeadTailProperties
  <2> QED
    BY <2>1, <2>2
<1> HIDE DEF decodeOnly, known, rest
<1>5. decoded \in Known
  BY <1>1, <1>4, DecodeMessageIs
<1>6. \A n \in Machine : InfoAt(decoded, n) = DecodeInfo(InfoAt(known, n), decodeOnly, ChangesOf(message, n))
  BY <1>1, <1>4, DecodeMessageIs
<1> HIDE DEF decoded
<1>7. \A n \in Machine : InfoAt(known, n) \in Info
  BY <1>1, InfoAtType
<1>8. ASSUME NEW n \in Machine, n # m PROVE InfoAt(decoded, n) = InfoAt(known, n)
  <2>1. ChangesOf(message, n) = <<>>
    BY <1>4, <1>8 DEF ChangesOf
  <2> QED
    BY <1>1, <1>6, <1>7, <2>1, DecodeNothing
<1>9. merge' \in [nodes : Known, comment : Comments] /\ merge'.nodes = decoded
      /\ merge'.comment = merge.comment
  BY <1>1, <1>2, <1>5 DEF OnTheWay, Parts
<1>10. Parts'
  BY <1>2, <1>4, <1>9 DEF OnTheWay, Parts
<1>11. Inputs' /\ EncodesWhatIsQueued' /\ MergeItemsWay'
  BY <1>2, <1>9 DEF OnTheWay, Inputs, EncodesWhatIsQueued, MergeItemsWay
<1>12. \A n \in Machine : toMerge'[n] = IF n = m THEN rest ELSE toMerge[n]
  BY <1>2 DEF OnTheWay, Parts
<1>13. MessagesAreOwn'
  <2>1. ASSUME NEW n \in Machine PROVE toMerge'[n] \in Seq([{n} -> Changes])
    <3>1. toMerge[n] \in Seq([{n} -> Changes])
      BY DEF OnTheWay, MessagesAreOwn
    <3> QED
      BY <1>4, <1>12, <3>1
  <2> QED
    BY <2>1 DEF MessagesAreOwn
<1>14. MergeIsCalm'
  <2>1. ASSUME NEW n \in Machine PROVE Calm(InfoAt(decoded, n))
    <3>1. Calm(InfoAt(known, n)) /\ n \in Origin
      BY DEF OnTheWay, MergeIsCalm, known, Origin
    <3>2. ChangesOf(message, n) \in Changes
      BY <1>4, <3>1, ChangesOfType
    <3>3. Calm(DecodeInfo(InfoAt(known, n), FALSE, ChangesOf(message, n)))
      BY <1>7, <3>1, <3>2, RelayPasses
    <3> QED
      BY <1>6, <3>3 DEF decodeOnly
  <2> QED
    BY <1>9, <2>1 DEF MergeIsCalm
<1>15. WayOf(m)'
  <2>1. Way(m, nodes[m], toMerge[m], InfoAt(known, m), toClient,
            InfoAt(client.nodes, m), said[m], heard[m])
    BY DEF OnTheWay, Ways, WayOf, known
  <2>2. WayType(nodes[m], toMerge[m], InfoAt(known, m), toClient,
                InfoAt(client.nodes, m), said[m], heard[m])
    BY PartsOfWay DEF OnTheWay, known
  <2>3. Way(m, nodes[m], Tail(toMerge[m]), DecodeInfo(InfoAt(known, m), FALSE, ChangesOf(Head(toMerge[m]), m)),
            toClient, InfoAt(client.nodes, m), said[m], heard[m])
    BY <1>2, <1>3, <2>1, <2>2, RelayDecodes
  <2>4. InfoAt(merge'.nodes, m) = DecodeInfo(InfoAt(known, m), FALSE, ChangesOf(Head(toMerge[m]), m))
    BY <1>6, <1>9 DEF decodeOnly
  <2> QED
    BY <1>2, <1>12, <2>3, <2>4 DEF WayOf, rest
<1>16. ASSUME NEW n \in Machine, n # m PROVE WayOf(n)'
  <2>1. InfoAt(merge'.nodes, n) = InfoAt(merge.nodes, n)
    BY <1>8, <1>9, <1>16 DEF known
  <2>2. toMerge'[n] = toMerge[n] /\ WayOf(n)
    BY <1>12, <1>16 DEF OnTheWay, Ways
  <2> QED
    BY <1>2, <2>1, <2>2 DEF WayOf
<1> QED
  BY <1>10, <1>11, <1>13, <1>14, <1>15, <1>16 DEF OnTheWay, Ways

LEMMA ServeClockKeeps ==
    ASSUME OnTheWay, NEW m \in Machine, NEW shift \in Number, ServeClock(m, shift)
    PROVE  OnTheWay'
<1> DEFINE known == merge.nodes
<1>1. /\ UNCHANGED <<hostOf, nodes, encoding, toMerge, toClient, client, said, heard, reported, inputs>>
      /\ \/ UNCHANGED merge
         \/ \E n \in DOMAIN known : merge' = [merge EXCEPT !.nodes[n] = WithShift(known[n], shift)]
  BY DEF ServeClock, mcrtVars, history
<1>2. known \in Known /\ merge.comment \in Comments
  BY DEF OnTheWay, Parts
<1>3. CASE UNCHANGED merge
  BY <1>1, <1>3 DEF OnTheWay, Parts, Inputs, EncodesWhatIsQueued, MessagesAreOwn, MergeIsCalm,
                    Ways, WayOf, MergeItemsWay
<1>4. CASE \E n \in DOMAIN known : merge' = [merge EXCEPT !.nodes[n] = WithShift(known[n], shift)]
  <2>1. PICK n \in DOMAIN known : merge' = [merge EXCEPT !.nodes[n] = WithShift(known[n], shift)]
    BY <1>4
  <2> DEFINE made == WithShift(known[n], shift)
             shifted == [known EXCEPT ![n] = made]
  <2>2. DOMAIN known \in SUBSET Machine /\ known \in [DOMAIN known -> Info]
    BY <1>2, KnownIs
  <2>3. known[n] \in Info /\ n \in Machine /\ known[n] = InfoAt(known, n)
    BY <2>2 DEF InfoAt
  <2>4. made \in Info /\ (Calm(known[n]) => Calm(made))
    <3>1. Good(known[n], made)
      BY <2>3, ShiftMakes
    <3>2. Calm(known[n]) => Calm(made)
      BY <2>3, ShiftMakes
    <3> QED
      BY <3>1, <3>2 DEF Good
  <2>5. merge' = [merge EXCEPT !.nodes = shifted]
    BY <2>1 DEF OnTheWay, Parts
  <2> HIDE DEF made, known
  <2>6. shifted \in [DOMAIN known -> Info] /\ DOMAIN shifted = DOMAIN known
    BY <2>2, <2>4
  <2>7. shifted \in Known
    BY <2>2, <2>6, KnownOf
  <2>8. \A k \in Machine : InfoAt(shifted, k) = IF k = n THEN made ELSE InfoAt(known, k)
    BY <2>2 DEF InfoAt
  <2> HIDE DEF shifted
  <2>9. merge' \in [nodes : Known, comment : Comments] /\ merge'.nodes = shifted
        /\ merge'.comment = merge.comment
    BY <1>2, <2>5, <2>7 DEF OnTheWay, Parts
  <2>10. Parts' /\ Inputs' /\ EncodesWhatIsQueued' /\ MessagesAreOwn' /\ MergeItemsWay'
    BY <1>1, <2>9 DEF OnTheWay, Parts, Inputs, EncodesWhatIsQueued, MessagesAreOwn, MergeItemsWay
  <2>11. MergeIsCalm'
    <3>1. Calm(known[n])
      BY <2>3 DEF OnTheWay, MergeIsCalm, known
    <3> QED
      BY <2>4, <2>8, <2>9, <3>1 DEF OnTheWay, MergeIsCalm, known
  <2>12. WayOf(n)'
    <3>1. /\ WayType(nodes[n], toMerge[n], known[n], toClient, InfoAt(client.nodes, n), said[n], heard[n])
          /\ n \in Origin
          /\ Way(n, nodes[n], toMerge[n], known[n], toClient, InfoAt(client.nodes, n), said[n], heard[n])
      BY <2>3, PartsOfWay DEF OnTheWay, Ways, WayOf, known
    <3>2. Way(n, nodes[n], toMerge[n], made, toClient, InfoAt(client.nodes, n), said[n], heard[n])
      BY <3>1, RelaySetsClock DEF made
    <3>3. InfoAt(merge'.nodes, n) = made
      BY <2>3, <2>8, <2>9
    <3> QED
      BY <1>1, <3>2, <3>3 DEF WayOf
  <2>13. ASSUME NEW k \in Machine, k # n PROVE WayOf(k)'
    <3>1. InfoAt(merge'.nodes, k) = InfoAt(merge.nodes, k)
      BY <2>8, <2>9, <2>13 DEF known
    <3>2. WayOf(k)
      BY DEF OnTheWay, Ways
    <3> QED
      BY <1>1, <3>1, <3>2 DEF WayOf
  <2> QED
    BY <2>10, <2>11, <2>12, <2>13 DEF OnTheWay, Ways
<1> QED
  BY <1>1, <1>3, <1>4

(* The merge computation makes a comment of its own.                       *)
LEMMA MergeSaysKeeps ==
    ASSUME OnTheWay, MergeSays
    PROVE  OnTheWay'
<1> DEFINE c == <<Comment(MergeItem)>>
           h == heard[MergeItem]
           w == AfterMessages(MergeItem, NewInfo, toClient).comment
<1>1. MergeItem \in Origin /\ \A m \in Machine : m # MergeItem
  BY ConstantsAssumption DEF Origin
<1>2. /\ merge' = [merge EXCEPT !.comment = Append(merge.comment, Comment(MergeItem))]
      /\ said' = [said EXCEPT ![MergeItem] = Append(said[MergeItem], Comment(MergeItem))]
      /\ inputs' = inputs + 1
      /\ UNCHANGED <<hostOf, nodes, encoding, toMerge, toClient, client, heard, reported>>
  BY DEF MergeSays, mcrtVars, channels
<1>3. /\ c \in Comments /\ said[MergeItem] \o c \in Comments
      /\ Append(said[MergeItem], Comment(MergeItem)) = said[MergeItem] \o c
  BY <1>1, CommentType DEF OnTheWay
<1>4. merge.nodes \in Known /\ merge.comment \in Comments /\ h \in Comments /\ toClient \in Channel
  BY <1>1 DEF OnTheWay, Parts
<1>5. w \in Comments
  <2>1. AfterMessages(MergeItem, NewInfo, toClient) \in Info
    BY <1>1, <1>4, NewInfoType, AfterMessagesType
  <2> QED
    BY <2>1, InfoFields
<1>6. Append(merge.comment, Comment(MergeItem)) = merge.comment \o c
  <2>1. Comment(MergeItem) \in Remark
    BY <1>1, <1>3, LenProperties DEF Comment, Remark, OnTheWay, Parts, Comments
  <2> QED
    BY <1>4, <2>1, AppendIsConcat DEF Comments
<1> HIDE DEF c
<1>7. merge.comment \o c \in Comments
  BY <1>3, <1>4, CommentsType
<1>8. merge' \in [nodes : Known, comment : Comments] /\ merge'.nodes = merge.nodes
      /\ merge'.comment = merge.comment \o c
  BY <1>2, <1>4, <1>6, <1>7 DEF OnTheWay, Parts
<1>9. said' \in [Origin -> Comments] /\ said'[MergeItem] = said[MergeItem] \o c
      /\ \A m \in Machine : said'[m] = said[m]
  BY <1>1, <1>2, <1>3 DEF OnTheWay, Parts, Origin
<1>10. Parts' /\ Inputs' /\ EncodesWhatIsQueued' /\ MessagesAreOwn' /\ MergeIsCalm'
  <2>1. Parts'
    BY <1>2, <1>8, <1>9 DEF OnTheWay, Parts
  <2>2. Inputs'
    BY <1>2 DEF OnTheWay, Inputs
  <2>3. EncodesWhatIsQueued' /\ MessagesAreOwn'
    BY <1>2 DEF OnTheWay, EncodesWhatIsQueued, MessagesAreOwn
  <2>4. MergeIsCalm'
    BY <1>8 DEF OnTheWay, MergeIsCalm
  <2> QED
    BY <2>1, <2>2, <2>3, <2>4
<1>11. Ways'
  BY <1>2, <1>8, <1>9 DEF OnTheWay, Ways, WayOf
<1>12. said[MergeItem] = (h \o w) \o merge.comment
  BY DEF OnTheWay, MergeItemsWay
<1> DEFINE hw == h \o w
<1>13. hw \in Comments
  BY <1>4, <1>5, CommentsType
<1> HIDE DEF hw
<1>14. (hw \o merge.comment) \o c = hw \o (merge.comment \o c)
  BY <1>3, <1>4, <1>13, CommentsAssociate
<1>15. MergeItemsWay'
  BY <1>2, <1>8, <1>9, <1>12, <1>14 DEF MergeItemsWay, hw
<1> QED
  BY <1>10, <1>11, <1>15 DEF OnTheWay

(* It encodes: an item for every MCRT computation, and one for itself.     *)
LEMMA MergeItemsMessage ==
    ASSUME NEW known \in Known, NEW comment \in Comments, NEW messages \in Channel
    PROVE  AfterMessages(MergeItem, NewInfo, Append(messages, MessageOf(Flushed(known), comment))).comment
             = AfterMessages(MergeItem, NewInfo, messages).comment \o comment
<1> DEFINE message == MessageOf(Flushed(known), comment)
           info == NewInfo
           before == AfterMessages(MergeItem, info, messages)
           entry == Entry("genericComment", comment)
           decodeOnly == TRUE
<1>1. MergeItem \in Origin /\ info \in Info /\ decodeOnly \in BOOLEAN
  BY NewInfoType DEF Origin
<1>2. message \in Message
  BY EncodedType
<1>3. ChangesOf(message, MergeItem) = IF comment = <<>> THEN <<>> ELSE <<entry>>
  BY EncodedComments
<1> HIDE DEF message, info
<1>4. before \in Info
  BY <1>1, AfterMessagesType
<1>5. AfterMessages(MergeItem, info, Append(messages, message))
        = DecodeInfo(before, TRUE, ChangesOf(message, MergeItem))
  BY <1>1, <1>2, AfterMessagesAppend
<1> HIDE DEF before, decodeOnly
<1>6. before.comment \in Comments
  BY <1>4, InfoFields
<1>7. CASE comment = <<>>
  <2>1. DecodeInfo(before, decodeOnly, <<>>) = before
    BY <1>1, <1>4, DecodeNothing
  <2>2. before.comment = before.comment \o comment
    BY <1>6, <1>7, NoComments
  <2> QED
    BY <1>3, <1>5, <1>7, <2>1, <2>2 DEF decodeOnly, message, info, before
<1>8. CASE comment # <<>>
  <2>1. entry \in Change /\ entry.key = "genericComment" /\ entry.value = comment
    BY DEF Entry, Change
  <2> HIDE DEF entry
  <2>2. <<>> \in Changes /\ Append(<<>>, entry) = <<entry>>
    BY EmptySeq DEF Changes
  <2>3. DecodeInfo(before, decodeOnly, <<>>) = before
    BY <1>1, <1>4, DecodeNothing
  <2>4. DecodeInfo(before, decodeOnly, Append(<<>>, entry))
          = DecodeEntry(DecodeInfo(before, decodeOnly, <<>>), decodeOnly, entry)
    BY <1>1, <1>4, <2>1, <2>2, DecodeAppend
  <2>5. DecodeInfo(before, TRUE, <<entry>>) = DecodeEntry(before, TRUE, entry)
    BY <2>2, <2>3, <2>4 DEF decodeOnly
  <2>6. DecodeEntry(before, TRUE, entry).comment = before.comment \o comment
    BY <1>4, <2>1, ReceiverMakes
  <2> QED
    BY <1>3, <1>5, <1>8, <2>5, <2>6 DEF message, info, before
<1> QED
  BY <1>7, <1>8

LEMMA MergeEncodeKeeps ==
    ASSUME OnTheWay, MergeEncode
    PROVE  OnTheWay'
<1> DEFINE known == merge.nodes
           comment == merge.comment
           message == MessageOf(Flushed(known), comment)
<1>1. known \in Known /\ comment \in Comments /\ toClient \in Channel /\ MergeItem \in Origin
  BY DEF OnTheWay, Parts, Origin
<1>2. /\ toClient' = Append(toClient, message)
      /\ merge' = [nodes |-> Sent(known), comment |-> <<>>]
      /\ UNCHANGED <<hostOf, nodes, encoding, toMerge, client, said, heard, reported, inputs>>
  <2>1. /\ toClient' = Append(toClient, message)
        /\ UNCHANGED <<hostOf, nodes, encoding, toMerge, client, said, heard, reported, inputs>>
    BY DEF MergeEncode, mcrtVars, history, Flushed
  <2>2. merge' = [nodes |-> [m \in DOMAIN Flushed(known) |-> Cleared(Flushed(known)[m])], comment |-> <<>>]
    BY DEF MergeEncode, Flushed
  <2>3. [m \in DOMAIN Flushed(known) |-> Cleared(Flushed(known)[m])] = Sent(known)
    BY DEF Flushed, Sent
  <2> QED
    BY <2>1, <2>2, <2>3
<1> HIDE DEF known, comment
<1>3. message \in Message /\ toClient' \in Channel
  <2>1. message \in Message
    BY <1>1, EncodedType
  <2> QED
    BY <1>1, <1>2, <2>1, AppendProperties DEF Channel
<1>4. Sent(known) \in Known
  BY <1>1, SentIs
<1>5. \A m \in Machine : InfoAt(Sent(known), m) = Cleared(FlushEncodeData(InfoAt(known, m)))
  BY <1>1, SentIs
<1>6. \A m \in Machine : ChangesOf(message, m) = FlushEncodeData(InfoAt(known, m)).array
  BY <1>1, EncodedChanges
<1>7. AfterMessages(MergeItem, NewInfo, Append(toClient, message)).comment
        = AfterMessages(MergeItem, NewInfo, toClient).comment \o comment
  BY <1>1, MergeItemsMessage
<1> HIDE DEF message
<1>8. merge' \in [nodes : Known, comment : Comments] /\ merge'.nodes = Sent(known)
      /\ merge'.comment = <<>>
  BY <1>2, <1>4, NoComments
<1>9. Parts' /\ Inputs' /\ EncodesWhatIsQueued' /\ MessagesAreOwn'
  BY <1>2, <1>3, <1>8 DEF OnTheWay, Parts, Inputs, EncodesWhatIsQueued, MessagesAreOwn
<1>10. \A m \in Machine : InfoAt(known, m) \in Info /\ Calm(InfoAt(known, m))
  BY <1>1, InfoAtType DEF OnTheWay, MergeIsCalm, known
<1>11. MergeIsCalm'
  <2>1. ASSUME NEW m \in Machine PROVE Calm(InfoAt(merge'.nodes, m))
    <3> DEFINE info == InfoAt(known, m)
               flushed == FlushEncodeData(info)
    <3>1. info \in Info /\ Calm(info)
      BY <1>10
    <3> HIDE DEF info
    <3>2. flushed \in Info /\ Calm(flushed)
      BY <3>1, FlushEmpties, FlushOfCalm
    <3> HIDE DEF flushed
    <3>3. Calm(Cleared(flushed))
      BY <3>2, ClearedIs
    <3> QED
      BY <1>5, <1>8, <3>3 DEF flushed, info
  <2> QED
    BY <2>1 DEF MergeIsCalm
<1>12. ASSUME NEW m \in Machine PROVE WayOf(m)'
  <2> DEFINE relay == InfoAt(known, m)
  <2>1. /\ WayType(nodes[m], toMerge[m], relay, toClient, InfoAt(client.nodes, m), said[m], heard[m])
        /\ m \in Origin
        /\ Way(m, nodes[m], toMerge[m], relay, toClient, InfoAt(client.nodes, m), said[m], heard[m])
    BY PartsOfWay DEF OnTheWay, Ways, WayOf, known
  <2>2. Calm(relay) /\ ChangesOf(message, m) = FlushEncodeData(relay).array
    BY <1>6, <1>10
  <2>3. InfoAt(merge'.nodes, m) = Cleared(FlushEncodeData(relay))
    BY <1>5, <1>8
  <2> HIDE DEF relay
  <2>4. Way(m, nodes[m], toMerge[m], Cleared(FlushEncodeData(relay)), Append(toClient, message),
            InfoAt(client.nodes, m), said[m], heard[m])
    BY <1>3, <2>1, <2>2, RelaySends
  <2> QED
    BY <1>2, <2>3, <2>4 DEF WayOf
<1>13. MergeItemsWay'
  <2> DEFINE h == heard[MergeItem]
             w == AfterMessages(MergeItem, NewInfo, toClient).comment
  <2>1. AfterMessages(MergeItem, NewInfo, toClient) \in Info
    BY <1>1, NewInfoType, AfterMessagesType
  <2>2. h \in Comments /\ w \in Comments
    BY <1>1, <2>1, InfoFields DEF OnTheWay, Parts
  <2>3. said[MergeItem] = (h \o w) \o comment
    BY DEF OnTheWay, MergeItemsWay, comment
  <2>4. AfterMessages(MergeItem, NewInfo, toClient').comment = w \o comment
    BY <1>2, <1>7
  <2> HIDE DEF h, w
  <2>5. (h \o w) \o comment = h \o (w \o comment)
    BY <1>1, <2>2, CommentsAssociate
  <2>6. w \o comment \in Comments
    BY <1>1, <2>2, CommentsType
  <2>7. h \o (w \o comment) \in Comments
    BY <2>2, <2>6, CommentsType
  <2>8. said[MergeItem] = h \o (w \o comment) \o <<>>
    BY <2>3, <2>5, <2>7, NoComments
  <2> QED
    BY <1>2, <1>8, <2>4, <2>8 DEF MergeItemsWay, h
<1> QED
  BY <1>9, <1>11, <1>12, <1>13 DEF OnTheWay, Ways

(* The client decodes.                                                     *)
LEMMA ClientDecodeKeeps ==
    ASSUME OnTheWay, ClientDecode
    PROVE  OnTheWay'
<1> DEFINE known == client.nodes
           message == Head(toClient)
           rest == Tail(toClient)
           decodeOnly == TRUE
           decoded == DecodeMessage(known, decodeOnly, message)
           taken == DeqGenericComment(decoded)
           now(m) == DecodeInfo(InfoAt(known, m), TRUE, ChangesOf(message, m))
           queue(o) == IF o = MergeItem THEN CommentsFor(message, o) ELSE InfoAt(decoded, o).comment
<1>1. /\ toClient # <<>> /\ toClient' = rest
      /\ client' = [nodes |-> taken]
      /\ heard' = [o \in Origin |-> heard[o] \o queue(o)]
      /\ UNCHANGED <<hostOf, nodes, encoding, toMerge, merge, said, reported, inputs>>
  BY DEF ClientDecode, mcrtVars
<1>2. known \in Known /\ toClient \in Channel /\ decodeOnly \in BOOLEAN
      /\ MergeItem \in Origin /\ NewInfo \in Info
  BY NewInfoType DEF OnTheWay, Parts, Origin
<1>3. message \in Message /\ rest \in Channel
  BY <1>1, <1>2, HeadTailProperties DEF Channel
<1> HIDE DEF decodeOnly, known, message
<1>4. decoded \in Known
  BY <1>2, <1>3, DecodeMessageIs
<1>5. \A m \in Machine : InfoAt(decoded, m) = DecodeInfo(InfoAt(known, m), decodeOnly, ChangesOf(message, m))
  BY <1>2, <1>3, DecodeMessageIs
<1> HIDE DEF decoded
<1>6. taken \in Known
  BY <1>4, DeqIs
<1>7. \A m \in Machine : InfoAt(taken, m) = [InfoAt(decoded, m) EXCEPT !.comment = <<>>]
  BY <1>4, DeqIs
<1> HIDE DEF taken, rest
<1>8. ASSUME NEW m \in Machine
      PROVE  /\ InfoAt(decoded, m) = now(m)
             /\ InfoAt(taken, m) = [now(m) EXCEPT !.comment = <<>>]
             /\ queue(m) = now(m).comment
  <2>1. m # MergeItem
    BY ConstantsAssumption
  <2> QED
    BY <1>5, <1>7, <2>1 DEF decodeOnly
<1>9. ASSUME NEW m \in Machine
      PROVE  /\ queue(m) \in Comments
             /\ Way(m, nodes[m], toMerge[m], InfoAt(merge.nodes, m), rest, InfoAt(taken, m),
                    said[m], heard[m] \o queue(m))
  <2> DEFINE shown == InfoAt(known, m)
  <2>1. /\ WayType(nodes[m], toMerge[m], InfoAt(merge.nodes, m), toClient, shown, said[m], heard[m])
        /\ m \in Origin
        /\ Way(m, nodes[m], toMerge[m], InfoAt(merge.nodes, m), toClient, shown, said[m], heard[m])
    BY PartsOfWay DEF OnTheWay, Ways, WayOf, known
  <2> HIDE DEF shown
  <2>2. LET after == DecodeInfo(shown, TRUE, ChangesOf(Head(toClient), m))
        IN  /\ after \in Info /\ after.comment \in Comments
            /\ [after EXCEPT !.comment = <<>>] \in Info
            /\ Way(m, nodes[m], toMerge[m], InfoAt(merge.nodes, m), Tail(toClient),
                   [after EXCEPT !.comment = <<>>], said[m], heard[m] \o after.comment)
    BY <1>1, <2>1, ShownDecodes
  <2> QED
    BY <1>8, <2>2 DEF shown, message, rest
<1>10. /\ queue(MergeItem) = DecodeInfo(NewInfo, TRUE, ChangesOf(message, MergeItem)).comment
       /\ queue(MergeItem) \in Comments
  <2>1. queue(MergeItem) = DecodeInfo(NewInfo, TRUE, ChangesOf(message, MergeItem)).comment
    BY DEF CommentsFor
  <2> DEFINE info == NewInfo
             changes == ChangesOf(message, MergeItem)
  <2>2. info \in Info /\ changes \in Changes
    BY <1>2, <1>3, ChangesOfType
  <2> HIDE DEF info, changes
  <2>3. DecodeInfo(info, decodeOnly, changes) \in Info
    BY <1>2, <2>2, DecodeType
  <2> QED
    BY <2>1, <2>3, InfoFields DEF decodeOnly, info, changes
<1> HIDE DEF queue
<1>11. heard' \in [Origin -> Comments] /\ \A o \in Origin : heard'[o] = heard[o] \o queue(o)
  <2>1. ASSUME NEW o \in Origin PROVE heard[o] \o queue(o) \in Comments
    <3>1. heard[o] \in Comments
      BY DEF OnTheWay, Parts
    <3>2. queue(o) \in Comments
      BY <1>9, <1>10 DEF Origin
    <3> QED
      BY <3>1, <3>2, CommentsType
  <2> QED
    BY <1>1, <2>1
<1>12. client' \in [nodes : Known] /\ client'.nodes = taken
  BY <1>1, <1>6
<1>13. Parts' /\ Inputs' /\ EncodesWhatIsQueued' /\ MessagesAreOwn' /\ MergeIsCalm'
  <2>1. Parts'
    BY <1>1, <1>3, <1>11, <1>12 DEF OnTheWay, Parts, rest
  <2>2. Inputs' /\ EncodesWhatIsQueued'
    BY <1>1 DEF OnTheWay, Inputs, EncodesWhatIsQueued
  <2>3. MessagesAreOwn' /\ MergeIsCalm'
    BY <1>1 DEF OnTheWay, MessagesAreOwn, MergeIsCalm
  <2> QED
    BY <2>1, <2>2, <2>3
<1>14. Ways'
  <2>1. ASSUME NEW m \in Machine PROVE WayOf(m)'
    <3>1. heard'[m] = heard[m] \o queue(m)
      BY <1>11 DEF Origin
    <3> QED
      BY <1>1, <1>9, <1>12, <3>1 DEF WayOf
  <2> QED
    BY <2>1 DEF Ways
<1>15. MergeItemsWay'
  <2> DEFINE info == NewInfo
             after == DecodeInfo(info, TRUE, ChangesOf(message, MergeItem))
             q == queue(MergeItem)
             none == {}
             h == heard[MergeItem]
             later == AfterMessages(MergeItem, info, rest).comment
  <2>1. info \in Info /\ info.comment = <<>> /\ q \in Comments /\ none \in SUBSET Key /\ h \in Comments
    BY <1>2, <1>10, KeySets DEF NewInfo, OnTheWay, Parts
  <2>2. after \in Info /\ after.comment = q
    BY <1>2, <1>3, <1>10, DecodeChangesOf
  <2>3. AfterMessages(MergeItem, info, toClient) = AfterMessages(MergeItem, after, rest)
    <3>1. info \in Info
      BY <2>1
    <3> HIDE DEF info
    <3>2. AfterMessages(MergeItem, info, toClient)
            = AfterMessages(MergeItem, DecodeInfo(info, TRUE, ChangesOf(Head(toClient), MergeItem)),
                            Tail(toClient))
      BY <1>1, <1>2, <3>1, AfterMessagesHead
    <3> QED
      BY <3>2 DEF message, rest
  <2> HIDE DEF info, after, none, q
  <2>4. Ahead(after, info, q, none)
    BY <2>1, <2>2, NoComments DEF Ahead, none
  <2>5. Ahead(AfterMessages(MergeItem, after, rest), AfterMessages(MergeItem, info, rest), q, none)
    BY <1>2, <1>3, <2>1, <2>2, <2>4, AheadMessages DEF rest
  <2>6. AfterMessages(MergeItem, info, toClient).comment = q \o later
    BY <2>3, <2>5 DEF Ahead
  <2>7. later \in Comments
    <3>1. AfterMessages(MergeItem, info, rest) \in Info
      BY <1>2, <1>3, <2>1, AfterMessagesType DEF rest
    <3> QED
      BY <3>1, InfoFields
  <2>8. said[MergeItem] = (h \o (q \o later)) \o merge.comment
    BY <2>6 DEF OnTheWay, MergeItemsWay, info
  <2> HIDE DEF h, later
  <2>9. h \o (q \o later) = (h \o q) \o later
    BY <2>1, <2>7, CommentsAssociate
  <2>10. heard'[MergeItem] = h \o q
    BY <1>2, <1>11 DEF h, q
  <2> QED
    BY <1>1, <2>8, <2>9, <2>10 DEF MergeItemsWay, later, info
<1> QED
  BY <1>13, <1>14, <1>15 DEF OnTheWay

LEMMA UnchangedKeeps ==
    ASSUME OnTheWay, UNCHANGED <<hostOf, nodes, encoding, toMerge, merge, toClient, client, said,
                                 heard, reported, inputs>>
    PROVE  OnTheWay'
BY DEF OnTheWay, Parts, Inputs, EncodesWhatIsQueued, MessagesAreOwn, MergeIsCalm, Ways, WayOf,
       MergeItemsWay

LEMMA StepKeeps ==
    ASSUME OnTheWay, [Next]_vars
    PROVE  OnTheWay'
<1>1. CASE UNCHANGED vars
  BY <1>1, UnchangedKeeps DEF vars, mcrtVars, channels, history
<1>2. ASSUME NEW m \in Machine, MachineNext(m) PROVE OnTheWay'
  <2>1. CASE SetLoad(m)
    BY <2>1, SetLoadKeeps
  <2>2. CASE ReportStage(m)
    BY <2>2, ReportStageKeeps
  <2>3. CASE SayComment(m)
    BY <2>3, SayCommentKeeps
  <2>4. CASE BeginEncode(m)
    BY <2>4, BeginEncodeKeeps
  <2>5. CASE EndEncode(m)
    BY <2>5, EndEncodeKeeps
  <2>6. CASE MergeMeets(m)
    BY <2>6, MergeMeetsKeeps
  <2>7. CASE MergeDecode(m)
    BY <2>7, MergeDecodeKeeps
  <2>8. CASE RunCommand(m)
    BY <2>8, UnchangedKeeps DEF RunCommand, mcrtVars, history
  <2>9. CASE \E shift \in Number : ServeClock(m, shift)
    BY <2>9, ServeClockKeeps
  <2> QED
    BY <1>2, <2>1, <2>2, <2>3, <2>4, <2>5, <2>6, <2>7, <2>8, <2>9 DEF MachineNext
<1>3. CASE MergeSays
  BY <1>3, MergeSaysKeeps
<1>4. CASE MergeEncode
  BY <1>4, MergeEncodeKeeps
<1>5. CASE ClientDecode
  BY <1>5, ClientDecodeKeeps
<1> QED
  BY <1>1, <1>2, <1>3, <1>4, <1>5 DEF Next

(* What the properties say, from the invariant.                            *)
LEMMA WayShows ==
    ASSUME OnTheWay
    PROVE  /\ ConcurrentSets = FALSE => ValuesAreOnTheirWay
           /\ CommentsArriveOnceInOrder
<1>1. ASSUME NEW m \in Machine
      PROVE  /\ ConcurrentSets = FALSE =>
                  \A key \in Key \ ClockKey : AtMerge(m).value[key] = nodes[m].value[key]
             /\ AtClient(m).value = InfoAt(merge.nodes, m).value
             /\ said[m] = heard[m] \o CommentsOnTheirWay(m)
  <2> DEFINE relay == InfoAt(merge.nodes, m)
             shown == InfoAt(client.nodes, m)
  <2>1. WayType(nodes[m], toMerge[m], relay, toClient, shown, said[m], heard[m]) /\ m \in Origin
    BY PartsOfWay DEF OnTheWay
  <2>2. Way(m, nodes[m], toMerge[m], relay, toClient, shown, said[m], heard[m])
    BY DEF OnTheWay, Ways, WayOf
  <2>3. /\ AtMerge(m) = AtReceiver(m, nodes[m], toMerge[m], relay)
        /\ AtClient(m) = AtReceiver(m, relay, toClient, shown)
    BY DEF AtMerge, AtClient, AtReceiver, Rest
  <2> HIDE DEF relay, shown
  <2>4. AtClient(m) \in Info /\ relay \in Info
    BY <2>1, <2>3, PendingType DEF WayType
  <2>5. AtClient(m).value \in [Key -> Datum] /\ relay.value \in [Key -> Datum]
    BY <2>4, InfoFields
  <2>6. AtClient(m).value = relay.value
    BY <2>2, <2>3, <2>5 DEF Way, Hop, Agree
  <2>7. ConcurrentSets = FALSE =>
          \A key \in Key \ ClockKey : AtMerge(m).value[key] = nodes[m].value[key]
    BY <2>2, <2>3 DEF Way, Hop, Agree, UpKeys, NoClock
  <2>8. said[m] = heard[m] \o CommentsOnTheirWay(m)
    BY <2>2, <2>3 DEF Way, Pending, CommentsOnTheirWay
  <2> QED
    BY <2>6, <2>7, <2>8 DEF relay
<1> QED
  BY <1>1 DEF ValuesAreOnTheirWay, CommentsArriveOnceInOrder, OnTheWay, MergeItemsWay

(* As long as no other thread sets a value while an MCRT computation       *)
(* encodes, the merge computation will have all the values of every MCRT   *)
(* computation once it has decoded what is sent and what is queued, and    *)
(* likewise the client those of the merge computation (InfoCodec set,      *)
(* encodeTable and decode).                                                *)
THEOREM ValuesArrive ==
    ASSUME ConcurrentSets = FALSE
    PROVE  Spec => []ValuesAreOnTheirWay
<1>1. Init => OnTheWay
  BY Starts
<1>2. OnTheWay /\ [Next]_vars => OnTheWay'
  BY StepKeeps
<1>3. OnTheWay => ValuesAreOnTheirWay
  BY WayShows
<1> QED
  BY <1>1, <1>2, <1>3, PTL DEF Spec

(* And every comment, of an MCRT computation or of the merge computation,  *)
(* reaches the client once and in the order in which it was made, through  *)
(* every flush, encode and decode (enqGenericComment, flushEncodeData,     *)
(* deqGenericComment):  also when another thread sets values or makes      *)
(* comments while one encodes, as comments are queued for encodeTable by   *)
(* the thread that encodes.                                                *)
THEOREM CommentsArrive == Spec => []CommentsArriveOnceInOrder
<1>1. Init => OnTheWay
  BY Starts
<1>2. OnTheWay /\ [Next]_vars => OnTheWay'
  BY StepKeeps
<1>3. OnTheWay => CommentsArriveOnceInOrder
  BY WayShows
<1> QED
  BY <1>1, <1>2, <1>3, PTL DEF Spec

-------------------------------------------------------------------------------
(* The clocks.  Only the merge computation sets the values of a clock, at  *)
(* a McrtNodeInfo with the name of the host that was measured; and it has  *)
(* the name of a host from the MCRT computations there.                    *)
Offset == {0} \cup {-shift : shift \in Number}
Command == [cmd : {"clockDeltaClient"}, nodeId : Machine]
             \cup [cmd : {"clockOffset"}, hostName : Host, offsetMs : Offset]
Commands == Seq(Command)

ForHost(list, host) == {i \in DOMAIN list : list[i].cmd = "clockOffset" /\ list[i].hostName = host}
LastOf(indices) == CHOOSE i \in indices : \A j \in indices : j <= i
OffsetOf(list, host, now) ==
    IF ForHost(list, host) = {} THEN now ELSE list[LastOf(ForHost(list, host))].offsetMs

LEMMA LastIs ==
    ASSUME NEW indices, indices \subseteq Nat, NEW i \in indices, \A j \in indices : j <= i
    PROVE  LastOf(indices) = i
<1> DEFINE last == CHOOSE k \in indices : \A j \in indices : j <= k
<1>1. last \in indices /\ \A j \in indices : j <= last
  OBVIOUS
<1> HIDE DEF last
<1>2. last <= i /\ i <= last /\ last \in Nat /\ i \in Nat
  BY <1>1
<1>3. last = i
  BY <1>2
<1> QED
  BY <1>3 DEF LastOf, last

LEMMA LastExists ==
    ASSUME NEW L \in Nat, NEW indices, indices \subseteq 1 .. L, indices # {}
    PROVE  /\ LastOf(indices) \in indices
           /\ \A j \in indices : j <= LastOf(indices)
<1> DEFINE T == {n \in Nat : \A S \in SUBSET (1 .. n) : S # {} => \E i \in S : \A j \in S : j <= i}
<1>1. 0 \in T
  <2>1. 1 .. 0 = {}
    OBVIOUS
  <2>2. \A S \in SUBSET (1 .. 0) : S = {}
    BY <2>1
  <2> QED
    BY <2>2
<1>2. ASSUME NEW n \in Nat, n \in T PROVE n + 1 \in T
  <2> SUFFICES ASSUME NEW S \in SUBSET (1 .. n + 1), S # {}
               PROVE  \E i \in S : \A j \in S : j <= i
    OBVIOUS
  <2>1. CASE n + 1 \in S
    <3>1. \A j \in S : j <= n + 1
      OBVIOUS
    <3> QED
      BY <2>1, <3>1
  <2>2. CASE n + 1 \notin S
    <3>1. S \in SUBSET (1 .. n)
      <4>1. ASSUME NEW j \in S PROVE j \in 1 .. n
        <5>1. j \in 1 .. n + 1 /\ j # n + 1
          BY <2>2
        <5> QED
          BY <5>1
      <4> QED
        BY <4>1
    <3> QED
      BY <1>2, <3>1
  <2> QED
    BY <2>1, <2>2
<1>3. Nat \subseteq T
  <2> HIDE DEF T
  <2> QED
    BY <1>1, <1>2, NatSetInduction
<1>4. PICK i \in indices : \A j \in indices : j <= i
  BY <1>3
<1>5. indices \subseteq Nat
  OBVIOUS
<1>6. LastOf(indices) = i
  BY <1>4, <1>5, LastIs
<1> QED
  BY <1>4, <1>6

LEMMA CommandsAre ==
    ASSUME NEW list \in Commands
    PROVE  /\ Len(list) \in Nat /\ DOMAIN list = 1 .. Len(list)
           /\ \A i \in 1 .. Len(list) : list[i] \in Command
           /\ \A host : ForHost(list, host) \subseteq 1 .. Len(list)
BY LenProperties, ElementOfSeq DEF Commands, ForHost

(* A command that is sent, and one that is run.                            *)
IsFor(command, host) == command.cmd = "clockOffset" /\ command.hostName = host

LEMMA OffsetAppend ==
    ASSUME NEW list \in Commands, NEW command \in Command, NEW host, NEW now
    PROVE  OffsetOf(Append(list, command), host, now)
             = IF IsFor(command, host) THEN command.offsetMs ELSE OffsetOf(list, host, now)
<1> DEFINE L == Len(list)
           longer == Append(list, command)
           before == ForHost(list, host)
           after == ForHost(longer, host)
<1>1. L \in Nat /\ DOMAIN list = 1 .. L /\ before \subseteq 1 .. L
  BY CommandsAre
<1>2. /\ DOMAIN longer = 1 .. L + 1 /\ longer[L + 1] = command
      /\ \A i \in 1 .. L : longer[i] = list[i]
  BY AppendProperties DEF Commands
<1> HIDE DEF longer
<1>3. CASE IsFor(command, host)
  <2>1. L + 1 \in after
    BY <1>1, <1>2, <1>3 DEF ForHost, IsFor
  <2>2. after \subseteq Nat /\ \A j \in after : j <= L + 1
    BY <1>1, <1>2 DEF ForHost
  <2> HIDE DEF after
  <2>3. LastOf(after) = L + 1 /\ after # {}
    BY <1>1, <2>1, <2>2, LastIs
  <2>4. OffsetOf(longer, host, now) = command.offsetMs
    BY <1>2, <2>3 DEF OffsetOf, after
  <2> QED
    BY <1>3, <2>4 DEF longer
<1>4. CASE ~IsFor(command, host)
  <2>1. after = before
    BY <1>1, <1>2, <1>4 DEF ForHost, IsFor
  <2>2. before # {} => LastOf(before) \in 1 .. L
    BY <1>1, LastExists
  <2>3. OffsetOf(longer, host, now) = OffsetOf(list, host, now)
    BY <1>2, <2>1, <2>2 DEF OffsetOf
  <2> QED
    BY <1>4, <2>3 DEF longer
<1> QED
  BY <1>3, <1>4

LEMMA OffsetTail ==
    ASSUME NEW list \in Commands, list # <<>>, NEW host, NEW now
    PROVE  OffsetOf(list, host, now)
             = OffsetOf(Tail(list), host, IF IsFor(Head(list), host) THEN Head(list).offsetMs ELSE now)
<1> DEFINE L == Len(list)
           rest == Tail(list)
           before == ForHost(list, host)
           after == ForHost(rest, host)
           then == IF IsFor(Head(list), host) THEN Head(list).offsetMs ELSE now
<1>1. L \in Nat /\ DOMAIN list = 1 .. L /\ before \subseteq 1 .. L
  BY CommandsAre
<1>2. /\ L >= 1 /\ Head(list) = list[1] /\ rest \in Commands
      /\ DOMAIN rest = 1 .. L - 1
      /\ \A i \in 1 .. L - 1 : rest[i] = list[i + 1]
  <2>1. L # 0
    BY EmptySeq, LenProperties DEF Commands
  <2>2. rest \in Seq(Command) /\ Len(rest) = L - 1 /\ \A i \in 1 .. L - 1 : rest[i] = list[i + 1]
    BY HeadTailProperties DEF Commands
  <2>3. DOMAIN rest = 1 .. L - 1
    BY <2>2, LenProperties
  <2> QED
    BY <1>1, <2>1, <2>2, <2>3 DEF Commands
<1> HIDE DEF rest
<1>3. \A i \in 1 .. L - 1 : i \in after <=> i + 1 \in before
  BY <1>1, <1>2 DEF ForHost
<1>4. after \subseteq 1 .. L - 1 /\ (1 \in before <=> IsFor(Head(list), host))
  BY <1>1, <1>2 DEF ForHost, IsFor
<1> HIDE DEF before, after
<1>5. CASE after # {}
  <2> DEFINE last == LastOf(after)
  <2>1. last \in after /\ \A j \in after : j <= last
    <3> DEFINE K == L - 1
    <3>1. K \in Nat /\ after \subseteq 1 .. K
      BY <1>1, <1>2, <1>4
    <3> HIDE DEF K
    <3> QED
      BY <1>5, <3>1, LastExists
  <2> HIDE DEF last
  <2>2. last \in 1 .. L - 1
    BY <1>4, <2>1
  <2>3. last + 1 \in before
    BY <1>3, <2>1, <2>2
  <2>4. ASSUME NEW j \in before PROVE j <= last + 1
    <3>1. j \in 1 .. L
      BY <1>1
    <3>2. CASE j = 1
      BY <2>2, <3>2
    <3>3. CASE j # 1
      <4>1. j - 1 \in 1 .. L - 1 /\ (j - 1) + 1 = j
        BY <1>1, <3>1, <3>3
      <4>2. j - 1 \in after
        BY <1>3, <4>1
      <4> QED
        BY <2>1, <2>2, <3>1, <4>2
    <3> QED
      BY <3>2, <3>3
  <2>5. before \subseteq Nat
    BY <1>1
  <2>6. LastOf(before) = last + 1 /\ before # {}
    BY <2>3, <2>4, <2>5, LastIs
  <2> QED
    BY <1>2, <1>5, <2>2, <2>6 DEF OffsetOf, before, after, last, rest
<1>6. CASE after = {}
  <2>1. before \subseteq {1}
    <3>1. ASSUME NEW j \in before, j # 1 PROVE FALSE
      <4>1. j - 1 \in 1 .. L - 1 /\ (j - 1) + 1 = j
        BY <1>1, <3>1
      <4> QED
        BY <1>3, <1>6, <4>1
    <3> QED
      BY <3>1
  <2>2. OffsetOf(rest, host, then) = then
    BY <1>6 DEF OffsetOf, after
  <2>3. CASE 1 \in before
    <3>1. LastOf(before) = 1 /\ before # {}
      <4>1. before \subseteq Nat /\ \A j \in before : j <= 1
        BY <2>1
      <4> QED
        BY <2>3, <4>1, LastIs
    <3>2. OffsetOf(list, host, now) = list[1].offsetMs
      BY <3>1 DEF OffsetOf, before
    <3> QED
      BY <1>2, <1>4, <2>2, <2>3, <3>2 DEF rest
  <2>4. CASE 1 \notin before
    <3>1. before = {}
      BY <2>1, <2>4
    <3>2. OffsetOf(list, host, now) = now
      BY <3>1 DEF OffsetOf, before
    <3> QED
      BY <1>4, <2>2, <2>4, <3>2 DEF rest
  <2> QED
    BY <2>3, <2>4
<1> QED
  BY <1>5, <1>6

-------------------------------------------------------------------------------
(* What an MCRT computation queues and sends is its own (OwnChange).       *)
Own(info, host) == info \in Info /\ info.array \in OwnChanges(host)

LEMMA FlushOwn ==
    ASSUME NEW host \in Host, NEW info, Own(info, host)
    PROVE  Own(FlushEncodeData(info), host)
<1> DEFINE flushed == FlushRenderPrepStats(info)
           entry == Entry("genericComment", flushed.comment)
<1>1. info \in Info
  BY DEF Own
<1>2. flushed \in Info /\ flushed.array \in OwnChanges(host)
  BY <1>1, FlushWorkReports DEF Own, Reports, Good
<1>3. FlushEncodeData(info) \in Info
  BY <1>1, FlushEmpties
<1> HIDE DEF flushed
<1>4. CASE flushed.comment = <<>>
  <2>1. FlushEncodeData(info) = flushed
    BY <1>4 DEF FlushEncodeData, FlushComments, flushed
  <2> QED
    BY <1>2, <2>1 DEF Own
<1>5. CASE flushed.comment # <<>>
  <2>1. FlushEncodeData(info) = [flushed EXCEPT !.array = Append(flushed.array, entry), !.comment = <<>>]
    BY <1>5 DEF FlushEncodeData, FlushComments, flushed
  <2>2. FlushEncodeData(info).array = Append(flushed.array, entry)
    BY <1>2, <2>1 DEF Info
  <2>3. flushed.comment \in Comments
    BY <1>2, InfoFields
  <2>4. entry \in OwnChange(host)
    BY <2>3, KeyFacts DEF Entry, OwnChange, Change, NoClock
  <2> HIDE DEF entry
  <2>5. Append(flushed.array, entry) \in OwnChanges(host)
    BY <1>2, <2>4, AppendProperties DEF OwnChanges
  <2> QED
    BY <1>3, <2>2, <2>5 DEF Own
<1> QED
  BY <1>4, <1>5

(* The merge computation learns from it neither a clock's value nor the    *)
(* name of another host.                                                   *)
Learns(info, made, host) ==
    /\ made \in Info
    /\ made.value["clockTimeShift"] = info.value["clockTimeShift"]
    /\ info.value["hostName"] \in {NoHost, host} => made.value["hostName"] \in {NoHost, host}
    /\ Calm(info) => Calm(made)

LEMMA LearnsEntry ==
    ASSUME NEW host, NEW info \in Info, NEW change \in OwnChange(host)
    PROVE  Learns(info, DecodeEntry(info, FALSE, change), host)
<1> DEFINE decodeOnly == FALSE
           made == DecodeEntry(info, decodeOnly, change)
<1>1. /\ change \in Change /\ change.key \notin ClockKey
      /\ change.key = "hostName" => change.value = host
      /\ decodeOnly \in BOOLEAN
  BY DEF OwnChange
<1> HIDE DEF decodeOnly
<1>2. SameWork(info, made)
  BY <1>1, DecodeEntryMakes
<1>3. made \in Info /\ (Calm(info) => Calm(made))
  BY <1>2 DEF SameWork, Calm
<1>4. CASE change.key = "genericComment"
  <2>1. made.value = info.value
    BY <1>1, <1>4, DecodeEntryMakes
  <2> QED
    BY <1>3, <2>1 DEF Learns, decodeOnly
<1>5. CASE change.key # "genericComment"
  <2>1. made.value = Assigned(info.value, change.key, change.value)
    BY <1>1, <1>5, DecodeEntryMakes
  <2>2. change.key \in Key /\ info.value \in [Key -> Datum]
    BY <1>1, <1>5, ChangeIs, InfoFields
  <2>3. "clockTimeShift" \in Key /\ "clockTimeShift" \in ClockKey /\ "hostName" \in Key
    BY KeyFacts DEF ClockKey, NoClock
  <2>4. /\ made.value["clockTimeShift"] = NewValue(info.value, change.key, change.value, "clockTimeShift")
        /\ made.value["hostName"] = NewValue(info.value, change.key, change.value, "hostName")
    BY <2>1, <2>2, <2>3, AssignedIs
  <2>5. /\ made.value["clockTimeShift"] = info.value["clockTimeShift"]
        /\ made.value["hostName"] \in {info.value["hostName"], host}
    BY <1>1, <2>3, <2>4 DEF NewValue
  <2> QED
    BY <1>3, <2>5 DEF Learns, decodeOnly
<1> QED
  BY <1>4, <1>5

LEMMA LearnsAll ==
    ASSUME NEW host, NEW info \in Info, NEW changes \in OwnChanges(host)
    PROVE  Learns(info, DecodeInfo(info, FALSE, changes), host)
<1> DEFINE decodeOnly == FALSE
           After(s) == DecodeInfo(info, decodeOnly, s)
           T == {s \in OwnChanges(host) : s \in Changes /\ Learns(info, After(s), host)}
<1>1. <<>> \in T
  <2>1. decodeOnly \in BOOLEAN
    OBVIOUS
  <2> HIDE DEF decodeOnly
  <2>2. After(<<>>) = info
    BY <2>1, DecodeNothing
  <2>3. Learns(info, info, host)
    BY DEF Learns
  <2> QED
    BY <2>2, <2>3, EmptySeq DEF Changes, OwnChanges
<1>2. ASSUME NEW s \in OwnChanges(host), NEW change \in OwnChange(host), s \in T
      PROVE  Append(s, change) \in T
  <2>1. decodeOnly \in BOOLEAN /\ decodeOnly = FALSE
    OBVIOUS
  <2>2. change \in Change /\ s \in Changes
    BY <1>2 DEF OwnChange
  <2>3. Append(s, change) \in OwnChanges(host)
    BY AppendProperties DEF OwnChanges
  <2> HIDE DEF decodeOnly
  <2>4. After(s) \in Info /\ Append(s, change) \in Changes
    BY <2>1, <2>2, DecodeType, DecodeAppend
  <2>5. After(Append(s, change)) = DecodeEntry(After(s), decodeOnly, change)
    BY <2>1, <2>2, DecodeAppend
  <2>6. Learns(info, After(s), host)
    BY <1>2
  <2> DEFINE before == After(s)
             after == After(Append(s, change))
  <2> HIDE DEF After
  <2>7. Learns(before, DecodeEntry(before, FALSE, change), host)
    BY <2>4, LearnsEntry
  <2>8. Learns(before, after, host)
    BY <2>1, <2>5, <2>7
  <2>9. Learns(info, after, host)
    BY <2>6, <2>8 DEF Learns
  <2> QED
    BY <2>3, <2>4, <2>9
<1>3. OwnChanges(host) \subseteq T
  <2> HIDE DEF T
  <2> QED
    BY <1>1, <1>2, SeqInduction DEF OwnChanges
<1> QED
  BY <1>3

-------------------------------------------------------------------------------
(* The invariant of the clocks.  It holds whatever other threads set.      *)
MachinesTellTheirOwn ==
    /\ hostOf \in [Machine -> Host]
    /\ nodes \in [Machine -> Info]
    /\ encoding \in [Machine -> Changes] /\ DOMAIN toMerge = Machine
    /\ said \in [Origin -> Comments] /\ Inputs
    /\ \A m \in Machine : /\ nodes[m].array \in OwnChanges(hostOf[m])
                          /\ encoding[m] \in OwnChanges(hostOf[m])
                          /\ toMerge[m] \in Seq([{m} -> OwnChanges(hostOf[m])])

MergeKnowsHosts ==
    /\ merge \in [nodes : Known, comment : Comments]
    /\ \A n \in DOMAIN merge.nodes :
          merge.nodes[n].value["hostName"] \in {NoHost, hostOf[n]} /\ Calm(merge.nodes[n])

CommandsType ==
    /\ commands \in [Machine -> Commands]
    /\ DOMAIN clockOffset = Machine

ShownShifts(m) == {-merge.nodes[n].value.clockTimeShift :
                      n \in {n \in DOMAIN merge.nodes : hostOf[n] = hostOf[m]}}
ClockOf(m) == OffsetOf(commands[m], hostOf[m], clockOffset[m]) \in {0} \cup ShownShifts(m)

ClocksInv ==
    /\ MachinesTellTheirOwn /\ MergeKnowsHosts /\ CommandsType
    /\ \A m \in Machine : ClockOf(m)

LEMMA ClocksShow ==
    ASSUME ClocksInv
    PROVE  ClocksAgree
<1>1. ASSUME NEW m \in Machine
      PROVE  OffsetAfterCommands(m) = OffsetOf(commands[m], hostOf[m], clockOffset[m])
  BY DEF OffsetAfterCommands, OffsetOf, ForHost, LastOf
<1> QED
  BY <1>1 DEF ClocksInv, ClockOf, ClocksAgree, ShownShifts

LEMMA ClocksStart == Init => ClocksInv
<1> SUFFICES ASSUME Init PROVE ClocksInv
  OBVIOUS
<1>1. Parts /\ Inputs
  BY Starts DEF OnTheWay
<1>2. ASSUME NEW m \in Machine PROVE nodes[m].array \in OwnChanges(hostOf[m])
  <2> DEFINE entry == Entry("hostName", hostOf[m])
  <2>1. NewInfo \in Info /\ NewInfo.array = <<>>
    BY NewInfoType DEF NewInfo
  <2>2. "hostName" \in Key /\ hostOf[m] \in Datum /\ "hostName" \notin ClockKey
    BY <1>1, KeyFacts DEF Parts, Datum, NoClock
  <2>3. entry \in OwnChange(hostOf[m])
    BY <2>2 DEF Entry, OwnChange, Change
  <2>4. nodes[m].array = Append(<<>>, entry)
    <3> DEFINE info == NewInfo
               decodeOnly == FALSE
               key == "hostName"
    <3>1. info \in Info /\ info.array = <<>> /\ decodeOnly \in BOOLEAN /\ key \in Key
      BY <2>1, <2>2
    <3>2. nodes[m] = SetValue(info, decodeOnly, key, hostOf[m]) /\ ~decodeOnly
          /\ entry = Entry(key, hostOf[m])
      BY DEF Init
    <3> HIDE DEF info, decodeOnly, key, entry
    <3>3. SetValue(info, decodeOnly, key, hostOf[m]).array
            = IF decodeOnly THEN info.array ELSE Append(info.array, Entry(key, hostOf[m]))
      BY <2>2, <3>1, SetValueMakes, ZenonT(60)
    <3> QED
      BY <3>1, <3>2, <3>3
  <2> HIDE DEF entry
  <2> QED
    BY <2>3, <2>4, EmptySeq, AppendProperties DEF OwnChanges
<1>3. ASSUME NEW m \in Machine
      PROVE  encoding[m] = <<>> /\ toMerge[m] = <<>> /\ commands[m] = <<>> /\ clockOffset[m] = 0
  BY DEF Init, NoEncoding
<1>4. encoding \in [Machine -> Changes] /\ DOMAIN toMerge = Machine
  BY EmptySeq DEF Init, NoEncoding, Changes
<1>5. MachinesTellTheirOwn
  BY <1>1, <1>2, <1>3, <1>4, EmptySeq DEF MachinesTellTheirOwn, Parts, OwnChanges
<1>6. MergeKnowsHosts
  BY <1>1 DEF MergeKnowsHosts, Parts, Init
<1>7. CommandsType
  BY EmptySeq DEF Init, CommandsType, Commands
<1>8. ASSUME NEW m \in Machine PROVE ClockOf(m)
  <2>1. ForHost(<<>>, hostOf[m]) = {}
    BY DEF ForHost
  <2> QED
    BY <1>3, <2>1 DEF ClockOf, OffsetOf
<1> QED
  BY <1>5, <1>6, <1>7, <1>8 DEF ClocksInv

-------------------------------------------------------------------------------
(* No step but that of the ClockDelta server changes a clock's values.     *)
ShiftsStay ==
    /\ DOMAIN merge.nodes \subseteq DOMAIN merge'.nodes
    /\ \A n \in DOMAIN merge.nodes :
          merge'.nodes[n].value.clockTimeShift = merge.nodes[n].value.clockTimeShift

OffsetStays(m) == OffsetOf(commands'[m], hostOf[m], clockOffset'[m])
                    = OffsetOf(commands[m], hostOf[m], clockOffset[m])

LEMMA ClockStays ==
    ASSUME UNCHANGED hostOf, ShiftsStay, NEW m \in Machine, OffsetStays(m), ClockOf(m)
    PROVE  ClockOf(m)'
<1>1. ShownShifts(m) \subseteq ShownShifts(m)'
  <2>1. ASSUME NEW n \in DOMAIN merge.nodes, hostOf[n] = hostOf[m]
        PROVE  -merge.nodes[n].value.clockTimeShift \in ShownShifts(m)'
    <3>1. n \in DOMAIN merge'.nodes /\ hostOf'[n] = hostOf'[m]
      BY <2>1 DEF ShiftsStay
    <3>2. merge'.nodes[n].value.clockTimeShift = merge.nodes[n].value.clockTimeShift
      BY DEF ShiftsStay
    <3> QED
      BY <3>1, <3>2 DEF ShownShifts
  <2> QED
    BY <2>1 DEF ShownShifts
<1>2. OffsetOf(commands'[m], hostOf'[m], clockOffset'[m]) = OffsetOf(commands[m], hostOf[m], clockOffset[m])
  BY DEF OffsetStays
<1> QED
  BY <1>1, <1>2 DEF ClockOf

(* The steps that concern neither the merge computation nor commands.      *)
LEMMA ClocksStay ==
    ASSUME ClocksInv, UNCHANGED <<hostOf, merge, commands, clockOffset>>, MachinesTellTheirOwn'
    PROVE  ClocksInv'
<1>1. ShiftsStay /\ \A m \in Machine : OffsetStays(m)
  BY DEF ShiftsStay, OffsetStays
<1>2. \A m \in Machine : ClockOf(m)'
  BY <1>1, ClockStays DEF ClocksInv
<1>3. MergeKnowsHosts' /\ CommandsType'
  BY DEF ClocksInv, MergeKnowsHosts, CommandsType
<1> QED
  BY <1>2, <1>3 DEF ClocksInv

LEMMA OwnStep ==
    ASSUME MachinesTellTheirOwn, NEW m \in Machine, NEW made, Own(made, hostOf[m]),
           nodes' = [nodes EXCEPT ![m] = made]
    PROVE  /\ nodes' \in [Machine -> Info]
           /\ \A n \in Machine : nodes'[n].array \in OwnChanges(hostOf[n])
BY DEF MachinesTellTheirOwn, Own

LEMMA ReportsOwn ==
    ASSUME MachinesTellTheirOwn, NEW m \in Machine, NEW made, Reports(nodes[m], made)
    PROVE  Own(made, hostOf[m])
<1>1. nodes[m].array \in OwnChanges(hostOf[m]) /\ hostOf[m] \in Host
  BY DEF MachinesTellTheirOwn
<1> QED
  BY <1>1 DEF Reports, Good, Own

LEMMA InputStaysOwn ==
    ASSUME ClocksInv, NEW kind, NEW m \in Machine, Input(kind, m),
           NEW made, Own(made, hostOf[m]), nodes' = [nodes EXCEPT ![m] = made],
           said' \in [Origin -> Comments], Inputs'
    PROVE  ClocksInv'
<1>1. UNCHANGED <<hostOf, encoding, toMerge, merge, commands, clockOffset>>
  BY DEF Input
<1>2. MachinesTellTheirOwn
  BY DEF ClocksInv
<1>3. /\ nodes' \in [Machine -> Info]
      /\ \A n \in Machine : nodes'[n].array \in OwnChanges(hostOf[n])
  BY <1>2, OwnStep
<1>4. MachinesTellTheirOwn'
  BY <1>1, <1>2, <1>3 DEF MachinesTellTheirOwn
<1> QED
  BY <1>1, <1>4, ClocksStay

LEMMA InputsStayOwn ==
    ASSUME ClocksInv, NEW m \in Machine, SetLoad(m) \/ ReportStage(m) \/ SayComment(m)
    PROVE  ClocksInv'
<1>1. MachinesTellTheirOwn
  BY DEF ClocksInv
<1>2. nodes[m] \in Info /\ said \in [Origin -> Comments] /\ Inputs
  BY <1>1 DEF MachinesTellTheirOwn
<1>3. CASE SetLoad(m)
  <2>1. PICK key \in {"cpuTotal", "coreUsage"}, new \in Number :
           nodes' = [nodes EXCEPT ![m] = SetValue(nodes[m], FALSE, key, new)]
    BY <1>3 DEF SetLoad
  <2>2. key \in NoClock \ {"hostName"} /\ new \in Datum
    BY KeyFacts DEF Datum
  <2>3. Reports(nodes[m], SetValue(nodes[m], FALSE, key, new))
    BY <1>2, <2>2, SetReports
  <2>4. Own(SetValue(nodes[m], FALSE, key, new), hostOf[m])
    BY <1>1, <2>3, ReportsOwn
  <2>5. Input("values", m) /\ said' \in [Origin -> Comments] /\ Inputs'
    BY <1>2, <1>3 DEF SetLoad, Input, Inputs
  <2> QED
    BY <2>1, <2>4, <2>5, InputStaysOwn
<1>4. CASE ReportStage(m)
  <2>1. PICK stage \in NextStages(reported[m].stage) :
           /\ nodes' = [nodes EXCEPT ![m] = SetRenderPrepStats(nodes[m], stage, inputs')]
           /\ reported' = [reported EXCEPT ![m] = [stage |-> stage, count |-> inputs']]
    BY <1>4 DEF ReportStage
  <2>2. Input("stages", m) /\ said' \in [Origin -> Comments]
    BY <1>2, <1>4 DEF ReportStage
  <2>3. inputs' \in Nat /\ reported[m].stage \in Stages
    BY <1>2, <2>2 DEF Inputs, Input
  <2>4. stage \in Stages
    BY <2>3, NextStagesType
  <2>5. Reports(nodes[m], SetRenderPrepStats(nodes[m], stage, inputs'))
    BY <1>2, <2>3, <2>4, StatsReport
  <2>6. Own(SetRenderPrepStats(nodes[m], stage, inputs'), hostOf[m])
    BY <1>1, <2>5, ReportsOwn
  <2>7. Inputs'
    BY <1>2, <2>1, <2>3, <2>4 DEF Inputs
  <2> QED
    BY <2>1, <2>2, <2>6, <2>7, InputStaysOwn
<1>5. CASE SayComment(m)
  <2> DEFINE c == <<Comment(m)>>
             made == EnqGenericComment(nodes[m], c)
  <2>1. m \in Origin /\ said[m] \in Comments
    BY <1>2 DEF Origin
  <2>2. Comment(m) \in Remark
    <3>1. Len(said[m]) + 1 \in Nat
      BY <2>1, LenProperties DEF Comments
    <3> QED
      BY <2>1, <3>1 DEF Comment, Remark
  <2>3. c \in Comments /\ Append(said[m], Comment(m)) \in Comments
    BY <2>1, <2>2, AppendProperties DEF Comments
  <2>4. /\ nodes' = [nodes EXCEPT ![m] = made] /\ Input("comments", m) /\ UNCHANGED reported
        /\ said' = [said EXCEPT ![m] = Append(said[m], Comment(m))]
    BY <1>5 DEF SayComment
  <2> HIDE DEF c
  <2>5. made \in Info /\ made.array = nodes[m].array
    BY <1>2, <2>3, EnqMakes DEF SameWork
  <2> HIDE DEF made
  <2>6. Own(made, hostOf[m])
    BY <1>1, <2>5 DEF Own, MachinesTellTheirOwn
  <2>7. said' \in [Origin -> Comments]
    <3> DEFINE spoken == Append(said[m], Comment(m))
    <3>1. spoken \in Comments /\ said' = [said EXCEPT ![m] = spoken]
      BY <2>3, <2>4
    <3> HIDE DEF spoken
    <3> QED
      BY <1>2, <3>1
  <2>8. Inputs'
    BY <1>2, <2>4 DEF Inputs, Input
  <2> QED
    BY <2>4, <2>6, <2>7, <2>8, InputStaysOwn
<1> QED
  BY <1>3, <1>4, <1>5

LEMMA EncodesStayOwn ==
    ASSUME ClocksInv, NEW m \in Machine, BeginEncode(m) \/ EndEncode(m)
    PROVE  ClocksInv'
<1>1. MachinesTellTheirOwn
  BY DEF ClocksInv
<1>2. nodes[m] \in Info /\ hostOf[m] \in Host /\ Own(nodes[m], hostOf[m])
  BY <1>1 DEF MachinesTellTheirOwn, Own
<1>3. CASE BeginEncode(m)
  <2> DEFINE made == FlushEncodeData(nodes[m])
  <2>1. /\ nodes' = [nodes EXCEPT ![m] = made]
        /\ encoding' = [encoding EXCEPT ![m] = made.array]
        /\ UNCHANGED <<hostOf, toMerge, merge, commands, clockOffset, said, reported, inputs>>
    BY <1>3 DEF BeginEncode, channels, history
  <2>2. Own(made, hostOf[m])
    BY <1>2, FlushOwn
  <2> HIDE DEF made
  <2>3. /\ nodes' \in [Machine -> Info]
        /\ \A n \in Machine : nodes'[n].array \in OwnChanges(hostOf[n])
    BY <1>1, <2>1, <2>2, OwnStep
  <2>4. made.array \in Changes /\ made.array \in OwnChanges(hostOf[m])
    BY <2>2, InfoFields DEF Own
  <2>5. /\ encoding' \in [Machine -> Changes]
        /\ \A n \in Machine : encoding'[n] \in OwnChanges(hostOf[n])
    BY <1>1, <2>1, <2>4 DEF MachinesTellTheirOwn
  <2>6. MachinesTellTheirOwn'
    BY <1>1, <2>1, <2>3, <2>5 DEF MachinesTellTheirOwn, Inputs
  <2> QED
    BY <2>1, <2>6, ClocksStay
<1>4. CASE EndEncode(m)
  <2> DEFINE message == [o \in {m} |-> encoding[m]]
             made == Cleared(nodes[m])
             sent == Append(toMerge[m], message)
  <2>1. /\ nodes' = [nodes EXCEPT ![m] = made]
        /\ toMerge' = [toMerge EXCEPT ![m] = sent]
        /\ encoding' = [encoding EXCEPT ![m] = NoEncoding]
        /\ UNCHANGED <<hostOf, merge, commands, clockOffset, said, reported, inputs>>
    BY <1>4 DEF EndEncode, history
  <2>2. Own(made, hostOf[m])
    BY <1>2, ClearedIs, EmptySeq DEF Own, OwnChanges
  <2>3. message \in [{m} -> OwnChanges(hostOf[m])]
    BY <1>1 DEF MachinesTellTheirOwn
  <2> HIDE DEF message, made
  <2>4. sent \in Seq([{m} -> OwnChanges(hostOf[m])])
    BY <1>1, <2>3, AppendProperties DEF MachinesTellTheirOwn
  <2> HIDE DEF sent
  <2>5. /\ nodes' \in [Machine -> Info]
        /\ \A n \in Machine : nodes'[n].array \in OwnChanges(hostOf[n])
    BY <1>1, <2>1, <2>2, OwnStep
  <2>6. <<>> \in Changes /\ \A n \in Machine : <<>> \in OwnChanges(hostOf[n])
    BY EmptySeq DEF Changes, OwnChanges
  <2>7. /\ encoding' \in [Machine -> Changes]
        /\ \A n \in Machine : encoding'[n] \in OwnChanges(hostOf[n])
    BY <1>1, <2>1, <2>6 DEF MachinesTellTheirOwn, NoEncoding
  <2>8. /\ DOMAIN toMerge' = Machine
        /\ \A n \in Machine : toMerge'[n] \in Seq([{n} -> OwnChanges(hostOf[n])])
    <3>1. ASSUME NEW n \in Machine PROVE toMerge'[n] \in Seq([{n} -> OwnChanges(hostOf[n])])
      <4>1. toMerge'[n] = IF n = m THEN sent ELSE toMerge[n]
        BY <1>1, <2>1 DEF MachinesTellTheirOwn
      <4>2. toMerge[n] \in Seq([{n} -> OwnChanges(hostOf[n])])
        BY <1>1 DEF MachinesTellTheirOwn
      <4> QED
        BY <2>4, <4>1, <4>2
    <3> QED
      BY <1>1, <2>1, <3>1 DEF MachinesTellTheirOwn
  <2>9. MachinesTellTheirOwn'
    BY <1>1, <2>1, <2>5, <2>7, <2>8 DEF MachinesTellTheirOwn, Inputs
  <2> QED
    BY <2>1, <2>9, ClocksStay
<1> QED
  BY <1>3, <1>4

-------------------------------------------------------------------------------
(* The steps of the merge computation.                                     *)
LEMMA CommandSent ==
    ASSUME CommandsType, NEW command \in Command, commands' = SentToAll(command),
           UNCHANGED clockOffset
    PROVE  /\ CommandsType'
           /\ \A m \in Machine : commands'[m] = Append(commands[m], command)
<1>1. \A m \in Machine : commands'[m] = Append(commands[m], command)
  BY DEF SentToAll
<1>2. \A m \in Machine : Append(commands[m], command) \in Commands
  BY AppendProperties DEF CommandsType, Commands
<1> QED
  BY <1>1, <1>2 DEF CommandsType, SentToAll

LEMMA MergeMeetsClocks ==
    ASSUME ClocksInv, NEW m \in Machine, MergeMeets(m)
    PROVE  ClocksInv'
<1> DEFINE known == merge.nodes
           met == [n \in DOMAIN known \cup {m} |-> InfoAt(known, n)]
           command == ClockDeltaClient(m)
<1>1. known \in Known /\ DOMAIN known \in SUBSET Machine /\ merge.comment \in Comments
  BY KnownIs DEF ClocksInv, MergeKnowsHosts
<1>2. /\ merge' = [merge EXCEPT !.nodes = met]
      /\ commands' = SentToAll(command)
      /\ UNCHANGED <<hostOf, nodes, encoding, toMerge, said, reported, inputs, clockOffset>>
  BY DEF MergeMeets, mcrtVars, history
<1>3. met \in Known
  <2>1. DOMAIN known \cup {m} \in SUBSET Machine
    BY <1>1
  <2>2. met \in [DOMAIN known \cup {m} -> Info]
    BY <1>1, InfoAtType
  <2> HIDE DEF met
  <2> QED
    BY <2>1, <2>2, KnownOf
<1>4. /\ merge' \in [nodes : Known, comment : Comments] /\ merge'.nodes = met
  BY <1>1, <1>2, <1>3 DEF ClocksInv, MergeKnowsHosts
<1>5. ASSUME NEW n \in DOMAIN met
      PROVE  met[n].value["hostName"] \in {NoHost, hostOf[n]} /\ Calm(met[n])
  <2>1. CASE n \in DOMAIN known
    <3>1. met[n] = known[n]
      BY <2>1 DEF InfoAt
    <3> QED
      BY <2>1, <3>1 DEF ClocksInv, MergeKnowsHosts
  <2>2. CASE n \notin DOMAIN known
    <3>1. met[n] = NewInfo
      BY <2>2 DEF InfoAt
    <3>2. NewInfo.value["hostName"] = NoHost
      BY KeyFacts DEF NewInfo, NoClock
    <3> QED
      BY <3>1, <3>2, FlushNew
  <2> QED
    BY <2>1, <2>2
<1>6. MergeKnowsHosts'
  BY <1>2, <1>4, <1>5 DEF MergeKnowsHosts
<1>7. ShiftsStay
  BY <1>4 DEF ShiftsStay, InfoAt
<1>8. command \in Command
  BY DEF ClockDeltaClient, Command
<1>9. ASSUME NEW host PROVE ~IsFor(command, host)
  BY DEF ClockDeltaClient, IsFor
<1> HIDE DEF command
<1>10. CommandsType' /\ \A n \in Machine : commands'[n] = Append(commands[n], command)
  BY <1>2, <1>8, CommandSent DEF ClocksInv
<1>11. ASSUME NEW n \in Machine PROVE OffsetStays(n)
  <2>1. commands[n] \in Commands
    BY DEF ClocksInv, CommandsType
  <2>2. OffsetOf(Append(commands[n], command), hostOf[n], clockOffset[n])
          = OffsetOf(commands[n], hostOf[n], clockOffset[n])
    BY <1>8, <1>9, <2>1, OffsetAppend
  <2> QED
    BY <1>2, <1>10, <2>2 DEF OffsetStays
<1>12. \A n \in Machine : ClockOf(n)'
  BY <1>2, <1>7, <1>11, ClockStays DEF ClocksInv
<1>13. MachinesTellTheirOwn'
  BY <1>2 DEF ClocksInv, MachinesTellTheirOwn, Inputs
<1> QED
  BY <1>6, <1>10, <1>12, <1>13 DEF ClocksInv

LEMMA MergeDecodeClocks ==
    ASSUME ClocksInv, NEW m \in Machine, MergeDecode(m)
    PROVE  ClocksInv'
<1> DEFINE known == merge.nodes
           message == Head(toMerge[m])
           rest == Tail(toMerge[m])
           decoded == DecodeMessage(known, FALSE, message)
           host == hostOf[m]
<1>1. /\ known \in Known /\ DOMAIN known \in SUBSET Machine /\ merge.comment \in Comments
      /\ host \in Host
  BY KnownIs DEF ClocksInv, MergeKnowsHosts, MachinesTellTheirOwn
<1>2. /\ merge' = [merge EXCEPT !.nodes = decoded]
      /\ toMerge' = [toMerge EXCEPT ![m] = rest] /\ toMerge[m] # <<>>
      /\ UNCHANGED <<hostOf, nodes, encoding, said, reported, inputs, commands, clockOffset>>
  BY DEF MergeDecode, mcrtVars, history
<1>3. message \in [{m} -> OwnChanges(host)] /\ rest \in Seq([{m} -> OwnChanges(host)])
  <2>1. toMerge[m] \in Seq([{m} -> OwnChanges(host)])
    BY DEF ClocksInv, MachinesTellTheirOwn
  <2> QED
    BY <1>2, <2>1, HeadTailProperties
<1> HIDE DEF message, rest
<1>4. DOMAIN message = {m} /\ message[m] \in OwnChanges(host) /\ m # MergeItem
  BY <1>3, ConstantsAssumption
<1>5. DOMAIN decoded = DOMAIN known \cup {m}
      /\ \A n \in DOMAIN decoded : decoded[n] = DecodeInfo(InfoAt(known, n), FALSE, ChangesOf(message, n))
  BY <1>4 DEF DecodeMessage
<1> HIDE DEF decoded, known, host
<1>6. ASSUME NEW n \in DOMAIN decoded
      PROVE  Learns(InfoAt(known, n), decoded[n], hostOf[n])
  <2>1. InfoAt(known, n) \in Info
    BY <1>1, InfoAtType
  <2>2. ChangesOf(message, n) \in OwnChanges(hostOf[n])
    BY <1>4, EmptySeq DEF ChangesOf, OwnChanges, host
  <2> QED
    BY <1>5, <2>1, <2>2, LearnsAll
<1>7. decoded \in Known
  <2>1. DOMAIN decoded \in SUBSET Machine
    BY <1>1, <1>5
  <2>2. \A n \in DOMAIN decoded : decoded[n] \in Info
    BY <1>6 DEF Learns
  <2>3. decoded \in [DOMAIN decoded -> Info]
    BY <2>2 DEF decoded, DecodeMessage
  <2> QED
    BY <2>1, <2>3, KnownOf
<1>8. merge' \in [nodes : Known, comment : Comments] /\ merge'.nodes = decoded
  BY <1>1, <1>2, <1>7 DEF ClocksInv, MergeKnowsHosts
<1>9. ASSUME NEW n
      PROVE  InfoAt(known, n).value["hostName"] \in {NoHost, hostOf[n]} /\ Calm(InfoAt(known, n))
  <2>1. CASE n \in DOMAIN known
    BY <2>1 DEF InfoAt, ClocksInv, MergeKnowsHosts, known
  <2>2. CASE n \notin DOMAIN known
    <3>1. InfoAt(known, n) = NewInfo
      BY <2>2 DEF InfoAt
    <3>2. NewInfo.value["hostName"] = NoHost
      BY KeyFacts DEF NewInfo, NoClock
    <3> QED
      BY <3>1, <3>2, FlushNew
  <2> QED
    BY <2>1, <2>2
<1>10. MergeKnowsHosts'
  <2>1. ASSUME NEW n \in DOMAIN decoded
        PROVE  decoded[n].value["hostName"] \in {NoHost, hostOf[n]} /\ Calm(decoded[n])
    BY <1>6, <1>9 DEF Learns
  <2> QED
    BY <1>2, <1>8, <2>1 DEF MergeKnowsHosts
<1>11. ShiftsStay
  <2>1. ASSUME NEW n \in DOMAIN known
        PROVE  decoded[n].value["clockTimeShift"] = known[n].value["clockTimeShift"]
    <3>1. InfoAt(known, n) = known[n] /\ n \in DOMAIN decoded
      BY <1>5 DEF InfoAt
    <3> QED
      BY <1>6, <3>1 DEF Learns
  <2> QED
    BY <1>5, <1>8, <2>1 DEF ShiftsStay, known
<1>12. \A n \in Machine : ClockOf(n)'
  <2>1. \A n \in Machine : OffsetStays(n)
    BY <1>2 DEF OffsetStays
  <2> QED
    BY <1>2, <1>11, <2>1, ClockStays DEF ClocksInv
<1>13. MachinesTellTheirOwn'
  <2>1. DOMAIN toMerge' = Machine
    BY <1>2 DEF ClocksInv, MachinesTellTheirOwn
  <2>2. ASSUME NEW n \in Machine PROVE toMerge'[n] \in Seq([{n} -> OwnChanges(hostOf[n])])
    <3>1. toMerge'[n] = IF n = m THEN rest ELSE toMerge[n]
      BY <1>2 DEF ClocksInv, MachinesTellTheirOwn
    <3>2. toMerge[n] \in Seq([{n} -> OwnChanges(hostOf[n])])
      BY DEF ClocksInv, MachinesTellTheirOwn
    <3> QED
      BY <1>3, <3>1, <3>2 DEF host
  <2> QED
    BY <1>2, <2>1, <2>2 DEF ClocksInv, MachinesTellTheirOwn, Inputs
<1>14. CommandsType'
  BY <1>2 DEF ClocksInv, CommandsType
<1> QED
  BY <1>10, <1>12, <1>13, <1>14 DEF ClocksInv

LEMMA MergeSaysClocks ==
    ASSUME ClocksInv, MergeSays
    PROVE  ClocksInv'
<1> DEFINE comment == Append(merge.comment, Comment(MergeItem))
           spoken == Append(said[MergeItem], Comment(MergeItem))
<1>1. /\ merge' = [merge EXCEPT !.comment = comment]
      /\ said' = [said EXCEPT ![MergeItem] = spoken]
      /\ inputs' = inputs + 1
      /\ UNCHANGED <<hostOf, nodes, encoding, toMerge, reported, commands, clockOffset>>
  BY DEF MergeSays, mcrtVars, channels
<1>2. said[MergeItem] \in Comments /\ merge.comment \in Comments /\ MergeItem \in Origin
  BY DEF ClocksInv, MachinesTellTheirOwn, MergeKnowsHosts, Origin
<1>3. Comment(MergeItem) \in Remark
  <2>1. Len(said[MergeItem]) + 1 \in Nat
    BY <1>2, LenProperties DEF Comments
  <2> QED
    BY <1>2, <2>1 DEF Comment, Remark
<1>4. comment \in Comments /\ spoken \in Comments
  BY <1>2, <1>3, AppendProperties DEF Comments
<1> HIDE DEF comment, spoken
<1>5. merge' \in [nodes : Known, comment : Comments] /\ merge'.nodes = merge.nodes
  BY <1>1, <1>4 DEF ClocksInv, MergeKnowsHosts
<1>6. MergeKnowsHosts'
  BY <1>1, <1>5 DEF ClocksInv, MergeKnowsHosts
<1>7. said' \in [Origin -> Comments]
  BY <1>1, <1>4 DEF ClocksInv, MachinesTellTheirOwn
<1>8. Inputs'
  BY <1>1 DEF ClocksInv, MachinesTellTheirOwn, Inputs
<1>9. MachinesTellTheirOwn'
  BY <1>1, <1>7, <1>8 DEF ClocksInv, MachinesTellTheirOwn
<1>10. CommandsType'
  BY <1>1 DEF ClocksInv, CommandsType
<1>11. ShiftsStay /\ \A n \in Machine : OffsetStays(n)
  BY <1>1, <1>5 DEF ShiftsStay, OffsetStays
<1>12. \A n \in Machine : ClockOf(n)'
  BY <1>1, <1>11, ClockStays DEF ClocksInv
<1> QED
  BY <1>6, <1>9, <1>10, <1>12 DEF ClocksInv

LEMMA MergeEncodeClocks ==
    ASSUME ClocksInv, MergeEncode
    PROVE  ClocksInv'
<1> DEFINE known == merge.nodes
<1>1. known \in Known /\ DOMAIN known \in SUBSET Machine
  BY KnownIs DEF ClocksInv, MergeKnowsHosts
<1>2. /\ merge' = [nodes |-> Sent(known), comment |-> <<>>]
      /\ UNCHANGED <<hostOf, nodes, encoding, toMerge, said, reported, inputs, commands, clockOffset>>
  <2>1. UNCHANGED <<hostOf, nodes, encoding, toMerge, said, reported, inputs, commands, clockOffset>>
    BY DEF MergeEncode, mcrtVars, history
  <2>2. merge' = [nodes |-> [m \in DOMAIN Flushed(known) |-> Cleared(Flushed(known)[m])], comment |-> <<>>]
    BY DEF MergeEncode, Flushed
  <2>3. [m \in DOMAIN Flushed(known) |-> Cleared(Flushed(known)[m])] = Sent(known)
    BY DEF Flushed, Sent
  <2> QED
    BY <2>1, <2>2, <2>3
<1>3. merge' \in [nodes : Known, comment : Comments] /\ merge'.nodes = Sent(known)
  BY <1>1, <1>2, SentIs, NoComments
<1>4. ASSUME NEW n \in DOMAIN known
      PROVE  Sent(known)[n].value = known[n].value /\ Calm(Sent(known)[n])
  <2> DEFINE info == known[n]
             flushed == FlushEncodeData(info)
  <2>1. info \in Info /\ Calm(info)
    BY <1>1, KnownIs DEF ClocksInv, MergeKnowsHosts
  <2>2. Sent(known)[n] = Cleared(flushed)
    BY DEF Sent
  <2> HIDE DEF info
  <2>3. flushed \in Info /\ flushed.value = info.value /\ Calm(flushed)
    BY <2>1, FlushEmpties, FlushOfCalm
  <2> HIDE DEF flushed
  <2>4. Cleared(flushed).value = flushed.value /\ Calm(Cleared(flushed))
    BY <2>3, ClearedIs
  <2> QED
    BY <2>2, <2>3, <2>4 DEF info
<1>5. DOMAIN Sent(known) = DOMAIN known
  BY DEF Sent
<1>6. MergeKnowsHosts'
  BY <1>2, <1>3, <1>4, <1>5 DEF ClocksInv, MergeKnowsHosts
<1>7. ShiftsStay
  BY <1>3, <1>4, <1>5 DEF ShiftsStay
<1>8. \A n \in Machine : ClockOf(n)'
  <2>1. \A n \in Machine : OffsetStays(n)
    BY <1>2 DEF OffsetStays
  <2> QED
    BY <1>2, <1>7, <2>1, ClockStays DEF ClocksInv
<1>9. MachinesTellTheirOwn' /\ CommandsType'
  BY <1>2 DEF ClocksInv, MachinesTellTheirOwn, CommandsType, Inputs
<1> QED
  BY <1>6, <1>8, <1>9 DEF ClocksInv

(* The host that was measured is told the offset that undoes the shift.    *)
LEMMA ShiftIsShown ==
    ASSUME NEW info \in Info, NEW shift \in Number
    PROVE  /\ WithShift(info, shift).value["clockTimeShift"] = shift
           /\ WithShift(info, shift).value["hostName"] = info.value["hostName"]
<1> DEFINE shifted == SetValue(info, FALSE, "clockTimeShift", shift)
           made == SetValue(shifted, FALSE, "lastRunClockOffsetTime", 1)
           shiftKey == "clockTimeShift"
           timeKey == "lastRunClockOffsetTime"
           hostKey == "hostName"
<1>1. /\ shiftKey \in Key /\ timeKey \in Key /\ hostKey \in Key
      /\ shift \in Datum /\ 1 \in Datum
  BY KeyFacts DEF ClockKey, Datum, NoClock
<1>2. shifted \in Info /\ shifted.value = Assigned(info.value, shiftKey, shift)
  BY <1>1, SetGood, SetValueMakes DEF Good
<1> HIDE DEF shifted
<1>3. made \in Info /\ made.value = Assigned(shifted.value, timeKey, 1)
  BY <1>1, <1>2, SetGood, SetValueMakes DEF Good
<1> HIDE DEF made
<1>4. info.value \in [Key -> Datum] /\ shifted.value \in [Key -> Datum]
  BY <1>2, InfoFields
<1>5. \A key \in Key : shifted.value[key] = NewValue(info.value, shiftKey, shift, key)
  BY <1>1, <1>2, <1>4, AssignedIs
<1>6. \A key \in Key : made.value[key] = NewValue(shifted.value, timeKey, 1, key)
  BY <1>1, <1>3, <1>4, AssignedIs
<1>7. made.value[shiftKey] = shift /\ made.value[hostKey] = info.value[hostKey]
  BY <1>1, <1>5, <1>6 DEF NewValue
<1> QED
  BY <1>7 DEF WithShift, made, shifted

LEMMA ServeClockClocks ==
    ASSUME ClocksInv, NEW m \in Machine, NEW shift \in Number, ServeClock(m, shift)
    PROVE  ClocksInv'
<1> DEFINE known == merge.nodes
           sameHost == {n \in DOMAIN known : known[n].value.hostName = hostOf[m]}
           command == ClockOffset(hostOf[m], -shift)
<1>1. UNCHANGED <<hostOf, nodes, encoding, toMerge, said, reported, inputs, clockOffset>>
  BY DEF ServeClock, mcrtVars, history
<1>2. MachinesTellTheirOwn'
  BY <1>1 DEF ClocksInv, MachinesTellTheirOwn, Inputs
<1>3. CASE sameHost = {}
  <2>1. UNCHANGED <<merge, commands>>
    BY <1>3 DEF ServeClock
  <2> QED
    BY <1>1, <1>2, <2>1, ClocksStay
<1>4. CASE sameHost # {}
  <2>1. PICK n \in sameHost : /\ merge' = [merge EXCEPT !.nodes[n] = WithShift(known[n], shift)]
                              /\ commands' = SentToAll(command)
    BY <1>4 DEF ServeClock
  <2>2. /\ known \in Known /\ DOMAIN known \in SUBSET Machine /\ known \in [DOMAIN known -> Info]
        /\ merge.comment \in Comments /\ hostOf[m] \in Host
    BY KnownIs DEF ClocksInv, MergeKnowsHosts, MachinesTellTheirOwn
  <2>3. n \in DOMAIN known /\ n \in Machine /\ known[n] \in Info
        /\ known[n].value["hostName"] = hostOf[m]
    BY <2>2
  <2>4. hostOf[n] = hostOf[m] /\ Calm(known[n])
    BY <2>2, <2>3, ConstantsAssumption DEF ClocksInv, MergeKnowsHosts
  <2> DEFINE made == WithShift(known[n], shift)
             changed == [known EXCEPT ![n] = made]
  <2>5. made \in Info /\ Calm(made)
    <3>1. Good(known[n], made)
      BY <2>3, ShiftMakes
    <3>2. Calm(known[n]) => Calm(made)
      BY <2>3, ShiftMakes
    <3> QED
      BY <2>4, <3>1, <3>2 DEF Good
  <2>6. made.value["clockTimeShift"] = shift /\ made.value["hostName"] = known[n].value["hostName"]
    BY <2>3, ShiftIsShown
  <2>7. merge' = [merge EXCEPT !.nodes = changed]
    BY <2>1 DEF ClocksInv, MergeKnowsHosts
  <2> HIDE DEF made, known
  <2>8. /\ DOMAIN changed = DOMAIN known /\ changed \in [DOMAIN known -> Info]
        /\ \A k \in DOMAIN known : changed[k] = IF k = n THEN made ELSE known[k]
    BY <2>2, <2>5
  <2>9. changed \in Known
    BY <2>2, <2>8, KnownOf
  <2> HIDE DEF changed
  <2>10. merge' \in [nodes : Known, comment : Comments] /\ merge'.nodes = changed
    BY <2>2, <2>7, <2>9 DEF ClocksInv, MergeKnowsHosts
  <2>11. \A k \in DOMAIN known : /\ known[k].value["hostName"] \in {NoHost, hostOf[k]}
                                 /\ Calm(known[k])
    BY DEF ClocksInv, MergeKnowsHosts, known
  <2>12. MergeKnowsHosts'
    <3>1. \A k \in DOMAIN changed : /\ changed[k].value["hostName"] \in {NoHost, hostOf[k]}
                                    /\ Calm(changed[k])
      BY <2>5, <2>6, <2>8, <2>11
    <3> QED
      BY <1>1, <2>10, <3>1 DEF MergeKnowsHosts
  <2>13. command \in Command
    BY <2>2 DEF ClockOffset, Command, Offset
  <2>14. command.cmd = "clockOffset" /\ command.hostName = hostOf[m] /\ command.offsetMs = -shift
    BY DEF ClockOffset
  <2> HIDE DEF command
  <2>15. CommandsType' /\ \A k \in Machine : commands'[k] = Append(commands[k], command)
    BY <1>1, <2>1, <2>13, CommandSent DEF ClocksInv
  <2>16. ASSUME NEW k \in Machine
         PROVE  OffsetOf(commands'[k], hostOf[k], clockOffset[k])
                  = IF hostOf[k] = hostOf[m] THEN -shift
                    ELSE OffsetOf(commands[k], hostOf[k], clockOffset[k])
    <3>1. commands[k] \in Commands
      BY DEF ClocksInv, CommandsType
    <3>2. OffsetOf(Append(commands[k], command), hostOf[k], clockOffset[k])
            = IF IsFor(command, hostOf[k]) THEN command.offsetMs
              ELSE OffsetOf(commands[k], hostOf[k], clockOffset[k])
      BY <2>13, <3>1, OffsetAppend
    <3> QED
      BY <2>14, <2>15, <3>2 DEF IsFor
  <2>17. ASSUME NEW k \in Machine, hostOf[k] = hostOf[m] PROVE ClockOf(k)'
    <3>1. n \in DOMAIN merge'.nodes /\ hostOf'[n] = hostOf'[k]
      BY <1>1, <2>3, <2>4, <2>8, <2>10, <2>17 DEF known
    <3>2. merge'.nodes[n].value.clockTimeShift = shift
      BY <2>3, <2>6, <2>8, <2>10
    <3>3. -shift \in ShownShifts(k)'
      BY <3>1, <3>2 DEF ShownShifts
    <3> QED
      BY <1>1, <2>16, <2>17, <3>3 DEF ClockOf
  <2>18. ASSUME NEW k \in Machine, hostOf[k] # hostOf[m] PROVE ClockOf(k)'
    <3>1. OffsetOf(commands'[k], hostOf'[k], clockOffset'[k])
            = OffsetOf(commands[k], hostOf[k], clockOffset[k])
      BY <1>1, <2>16, <2>18
    <3>2. ASSUME NEW j \in DOMAIN known, hostOf[j] = hostOf[k]
          PROVE  -known[j].value.clockTimeShift \in ShownShifts(k)'
      <4>1. j # n
        BY <2>4, <2>18, <3>2
      <4>2. j \in DOMAIN merge'.nodes /\ merge'.nodes[j] = known[j] /\ hostOf'[j] = hostOf'[k]
        BY <1>1, <2>8, <2>10, <3>2, <4>1
      <4> QED
        BY <4>2 DEF ShownShifts
    <3>3. ShownShifts(k) \subseteq ShownShifts(k)'
      BY <3>2 DEF ShownShifts, known
    <3>4. ClockOf(k)
      BY DEF ClocksInv
    <3> QED
      BY <3>1, <3>3, <3>4 DEF ClockOf
  <2> QED
    BY <1>2, <2>12, <2>15, <2>17, <2>18 DEF ClocksInv
<1> QED
  BY <1>3, <1>4

(* A command that is run was for this MCRT computation's host or was not.  *)
LEMMA RunCommandClocks ==
    ASSUME ClocksInv, NEW m \in Machine, RunCommand(m)
    PROVE  ClocksInv'
<1> DEFINE command == Head(commands[m])
           rest == Tail(commands[m])
           then == IF IsFor(command, hostOf[m]) THEN command.offsetMs ELSE clockOffset[m]
<1>1. /\ commands[m] # <<>> /\ commands' = [commands EXCEPT ![m] = rest]
      /\ RunClockDeltaClient(m, command) \/ RunClockOffset(m, command)
      /\ UNCHANGED <<hostOf, nodes, encoding, merge, toMerge, said, reported, inputs>>
  BY DEF RunCommand, mcrtVars, history
<1>2. commands[m] \in Commands /\ commands \in [Machine -> Commands] /\ DOMAIN clockOffset = Machine
  BY DEF ClocksInv, CommandsType
<1>3. rest \in Commands
  BY <1>1, <1>2, HeadTailProperties DEF Commands
<1>4. OffsetOf(commands[m], hostOf[m], clockOffset[m]) = OffsetOf(rest, hostOf[m], then)
  BY <1>1, <1>2, OffsetTail
<1>5. /\ DOMAIN clockOffset' = Machine /\ clockOffset'[m] = then
      /\ \A k \in Machine \ {m} : clockOffset'[k] = clockOffset[k]
  <2> HIDE DEF command
  <2>1. CASE RunClockDeltaClient(m, command)
    <3>1. UNCHANGED clockOffset /\ ~IsFor(command, hostOf[m])
      BY <2>1 DEF RunClockDeltaClient, IsFor
    <3> QED
      BY <1>2, <3>1
  <2>2. CASE RunClockOffset(m, command)
    <3>1. /\ IsFor(command, hostOf[m]) <=> command.hostName = hostOf[m]
          /\ clockOffset' = IF command.hostName = hostOf[m]
                              THEN [clockOffset EXCEPT ![m] = command.offsetMs] ELSE clockOffset
      BY <2>2 DEF RunClockOffset, IsFor
    <3> QED
      BY <1>2, <3>1
  <2> QED
    BY <1>1, <2>1, <2>2
<1> HIDE DEF command, rest, then
<1>6. CommandsType'
  BY <1>1, <1>2, <1>3, <1>5 DEF CommandsType
<1>7. ASSUME NEW k \in Machine PROVE OffsetStays(k)
  <2>1. CASE k = m
    BY <1>1, <1>2, <1>4, <1>5, <2>1 DEF OffsetStays
  <2>2. CASE k # m
    BY <1>1, <1>2, <1>5, <2>2 DEF OffsetStays
  <2> QED
    BY <2>1, <2>2
<1>8. ShiftsStay
  BY <1>1 DEF ShiftsStay
<1>9. \A k \in Machine : ClockOf(k)'
  BY <1>1, <1>7, <1>8, ClockStays DEF ClocksInv
<1>10. MachinesTellTheirOwn' /\ MergeKnowsHosts'
  BY <1>1 DEF ClocksInv, MachinesTellTheirOwn, MergeKnowsHosts, Inputs
<1> QED
  BY <1>6, <1>9, <1>10 DEF ClocksInv

LEMMA ClocksStep ==
    ASSUME ClocksInv, [Next]_vars
    PROVE  ClocksInv'
<1>1. CASE UNCHANGED vars
  <2>1. UNCHANGED <<hostOf, nodes, encoding, toMerge, merge, commands, clockOffset, said, reported, inputs>>
    BY <1>1 DEF vars, mcrtVars, channels, history
  <2>2. MachinesTellTheirOwn'
    BY <2>1 DEF ClocksInv, MachinesTellTheirOwn, Inputs
  <2> QED
    BY <2>1, <2>2, ClocksStay
<1>2. ASSUME NEW m \in Machine, MachineNext(m) PROVE ClocksInv'
  <2>1. CASE SetLoad(m) \/ ReportStage(m) \/ SayComment(m)
    BY <2>1, InputsStayOwn
  <2>2. CASE BeginEncode(m) \/ EndEncode(m)
    BY <2>2, EncodesStayOwn
  <2>3. CASE MergeMeets(m)
    BY <2>3, MergeMeetsClocks
  <2>4. CASE MergeDecode(m)
    BY <2>4, MergeDecodeClocks
  <2>5. CASE RunCommand(m)
    BY <2>5, RunCommandClocks
  <2>6. CASE \E shift \in Number : ServeClock(m, shift)
    BY <2>6, ServeClockClocks
  <2> QED
    BY <1>2, <2>1, <2>2, <2>3, <2>4, <2>5, <2>6 DEF MachineNext
<1>3. CASE MergeSays
  BY <1>3, MergeSaysClocks
<1>4. CASE MergeEncode
  BY <1>4, MergeEncodeClocks
<1>5. CASE ClientDecode
  <2>1. UNCHANGED <<hostOf, nodes, encoding, toMerge, merge, commands, clockOffset, said, reported, inputs>>
    BY <1>5 DEF ClientDecode, mcrtVars
  <2>2. MachinesTellTheirOwn'
    BY <2>1 DEF ClocksInv, MachinesTellTheirOwn, Inputs
  <2> QED
    BY <2>1, <2>2, ClocksStay
<1> QED
  BY <1>1, <1>2, <1>3, <1>4, <1>5 DEF Next

(* Once it has run the commands that were sent to it, an MCRT computation  *)
(* has no offset, or the one that undoes the shift shown for an            *)
(* McrtNodeInfo of its host:  however measurements of several hosts are    *)
(* interleaved with messages and commands, and also when another thread    *)
(* sets values while one encodes (setClockDeltaTimeShift,                  *)
(* sendClockOffsetToMcrt, McrtControl::run).                               *)
THEOREM ClocksAlwaysAgree == Spec => []ClocksAgree
<1>1. Init => ClocksInv
  BY ClocksStart
<1>2. ClocksInv /\ [Next]_vars => ClocksInv'
  BY ClocksStep
<1>3. ClocksInv => ClocksAgree
  BY ClocksShow
<1> QED
  BY <1>1, <1>2, <1>3, PTL DEF Spec
===============================================================================
