--------------------------- MODULE ValueTimeTracker ---------------------------
(***************************************************************************)
(* The trackers of the telemetry: values with time stamps that are kept    *)
(* for a while and resampled for a bar graph (ValueTimeTracker), and the   *)
(* two that measure a rate (BandwidthTracker, FpsTracker).                 *)
(*                                                                         *)
(* The events of ValueTimeTracker are objects that a pool hands out again, *)
(* so an event in the list is a number, and what it holds is a record in   *)
(* events.  Time is in whole ticks, and a resampled value is multiplied by *)
(* the ticks of a sample, so that it is a number of the model.             *)
(***************************************************************************)
EXTENDS Integers, Sequences, SequencesExt, FiniteSetsExt

CONSTANTS
    KeepDuration,       \* mValueKeepDurationSec, mKeepIntervalSec
    MinRateEvents,      \* the 10 events that a rate is measured from at least
    SampleCounts,       \* the numbers of samples that are asked for
    TrackedValue,       \* the values that are pushed
    TimeSteps,          \* the ticks between two of them
    MaxPushes           \* bound: pushes of a behaviour

ASSUME TrackerAssumption ==
    /\ KeepDuration \in Nat /\ MinRateEvents \in Nat /\ TimeSteps \subseteq Nat
    /\ TrackedValue \subseteq Int
    /\ SampleCounts \subseteq Nat \ {0} /\ \A n \in SampleCounts : KeepDuration % n = 0

VARIABLES
    events,         \* the memory of the events
    eventList,      \* mEventList, the newest first
    eventPool,      \* mEventMemPool
    rateList,       \* mEventList of a BandwidthTracker, the newest first
    rateQueue,      \* mEventQueue of an FpsTracker, the oldest first
    history         \* all that was pushed, the oldest first

trackerVars == <<events, eventList, eventPool, rateList, rateQueue, history>>

TrackerInit ==
    /\ events = <<>>
    /\ eventList = <<>>
    /\ eventPool = <<>>
    /\ rateList = <<>>
    /\ rateQueue = <<>>
    /\ history = <<>>

-------------------------------------------------------------------------------
(* push.                                                                   *)

(* Faulty variant: no event is put back.                                   *)
CleanUpOverflow_DropAll(list, pool, time) ==
    LET kept == Max({n \in 1 .. Len(list) : n <= 2 \/ time[list[1]] - time[list[n]] <= KeepDuration})
    IN  [list |-> SubSeq(list, 1, kept), pool |-> SubSeq(list, kept + 1, Len(list)) \o pool]

(* cleanUpOverflow on a list and the pool: of the events that are too old  *)
(* the last one that was taken off is put back, for it still says what the *)
(* value was when the time that is kept begins.                            *)
CleanUpOverflow(list, pool, time) ==
    LET tooOld(n) == time[list[1]] - time[list[n]] > KeepDuration
        \* the length at which the loop ends
        kept == Max({n \in 1 .. Len(list) : n <= 2 \/ ~ tooOld(n)})
        popped == SubSeq(list, kept + 1, Len(list))
    IN  IF popped = <<>> THEN [list |-> list, pool |-> pool]
        ELSE [list |-> SubSeq(list, 1, kept + 1), pool |-> Tail(popped) \o pool]

(* push with getEvent and setEvent.                                        *)
PushEvent(value, time) ==
    LET id == IF eventPool = <<>> THEN Len(events) + 1 ELSE eventPool[1]
        contents == [n \in 1 .. Len(events) \cup {id} |->
                       IF n = id THEN [time |-> time, value |-> value] ELSE events[n]]
        pool == IF eventPool = <<>> THEN <<>> ELSE Tail(eventPool)
        clean == CleanUpOverflow(<<id>> \o eventList, pool, [n \in DOMAIN contents |-> contents[n].time])
    IN  /\ events' = contents
        /\ eventList' = clean.list
        /\ eventPool' = clean.pool

(* set of BandwidthTracker: only what is beyond the least number is ever   *)
(* dropped, and only when it is too old.                                   *)
BandwidthSet(value, time) ==
    LET list == <<[time |-> time, size |-> value]>> \o rateList
        kept == Max({n \in 1 .. Len(list) :
                        n <= MinRateEvents \/ list[1].time - list[n].time <= KeepDuration})
    IN  rateList' = SubSeq(list, 1, kept)

(* Faulty variant: at most the least number is kept.                       *)
FpsSet_MinOnly(time) ==
    LET queue == Append(rateQueue, time)
        first == IF Len(queue) > MinRateEvents THEN Len(queue) - MinRateEvents + 1 ELSE 1
    IN  rateQueue' = SubSeq(queue, first, Len(queue))

(* set of FpsTracker.                                                      *)
FpsSet(time) ==
    LET queue == Append(rateQueue, time)
        dropped == Min({n \in 0 .. Len(queue) - 1 :
                          \/ Len(queue) - n <= MinRateEvents
                          \/ time - queue[n + 1] <= KeepDuration})
    IN  rateQueue' = SubSeq(queue, dropped + 1, Len(queue))

PushValue(value, step) ==
    LET time == (IF history = <<>> THEN 0 ELSE history[Len(history)].time) + step
    IN  /\ Len(history) < MaxPushes
        /\ history' = Append(history, [time |-> time, value |-> value])
        /\ PushEvent(value, time)
        /\ BandwidthSet(value, time)
        /\ FpsSet(time)

TrackerNext == \E value \in TrackedValue, step \in TimeSteps : PushValue(value, step)

TrackerSpec == TrackerInit /\ [][TrackerNext]_trackerVars

-------------------------------------------------------------------------------
(* Resampling.  list is the oldest first.                                  *)

NoEvent == [time |-> -KeepDuration, value |-> 0]

(* getVal of getResampleValue: from the event at walk.next on, until the   *)
(* end of the sample.  walk also holds the event before, and the sum.      *)
StepOver(list, walk) == [walk EXCEPT !.prev = list[walk.next], !.next = @ + 1]

SampleFrom(list, from, start, end) ==
    LET walk[n \in from.next - 1 .. Len(list)] ==
            IF n = from.next - 1 THEN [from EXCEPT !.sum = 0]
            ELSE LET w == walk[n - 1]
                     curr == list[n]
                     since == IF start < w.prev.time THEN w.prev.time ELSE start
                 IN  IF w.next # n \/ end <= curr.time THEN w
                     ELSE IF start < curr.time
                       THEN StepOver(list, [w EXCEPT !.sum = @ + w.prev.value * (curr.time - since)])
                     ELSE StepOver(list, w)
        last == walk[Len(list)]
    IN  IF last.prev.time <= start THEN [last EXCEPT !.sum = last.prev.value * (end - start)]
        ELSE [last EXCEPT !.sum = @ + last.prev.value * (end - last.prev.time)]

(* getResampleValue: one walk over the events for all samples.             *)
GetResampleValue(list, count) ==
    LET step == KeepDuration \div count
        begin == list[Len(list)].time - KeepDuration
        samples[id \in 0 .. count] ==
            IF id = 0 THEN [next |-> 1, prev |-> NoEvent, sum |-> 0]
            ELSE SampleFrom(list, samples[id - 1], begin + (id - 1) * step, begin + id * step)
    IN  [id \in 1 .. count |-> samples[id].sum]

(* getResampleValueExhaust: all events for each sample.                    *)
SegmentVal(prev, curr, start, end) ==
    IF end <= prev.time \/ curr.time <= start THEN 0
    ELSE IF prev.time <= start
      THEN prev.value * (IF curr.time < end THEN curr.time - start ELSE end - start)
    ELSE prev.value * (IF curr.time <= end THEN curr.time - prev.time ELSE end - prev.time)

GetResampleValueExhaust(list, count) ==
    LET step == KeepDuration \div count
        begin == list[Len(list)].time - KeepDuration
        last == list[Len(list)]
        Val(start, end) ==
            IF Len(list) = 1
              THEN IF end < last.time THEN 0
                   ELSE IF last.time < start THEN last.value * step
                   ELSE last.value * (end - last.time)
            ELSE LET total == FoldLeft(+, 0, [n \in 1 .. Len(list) - 1 |->
                                SegmentVal(list[n], list[n + 1], start, end)])
                 IN  IF last.time <= start THEN last.value * step
                     ELSE IF last.time < end THEN total + last.value * (end - last.time)
                     ELSE total
    IN  [id \in 1 .. count |-> Val(begin + (id - 1) * step, begin + id * step)]

-------------------------------------------------------------------------------
(* The value during the tick that begins at t: that of the last push, or   *)
(* nothing before the first.                                               *)
ValueAt(t) ==
    LET before == {n \in DOMAIN history : history[n].time <= t}
    IN  IF before = {} THEN 0 ELSE history[Max(before)].value

(* A sample: the values of its ticks, from start to before end.            *)
SumOfTicks(start, end) == MapThenSumSet(ValueAt, start .. end - 1)

(* Although events are dropped and used again, the samples are those of    *)
(* all values that were ever pushed, and both ways to compute them agree   *)
(* (ValueTimeTracker.cc:188 says that they are the same).                  *)
ResampleIsStepFunction ==
    history # <<>> =>
        LET list == [n \in DOMAIN eventList |-> events[Reverse(eventList)[n]]]
            begin == history[Len(history)].time - KeepDuration
            Expected(count) ==
                LET step == KeepDuration \div count
                IN  [id \in 1 .. count |-> SumOfTicks(begin + (id - 1) * step, begin + id * step)]
        IN  \A count \in SampleCounts :
              /\ GetResampleValue(list, count) = Expected(count)
              /\ GetResampleValueExhaust(list, count) = Expected(count)

(* A rate is measured over all events of the interval, and over an older   *)
(* one only when there are few (BandwidthTracker.h:39); both trackers keep *)
(* the same ones.                                                          *)
RatesKeepInterval ==
    history # <<>> =>
        LET now == history[Len(history)].time
            recent == {n \in DOMAIN history : now - history[n].time <= KeepDuration}
            kept == Len(history) - Len(rateList) + 1 .. Len(history)
        IN  /\ recent \subseteq kept
            /\ Len(rateList) > MinRateEvents => kept \subseteq recent
            /\ rateQueue = [n \in 1 .. Len(rateList) |-> Reverse(rateList)[n].time]
===============================================================================
