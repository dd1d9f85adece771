--------------------------- MODULE ShareUtilProofs ---------------------------
(***************************************************************************)
(* The tools of share/util, which both programs use.                       *)
(*                                                                         *)
(* ValueTimeTracker, for every interval and whatever is pushed when: the   *)
(* two trackers of a rate keep the same events, and drop none that still   *)
(* counts; and the samples of a bar graph are the sums of all that was     *)
(* ever pushed, although the list drops events and uses them again.        *)
(*                                                                         *)
(* ClockDelta, for any number of clients, any offsets and any delays: what *)
(* the measurement of a clock is worth.  The invariant follows one         *)
(* connection: what is on the wire in each stage of serverMain, and that a *)
(* time which comes back was sent before the client read its clock, and    *)
(* that before now.                                                        *)
(***************************************************************************)
EXTENDS ClockDelta, ValueTimeTracker, LoopTheorems

-------------------------------------------------------------------------------
(* The clocks.                                                             *)
Stage == {"none", "backlog", "lost", "accepted", "hostName", "send", "receive", "closed"}

TypeOK ==
    /\ now \in Nat
    /\ client \in [Client -> {"opening", "connected", "true", "false", "dead"}]
    /\ connection \in [Client -> Stage]
    /\ DOMAIN toServer = Client /\ DOMAIN toClient = Client
    /\ measured \in [Client -> [tests : 0 .. MaxLoop, deltaSum : Int, roundTripSum : Nat]]

Sent(time) == time \in Nat /\ time <= now

Answered(data, c) ==
    /\ data.start \in Nat /\ data.half \in Int
    /\ data.start <= data.half - Offset[c]
    /\ data.half - Offset[c] <= now

(* What is on the wire in each stage of a connection.                      *)
WireOK(c) ==
    /\ connection[c] \in {"none", "send"} => toServer[c] = << >> /\ toClient[c] = << >>
    /\ connection[c] \in {"backlog", "lost", "accepted", "hostName"} =>
         /\ \/ toServer[c] = <<HostName>>
            \/ toServer[c] = << >> /\ client[c] = "false"
         /\ toClient[c] = << >>
    /\ connection[c] = "receive" =>
         \/ toServer[c] = << >> /\ \E time : Sent(time) /\ toClient[c] = <<time>>
         \/ toClient[c] = << >> /\ \E data : Answered(data, c) /\ toServer[c] = <<data>>

(* An open client has no connection, and one is closed by the server only  *)
(* when all round trips are done, a call failed, or the client is gone; one *)
(* that got false did not say who it is.                                   *)
EndOK(c) ==
    /\ client[c] = "opening" => connection[c] = "none"
    /\ client[c] = "connected" => connection[c] # "none"
    /\ client[c] = "true" => measured[c].tests = MaxLoop \/ c \in failed
    /\ client[c] = "false" =>
         /\ connection[c] \notin {"send", "receive"}
         /\ connection[c] # "closed" => toServer[c] = << >>
         /\ measured[c].tests = 0
    /\ connection[c] = "closed" =>
         client[c] \in {"dead", "false"} \/ measured[c].tests = MaxLoop \/ c \in failed
    /\ connection[c] \in {"none", "backlog", "lost", "accepted", "hostName"} =>
         measured[c].tests = 0
    /\ connection[c] = "receive" => measured[c].tests < MaxLoop

Within(m, offset) ==
    /\ 2 * (m.deltaSum - m.tests * offset) <= m.roundTripSum + m.tests
    /\ -(2 * (m.deltaSum - m.tests * offset)) <= m.roundTripSum + m.tests

IInv ==
    /\ TypeOK
    /\ \A c \in Client : WireOK(c)
    /\ \A c \in Client : EndOK(c)
    /\ \A c \in Client : Within(measured[c], Offset[c])
-------------------------------------------------------------------------------

USE ClockDeltaAssumption

(* One round trip measures the shift up to half of its length: the client  *)
(* read its clock between the two ends of it.                              *)
LEMMA DeltaIsWithin ==
    ASSUME NEW start \in Nat, NEW half \in Int, NEW end \in Nat, NEW offset \in Int,
           start <= half - offset, half - offset <= end
    PROVE  /\ Delta(start, half, end) \in Int
           /\ 2 * (Delta(start, half, end) - offset) <= (end - start) + 1
           /\ -(2 * (Delta(start, half, end) - offset)) <= (end - start) + 1
BY DEF Delta

(* A round trip is added to those that are measured already.               *)
LEMMA AverageStaysWithin ==
    ASSUME NEW n \in Nat, NEW sum \in Int, NEW trips \in Nat, NEW offset \in Int,
           NEW delta \in Int, NEW trip \in Nat,
           2 * (sum - n * offset) <= trips + n,
           -(2 * (sum - n * offset)) <= trips + n,
           2 * (delta - offset) <= trip + 1,
           -(2 * (delta - offset)) <= trip + 1
    PROVE  /\ 2 * ((sum + delta) - (n + 1) * offset) <= (trips + trip) + (n + 1)
           /\ -(2 * ((sum + delta) - (n + 1) * offset)) <= (trips + trip) + (n + 1)
<1> DEFINE p == n * offset
<1>1. p \in Int /\ (n + 1) * offset = p + offset
  OBVIOUS
<1> HIDE DEF p
<1>2. /\ 2 * (sum - p) <= trips + n
      /\ -(2 * (sum - p)) <= trips + n
  BY DEF p
<1>3. QED
  BY <1>1, <1>2

(* A connection that nobody touches stays as it is while time goes on.     *)
LEMMA UntouchedStays ==
    ASSUME NEW c \in Client, now \in Nat, now' \in Nat, now <= now',
           connection'[c] = connection[c], client'[c] = client[c],
           toServer'[c] = toServer[c], toClient'[c] = toClient[c],
           measured'[c] = measured[c], c \in failed' <=> c \in failed,
           WireOK(c), EndOK(c), Within(measured[c], Offset[c])
    PROVE  WireOK(c)' /\ EndOK(c)' /\ Within(measured[c], Offset[c])'
<1>1. ASSUME NEW time, Sent(time) PROVE Sent(time)'
  BY <1>1 DEF Sent
<1>2. ASSUME NEW data, Answered(data, c) PROVE Answered(data, c)'
  BY <1>2 DEF Answered
<1>3. WireOK(c)'
  BY <1>1, <1>2, Zenon DEF WireOK
<1>4. QED
  BY <1>3 DEF EndOK, Within

(* So of a step that touches the connection of one client only that one    *)
(* has to be looked at.                                                    *)
LEMMA OneClientSteps ==
    ASSUME IInv, TypeOK', NEW c \in Client, now' = now,
           \A d \in Client \ {c} :
             /\ connection'[d] = connection[d] /\ client'[d] = client[d]
             /\ toServer'[d] = toServer[d] /\ toClient'[d] = toClient[d]
             /\ measured'[d] = measured[d]
             /\ d \in failed' <=> d \in failed,
           WireOK(c)', EndOK(c)', Within(measured[c], Offset[c])'
    PROVE  IInv'
<1>1. now \in Nat /\ now <= now'
  BY DEF IInv, TypeOK
<1>2. ASSUME NEW d \in Client PROVE WireOK(d)' /\ EndOK(d)' /\ Within(measured[d], Offset[d])'
  <2>1. CASE d = c
    BY <2>1
  <2>2. CASE d # c
    BY <1>1, <2>2, UntouchedStays DEF IInv
  <2>3. QED
    BY <2>1, <2>2
<1>3. QED
  BY <1>2 DEF IInv

(* And of a step that touches none, none.                                  *)
LEMMA NoClientSteps ==
    ASSUME IInv, now' \in Nat, now <= now', UNCHANGED <<client, connection, wireVars, measured, failed>>
    PROVE  IInv'
<1>1. TypeOK'
  BY DEF IInv, TypeOK, wireVars
<1>2. ASSUME NEW d \in Client PROVE WireOK(d)' /\ EndOK(d)' /\ Within(measured[d], Offset[d])'
  BY UntouchedStays DEF IInv, TypeOK, wireVars
<1>3. QED
  BY <1>1, <1>2 DEF IInv

(* What the client does.                                                   *)
LEMMA ClientStepKeepsInv ==
    ASSUME IInv, NEW c \in Client,
           ClientStep(c) \/ Die(c) \/ HostNameFails(c) \/ AnswerFails(c)
    PROVE  IInv'
<1> USE DEF IInv, TypeOK, clientVars, serverVars, wireVars, Stage
<1>1. CASE Connect(c)
  <2>1. TypeOK'
    BY <1>1 DEF Connect
  <2>2. WireOK(c)' /\ EndOK(c)'
    BY <1>1 DEF Connect, WireOK, EndOK
  <2>3. QED
    BY <1>1, <2>1, <2>2, OneClientSteps DEF Connect, Within
<1>2. CASE OpenFails(c)
  <2>1. TypeOK' /\ client'[c] \in {"opening", "false"}
    BY <1>2 DEF OpenFails
  <2>2. WireOK(c)' /\ EndOK(c)'
    BY <1>2, <2>1 DEF OpenFails, WireOK, EndOK
  <2>3. QED
    BY <1>2, <2>1, <2>2, OneClientSteps DEF OpenFails, Within
<1>3. CASE Answer(c)
  <2>1. TypeOK'
    BY <1>3 DEF Answer
  <2>2. connection[c] \in {"receive", "closed"}
    BY <1>3 DEF Answer, WireOK, EndOK
  <2>3. WireOK(c)'
    <3>1. CASE connection[c] = "receive"
      <4>1. PICK time : Sent(time) /\ toClient[c] = <<time>> /\ toServer[c] = << >>
        BY <1>3, <3>1 DEF Answer, WireOK
      <4>2. /\ toClient'[c] = << >>
            /\ toServer'[c] = <<Clocks(time, now + Offset[c])>>
        BY <1>3, <4>1 DEF Answer
      <4>3. Answered(Clocks(time, now + Offset[c]), c)'
        BY <1>3, <4>1 DEF Answer, Answered, Clocks, Sent
      <4>4. QED
        BY <1>3, <3>1, <4>2, <4>3 DEF Answer, WireOK
    <3>2. CASE connection[c] = "closed"
      BY <1>3, <3>2 DEF Answer, WireOK
    <3>3. QED
      BY <2>2, <3>1, <3>2
  <2>4. EndOK(c)'
    BY <1>3, <2>2 DEF Answer, EndOK
  <2>5. QED
    BY <1>3, <2>1, <2>3, <2>4, OneClientSteps DEF Answer, Within
<1>4. CASE ConnectionEnds(c)
  <2>1. TypeOK'
    BY <1>4 DEF ConnectionEnds
  <2>2. WireOK(c)' /\ EndOK(c)'
    BY <1>4 DEF ConnectionEnds, WireOK, EndOK
  <2>3. QED
    BY <1>4, <2>1, <2>2, OneClientSteps DEF ConnectionEnds, Within
<1>5. CASE Die(c)
  <2>1. TypeOK'
    BY <1>5 DEF Die
  <2>2. WireOK(c)' /\ EndOK(c)'
    BY <1>5 DEF Die, WireOK, EndOK, Sent, Answered
  <2>3. QED
    BY <1>5, <2>1, <2>2, OneClientSteps DEF Die, Within
<1>6. CASE HostNameFails(c)
  <2>1. TypeOK'
    BY <1>6 DEF HostNameFails
  <2>2. WireOK(c)' /\ EndOK(c)'
    BY <1>6 DEF HostNameFails, WireOK, EndOK
  <2>3. QED
    BY <1>6, <2>1, <2>2, OneClientSteps DEF HostNameFails, Within
<1>7. CASE AnswerFails(c)
  <2>1. TypeOK'
    BY <1>7 DEF AnswerFails
  <2>2. WireOK(c)' /\ EndOK(c)'
    BY <1>7 DEF AnswerFails, WireOK, EndOK, Sent, Answered
  <2>3. QED
    BY <1>7, <2>1, <2>2, OneClientSteps DEF AnswerFails, Within
<1>8. QED
  BY <1>1, <1>2, <1>3, <1>4, <1>5, <1>6, <1>7 DEF ClientStep

(* What serverMain does with a connection.                                 *)
LEMMA ServerMainKeepsInv ==
    ASSUME IInv, NEW c \in Client, ServerMain(c) \/ ServerMainFails(c) PROVE IInv'
<1> USE DEF IInv, TypeOK, clientVars, serverVars, wireVars, Stage, GoesTo
<1>1. CASE ReadHostName(c)
  <2>1. TypeOK'
    BY <1>1 DEF ReadHostName
  <2>2. WireOK(c)' /\ EndOK(c)'
    <3>1. Tail(<<HostName>>) = << >>
      OBVIOUS
    <3>2. toServer[c] = <<HostName>> /\ toClient[c] = << >>
      BY <1>1 DEF ReadHostName, WireOK
    <3>3. toServer'[c] = << >> /\ toClient'[c] = << >> /\ connection'[c] = "send"
      BY <1>1, <3>1, <3>2 DEF ReadHostName
    <3>4. QED
      BY <1>1, <3>3 DEF ReadHostName, WireOK, EndOK
  <2>3. QED
    BY <1>1, <2>1, <2>2, OneClientSteps DEF ReadHostName, Within
<1>2. CASE SendTime(c)
  <2>1. TypeOK'
    BY <1>2 DEF SendTime
  <2>2. toClient'[c] = <<now>> /\ toServer'[c] = << >>
    <3>1. toClient[c] = << >> /\ toServer[c] = << >>
      BY <1>2 DEF SendTime, WireOK
    <3>2. Append(<< >>, now) = <<now>>
      OBVIOUS
    <3>3. QED
      BY <1>2, <3>1, <3>2 DEF SendTime
  <2>3. Sent(now)'
    BY <1>2 DEF SendTime, Sent
  <2>4. WireOK(c)'
    BY <1>2, <2>2, <2>3 DEF SendTime, WireOK
  <2>5. EndOK(c)'
    BY <1>2 DEF SendTime, EndOK, LoopEnds
  <2>6. QED
    BY <1>2, <2>1, <2>4, <2>5, OneClientSteps DEF SendTime, Within
<1>3. CASE ReceiveTime(c)
  <2>1. PICK data : Answered(data, c) /\ toServer[c] = <<data>> /\ toClient[c] = << >>
    BY <1>3 DEF ReceiveTime, WireOK
  <2> DEFINE m == measured[c]
             delta == Delta(data.start, data.half, now)
             trip == now - data.start
  <2>2. delta \in Int /\ trip \in Nat
    <3>1. data.start \in Nat /\ data.half \in Int /\ Offset[c] \in Int /\ now \in Nat
      BY <2>1 DEF Answered
    <3>2. data.start <= now
      BY <2>1, <3>1 DEF Answered
    <3>3. QED
      BY <3>1, <3>2 DEF Delta
  <2>3. m \in [tests : 0 .. MaxLoop, deltaSum : Int, roundTripSum : Nat] /\ m.tests < MaxLoop
    BY <1>3 DEF ReceiveTime, EndOK
  <2>4. measured'[c] = [tests |-> m.tests + 1, deltaSum |-> m.deltaSum + delta,
                        roundTripSum |-> m.roundTripSum + trip]
    BY <1>3, <2>1 DEF ReceiveTime
  <2>5. TypeOK'
    <3>1. measured' \in [Client -> [tests : 0 .. MaxLoop, deltaSum : Int, roundTripSum : Nat]]
      <4> HIDE DEF m, delta, trip
      <4>1. [tests |-> m.tests + 1, deltaSum |-> m.deltaSum + delta,
             roundTripSum |-> m.roundTripSum + trip]
               \in [tests : 0 .. MaxLoop, deltaSum : Int, roundTripSum : Nat]
        BY <2>2, <2>3
      <4>2. measured' = [measured EXCEPT ![c] = measured'[c]]
        BY <1>3 DEF ReceiveTime
      <4>3. QED
        BY <2>4, <4>1, <4>2
    <3>2. QED
      BY <1>3, <3>1 DEF ReceiveTime
  <2>6. /\ 2 * (delta - Offset[c]) <= trip + 1
        /\ -(2 * (delta - Offset[c])) <= trip + 1
    BY <2>1, DeltaIsWithin DEF Answered
  <2>7. Within(m, Offset[c])
    OBVIOUS
  <2> HIDE DEF delta, trip, m
  <2>8. /\ 2 * ((m.deltaSum + delta) - (m.tests + 1) * Offset[c])
               <= (m.roundTripSum + trip) + (m.tests + 1)
        /\ -(2 * ((m.deltaSum + delta) - (m.tests + 1) * Offset[c]))
               <= (m.roundTripSum + trip) + (m.tests + 1)
    BY <2>2, <2>3, <2>6, <2>7, AverageStaysWithin DEF Within
  <2>9. Within(measured[c], Offset[c])'
    BY <2>4, <2>8 DEF Within
  <2>10. WireOK(c)' /\ EndOK(c)'
    BY <1>3, <2>1, <2>3, <2>4 DEF ReceiveTime, WireOK, EndOK
  <2>11. QED
    BY <1>3, <2>5, <2>9, <2>10, OneClientSteps DEF ReceiveTime
<1>4. CASE EndConnection(c)
  <2>1. TypeOK'
    BY <1>4 DEF EndConnection
  <2>2. WireOK(c)'
    BY <1>4 DEF EndConnection, WireOK, AtEof
  <2>3. EndOK(c)'
    BY <1>4 DEF EndConnection, EndOK, AtEof, LoopEnds
  <2>4. QED
    BY <1>4, <2>1, <2>2, <2>3, OneClientSteps DEF EndConnection, Within
<1>5. CASE ServerMainFails(c)
  <2>1. TypeOK'
    BY <1>5 DEF ServerMainFails
  <2>2. WireOK(c)'
    BY <1>5 DEF ServerMainFails, WireOK
  <2>3. EndOK(c)'
    BY <1>5 DEF ServerMainFails, EndOK
  <2>4. QED
    BY <1>5, <2>1, <2>2, <2>3, OneClientSteps DEF ServerMainFails, Within
<1>6. QED
  BY <1>1, <1>2, <1>3, <1>4, <1>5 DEF ServerMain

(* What mainLoop does.                                                     *)
LEMMA MainLoopKeepsInv ==
    ASSUME IInv,
           \/ Open \/ ServeNext \/ NextRound \/ StopServer
           \/ \E d \in Domain : AcceptNone(d) \/ AcceptOne(d)
    PROVE  IInv'
<1>1. ASSUME NEW c \in Client, NEW from, NEW to,
             \/ from = "backlog" /\ to \in {"accepted", "lost"}
             \/ from = "accepted" /\ to = "hostName",
             connection[c] = from, connection' = [connection EXCEPT ![c] = to],
             UNCHANGED <<now, client, wireVars, measured, failed>>
      PROVE  IInv'
  <2> USE DEF IInv, TypeOK, wireVars, Stage
  <2>1. TypeOK'
    BY <1>1
  <2>2. WireOK(c)' /\ EndOK(c)'
    BY <1>1 DEF WireOK, EndOK
  <2>3. QED
    BY <1>1, <2>1, <2>2, OneClientSteps DEF Within
<1>2. ASSUME NEW d \in Domain, AcceptOne(d) PROVE IInv'
  <2>1. PICK c \in Client, to \in {"accepted", "lost"} :
          connection[c] = "backlog" /\ connection' = [connection EXCEPT ![c] = to]
    BY <1>2 DEF AcceptOne
  <2>2. QED
    BY <1>1, <1>2, <2>1 DEF AcceptOne, clientVars
<1>3. CASE ServeNext
  <2>1. PICK c \in Client :
          connection[c] = "accepted" /\ connection' = [connection EXCEPT ![c] = "hostName"]
    BY <1>3 DEF ServeNext, Accepted
  <2>2. QED
    BY <1>1, <1>3, <2>1 DEF ServeNext, clientVars
<1>4. ASSUME UNCHANGED <<now, clientVars, connection, wireVars, measured, failed>> PROVE IInv'
  BY <1>4, NoClientSteps DEF clientVars, IInv, TypeOK
<1>5. QED
  BY <1>2, <1>3, <1>4 DEF Open, NextRound, StopServer, AcceptNone

(* The invariant holds in every state.                                     *)
THEOREM InvariantHolds == Spec => []IInv
<1>1. Init => IInv
  BY DEF Init, IInv, TypeOK, Stage, WireOK, EndOK, Within, NotMeasured
<1>2. IInv /\ [Next]_vars => IInv'
  <2> SUFFICES ASSUME IInv, [Next]_vars PROVE IInv'
    OBVIOUS
  <2>1. ASSUME NEW c \in Client, ClientStep(c) \/ Die(c) \/ HostNameFails(c) \/ AnswerFails(c)
        PROVE  IInv'
    BY <2>1, ClientStepKeepsInv
  <2>2. ASSUME ServerStep \/ \E c \in Client : ServerMainFails(c) PROVE IInv'
    BY <2>2, MainLoopKeepsInv, ServerMainKeepsInv DEF ServerStep
  <2>3. CASE ShutDown
    BY <2>3, NoClientSteps DEF ShutDown, clientVars, IInv, TypeOK
  <2>4. CASE Tick
    BY <2>4, NoClientSteps DEF Tick, clientVars, IInv, TypeOK
  <2>5. CASE UNCHANGED vars
    BY <2>5, NoClientSteps DEF vars, clientVars, IInv, TypeOK
  <2>6. QED
    BY <2>1, <2>2, <2>3, <2>4, <2>5 DEF Next
<1>3. QED
  BY <1>1, <1>2, PTL DEF Spec

(* However long the messages take, each way on its own, the shift that     *)
(* serverMain computes for a client is off by half of the average round    *)
(* trip at most (and the rounding of analyzeRoundTripTimeDelta).           *)
THEOREM MeasuredShiftIsWithinRoundTrip == Spec => []ShiftIsWithinRoundTrip
<1>1. IInv => ShiftIsWithinRoundTrip
  BY DEF IInv, Within, ShiftIsWithinRoundTrip
<1>2. QED
  BY <1>1, InvariantHolds, PTL

(* Whatever happened to the other clients before and whichever calls       *)
(* failed: a clientMain that returns true was measured in all its round    *)
(* trips unless a call of its own connection failed, and one that returns  *)
(* false was not measured at all.                                          *)
THEOREM MeasurementsAreCutShortByFailures == Spec => []OnlyFailuresCutShort
<1>1. IInv => OnlyFailuresCutShort
  BY DEF IInv, EndOK, OnlyFailuresCutShort
<1>2. QED
  BY <1>1, InvariantHolds, PTL

-------------------------------------------------------------------------------
(* The trackers of a rate.  Both keep the end of what was pushed, and what *)
(* they have dropped is too old.                                           *)
LEMMA LeastIs ==
    ASSUME NEW places, places \subseteq Nat, places # {}
    PROVE  /\ Min(places) \in places
           /\ \A n \in places : Min(places) <= n
<1>1. \E t \in places : \A u \in places : t =< u
  BY LeastOf
<1> QED
  BY <1>1 DEF Min

(* The times that were pushed; k of them are kept by both trackers.        *)
InOrder(h) ==
    /\ h \in Seq([time : Nat, value : TrackedValue])
    /\ \A i, j \in 1 .. Len(h) : i <= j => h[i].time <= h[j].time

KeepsEnd(h, list, queue) ==
    LET H == Len(h)
        K == Len(list)
    IN  /\ list \in Seq([time : Nat, size : TrackedValue]) /\ queue \in Seq(Nat)
        /\ Len(queue) = K /\ K <= H
        /\ \A n \in 1 .. K : list[n].time = h[H + 1 - n].time
        /\ \A n \in 1 .. K : queue[n] = h[H - K + n].time

KeepsRecent(h, k) ==
    LET H == Len(h)
    IN  h # <<>> =>
          /\ k >= 1
          /\ \A n \in 1 .. H - k : h[H].time - h[n].time > KeepDuration
          /\ k > MinRateEvents => h[H].time - h[H + 1 - k].time <= KeepDuration

RatesInv ==
    /\ InOrder(history)
    /\ KeepsEnd(history, rateList, rateQueue)
    /\ KeepsRecent(history, Len(rateList))

(* One more event, before any is dropped.                                  *)
LEMMA PushedInOrder ==
    ASSUME NEW h, InOrder(h), NEW value \in TrackedValue, NEW time \in Nat,
           \A i \in 1 .. Len(h) : h[i].time <= time
    PROVE  LET after == Append(h, [time |-> time, value |-> value])
           IN  /\ InOrder(after) /\ Len(after) = Len(h) + 1
               /\ after[Len(h) + 1].time = time
               /\ \A i \in 1 .. Len(h) : after[i] = h[i]
<1> DEFINE e == [time |-> time, value |-> value]
           after == Append(h, e)
           H == Len(h)
<1>1. h \in Seq([time : Nat, value : TrackedValue]) /\ e \in [time : Nat, value : TrackedValue]
      /\ e.time = time
  BY DEF InOrder
<1>2. H \in Nat
  BY <1>1, LenProperties
<1> HIDE DEF e
<1>3. /\ after \in Seq([time : Nat, value : TrackedValue]) /\ Len(after) = H + 1
      /\ after[H + 1] = e /\ \A i \in 1 .. H : after[i] = h[i]
  BY <1>1, AppendProperties
<1> HIDE DEF after
<1>4. ASSUME NEW i \in 1 .. H + 1, NEW j \in 1 .. H + 1, i <= j
      PROVE  after[i].time <= after[j].time
  <2>1. CASE j = H + 1 /\ i = H + 1
    BY <1>1, <1>3, <2>1
  <2>2. CASE j = H + 1 /\ i # H + 1
    <3>1. i \in 1 .. H
      BY <1>2, <2>2
    <3> QED
      BY <1>1, <1>3, <2>2, <3>1
  <2>3. CASE j # H + 1
    <3>1. i \in 1 .. H /\ j \in 1 .. H
      BY <1>2, <1>4, <2>3
    <3>2. h[i].time <= h[j].time
      BY <1>4, <3>1 DEF InOrder
    <3> QED
      BY <1>3, <3>1, <3>2
  <2> QED
    BY <2>1, <2>2, <2>3
<1>5. InOrder(after)
  BY <1>3, <1>4 DEF InOrder
<1> QED
  BY <1>1, <1>3, <1>5 DEF after, e

LEMMA PushedAtEnds ==
    ASSUME NEW h, NEW list, NEW queue, InOrder(h), KeepsEnd(h, list, queue),
           NEW value \in TrackedValue, NEW time \in Nat
    PROVE  KeepsEnd(Append(h, [time |-> time, value |-> value]),
                    <<[time |-> time, size |-> value]>> \o list, Append(queue, time))
           /\ Len(<<[time |-> time, size |-> value]>> \o list) = Len(list) + 1
<1> DEFINE e == [time |-> time, value |-> value]
           g == [time |-> time, size |-> value]
           after == Append(h, e)
           longer == <<g>> \o list
           behind == Append(queue, time)
           H == Len(h)
           K == Len(list)
           E == [time : Nat, value : TrackedValue]
           G == [time : Nat, size : TrackedValue]
<1>1. /\ h \in Seq(E) /\ list \in Seq(G) /\ queue \in Seq(Nat)
      /\ e \in E /\ g \in G /\ e.time = time /\ g.time = time
      /\ Len(queue) = K /\ K <= H
      /\ \A n \in 1 .. K : list[n].time = h[H + 1 - n].time
      /\ \A n \in 1 .. K : queue[n] = h[H - K + n].time
  BY DEF InOrder, KeepsEnd
<1> HIDE DEF e, g, E, G
<1>2. H \in Nat /\ K \in Nat
  BY <1>1, LenProperties
<1>3. /\ Len(after) = H + 1 /\ after[H + 1] = e /\ \A i \in 1 .. H : after[i] = h[i]
  BY <1>1, AppendProperties
<1>4. /\ behind \in Seq(Nat) /\ Len(behind) = K + 1 /\ behind[K + 1] = time
      /\ \A i \in 1 .. K : behind[i] = queue[i]
  BY <1>1, AppendProperties
<1>5. /\ <<g>> \in Seq(G) /\ Len(<<g>>) = 1 /\ <<g>>[1] = g
  BY <1>1
<1>6. /\ longer \in Seq(G) /\ Len(longer) = K + 1 /\ longer[1] = g
      /\ \A n \in 2 .. K + 1 : longer[n] = list[n - 1]
  BY <1>1, <1>2, <1>5, ConcatProperties
<1> HIDE DEF after, behind, longer, H, K
<1>7. ASSUME NEW n \in 1 .. K + 1 PROVE longer[n].time = after[(H + 1) + 1 - n].time
  <2>1. CASE n = 1
    <3>1. (H + 1) + 1 - n = H + 1
      BY <1>2, <2>1
    <3> QED
      BY <1>1, <1>3, <1>6, <2>1, <3>1
  <2>2. CASE n # 1
    <3>1. n \in 2 .. K + 1 /\ n - 1 \in 1 .. K
      BY <1>2, <2>2
    <3>2. H + 1 - (n - 1) \in 1 .. H /\ H + 1 - (n - 1) = (H + 1) + 1 - n
      BY <1>1, <1>2, <3>1
    <3>3. longer[n].time = h[H + 1 - (n - 1)].time
      BY <1>1, <1>6, <3>1
    <3> QED
      BY <1>3, <3>2, <3>3
  <2> QED
    BY <2>1, <2>2
<1>8. ASSUME NEW n \in 1 .. K + 1 PROVE behind[n] = after[(H + 1) - (K + 1) + n].time
  <2>1. CASE n = K + 1
    <3>1. (H + 1) - (K + 1) + n = H + 1
      BY <1>2, <2>1
    <3> QED
      BY <1>1, <1>3, <1>4, <2>1, <3>1
  <2>2. CASE n # K + 1
    <3>1. n \in 1 .. K
      BY <1>2, <2>2
    <3>2. H - K + n \in 1 .. H /\ H - K + n = (H + 1) - (K + 1) + n
      BY <1>1, <1>2, <3>1
    <3>3. queue[n] = h[H - K + n].time
      BY <1>1, <3>1
    <3>4. behind[n] = queue[n]
      BY <1>4, <3>1
    <3>5. after[H - K + n] = h[H - K + n]
      BY <1>3, <3>2
    <3> QED
      BY <3>2, <3>3, <3>4, <3>5
  <2> QED
    BY <2>1, <2>2
<1>9. K + 1 <= H + 1
  BY <1>1, <1>2
<1>10. KeepsEnd(after, longer, behind)
  BY <1>3, <1>4, <1>6, <1>7, <1>8, <1>9 DEF KeepsEnd, G
<1> QED
  BY <1>6, <1>10 DEF after, longer, behind, e, g, K

(* Dropping what is too old.                                               *)
LEMMA DroppedIsOld ==
    ASSUME NEW h, InOrder(h), NEW list, NEW queue, KeepsEnd(h, list, queue), Len(list) >= 1,
           \A n \in 1 .. Len(h) - Len(list) : h[Len(h)].time - h[n].time > KeepDuration
    PROVE  LET places == {n \in 1 .. Len(list) :
                            n <= MinRateEvents \/ list[1].time - list[n].time <= KeepDuration}
               gone == {n \in 0 .. Len(queue) - 1 :
                          \/ Len(queue) - n <= MinRateEvents
                          \/ h[Len(h)].time - queue[n + 1] <= KeepDuration}
               kept == SubSeq(list, 1, Max(places))
           IN  /\ KeepsEnd(h, kept, SubSeq(queue, Min(gone) + 1, Len(queue)))
               /\ KeepsRecent(h, Len(kept))
<1> DEFINE H == Len(h)
           K == Len(list)
           Late(n) == n <= MinRateEvents \/ list[1].time - list[n].time <= KeepDuration
           places == {n \in 1 .. K : Late(n)}
           Soon(n) == K - n <= MinRateEvents \/ h[H].time - queue[n + 1] <= KeepDuration
           gone == {n \in 0 .. K - 1 : Soon(n)}
           M == Max(places)
           D == Min(gone)
           kept == SubSeq(list, 1, M)
           rest == SubSeq(queue, D + 1, K)
           G == [time : Nat, size : TrackedValue]
<1>1. /\ h \in Seq([time : Nat, value : TrackedValue])
      /\ \A i, j \in 1 .. H : i <= j => h[i].time <= h[j].time
      /\ list \in Seq(G) /\ queue \in Seq(Nat) /\ Len(queue) = K /\ K <= H /\ K >= 1
      /\ \A n \in 1 .. K : list[n].time = h[H + 1 - n].time
      /\ \A n \in 1 .. K : queue[n] = h[H - K + n].time
      /\ KeepDuration \in Nat /\ MinRateEvents \in Nat
  BY TrackerAssumption DEF InOrder, KeepsEnd
<1>2. H \in Nat /\ K \in Nat /\ \A i \in 1 .. H : h[i].time \in Nat
  <2>1. H \in Nat /\ K \in Nat
    BY <1>1, LenProperties
  <2>2. ASSUME NEW i \in 1 .. H PROVE h[i].time \in Nat
    <3>1. h[i] \in [time : Nat, value : TrackedValue]
      BY <1>1, ElementOfSeq
    <3> QED
      BY <3>1
  <2> QED
    BY <2>1, <2>2
<1> HIDE DEF H, K, G
<1>3. ASSUME NEW n \in 1 .. K
      PROVE  /\ H + 1 - n \in 1 .. H
             /\ list[n].time = h[H + 1 - n].time
             /\ Late(n) <=> n <= MinRateEvents \/ h[H].time - h[H + 1 - n].time <= KeepDuration
  <2>1. H + 1 - n \in 1 .. H /\ 1 \in 1 .. K /\ H + 1 - 1 = H
    BY <1>1, <1>2
  <2>2. list[n].time = h[H + 1 - n].time /\ list[1].time = h[H].time
    BY <1>1, <2>1
  <2> QED
    BY <2>1, <2>2
<1>4. ASSUME NEW n \in 0 .. K - 1
      PROVE  K - n \in 1 .. K /\ (Soon(n) <=> Late(K - n))
  <2>1. K - n \in 1 .. K /\ n + 1 \in 1 .. K /\ H + 1 - (K - n) = H - K + (n + 1)
    BY <1>2
  <2>2. queue[n + 1] = h[H + 1 - (K - n)].time
    BY <1>1, <2>1
  <2> HIDE DEF Late
  <2>3. Late(K - n) <=> K - n <= MinRateEvents \/ h[H].time - h[H + 1 - (K - n)].time <= KeepDuration
    BY <1>3, <2>1
  <2> QED
    BY <2>1, <2>2, <2>3
<1>5. 1 \in places
  <2>1. 1 \in 1 .. K /\ H + 1 - 1 = H /\ H \in 1 .. H
    BY <1>1, <1>2
  <2>2. h[H].time - h[H].time <= KeepDuration
    BY <1>1, <1>2, <2>1
  <2> HIDE DEF Late
  <2>3. Late(1)
    BY <1>3, <2>1, <2>2
  <2> QED
    BY <2>1, <2>3
<1> HIDE DEF Late, Soon
<1>6. M \in places /\ \A n \in places : n <= M
  <2>1. places \subseteq 1 .. K /\ places # {}
    BY <1>5
  <2> HIDE DEF places
  <2> QED
    BY <1>2, <2>1, GreatestOf
<1>7. M \in 1 .. K /\ Late(M) /\ \A n \in 1 .. K : Late(n) => n <= M
  BY <1>6
<1> HIDE DEF places, M
<1>8. D = K - M
  <2>1. K - M \in 0 .. K - 1 /\ K - (K - M) = M
    BY <1>2, <1>7
  <2>2. K - M \in gone
    BY <1>4, <1>7, <2>1
  <2>3. gone \subseteq Nat
    BY <1>2
  <2>4. \A n \in gone : n \in 0 .. K - 1 /\ Late(K - n)
    BY <1>4
  <2> HIDE DEF gone
  <2>5. D \in gone /\ D <= K - M
    BY <2>2, <2>3, LeastIs
  <2>6. D \in 0 .. K - 1 /\ K - D \in 1 .. K /\ K - D <= M
    BY <1>2, <1>7, <2>4, <2>5
  <2> HIDE DEF D
  <2> QED
    BY <1>2, <1>7, <2>5, <2>6
<1> HIDE DEF D, gone
<1>9. /\ kept \in Seq(G) /\ Len(kept) = M /\ \A n \in 1 .. M : kept[n] = list[n]
  <2>1. 1 \in Int /\ M \in Int /\ M <= K /\ 1 - 1 = 0 /\ M \in Nat /\ M >= 1
    BY <1>2, <1>7
  <2>2. \A n \in 1 .. M : n \in 1 .. K /\ 1 + n - 1 = n
    BY <1>2, <2>1
  <2> QED
    BY <1>1, <2>1, <2>2, SubSeqProperties DEF K
<1>10. /\ rest \in Seq(Nat) /\ Len(rest) = M /\ \A n \in 1 .. M : rest[n] = queue[K - M + n]
  <2>1. K - M + 1 \in 1 .. K /\ M \in Nat /\ K - (K - M + 1) + 1 = M
    BY <1>2, <1>7
  <2>2. rest = SubSeq(queue, K - M + 1, K)
    BY <1>8
  <2>3. \A i \in K - M + 1 .. K : queue[i] \in Nat
    <3>1. \A i \in 1 .. K : queue[i] \in Nat
      BY <1>1, ElementOfSeq
    <3>2. K - M + 1 .. K \subseteq 1 .. K
      BY <1>2, <1>7
    <3> QED
      BY <3>1, <3>2
  <2>4. K - M + 1 \in Int /\ K \in Int /\ K - M + 1 <= K /\ K - (K - M + 1) + 1 = M
    BY <1>2, <1>7
  <2>5. \A n \in 1 .. M : (K - M + 1) + n - 1 = K - M + n
    BY <1>2, <2>1
  <2> HIDE DEF rest
  <2>6. /\ rest \in Seq(Nat) /\ Len(rest) = K - (K - M + 1) + 1
        /\ \A n \in 1 .. K - (K - M + 1) + 1 : rest[n] = queue[(K - M + 1) + n - 1]
    BY <2>2, <2>3, <2>4, SubSeqProperties
  <2> QED
    BY <2>4, <2>5, <2>6
<1> HIDE DEF kept, rest
<1>11. KeepsEnd(h, kept, rest)
  <2>1. M <= H
    BY <1>1, <1>2, <1>7
  <2>2. ASSUME NEW n \in 1 .. M PROVE kept[n].time = h[H + 1 - n].time
    <3>1. n \in 1 .. K
      BY <1>2, <1>7
    <3> QED
      BY <1>3, <1>9, <3>1
  <2>3. ASSUME NEW n \in 1 .. M PROVE rest[n] = h[H - M + n].time
    <3>1. K - M + n \in 1 .. K /\ H - K + (K - M + n) = H - M + n
      BY <1>2, <1>7
    <3>2. queue[K - M + n] = h[H - K + (K - M + n)].time
      BY <1>1, <3>1
    <3> QED
      BY <1>10, <3>1, <3>2
  <2> QED
    BY <1>9, <1>10, <2>1, <2>2, <2>3 DEF KeepsEnd, H, G
<1>12. KeepsRecent(h, M)
  <2>1. M >= 1
    BY <1>7
  <2>2. ASSUME NEW n \in 1 .. H - M PROVE h[H].time - h[n].time > KeepDuration
    <3>1. CASE n <= H - K
      <4>1. n \in 1 .. H - K
        BY <1>2, <3>1
      <4> QED
        BY <4>1 DEF H, K
    <3>2. CASE ~ (n <= H - K)
      <4>1. H + 1 - n \in 1 .. K /\ ~ (H + 1 - n <= M) /\ H + 1 - (H + 1 - n) = n /\ n \in 1 .. H
            /\ H \in 1 .. H
        BY <1>1, <1>2, <1>7, <3>2
      <4>2. ~ Late(H + 1 - n)
        BY <1>7, <4>1
      <4>3. ~ (h[H].time - h[n].time <= KeepDuration)
        BY <1>3, <4>1, <4>2
      <4>4. h[H].time \in Nat /\ h[n].time \in Nat
        BY <1>2, <4>1
      <4>5. \A a, b, c \in Nat : ~ (a - b <= c) => a - b > c
        OBVIOUS
      <4>6. KeepDuration \in Nat
        BY <1>1
      <4> QED
        BY <4>3, <4>4, <4>5, <4>6
    <3> QED
      BY <3>1, <3>2
  <2>3. M > MinRateEvents => h[H].time - h[H + 1 - M].time <= KeepDuration
    <3>1. M > MinRateEvents => ~ (M <= MinRateEvents)
      BY <1>1, <1>2, <1>7
    <3> QED
      BY <1>3, <1>7, <3>1
  <2> QED
    BY <2>1, <2>2, <2>3 DEF KeepsRecent, H
<1> QED
  <2>1. Len(queue) = K
    BY <1>1
  <2> QED
    BY <1>9, <1>11, <1>12, <2>1 DEF kept, rest, M, D, places, gone, Late, Soon, H, K

LEMMA RatesStart == TrackerInit => RatesInv
<1> SUFFICES ASSUME TrackerInit PROVE RatesInv
  OBVIOUS
<1>1. history = <<>> /\ rateList = <<>> /\ rateQueue = <<>>
  BY DEF TrackerInit
<1>2. \A S : <<>> \in Seq(S)
  OBVIOUS
<1>3. Len(<<>>) = 0
  OBVIOUS
<1>4. InOrder(history)
  BY <1>1, <1>2, <1>3 DEF InOrder
<1>5. KeepsEnd(history, rateList, rateQueue)
  BY <1>1, <1>2, <1>3 DEF KeepsEnd
<1>6. KeepsRecent(history, Len(rateList))
  BY <1>1 DEF KeepsRecent
<1> QED
  BY <1>4, <1>5, <1>6 DEF RatesInv

LEMMA RatesStep == RatesInv /\ [TrackerNext]_trackerVars => RatesInv'
<1> SUFFICES ASSUME RatesInv, [TrackerNext]_trackerVars PROVE RatesInv'
  OBVIOUS
<1>0. InOrder(history) /\ KeepsEnd(history, rateList, rateQueue) /\ KeepsRecent(history, Len(rateList))
  BY DEF RatesInv
<1>1. CASE UNCHANGED trackerVars
  BY <1>0, <1>1 DEF trackerVars, RatesInv, InOrder, KeepsEnd, KeepsRecent
<1>2. ASSUME NEW value \in TrackedValue, NEW step \in TimeSteps, PushValue(value, step)
      PROVE  RatesInv'
  <2> DEFINE H == Len(history)
             K == Len(rateList)
             newest == IF history = <<>> THEN 0 ELSE history[Len(history)].time
             time == newest + step
             after == Append(history, [time |-> time, value |-> value])
             longer == <<[time |-> time, size |-> value]>> \o rateList
             behind == Append(rateQueue, time)
  <2>1. history' = after /\ BandwidthSet(value, time) /\ FpsSet(time)
    BY <1>2 DEF PushValue
  <2>2. /\ history \in Seq([time : Nat, value : TrackedValue]) /\ H \in Nat
        /\ K \in Nat /\ K <= H /\ (history # <<>> => H >= 1)
        /\ \A i, j \in 1 .. H : i <= j => history[i].time <= history[j].time
    BY <1>0, LenProperties, EmptySeq DEF InOrder, KeepsEnd
  <2>3. \A i \in 1 .. H : history[i].time \in Nat
    <3>1. \A i \in 1 .. H : history[i] \in [time : Nat, value : TrackedValue]
      BY <2>2, ElementOfSeq
    <3> QED
      BY <3>1
  <2>4. newest \in Nat /\ \A i \in 1 .. H : history[i].time <= newest
    <3>1. CASE history = <<>>
      BY <3>1
    <3>2. CASE history # <<>>
      <4>1. H \in 1 .. H /\ newest = history[H].time
        BY <2>2, <3>2
      <4> QED
        BY <2>2, <2>3, <4>1
    <3> QED
      BY <3>1, <3>2
  <2>5. step \in Nat /\ KeepDuration \in Nat
    BY TrackerAssumption
  <2> HIDE DEF newest
  <2>6. time \in Nat /\ \A i \in 1 .. H : history[i].time <= time
    BY <2>3, <2>4, <2>5
  <2> HIDE DEF time
  <2>7. /\ InOrder(after) /\ Len(after) = H + 1 /\ after[H + 1].time = time
        /\ \A i \in 1 .. H : after[i] = history[i]
    BY <1>0, <2>6, PushedInOrder
  <2>8. KeepsEnd(after, longer, behind) /\ Len(longer) = K + 1
    BY <1>0, <2>6, PushedAtEnds
  <2> HIDE DEF after, longer, behind
  <2>9. Len(longer) >= 1
    BY <2>2, <2>8
  <2>10. ASSUME NEW n \in 1 .. Len(after) - Len(longer)
         PROVE  after[Len(after)].time - after[n].time > KeepDuration
    <3>1. n \in 1 .. H - K /\ n \in 1 .. H /\ H \in 1 .. H
      BY <2>2, <2>7, <2>8
    <3>2. history # <<>>
      BY <3>1, EmptySeq
    <3>3. history[H].time - history[n].time > KeepDuration
      BY <1>0, <3>1, <3>2 DEF KeepsRecent
    <3>4. history[H].time \in Nat /\ history[n].time \in Nat /\ history[H].time <= time
      BY <2>3, <2>6, <3>1
    <3>5. after[Len(after)].time = time /\ after[n].time = history[n].time
      BY <2>7, <3>1
    <3>6. \A a, b, c, k \in Nat : a - b > k /\ a <= c => c - b > k
      OBVIOUS
    <3> QED
      BY <2>5, <2>6, <3>3, <3>4, <3>5, <3>6
  <2> DEFINE places == {n \in 1 .. Len(longer) :
                          n <= MinRateEvents \/ longer[1].time - longer[n].time <= KeepDuration}
             gone(t) == {n \in 0 .. Len(behind) - 1 :
                           Len(behind) - n <= MinRateEvents \/ t - behind[n + 1] <= KeepDuration}
             kept == SubSeq(longer, 1, Max(places))
  <2>11. rateList' = kept
    BY <2>1 DEF BandwidthSet, longer
  <2>12. rateQueue' = SubSeq(behind, Min(gone(time)) + 1, Len(behind))
    BY <2>1 DEF FpsSet, behind
  <2>13. /\ KeepsEnd(after, kept, SubSeq(behind, Min(gone(after[Len(after)].time)) + 1, Len(behind)))
         /\ KeepsRecent(after, Len(kept))
    BY <2>7, <2>8, <2>9, <2>10, DroppedIsOld
  <2>14. after[Len(after)].time = time
    BY <2>7
  <2> HIDE DEF places, gone, kept
  <2> QED
    BY <2>1, <2>7, <2>11, <2>12, <2>13, <2>14 DEF RatesInv, InOrder, KeepsEnd, KeepsRecent
<1> QED
  BY <1>1, <1>2 DEF TrackerNext

LEMMA RatesInvKeeps == RatesInv => RatesKeepInterval
<1> SUFFICES ASSUME RatesInv, history # <<>> PROVE RatesKeepInterval
  BY DEF RatesKeepInterval
<1> DEFINE H == Len(history)
           K == Len(rateList)
           newest == history[H].time
           recent == {n \in DOMAIN history : newest - history[n].time <= KeepDuration}
           kept == H - K + 1 .. H
<1>1. /\ history \in Seq([time : Nat, value : TrackedValue])
      /\ \A i, j \in 1 .. H : i <= j => history[i].time <= history[j].time
      /\ rateList \in Seq([time : Nat, size : TrackedValue]) /\ rateQueue \in Seq(Nat)
      /\ Len(rateQueue) = K /\ K <= H
      /\ \A n \in 1 .. K : rateList[n].time = history[H + 1 - n].time
      /\ \A n \in 1 .. K : rateQueue[n] = history[H - K + n].time
  BY DEF RatesInv, InOrder, KeepsEnd
<1>2. /\ K >= 1
      /\ \A n \in 1 .. H - K : newest - history[n].time > KeepDuration
      /\ K > MinRateEvents => newest - history[H + 1 - K].time <= KeepDuration
  BY DEF RatesInv, KeepsRecent
<1>3. /\ H \in Nat /\ K \in Nat /\ DOMAIN history = 1 .. H /\ DOMAIN rateQueue = 1 .. K
      /\ rateQueue = [n \in 1 .. K |-> rateQueue[n]] /\ KeepDuration \in Nat
  BY <1>1, LenProperties, TrackerAssumption
<1>4. \A i \in 1 .. H : history[i].time \in Nat
  <2>1. \A i \in 1 .. H : history[i] \in [time : Nat, value : TrackedValue]
    BY <1>1, ElementOfSeq
  <2> QED
    BY <2>1
<1> HIDE DEF H, K
<1>5. newest \in Nat
  <2>1. H \in 1 .. H
    BY <1>1, <1>2, <1>3
  <2> QED
    BY <1>4, <2>1
<1> HIDE DEF newest
<1>6. ASSUME NEW n \in recent PROVE n \in kept
  <2>1. n \in 1 .. H /\ newest - history[n].time <= KeepDuration
    BY <1>3
  <2>2. ~ (newest - history[n].time > KeepDuration)
    BY <1>3, <1>4, <1>5, <2>1
  <2>3. n \notin 1 .. H - K
    BY <1>2, <2>2
  <2> QED
    BY <1>3, <2>1, <2>3
<1>7. ASSUME K > MinRateEvents, NEW n \in kept PROVE n \in recent
  <2>1. n \in 1 .. H /\ H + 1 - K \in 1 .. H /\ H + 1 - K <= n
    <3>1. H \in Nat /\ K \in Nat /\ K <= H /\ K >= 1
      BY <1>1, <1>2, <1>3
    <3>2. n \in H - K + 1 .. H
      OBVIOUS
    <3> QED
      BY <3>1, <3>2
  <2>2. history[H + 1 - K].time <= history[n].time
    BY <1>1, <2>1
  <2>3. newest - history[H + 1 - K].time <= KeepDuration
    BY <1>2, <1>7
  <2>4. history[H + 1 - K].time \in Nat /\ history[n].time \in Nat
    BY <1>4, <2>1
  <2>5. \A a, b, c, k \in Nat : a - b <= k /\ b <= c => a - c <= k
    OBVIOUS
  <2>6. newest - history[n].time <= KeepDuration
    BY <1>3, <1>5, <2>2, <2>3, <2>4, <2>5
  <2> QED
    BY <1>3, <2>1, <2>6
<1>8. rateQueue = [n \in 1 .. K |-> Reverse(rateList)[n].time]
  <2>1. ASSUME NEW n \in 1 .. K PROVE rateQueue[n] = Reverse(rateList)[n].time
    <3>1. (K - n) + 1 \in 1 .. K /\ H + 1 - ((K - n) + 1) = H - K + n
      BY <1>3
    <3>2. Reverse(rateList)[n] = rateList[(K - n) + 1]
      BY DEF Reverse, K
    <3>3. rateList[(K - n) + 1].time = history[H + 1 - ((K - n) + 1)].time
      BY <1>1, <3>1
    <3> QED
      BY <1>1, <3>1, <3>2, <3>3
  <2> QED
    BY <1>3, <2>1
<1> HIDE DEF recent, kept
<1>9. recent \subseteq kept /\ (K > MinRateEvents => kept \subseteq recent)
  BY <1>6, <1>7
<1> QED
  BY <1>8, <1>9 DEF RatesKeepInterval, recent, kept, newest, H, K

(* However many events come, and with whatever time between them, both     *)
(* rates are measured over the same events: all those of the interval, and *)
(* older ones only as far as the least number needs them.                  *)
THEOREM RatesAlwaysKeepInterval == TrackerSpec => []RatesKeepInterval
<1>1. TrackerInit => RatesInv
  BY RatesStart
<1>2. RatesInv /\ [TrackerNext]_trackerVars => RatesInv'
  BY RatesStep
<1>3. RatesInv => RatesKeepInterval
  BY RatesInvKeeps
<1> QED
  BY <1>1, <1>2, <1>3, PTL DEF TrackerSpec
-------------------------------------------------------------------------------
(* A sum over ticks: up to b, and then one value until c.                  *)
Steady(f, b, c, v) == \A x \in b .. c - 1 : f[x] = v

LEMMA SumGoesOn ==
    ASSUME NEW from \in Int, NEW to \in Int, NEW f, NEW t,
           SumsUp(from .. to, f, t), Numbers(f, from .. to),
           NEW b \in Int, NEW c \in Int, from <= b, b <= c, c <= to + 1,
           NEW v \in Int, Steady(f, b, c, v)
    PROVE  t[from .. c - 1] = t[from .. b - 1] + v * (c - b)
<1> DEFINE M == from .. to
           T == {n \in Nat : b + n <= c => t[from .. b + n - 1] = t[from .. b - 1] + v * n}
<1>0. IsFiniteSet(M)
  BY FS_Interval
<1>1. /\ \A s \in SUBSET M : t[s] \in Int
      /\ \A s \in SUBSET M : \A x \in s : t[s] = f[x] + t[s \ {x}]
  <2>1. SumsUp(M, f, t) /\ Numbers(f, M)
    OBVIOUS
  <2> HIDE DEF M, T
  <2>2. \A s \in SUBSET M : t[s] \in Int
    BY <1>0, <2>1, SumTakesAny
  <2>3. ASSUME NEW s \in SUBSET M, NEW x \in s PROVE t[s] = f[x] + t[s \ {x}]
    BY <1>0, <2>1, SumTakesAny
  <2> QED
    BY <2>2, <2>3
<1>2. t[from .. b - 1] \in Int
  <2>1. from .. b - 1 \in SUBSET M
    OBVIOUS
  <2> QED
    BY <1>1, <2>1
<1>3. 0 \in T
  <2>1. b + 0 - 1 = b - 1 /\ v * 0 = 0
    OBVIOUS
  <2> QED
    BY <1>2, <2>1
<1>4. ASSUME NEW n \in Nat, n \in T PROVE n + 1 \in T
  <2> SUFFICES ASSUME b + (n + 1) <= c PROVE t[from .. b + (n + 1) - 1] = t[from .. b - 1] + v * (n + 1)
    OBVIOUS
  <2> DEFINE s == from .. b + n
  <2>1. /\ s \in SUBSET M /\ b + n \in s /\ s \ {b + n} = from .. b + n - 1
        /\ b + (n + 1) - 1 = b + n /\ b + n \in b .. c - 1 /\ b + n <= c
    OBVIOUS
  <2>2. t[s] = f[b + n] + t[from .. b + n - 1]
    BY <1>1, <2>1
  <2>3. t[from .. b + n - 1] = t[from .. b - 1] + v * n
    BY <1>4, <2>1
  <2>4. f[b + n] = v
    BY <2>1 DEF Steady
  <2>5. v * (n + 1) = v * n + v /\ v * n \in Int
    OBVIOUS
  <2>6. v + (t[from .. b - 1] + v * n) = t[from .. b - 1] + (v * n + v)
    BY <1>2, <2>5
  <2> QED
    BY <2>1, <2>2, <2>3, <2>4, <2>5, <2>6
<1>5. c - b \in T
  <2>1. c - b \in Nat
    OBVIOUS
  <2> HIDE DEF T
  <2> QED
    BY <1>3, <1>4, <2>1, NatSetInduction
<1>6. b + (c - b) = c /\ b + (c - b) <= c
  OBVIOUS
<1> QED
  BY <1>5, <1>6

LEMMA SumOfNothing ==
    ASSUME NEW from \in Int, NEW to \in Int, NEW f, NEW t,
           SumsUp(from .. to, f, t), NEW b \in Int, b <= from
    PROVE  t[from .. b - 1] = 0
<1>1. from .. b - 1 = {}
  OBVIOUS
<1>2. t[{}] = 0
  BY DEF SumsUp
<1> QED
  BY <1>1, <1>2

-------------------------------------------------------------------------------
(* What a list of events, the oldest first, says of the values from begin  *)
(* on: each event until the next one, and nothing before the first.        *)
Happening == [time : Int, value : Int]

EventAt(list, k) == IF k = 0 THEN NoEvent ELSE list[k]

Tells(list, begin) ==
    /\ list \in Seq(Happening) /\ Len(list) >= 1
    /\ \A i, j \in 0 .. Len(list) : i <= j => EventAt(list, i).time <= EventAt(list, j).time
    /\ begin \in Int /\ -KeepDuration <= begin
    /\ \A x \in Int : x >= begin =>
         /\ ValueAt(x) \in Int
         /\ \A n \in 0 .. Len(list) :
              EventAt(list, n).time <= x /\ (n < Len(list) => x < list[n + 1].time) =>
                  ValueAt(x) = EventAt(list, n).value

(* The sample from start to end; t are sums of the values f.               *)
Sampling(list, begin, start, end, f, t) ==
    /\ Tells(list, begin)
    /\ start \in Int /\ end \in Int /\ begin <= start /\ start <= end
    /\ f = [x \in start .. end - 1 |-> ValueAt(x)]
    /\ SumsUp(start .. end - 1, f, t)

LEMMA EventAtType ==
    ASSUME NEW list \in Seq(Happening), NEW k \in 0 .. Len(list)
    PROVE  EventAt(list, k) \in Happening
<1>1. KeepDuration \in Nat
  BY TrackerAssumption
<1>2. NoEvent \in Happening
  BY <1>1 DEF NoEvent, Happening
<1>3. CASE k = 0
  BY <1>2, <1>3 DEF EventAt
<1>4. CASE k # 0
  <2>1. k \in 1 .. Len(list)
    BY <1>4
  <2>2. list[k] \in Happening
    BY <2>1, ElementOfSeq
  <2> QED
    BY <1>4, <2>2 DEF EventAt
<1> QED
  BY <1>3, <1>4

HasSums(list, begin, start, end) ==
    \E f, t : /\ Sampling(list, begin, start, end, f, t)
              /\ t[start .. end - 1] = SumOfTicks(start, end)

LEMMA SampleSums ==
    ASSUME NEW list, NEW begin, Tells(list, begin),
           NEW start \in Int, NEW end \in Int, begin <= start, start <= end
    PROVE  HasSums(list, begin, start, end)
<1> DEFINE M == start .. end - 1
           f == [x \in M |-> ValueAt(x)]
           Sums(t) == t = [s \in SUBSET M |->
                         IF s = {} THEN 0
                         ELSE LET x == CHOOSE x \in s : TRUE
                              IN  ValueAt(x) + t[s \ {x}]]
           t == CHOOSE t : Sums(t)
<1>1. SumOfTicks(start, end) = t[M]
  BY DEF SumOfTicks, MapThenSumSet, MapThenFoldSet
<1>2. IsFiniteSet(M)
  BY FS_Interval
<1>3. ASSUME NEW u PROVE SumsUp(M, f, u) <=> Sums(u)
  <2>1. ASSUME NEW s \in SUBSET M, s # {}
        PROVE  f[AnyOf(s)] = ValueAt(AnyOf(s))
    <3>1. AnyOf(s) \in s
      BY <2>1 DEF AnyOf
    <3>2. AnyOf(s) \in M
      BY <3>1
    <3> QED
      BY <3>2
  <2> HIDE DEF f, M
  <2>2. ASSUME NEW s \in SUBSET M
        PROVE  (IF s = {} THEN 0 ELSE f[AnyOf(s)] + u[s \ {AnyOf(s)}])
                 = (IF s = {} THEN 0 ELSE ValueAt(AnyOf(s)) + u[s \ {AnyOf(s)}])
    BY <2>1
  <2>3. [s \in SUBSET M |-> IF s = {} THEN 0 ELSE f[AnyOf(s)] + u[s \ {AnyOf(s)}]]
          = [s \in SUBSET M |-> IF s = {} THEN 0 ELSE ValueAt(AnyOf(s)) + u[s \ {AnyOf(s)}]]
    BY <2>2
  <2>4. Sums(u) <=> u = [s \in SUBSET M |-> IF s = {} THEN 0
                                            ELSE ValueAt(AnyOf(s)) + u[s \ {AnyOf(s)}]]
    BY DEF AnyOf
  <2> QED
    BY <2>3, <2>4 DEF SumsUp
<1>4. \E u : SumsUp(M, f, u)
  <2> HIDE DEF f, M
  <2> QED
    BY <1>2, SumExists
<1> HIDE DEF Sums
<1>5. SumsUp(M, f, t)
  BY <1>3, <1>4
<1>6. Sampling(list, begin, start, end, f, t)
  BY <1>5 DEF Sampling
<1> QED
  BY <1>1, <1>6 DEF HasSums

NoEventIn(list, k, b, c) ==
    b < c => EventAt(list, k).time <= b /\ (k < Len(list) => c <= list[k + 1].time)

(* While no event comes the sum grows by the value of the last one.        *)
LEMMA SegmentSum ==
    ASSUME NEW list, NEW begin, NEW start, NEW end, NEW f, NEW t,
           Sampling(list, begin, start, end, f, t),
           NEW k \in 0 .. Len(list), NEW b \in Int, NEW c \in Int,
           start <= b, b <= c, c <= end, NoEventIn(list, k, b, c)
    PROVE  /\ t[start .. b - 1] \in Int /\ EventAt(list, k) \in Happening
           /\ t[start .. c - 1] = t[start .. b - 1] + EventAt(list, k).value * (c - b)
<1>1. /\ list \in Seq(Happening)
      /\ begin \in Int /\ start \in Int /\ end \in Int /\ begin <= start /\ start <= end
      /\ f = [x \in start .. end - 1 |-> ValueAt(x)] /\ SumsUp(start .. end - 1, f, t)
  BY DEF Sampling, Tells
<1>2. /\ \A x \in Int : x >= begin => ValueAt(x) \in Int
      /\ \A x \in Int : x >= begin => \A n \in 0 .. Len(list) :
            EventAt(list, n).time <= x /\ (n < Len(list) => x < list[n + 1].time) =>
                ValueAt(x) = EventAt(list, n).value
  BY DEF Sampling, Tells
<1> DEFINE v == EventAt(list, k).value
<1>3. EventAt(list, k) \in Happening
  BY <1>1, EventAtType
<1>4. v \in Int /\ EventAt(list, k).time \in Int
  BY <1>3 DEF Happening
<1>5. \A x \in start .. end - 1 : f[x] \in Int
  BY <1>1, <1>2
<1>6. ASSUME NEW x \in b .. c - 1 PROVE f[x] = v
  <2>1. x \in Int /\ x >= begin /\ x \in start .. end - 1 /\ b < c /\ b <= x /\ x < c
    BY <1>1
  <2>2. EventAt(list, k).time <= x
    BY <1>4, <2>1 DEF NoEventIn
  <2>3. k < Len(list) => x < list[k + 1].time
    <3> SUFFICES ASSUME k < Len(list) PROVE x < list[k + 1].time
      OBVIOUS
    <3>1. Len(list) \in Nat
      BY <1>1, LenProperties
    <3>2. k + 1 \in 1 .. Len(list)
      BY <3>1
    <3>3. list[k + 1] \in Happening
      BY <1>1, <3>2, ElementOfSeq
    <3>4. list[k + 1].time \in Int
      BY <3>3 DEF Happening
    <3> QED
      BY <2>1, <3>4 DEF NoEventIn
  <2>4. ValueAt(x) = v
    BY <1>2, <2>1, <2>2, <2>3
  <2> QED
    BY <1>1, <2>1, <2>4
<1>7. c <= (end - 1) + 1
  BY <1>1
<1>8. end - 1 \in Int
  BY <1>1
<1> HIDE DEF v
<1> DEFINE to == end - 1
<1>9. /\ to \in Int /\ c <= to + 1 /\ SumsUp(start .. to, f, t)
      /\ Numbers(f, start .. to) /\ Steady(f, b, c, v)
  BY <1>1, <1>5, <1>6, <1>7, <1>8 DEF Numbers, Steady
<1>10. start .. b - 1 \in SUBSET (start .. to)
  BY <1>1
<1> HIDE DEF to
<1>11. start \in Int
  BY <1>1
<1>12. t[start .. c - 1] = t[start .. b - 1] + v * (c - b)
  BY <1>4, <1>9, <1>11, SumGoesOn
<1>13. t[start .. b - 1] \in Int
  <2> DEFINE M == start .. to
  <2>1. IsFiniteSet(M) /\ SumsUp(M, f, t) /\ Numbers(f, M)
    BY <1>9, <1>11, FS_Interval
  <2>2. start .. b - 1 \in SUBSET M
    BY <1>10
  <2> HIDE DEF M
  <2>3. \A s \in SUBSET M : t[s] \in Int
    BY <2>1, SumTakesAny
  <2> QED
    BY <2>2, <2>3
<1> QED
  BY <1>3, <1>12, <1>13 DEF v

-------------------------------------------------------------------------------
(* The walk over the events for one sample: an event is stepped over if it *)
(* comes before the end.                                                   *)
Later(a, b) == IF a < b THEN b ELSE a

OverEvent(list, start, end, w, n) ==
    LET curr == list[n]
        since == IF start < w.prev.time THEN w.prev.time ELSE start
    IN  IF w.next # n \/ end <= curr.time THEN w
        ELSE IF start < curr.time
          THEN StepOver(list, [w EXCEPT !.sum = @ + w.prev.value * (curr.time - since)])
        ELSE StepOver(list, w)

Walking == [next : Int, prev : Happening, sum : Int]

(* After n events, j of them before the end of the sample.                 *)
Walked(list, start, end, t, k, n, w) ==
    \E j \in k .. n :
        /\ w = [next |-> j + 1, prev |-> EventAt(list, j),
                sum |-> t[start .. Later(start, EventAt(list, j).time) - 1]]
        /\ EventAt(list, j).time <= end
        /\ j < n => end <= list[j + 1].time

LEMMA OverEventWalks ==
    ASSUME NEW list, NEW begin, NEW start, NEW end, NEW f, NEW t,
           Sampling(list, begin, start, end, f, t),
           NEW k \in 0 .. Len(list), NEW n \in k + 1 .. Len(list), NEW w,
           Walked(list, start, end, t, k, n - 1, w)
    PROVE  Walked(list, start, end, t, k, n, OverEvent(list, start, end, w, n))
<1> DEFINE N == Len(list)
           over == OverEvent(list, start, end, w, n)
<1>1. /\ list \in Seq(Happening) /\ start \in Int /\ end \in Int /\ start <= end
      /\ \A i, j \in 0 .. N : i <= j => EventAt(list, i).time <= EventAt(list, j).time
  BY DEF Sampling, Tells
<1>2. N \in Nat
  BY <1>1, LenProperties
<1>3. PICK j \in k .. n - 1 :
        /\ w = [next |-> j + 1, prev |-> EventAt(list, j),
                sum |-> t[start .. Later(start, EventAt(list, j).time) - 1]]
        /\ EventAt(list, j).time <= end
        /\ j < n - 1 => end <= list[j + 1].time
  BY DEF Walked
<1> DEFINE p == EventAt(list, j)
           curr == list[n]
<1>4. /\ n \in 1 .. N /\ j \in 0 .. N /\ j \in k .. n /\ n \in Int /\ j \in Int
      /\ curr = EventAt(list, n) /\ n \in k .. n
  BY <1>2 DEF EventAt
<1>5. /\ p \in Happening /\ curr \in Happening
  BY <1>1, <1>4, EventAtType
<1>6. p.time \in Int /\ curr.time \in Int /\ p.value \in Int /\ p.time <= curr.time
  <2>1. j <= n
    BY <1>4
  <2>2. p.time <= curr.time
    BY <1>1, <1>4, <2>1
  <2> QED
    BY <1>5, <2>2 DEF Happening
<1>7. w.next = j + 1 /\ w.prev = p /\ w.sum = t[start .. Later(start, p.time) - 1]
  BY <1>3
<1>8. CASE w.next # n \/ end <= curr.time
  <2>1. over = w
    BY <1>8 DEF OverEvent
  <2>2. j < n => end <= list[j + 1].time
    <3> SUFFICES ASSUME j < n PROVE end <= list[j + 1].time
      OBVIOUS
    <3>1. CASE j < n - 1
      BY <1>3, <3>1
    <3>2. CASE ~ (j < n - 1)
      <4>1. j + 1 = n
        BY <1>4, <3>2
      <4> QED
        BY <1>7, <1>8, <4>1
    <3> QED
      BY <3>1, <3>2
  <2> HIDE DEF over
  <2>3. j \in k .. n
    BY <1>4
  <2>4. Walked(list, start, end, t, k, n, w)
    BY <1>3, <2>2, <2>3 DEF Walked
  <2>5. Walked(list, start, end, t, k, n, over)
    BY <2>1, <2>4
  <2> QED
    BY <2>5 DEF over
<1>9. CASE ~ (w.next # n \/ end <= curr.time)
  <2>1. j + 1 = n /\ j = n - 1 /\ curr.time < end /\ curr.time <= end
    <3>1. w.next = n /\ ~ (end <= curr.time)
      BY <1>9
    <3>2. j + 1 = n /\ j = n - 1
      BY <1>4, <1>7, <3>1
    <3> HIDE DEF curr
    <3>3. curr.time < end /\ curr.time <= end
      BY <1>1, <1>6, <3>1
    <3> QED
      BY <3>2, <3>3
  <2>2. ASSUME over = [next |-> n + 1, prev |-> curr, sum |-> t[start .. Later(start, curr.time) - 1]]
        PROVE  Walked(list, start, end, t, k, n, over)
    <3>1. ~ (n < n) /\ EventAt(list, n).time <= end /\ n \in k .. n
      BY <1>4, <2>1
    <3> HIDE DEF over
    <3>2. over = [next |-> n + 1, prev |-> EventAt(list, n),
                  sum |-> t[start .. Later(start, EventAt(list, n).time) - 1]]
      BY <1>4, <2>2
    <3> QED
      BY <3>1, <3>2 DEF Walked
  <2>3. CASE start < curr.time
    <3> DEFINE since == IF start < p.time THEN p.time ELSE start
    <3>1. /\ since = Later(start, p.time) /\ since \in Int /\ start <= since /\ since <= curr.time
          /\ p.time <= since /\ Later(start, curr.time) = curr.time
      BY <1>1, <1>6, <2>3 DEF Later
    <3>2. NoEventIn(list, j, since, curr.time)
      BY <1>6, <2>1, <3>1 DEF NoEventIn
    <3>3. t[start .. curr.time - 1] = t[start .. since - 1] + p.value * (curr.time - since)
      <4> HIDE DEF p, curr, since
      <4> DEFINE c == curr.time
      <4>1. start <= since /\ since <= c /\ c <= end
        BY <2>1, <3>1
      <4>2. j \in 0 .. Len(list) /\ since \in Int /\ c \in Int /\ NoEventIn(list, j, since, c)
        BY <1>4, <1>6, <3>1, <3>2
      <4> HIDE DEF c
      <4>3. t[start .. c - 1] = t[start .. since - 1] + EventAt(list, j).value * (c - since)
        BY <4>1, <4>2, SegmentSum
      <4> QED
        BY <4>3 DEF p, c
    <3>4. over = StepOver(list, [w EXCEPT !.sum = @ + w.prev.value * (curr.time - since)])
      BY <1>7, <1>9, <2>3 DEF OverEvent
    <3>5. over = [next |-> n + 1, prev |-> curr, sum |-> t[start .. since - 1] + p.value * (curr.time - since)]
      <4> DEFINE more == w.sum + w.prev.value * (curr.time - since)
                 w2 == [w EXCEPT !.sum = more]
      <4>1. more = t[start .. since - 1] + p.value * (curr.time - since)
        BY <1>7, <3>1
      <4>2. over = [w2 EXCEPT !.prev = list[w2.next], !.next = @ + 1]
        BY <3>4 DEF StepOver
      <4> HIDE DEF more, over
      <4>3. w2 = [next |-> n, prev |-> w.prev, sum |-> more]
        BY <1>3, <2>1
      <4> HIDE DEF w2
      <4>4. over = [next |-> n + 1, prev |-> curr, sum |-> more]
        BY <4>2, <4>3
      <4> QED
        BY <4>1, <4>4
    <3> HIDE DEF over, p, since
    <3> DEFINE b == Later(start, curr.time)
    <3>6. b = curr.time
      BY <3>1
    <3> HIDE DEF b
    <3>7. t[start .. b - 1] = t[start .. since - 1] + p.value * (curr.time - since)
      BY <3>3, <3>6
    <3>8. over = [next |-> n + 1, prev |-> curr, sum |-> t[start .. b - 1]]
      BY <3>5, <3>7
    <3>9. Walked(list, start, end, t, k, n, over)
      BY <2>2, <3>8 DEF b
    <3> QED
      BY <3>9 DEF over
  <2>4. CASE ~ (start < curr.time)
    <3>1. Later(start, p.time) = start /\ Later(start, curr.time) = start
      BY <1>1, <1>6, <2>4 DEF Later
    <3>2. over = StepOver(list, w)
      BY <1>9, <2>4 DEF OverEvent
    <3>3. over = [next |-> n + 1, prev |-> curr, sum |-> t[start .. start - 1]]
      BY <1>3, <1>7, <2>1, <3>1, <3>2 DEF StepOver
    <3> QED
      BY <2>2, <3>1, <3>3
  <2> QED
    BY <2>3, <2>4
<1> QED
  BY <1>8, <1>9

LEMMA WalkedType ==
    ASSUME NEW list, NEW begin, NEW start, NEW end, NEW f, NEW t,
           Sampling(list, begin, start, end, f, t),
           NEW k \in 0 .. Len(list), NEW n \in k .. Len(list), NEW w,
           Walked(list, start, end, t, k, n, w)
    PROVE  w \in Walking
<1>1. /\ list \in Seq(Happening) /\ start \in Int /\ end \in Int /\ start <= end
  BY DEF Sampling, Tells
<1>2. Len(list) \in Nat
  BY <1>1, LenProperties
<1>3. PICK j \in k .. n :
        /\ w = [next |-> j + 1, prev |-> EventAt(list, j),
                sum |-> t[start .. Later(start, EventAt(list, j).time) - 1]]
        /\ EventAt(list, j).time <= end
  BY DEF Walked
<1> DEFINE b == Later(start, EventAt(list, j).time)
<1>4. j \in 0 .. Len(list) /\ j + 1 \in Int
  BY <1>2
<1>5. EventAt(list, j) \in Happening
  BY <1>1, <1>4, EventAtType
<1>6. b \in Int /\ start <= b /\ b <= end
  BY <1>1, <1>3, <1>5 DEF Later, Happening
<1> HIDE DEF b
<1>7. b <= b /\ NoEventIn(list, j, b, b)
  BY <1>6 DEF NoEventIn
<1>8. t[start .. b - 1] \in Int
  BY <1>4, <1>6, <1>7, SegmentSum
<1> QED
  BY <1>3, <1>4, <1>5, <1>8 DEF Walking, b

(* The walk of getVal ends behind the events before the end, with the sum. *)
LEMMA SampleIsSum ==
    ASSUME NEW list, NEW begin, NEW start, NEW end, NEW f, NEW t,
           Sampling(list, begin, start, end, f, t),
           NEW k \in 0 .. Len(list), NEW from \in Walking,
           from.next = k + 1, from.prev = EventAt(list, k), from.prev.time <= start
    PROVE  \E j \in k .. Len(list) :
              /\ EventAt(list, j).time <= end
              /\ SampleFrom(list, from, start, end) =
                   [next |-> j + 1, prev |-> EventAt(list, j), sum |-> t[start .. end - 1]]
<1> DEFINE N == Len(list)
           first == [from EXCEPT !.sum = 0]
           Body(w, n) == OverEvent(list, start, end, w, n)
           Walk(walk) == walk = [n \in from.next - 1 .. N |->
                              IF n = from.next - 1 THEN first ELSE Body(walk[n - 1], n)]
           walk == CHOOSE walk : Walk(walk)
           last == walk[N]
           L == N - k
           step == [p \in Walking \X (1 .. L) |->
                      IF Body(p[1], k + p[2]) \in Walking THEN Body(p[1], k + p[2]) ELSE p[1]]
           Now(n, w) == Walked(list, start, end, t, k, n, w)
<1>1. /\ list \in Seq(Happening) /\ start \in Int /\ end \in Int /\ start <= end
      /\ SumsUp(start .. end - 1, f, t)
  BY DEF Sampling, Tells
<1>2. N \in Nat /\ L \in Nat /\ k \in Nat /\ k \in k .. N /\ N \in k .. N
  BY <1>1, LenProperties
<1>20. from.next - 1 = k
  BY <1>2
<1>3. first \in Walking /\ first = [next |-> k + 1, prev |-> EventAt(list, k), sum |-> 0]
  BY DEF Walking
<1>4. Now(k, first)
  <2>1. Later(start, EventAt(list, k).time) = start
    <3>1. EventAt(list, k).time \in Int
      BY <1>1, EventAtType DEF Happening
    <3> QED
      BY <1>1, <3>1 DEF Later
  <2>2. t[start .. start - 1] = 0
    <3> DEFINE to == end - 1
    <3>1. to \in Int /\ SumsUp(start .. to, f, t) /\ start <= start
      BY <1>1
    <3> HIDE DEF to
    <3> QED
      BY <1>1, <3>1, SumOfNothing
  <2>3. EventAt(list, k).time <= end
    <3>1. EventAt(list, k).time \in Int
      BY <1>1, EventAtType DEF Happening
    <3> QED
      BY <1>1, <3>1
  <2>4. ~ (k < k) /\ k \in k .. k
    BY <1>2
  <2> QED
    BY <1>3, <2>1, <2>2, <2>3, <2>4 DEF Walked
<1>5. ASSUME NEW n \in k .. N, NEW w, Now(n, w) PROVE w \in Walking
  BY <1>5, WalkedType
<1>6. ASSUME NEW n \in k + 1 .. N, NEW w, Now(n - 1, w) PROVE Now(n, Body(w, n))
  BY <1>6, OverEventWalks
<1> HIDE DEF first, Body, Now
<1>7. \E u : Walk(u)
  <2>1. step \in [Walking \X (1 .. L) -> Walking]
    <3>1. ASSUME NEW p \in Walking \X (1 .. L)
          PROVE  (IF Body(p[1], k + p[2]) \in Walking THEN Body(p[1], k + p[2]) ELSE p[1]) \in Walking
      OBVIOUS
    <3> QED
      BY <3>1
  <2>2. PICK g : IsRun(g, Walking, first, step, L)
    <3> HIDE DEF step, L
    <3> QED
      BY <1>2, <1>3, <2>1, LoopRuns
  <2>3. /\ g \in [0 .. L -> Walking] /\ g[0] = first
        /\ \A m \in 1 .. L : g[m] = step[<<g[m - 1], m>>]
    BY <2>2 DEF IsRun
  <2>4. ASSUME NEW m \in 1 .. L
        PROVE  g[m] = IF Body(g[m - 1], k + m) \in Walking THEN Body(g[m - 1], k + m) ELSE g[m - 1]
    <3>1. m - 1 \in 0 .. L
      BY <1>2
    <3>2. g[m - 1] \in Walking
      BY <2>3, <3>1
    <3>3. <<g[m - 1], m>> \in Walking \X (1 .. L)
      BY <3>2
    <3> QED
      BY <2>3, <3>3
  <2> DEFINE T == {m \in Nat : m <= L => Now(k + m, g[m])}
  <2>5. 0 \in T
    <3>1. k + 0 = k
      BY <1>2
    <3> QED
      BY <1>4, <2>3, <3>1
  <2>6. ASSUME NEW m \in Nat, m + 1 <= L, Now(k + m, g[m])
        PROVE  Now(k + (m + 1), g[m + 1]) /\ g[m + 1] = Body(g[m], k + (m + 1))
    <3>1. /\ m + 1 \in 1 .. L /\ (m + 1) - 1 = m /\ k + (m + 1) \in k + 1 .. N
          /\ k + (m + 1) \in k .. N /\ (k + (m + 1)) - 1 = k + m
      BY <1>2, <2>6
    <3>2. Now(k + (m + 1), Body(g[m], k + (m + 1)))
      BY <1>6, <2>6, <3>1
    <3>3. Body(g[m], k + (m + 1)) \in Walking
      BY <1>5, <3>1, <3>2
    <3>4. g[m + 1] = Body(g[m], k + (m + 1))
      BY <2>4, <3>1, <3>3
    <3> QED
      BY <3>2, <3>4
  <2>7. ASSUME NEW m \in Nat, m \in T PROVE m + 1 \in T
    <3> SUFFICES ASSUME m + 1 <= L PROVE Now(k + (m + 1), g[m + 1])
      OBVIOUS
    <3>1. m <= L
      BY <1>2
    <3> QED
      BY <2>6, <2>7, <3>1
  <2> HIDE DEF step
  <2>8. \A m \in 0 .. L : Now(k + m, g[m])
    <3>1. Nat \subseteq T
      <4> HIDE DEF T
      <4> QED
        BY <2>5, <2>7, NatSetInduction
    <3> QED
      BY <1>2, <3>1
  <2> DEFINE u == [n \in k .. N |-> g[n - k]]
  <2>9. ASSUME NEW n \in k .. N
        PROVE  u[n] = IF n = k THEN first ELSE Body(u[n - 1], n)
    <3>1. CASE n = k
      <4>1. n - k = 0
        BY <1>2, <3>1
      <4> QED
        BY <2>3, <3>1, <4>1
    <3>2. CASE n # k
      <4> DEFINE m == (n - k) - 1
      <4>1. /\ m \in Nat /\ m + 1 <= L /\ m \in 0 .. L /\ k + (m + 1) = n /\ m + 1 = n - k
            /\ n - 1 \in k .. N /\ (n - 1) - k = m
        BY <1>2, <3>2
      <4>2. u[n] = g[n - k] /\ u[n - 1] = g[(n - 1) - k]
        BY <4>1
      <4> HIDE DEF m, u
      <4>3. Now(k + m, g[m])
        BY <2>8, <4>1
      <4>4. g[m + 1] = Body(g[m], k + (m + 1))
        BY <2>6, <4>1, <4>3
      <4> QED
        BY <3>2, <4>1, <4>2, <4>4
    <3> QED
      BY <3>1, <3>2
  <2>10. Walk(u)
    BY <1>20, <2>9
  <2> HIDE DEF u, Walk
  <2> QED
    BY <2>10
<1>8. Walk(walk)
  <2> HIDE DEF Walk
  <2> QED
    BY <1>7
<1> HIDE DEF walk
<1>9. walk[k] = first /\ \A n \in k + 1 .. N : walk[n] = Body(walk[n - 1], n)
  <2>1. walk = [n \in k .. N |-> IF n = k THEN first ELSE Body(walk[n - 1], n)]
    BY <1>8, <1>20
  <2> HIDE DEF N
  <2>2. \A n \in k + 1 .. N : n \in k .. N /\ n # k
    BY <1>2
  <2> QED
    BY <1>2, <2>1, <2>2
<1>10. Now(N, last)
  <2> DEFINE T == {m \in Nat : m <= L => Now(k + m, walk[k + m])}
  <2>1. 0 \in T
    <3>1. k + 0 = k
      BY <1>2
    <3> QED
      BY <1>4, <1>9, <3>1
  <2>2. ASSUME NEW m \in Nat, m \in T PROVE m + 1 \in T
    <3> SUFFICES ASSUME m + 1 <= L PROVE Now(k + (m + 1), walk[k + (m + 1)])
      OBVIOUS
    <3>1. k + (m + 1) \in k + 1 .. N /\ (k + (m + 1)) - 1 = k + m /\ m <= L
      BY <1>2
    <3>2. Now(k + m, walk[k + m])
      BY <2>2, <3>1
    <3>3. Now(k + (m + 1), Body(walk[k + m], k + (m + 1)))
      BY <1>6, <3>1, <3>2
    <3> QED
      BY <1>9, <3>1, <3>3
  <2>3. L \in T
    <3> HIDE DEF T
    <3> QED
      BY <1>2, <2>1, <2>2, NatSetInduction
  <2>4. k + L = N
    BY <1>2
  <2> QED
    BY <1>2, <2>3, <2>4
<1>11. SampleFrom(list, from, start, end) =
         IF last.prev.time <= start THEN [last EXCEPT !.sum = last.prev.value * (end - start)]
         ELSE [last EXCEPT !.sum = @ + last.prev.value * (end - last.prev.time)]
  BY DEF SampleFrom, OverEvent, walk, Walk, Body, first
<1>12. PICK j \in k .. N :
        /\ last = [next |-> j + 1, prev |-> EventAt(list, j),
                   sum |-> t[start .. Later(start, EventAt(list, j).time) - 1]]
        /\ EventAt(list, j).time <= end
        /\ j < N => end <= list[j + 1].time
  BY <1>10 DEF Walked, Now
<1> DEFINE p == EventAt(list, j)
<1>13. p \in Happening /\ j \in 0 .. N /\ j \in Int
  BY <1>1, <1>2, EventAtType
<1>14. p.time \in Int /\ p.value \in Int
  BY <1>13 DEF Happening
<1> HIDE DEF last
<1>15. last.prev = p /\ last.sum = t[start .. Later(start, p.time) - 1]
  BY <1>12
<1> DEFINE since == Later(start, p.time)
<1>16. /\ since \in Int /\ start <= since /\ since <= end /\ p.time <= since
  BY <1>1, <1>12, <1>14 DEF Later
<1>17. NoEventIn(list, j, since, end) /\ end <= end
  BY <1>1, <1>12, <1>16 DEF NoEventIn
<1>18. t[start .. end - 1] = t[start .. since - 1] + p.value * (end - since)
  <2> HIDE DEF since, p
  <2> QED
    BY <1>1, <1>13, <1>16, <1>17, SegmentSum DEF p
<1>19. SampleFrom(list, from, start, end) =
         [next |-> j + 1, prev |-> p, sum |-> t[start .. end - 1]]
  <2>1. CASE last.prev.time <= start
    <3>1. since = start
      BY <1>1, <1>14, <1>15, <2>1 DEF Later
    <3>2. t[start .. since - 1] = 0
      <4> DEFINE to == end - 1
      <4>1. to \in Int /\ SumsUp(start .. to, f, t) /\ start <= start
        BY <1>1
      <4> HIDE DEF to, since
      <4> QED
        BY <1>1, <3>1, <4>1, SumOfNothing
    <3>3. t[start .. end - 1] = p.value * (end - start)
      <4>1. p.value * (end - start) \in Int
        BY <1>1, <1>14
      <4> HIDE DEF since, p
      <4> QED
        BY <1>18, <3>1, <3>2, <4>1
    <3> QED
      BY <1>11, <1>12, <1>15, <2>1, <3>3
  <2>2. CASE ~ (last.prev.time <= start)
    <3>1. since = p.time
      BY <1>1, <1>14, <1>15, <2>2 DEF Later
    <3> QED
      BY <1>11, <1>12, <1>15, <1>18, <2>2, <3>1
  <2> QED
    BY <2>1, <2>2
<1> QED
  BY <1>12, <1>19

(* The bounds of the samples, and what each of them should be.             *)
Bound(begin, count, id) == begin + id * (KeepDuration \div count)

SumsOf(begin, count) ==
    [id \in 1 .. count |-> SumOfTicks(Bound(begin, count, id - 1), Bound(begin, count, id))]

LEMMA BoundsGrow ==
    ASSUME NEW begin \in Int, NEW count \in Nat \ {0}, NEW id \in 1 .. count
    PROVE  /\ Bound(begin, count, id - 1) \in Int /\ Bound(begin, count, id) \in Int
           /\ begin <= Bound(begin, count, id - 1)
           /\ Bound(begin, count, id - 1) <= Bound(begin, count, id)
           /\ Bound(begin, count, id) = Bound(begin, count, id - 1) + KeepDuration \div count
<1> DEFINE step == KeepDuration \div count
<1>1. step \in Nat
  BY TrackerAssumption
<1> HIDE DEF step
<1>2. /\ id - 1 \in Nat /\ (id - 1) * step \in Nat /\ id * step = (id - 1) * step + step
  <2>1. id - 1 \in Nat /\ id = (id - 1) + 1
    OBVIOUS
  <2>2. \A a, b \in Nat : a * b \in Nat /\ (a + 1) * b = a * b + b
    OBVIOUS
  <2> QED
    BY <1>1, <2>1, <2>2
<1> QED
  BY <1>1, <1>2 DEF Bound, step

BeginOf(list) == list[Len(list)].time - KeepDuration

LEMMA ResampleIsSums ==
    ASSUME NEW list, Tells(list, BeginOf(list)), NEW count \in Nat \ {0}
    PROVE  GetResampleValue(list, count) = SumsOf(BeginOf(list), count)
<1> DEFINE begin == BeginOf(list)
           N == Len(list)
           S(id) == Bound(begin, count, id)
           first == [next |-> 1, prev |-> NoEvent, sum |-> 0]
           Runs(samples) == samples = [id \in 0 .. count |->
                               IF id = 0 THEN first
                               ELSE SampleFrom(list, samples[id - 1], S(id - 1), S(id))]
           samples == CHOOSE samples : Runs(samples)
           At(id, w) == /\ w \in Walking
                        /\ \E j \in 0 .. N : /\ w.next = j + 1 /\ w.prev = EventAt(list, j)
                                             /\ EventAt(list, j).time <= S(id)
           J == [id \in 0 .. count |-> {w \in Walking : At(id, w)}]
           body == [p \in Walking \X (1 .. count) |-> SampleFrom(list, p[1], S(p[2] - 1), S(p[2]))]
<1>1. Tells(list, begin) /\ list \in Seq(Happening) /\ begin \in Int /\ -KeepDuration <= begin
  BY DEF Tells
<1> HIDE DEF begin
<1>2. N \in Nat /\ count \in Nat
  BY <1>1, LenProperties
<1>3. At(0, first)
  <2>1. first.next = 0 + 1 /\ first.prev = EventAt(list, 0) /\ first.prev.time <= S(0)
    <3>1. S(0) = begin
      BY <1>1, TrackerAssumption DEF Bound
    <3> QED
      BY <1>1, <3>1 DEF EventAt, NoEvent
  <2>2. first \in Walking
    BY TrackerAssumption DEF Walking, Happening, NoEvent
  <2>3. 0 \in 0 .. N /\ EventAt(list, 0).time <= S(0)
    BY <1>2, <2>1
  <2> HIDE DEF first, S
  <2> QED
    BY <2>1, <2>2, <2>3
<1>4. ASSUME NEW id \in 1 .. count, NEW w, At(id - 1, w)
      PROVE  /\ At(id, SampleFrom(list, w, S(id - 1), S(id)))
             /\ SampleFrom(list, w, S(id - 1), S(id)).sum = SumsOf(begin, count)[id]
  <2> DEFINE start == S(id - 1)
             end == S(id)
             v == SampleFrom(list, w, start, end)
  <2>1. start \in Int /\ end \in Int /\ begin <= start /\ start <= end
    BY <1>1, BoundsGrow
  <2>2. SumsOf(begin, count)[id] = SumOfTicks(start, end)
    BY DEF SumsOf
  <2>3. PICK k \in 0 .. N : w.next = k + 1 /\ w.prev = EventAt(list, k) /\ w.prev.time <= start
    BY <1>4
  <2>4. w \in Walking
    BY <1>4
  <2> HIDE DEF start, end
  <2>5. PICK f, t : /\ Sampling(list, begin, start, end, f, t)
                    /\ t[start .. end - 1] = SumOfTicks(start, end)
    <3>1. HasSums(list, begin, start, end)
      BY <1>1, <2>1, SampleSums
    <3> QED
      BY <3>1 DEF HasSums
  <2>6. PICK j \in k .. N :
           /\ EventAt(list, j).time <= end
           /\ v = [next |-> j + 1, prev |-> EventAt(list, j), sum |-> t[start .. end - 1]]
    BY <2>3, <2>4, <2>5, SampleIsSum
  <2>7. t[start .. end - 1] \in Int
    <3>1. end <= end /\ NoEventIn(list, j, end, end) /\ j \in 0 .. N
      BY <1>2, <2>1 DEF NoEventIn
    <3> QED
      BY <2>1, <2>5, <3>1, SegmentSum
  <2>8. EventAt(list, j) \in Happening /\ j \in 0 .. N
    BY <1>1, <1>2, EventAtType
  <2>9. v \in Walking /\ v.next = j + 1 /\ v.prev = EventAt(list, j) /\ v.sum = t[start .. end - 1]
    BY <1>2, <2>6, <2>7, <2>8 DEF Walking
  <2> HIDE DEF v
  <2>10. At(id, v)
    BY <2>6, <2>8, <2>9 DEF end
  <2> QED
    BY <2>2, <2>5, <2>9, <2>10 DEF v, start, end
<1> HIDE DEF S, At, first
<1>5. \E u : Runs(u)
  <2>1. StaysIn(J, body, count)
    <3> SUFFICES ASSUME NEW n \in 1 .. count, NEW w \in J[n - 1] PROVE body[<<w, n>>] \in J[n]
      BY DEF StaysIn
    <3>1. n - 1 \in 0 .. count /\ n \in 0 .. count
      BY <1>2
    <3>2. At(n - 1, w) /\ w \in Walking
      BY <3>1
    <3>3. At(n, SampleFrom(list, w, S(n - 1), S(n)))
      BY <1>4, <3>2
    <3>4. body[<<w, n>>] = SampleFrom(list, w, S(n - 1), S(n))
      BY <3>2
    <3>5. SampleFrom(list, w, S(n - 1), S(n)) \in Walking
      BY <3>3 DEF At
    <3> HIDE DEF body
    <3> QED
      BY <3>1, <3>3, <3>4, <3>5
  <2>2. first \in J[0]
    <3>1. first \in Walking /\ 0 \in 0 .. count
      BY <1>2, <1>3 DEF At
    <3> QED
      BY <1>3, <3>1
  <2>3. \A n \in 0 .. count : J[n] \subseteq Walking
    OBVIOUS
  <2>4. PICK f : StayingRun(f, J, body, first, count)
    <3> HIDE DEF J, body
    <3> QED
      BY <1>2, <2>1, <2>2, RunStays
  <2>8. /\ f[0] = first
        /\ \A n \in 0 .. count : f[n] \in J[n]
        /\ \A n \in 1 .. count : f[n] = body[<<f[n - 1], n>>]
    BY <2>4 DEF StayingRun
  <2>5. ASSUME NEW n \in 1 .. count PROVE f[n] = SampleFrom(list, f[n - 1], S(n - 1), S(n))
    <3>1. n - 1 \in 0 .. count
      BY <1>2
    <3>2. f[n - 1] \in Walking
      BY <2>3, <2>8, <3>1
    <3> QED
      BY <2>8, <3>2
  <2> DEFINE u == [id \in 0 .. count |-> f[id]]
  <2>6. ASSUME NEW id \in 0 .. count
        PROVE  u[id] = IF id = 0 THEN first ELSE SampleFrom(list, u[id - 1], S(id - 1), S(id))
    <3>1. CASE id = 0
      BY <2>8, <3>1
    <3>2. CASE id # 0
      <4>1. id \in 1 .. count /\ id - 1 \in 0 .. count
        BY <1>2, <3>2
      <4>2. u[id] = f[id] /\ u[id - 1] = f[id - 1]
        BY <4>1
      <4> HIDE DEF u
      <4> QED
        BY <2>5, <3>2, <4>1, <4>2
    <3> QED
      BY <3>1, <3>2
  <2>7. Runs(u)
    BY <2>6
  <2> HIDE DEF u, Runs
  <2> QED
    BY <2>7
<1>6. Runs(samples)
  <2> HIDE DEF Runs
  <2> QED
    BY <1>5
<1>7. GetResampleValue(list, count) = [id \in 1 .. count |-> samples[id].sum]
  BY DEF GetResampleValue, samples, Runs, S, Bound, first, begin, BeginOf
<1> HIDE DEF samples
<1>8. /\ samples[0] = first
      /\ \A id \in 1 .. count : samples[id] = SampleFrom(list, samples[id - 1], S(id - 1), S(id))
  BY <1>2, <1>6
<1> DEFINE T == {id \in Nat : id <= count => At(id, samples[id])}
<1>9. 0 \in T
  BY <1>3, <1>8
<1>10. ASSUME NEW id \in Nat, id \in T PROVE id + 1 \in T
  <2> SUFFICES ASSUME id + 1 <= count PROVE At(id + 1, samples[id + 1])
    OBVIOUS
  <2>1. id + 1 \in 1 .. count /\ (id + 1) - 1 = id /\ id <= count
    BY <1>2
  <2>2. At(id, samples[id])
    BY <1>10, <2>1
  <2> QED
    BY <1>4, <1>8, <2>1, <2>2
<1>11. Nat \subseteq T
  <2> HIDE DEF T
  <2> QED
    BY <1>9, <1>10, NatSetInduction
<1>12. ASSUME NEW id \in 1 .. count PROVE samples[id].sum = SumsOf(begin, count)[id]
  <2>1. id - 1 \in Nat /\ id - 1 <= count
    BY <1>2
  <2>2. At(id - 1, samples[id - 1])
    BY <1>11, <2>1
  <2> QED
    BY <1>4, <1>8, <2>2
<1>13. SumsOf(begin, count) = [id \in 1 .. count |-> SumsOf(begin, count)[id]]
  BY DEF SumsOf
<1> QED
  BY <1>7, <1>12, <1>13 DEF begin

-------------------------------------------------------------------------------
(* All events for each sample: the parts of the sample from each event to  *)
(* the next follow one another.                                            *)
Clip(start, end, x) == IF x < start THEN start ELSE IF x < end THEN x ELSE end

LEMMA ClipType ==
    ASSUME NEW start \in Int, NEW end \in Int, start <= end, NEW x \in Int
    PROVE  Clip(start, end, x) \in Int /\ start <= Clip(start, end, x) /\ Clip(start, end, x) <= end
  BY DEF Clip

LEMMA SegmentIsClipped ==
    ASSUME NEW start \in Int, NEW end \in Int, start <= end,
           NEW prev \in Happening, NEW curr \in Happening, prev.time <= curr.time
    PROVE  SegmentVal(prev, curr, start, end) =
             prev.value * (Clip(start, end, curr.time) - Clip(start, end, prev.time))
<1> DEFINE p == prev.time
           c == curr.time
           v == prev.value
           width == Clip(start, end, c) - Clip(start, end, p)
<1>1. p \in Int /\ c \in Int /\ v \in Int /\ p <= c
  BY DEF Happening
<1>2. SegmentVal(prev, curr, start, end) =
        IF end <= p \/ c <= start THEN 0
        ELSE IF p <= start THEN v * (IF c < end THEN c - start ELSE end - start)
        ELSE v * (IF c <= end THEN c - p ELSE end - p)
  BY DEF SegmentVal
<1> HIDE DEF p, c, v
<1>3. width = IF end <= p \/ c <= start THEN 0
              ELSE IF p <= start THEN (IF c < end THEN c - start ELSE end - start)
              ELSE (IF c <= end THEN c - p ELSE end - p)
  BY <1>1 DEF Clip
<1> HIDE DEF width
<1>4. v * 0 = 0
  BY <1>1
<1> QED
  BY <1>2, <1>3, <1>4 DEF width, p, c, v

LEMMA FoldIsNumber ==
    ASSUME NEW M, IsFiniteSet(M), NEW f, Numbers(f, M), NEW c, NEW t, FoldsUp(M, f, c, t),
           \A s \in SUBSET M : s # {} => c[s] \in s
    PROVE  \A s \in SUBSET M : t[s] \in Int
<1> DEFINE Good == {n \in Nat : \A s \in SUBSET M : Cardinality(s) <= n => t[s] \in Int}
<1>1. ASSUME NEW s \in SUBSET M
      PROVE  t[s] = IF s = {} THEN 0 ELSE f[c[s]] + t[s \ {c[s]}]
  BY DEF FoldsUp
<1>2. 0 \in Good
  <2>1. ASSUME NEW s \in SUBSET M, Cardinality(s) <= 0 PROVE s = {}
    BY <2>1, FS_Subset, FS_CardinalityType, FS_EmptySet
  <2>2. ASSUME NEW s \in SUBSET M, s = {} PROVE t[s] \in Int
    <3>1. t[s] = 0
      BY <1>1, <2>2
    <3> QED
      BY <3>1
  <2> QED
    BY <2>1, <2>2
<1>3. ASSUME NEW n \in Nat, n \in Good PROVE n + 1 \in Good
  <2> SUFFICES ASSUME NEW s \in SUBSET M, Cardinality(s) <= n + 1 PROVE t[s] \in Int
    OBVIOUS
  <2>1. CASE s = {}
    <3>1. t[s] = 0
      BY <1>1, <2>1
    <3> QED
      BY <3>1
  <2>2. CASE s # {}
    <3> DEFINE y == c[s]
               less == s \ {y}
    <3>1. y \in s /\ y \in M /\ less \in SUBSET M
      BY <2>2
    <3>2. Cardinality(s) \in Nat /\ Cardinality(less) = Cardinality(s) - 1
      BY <3>1, FS_Subset, FS_CardinalityType, FS_RemoveElement
    <3>3. Cardinality(less) <= n
      BY <3>2
    <3>4. t[less] \in Int
      BY <1>3, <3>1, <3>3
    <3>5. f[y] \in Int
      BY <3>1 DEF Numbers
    <3>6. t[s] = f[y] + t[less]
      BY <1>1, <2>2
    <3> QED
      BY <3>4, <3>5, <3>6
  <2> QED
    BY <2>1, <2>2
<1>4. Nat \subseteq Good
  <2> HIDE DEF Good
  <2> QED
    BY <1>2, <1>3, NatSetInduction
<1> QED
  BY <1>4, FS_Subset, FS_CardinalityType

(* The sum of a sequence of numbers is that of all but its last, and this. *)
SumSeq(seq) == FoldLeft(+, 0, seq)

LEMMA FoldLeftSums ==
    ASSUME NEW L \in Nat, NEW seq, DOMAIN seq = 1 .. L, Numbers(seq, 1 .. L)
    PROVE  \E u : /\ SumSeq(seq) = u[1 .. L] /\ u[{}] = 0
                  /\ \A k \in 1 .. L : u[1 .. k] = u[1 .. k - 1] + seq[k]
<1> DEFINE M == 1 .. L
           c == [s \in SUBSET M |-> Max(s)]
           Folds(u) == u = [s \in SUBSET M |-> IF s = {} THEN 0
                                               ELSE LET x == Max(s) IN u[s \ {x}] + seq[x]]
           u == CHOOSE u : Folds(u)
<1>1. SumSeq(seq) = u[M]
  BY DEF SumSeq, FoldLeft, MapThenFoldSet
<1>2. IsFiniteSet(M)
  BY FS_Interval
<1>3. ASSUME NEW s \in SUBSET M, s # {} PROVE c[s] \in s /\ c[s] = Max(s)
  BY <1>3, GreatestOf
<1>4. Numbers(seq, M)
  OBVIOUS
<1> HIDE DEF c
<1>5. \E w : Folds(w)
  <2> HIDE DEF M
  <2>1. PICK w : FoldsUp(M, seq, c, w)
    BY <1>2, <1>3, FoldExists
  <2>2. \A s \in SUBSET M : w[s] \in Int
    BY <1>2, <1>3, <1>4, <2>1, FoldIsNumber
  <2>3. ASSUME NEW s \in SUBSET M, s # {}
        PROVE  seq[c[s]] + w[s \ {c[s]}] = w[s \ {Max(s)}] + seq[Max(s)]
    <3>1. c[s] = Max(s) /\ Max(s) \in M /\ s \ {Max(s)} \in SUBSET M
      BY <1>3, <2>3
    <3>2. seq[Max(s)] \in Int /\ w[s \ {Max(s)}] \in Int
      BY <1>4, <2>2, <3>1 DEF Numbers
    <3> QED
      BY <3>1, <3>2
  <2>4. w = [s \in SUBSET M |-> IF s = {} THEN 0 ELSE seq[c[s]] + w[s \ {c[s]}]]
    BY <2>1 DEF FoldsUp
  <2>5. w = [s \in SUBSET M |-> IF s = {} THEN 0 ELSE w[s \ {Max(s)}] + seq[Max(s)]]
    BY <2>3, <2>4
  <2> QED
    BY <2>5
<1>6. Folds(u)
  <2> HIDE DEF Folds
  <2> QED
    BY <1>5
<1> HIDE DEF u
<1>7. ASSUME NEW s \in SUBSET M
      PROVE  u[s] = IF s = {} THEN 0 ELSE u[s \ {Max(s)}] + seq[Max(s)]
  BY <1>6
<1>8. ASSUME NEW k \in 1 .. L PROVE u[1 .. k] = u[1 .. k - 1] + seq[k]
  <2> DEFINE s == 1 .. k
  <2>0. k \in Nat /\ k >= 1 /\ k <= L
    OBVIOUS
  <2>1. s \in SUBSET M /\ k \in s /\ s # {} /\ k \in Nat /\ s \subseteq 1 .. k
    <3>1. k \in s
      BY <2>0
    <3>2. ASSUME NEW i \in s PROVE i \in M
      BY <2>0
    <3> QED
      BY <2>0, <3>1, <3>2
  <2>2. Max(s) = k
    <3>1. Max(s) \in s /\ \A n \in s : n <= Max(s)
      <4> HIDE DEF s
      <4> QED
        BY <2>1, GreatestOf
    <3>2. k <= Max(s) /\ Max(s) \in 1 .. k
      BY <2>1, <3>1
    <3> HIDE DEF s
    <3> QED
      BY <3>2
  <2>3. s \ {k} = 1 .. k - 1
    OBVIOUS
  <2>4. u[s] = u[s \ {Max(s)}] + seq[Max(s)]
    <3> HIDE DEF s
    <3> QED
      BY <1>7, <2>1
  <2> HIDE DEF s
  <2> QED
    BY <2>2, <2>3, <2>4 DEF s
<1>9. u[{}] = 0
  BY <1>7
<1> QED
  BY <1>1, <1>8, <1>9

LEMMA SegmentsSum ==
    ASSUME NEW list, NEW begin, NEW start, NEW end, NEW f, NEW t,
           Sampling(list, begin, start, end, f, t)
    PROVE  SumSeq([n \in 1 .. Len(list) - 1 |-> SegmentVal(list[n], list[n + 1], start, end)])
             = t[start .. Clip(start, end, EventAt(list, Len(list)).time) - 1]
<1> DEFINE N == Len(list)
           L == N - 1
           seq == [n \in 1 .. L |-> SegmentVal(list[n], list[n + 1], start, end)]
           At(k) == Clip(start, end, EventAt(list, k).time)
<1>1. /\ list \in Seq(Happening) /\ N >= 1 /\ begin \in Int /\ start \in Int /\ end \in Int
      /\ begin <= start /\ start <= end /\ -KeepDuration <= begin
      /\ \A i, j \in 0 .. N : i <= j => EventAt(list, i).time <= EventAt(list, j).time
      /\ SumsUp(start .. end - 1, f, t)
  BY DEF Sampling, Tells
<1>2. N \in Nat /\ L \in Nat /\ DOMAIN seq = 1 .. L
  BY <1>1, LenProperties
<1>3. ASSUME NEW k \in 0 .. N
      PROVE  /\ EventAt(list, k) \in Happening
             /\ EventAt(list, k).time \in Int /\ EventAt(list, k).value \in Int
             /\ At(k) \in Int /\ start <= At(k) /\ At(k) <= end
  <2>1. EventAt(list, k) \in Happening
    BY <1>1, EventAtType
  <2>2. EventAt(list, k).time \in Int /\ EventAt(list, k).value \in Int
    BY <2>1 DEF Happening
  <2> QED
    BY <1>1, <2>1, <2>2, ClipType
<1>4. ASSUME NEW k \in 0 .. N - 1
      PROVE  At(k) <= At(k + 1) /\ NoEventIn(list, k, At(k), At(k + 1))
  <2>1. k \in 0 .. N /\ k + 1 \in 0 .. N /\ k + 1 # 0 /\ EventAt(list, k + 1) = list[k + 1] /\ k < N
    BY <1>2 DEF EventAt
  <2> DEFINE a == EventAt(list, k).time
             b == EventAt(list, k + 1).time
  <2>2. a \in Int /\ b \in Int /\ a <= b
    <3>1. k <= k + 1
      OBVIOUS
    <3> QED
      BY <1>1, <1>3, <2>1, <3>1
  <2>3. list[k + 1].time = b
    BY <2>1
  <2> HIDE DEF a, b
  <2>4. Clip(start, end, a) <= Clip(start, end, b)
    BY <1>1, <2>2 DEF Clip
  <2>5. Clip(start, end, a) < Clip(start, end, b) => a <= Clip(start, end, a) /\ Clip(start, end, b) <= b
    BY <1>1, <2>2 DEF Clip
  <2> QED
    BY <2>3, <2>4, <2>5 DEF NoEventIn, a, b
<1>5. ASSUME NEW k \in 0 .. N - 1
      PROVE  /\ t[start .. At(k) - 1] \in Int
             /\ t[start .. At(k + 1) - 1] = t[start .. At(k) - 1] + EventAt(list, k).value * (At(k + 1) - At(k))
  <2>1. k \in 0 .. N /\ k + 1 \in 0 .. N
    BY <1>2
  <2> HIDE DEF At
  <2> QED
    BY <1>3, <1>4, <2>1, SegmentSum
<1>6. ASSUME NEW k \in 1 .. L
      PROVE  seq[k] = EventAt(list, k).value * (At(k + 1) - At(k)) /\ seq[k] \in Int
  <2>1. /\ k \in 0 .. N /\ k + 1 \in 0 .. N /\ EventAt(list, k + 1) = list[k + 1]
        /\ EventAt(list, k) = list[k] /\ k <= k + 1
    BY <1>2 DEF EventAt
  <2>2. EventAt(list, k).time <= EventAt(list, k + 1).time
    BY <1>1, <2>1
  <2>3. seq[k] = SegmentVal(EventAt(list, k), EventAt(list, k + 1), start, end)
    BY <2>1
  <2>4. seq[k] = EventAt(list, k).value * (At(k + 1) - At(k))
    <3> DEFINE a == EventAt(list, k)
               b == EventAt(list, k + 1)
    <3>1. a \in Happening /\ b \in Happening /\ a.time <= b.time
      BY <1>3, <2>1, <2>2
    <3> HIDE DEF a, b
    <3>2. SegmentVal(a, b, start, end) = a.value * (Clip(start, end, b.time) - Clip(start, end, a.time))
      BY <1>1, <3>1, SegmentIsClipped
    <3> QED
      BY <2>3, <3>2 DEF a, b
  <2>5. \A a, b, c \in Int : a * (b - c) \in Int
    OBVIOUS
  <2> HIDE DEF At, seq
  <2> QED
    BY <1>3, <2>1, <2>4, <2>5
<1>7. Numbers(seq, 1 .. L)
  <2> HIDE DEF seq
  <2> QED
    BY <1>6 DEF Numbers
<1>8. PICK u : /\ SumSeq(seq) = u[1 .. L] /\ u[{}] = 0
               /\ \A k \in 1 .. L : u[1 .. k] = u[1 .. k - 1] + seq[k]
  <2> HIDE DEF seq, L
  <2> QED
    BY <1>2, <1>7, FoldLeftSums
<1> DEFINE T == {k \in Nat : k <= L => u[1 .. k] = t[start .. At(k + 1) - 1]}
<1>9. 0 \in T
  <2>1. At(0) = start
    <3>1. EventAt(list, 0).time <= start
      BY <1>1, TrackerAssumption DEF EventAt, NoEvent
    <3>2. EventAt(list, 0).time \in Int
      BY <1>2, <1>3
    <3> QED
      BY <1>1, <3>1, <3>2 DEF Clip
  <2>2. EventAt(list, 0).value = 0
    BY DEF EventAt, NoEvent
  <2>3. t[start .. start - 1] = 0
    <3> DEFINE to == end - 1
    <3>1. to \in Int /\ SumsUp(start .. to, f, t) /\ start <= start
      BY <1>1
    <3> HIDE DEF to
    <3> QED
      BY <1>1, <3>1, SumOfNothing
  <2>4. 0 \in 0 .. N - 1 /\ 0 + 1 \in 0 .. N
    BY <1>2
  <2> HIDE DEF At
  <2>5. t[start .. At(0 + 1) - 1] = t[start .. At(0) - 1] + EventAt(list, 0).value * (At(0 + 1) - At(0))
    BY <1>5, <2>4
  <2>6. 0 * (At(0 + 1) - At(0)) = 0
    <3>1. At(0) \in Int /\ At(0 + 1) \in Int
      BY <1>1, <1>3, <2>1, <2>4
    <3> QED
      BY <3>1
  <2>7. 1 .. 0 = {}
    OBVIOUS
  <2>8. t[start .. At(0 + 1) - 1] = 0
    <3> HIDE DEF T
    <3> QED
      BY <2>1, <2>2, <2>3, <2>5, <2>6
  <2>9. u[1 .. 0] = 0
    BY <1>8, <2>7
  <2> QED
    BY <2>8, <2>9
<1>10. ASSUME NEW k \in Nat, k \in T PROVE k + 1 \in T
  <2> SUFFICES ASSUME k + 1 <= L PROVE u[1 .. k + 1] = t[start .. At((k + 1) + 1) - 1]
    OBVIOUS
  <2>1. k + 1 \in 1 .. L /\ (k + 1) - 1 = k /\ k <= L /\ k + 1 \in 0 .. N - 1
    BY <1>2
  <2>2. u[1 .. k] = t[start .. At(k + 1) - 1]
    BY <1>10, <2>1
  <2> HIDE DEF At, seq
  <2>3. u[1 .. k + 1] = u[1 .. k] + seq[k + 1]
    BY <1>8, <2>1
  <2> QED
    BY <1>5, <1>6, <2>1, <2>2, <2>3
<1>11. L \in T
  <2> HIDE DEF T
  <2> QED
    BY <1>2, <1>9, <1>10, NatSetInduction
<1>12. L + 1 = N
  BY <1>2
<1> QED
  BY <1>2, <1>8, <1>11, <1>12

(* The value of a sample as getResampleValueExhaust computes it.           *)
ExhaustVal(list, step, start, end) ==
    LET last == list[Len(list)]
    IN  IF Len(list) = 1
          THEN IF end < last.time THEN 0
               ELSE IF last.time < start THEN last.value * step
               ELSE last.value * (end - last.time)
        ELSE LET total == SumSeq([n \in 1 .. Len(list) - 1 |->
                            SegmentVal(list[n], list[n + 1], start, end)])
             IN  IF last.time <= start THEN last.value * step
                 ELSE IF last.time < end THEN total + last.value * (end - last.time)
                 ELSE total

LEMMA ExhaustValIsSum ==
    ASSUME NEW list, NEW begin, NEW start, NEW end, NEW f, NEW t,
           Sampling(list, begin, start, end, f, t)
    PROVE  ExhaustVal(list, end - start, start, end) = t[start .. end - 1]
<1> DEFINE N == Len(list)
           last == list[N]
           total == SumSeq([n \in 1 .. N - 1 |-> SegmentVal(list[n], list[n + 1], start, end)])
           since == Clip(start, end, last.time)
<1>1. /\ list \in Seq(Happening) /\ N >= 1 /\ begin \in Int /\ start \in Int /\ end \in Int
      /\ begin <= start /\ start <= end
      /\ SumsUp(start .. end - 1, f, t)
  BY DEF Sampling, Tells
<1>2. N \in Nat /\ N \in 0 .. N /\ EventAt(list, N) = last
  BY <1>1, LenProperties DEF EventAt
<1>3. last \in Happening /\ last.time \in Int /\ last.value \in Int
  <2>1. last \in Happening
    BY <1>1, <1>2, EventAtType
  <2> QED
    BY <2>1 DEF Happening
<1>4. total = t[start .. since - 1]
  BY <1>2, SegmentsSum
<1> HIDE DEF total, last
<1>5. since \in Int /\ start <= since /\ since <= end
  BY <1>1, <1>3, ClipType
<1>6. since < end => last.time <= since
  BY <1>1, <1>3 DEF Clip
<1>7. t[start .. end - 1] = t[start .. since - 1] + last.value * (end - since) /\ t[start .. since - 1] \in Int
  <2>1. NoEventIn(list, N, since, end) /\ end <= end
    BY <1>1, <1>2, <1>6 DEF NoEventIn
  <2>2. start \in Int /\ end \in Int
    BY <1>1
  <2> HIDE DEF since, N
  <2>3. /\ t[start .. since - 1] \in Int
        /\ t[start .. end - 1] = t[start .. since - 1] + EventAt(list, N).value * (end - since)
    BY <1>2, <1>5, <2>1, <2>2, SegmentSum DEF N
  <2> QED
    BY <1>2, <2>3
<1>8. t[start .. start - 1] = 0
  <2> DEFINE to == end - 1
  <2>1. to \in Int /\ SumsUp(start .. to, f, t) /\ start <= start
    BY <1>1
  <2> HIDE DEF to
  <2> QED
    BY <1>1, <2>1, SumOfNothing
<1>9. N = 1 => total = 0
  <2> SUFFICES ASSUME N = 1 PROVE total = 0
    OBVIOUS
  <2> DEFINE seq == [n \in 1 .. N - 1 |-> SegmentVal(list[n], list[n + 1], start, end)]
  <2>1. N - 1 \in Nat /\ DOMAIN seq = 1 .. N - 1 /\ 1 .. N - 1 = {}
    OBVIOUS
  <2>2. Numbers(seq, 1 .. N - 1)
    BY <2>1 DEF Numbers
  <2> HIDE DEF seq, N
  <2>3. PICK u : SumSeq(seq) = u[1 .. N - 1] /\ u[{}] = 0
    BY <2>1, <2>2, FoldLeftSums
  <2> QED
    BY <2>1, <2>3 DEF total, seq
<1>10. CASE last.time <= start
  <2>1. since = start
    BY <1>1, <1>3, <1>10 DEF Clip
  <2>2. t[start .. end - 1] = last.value * (end - start)
    <3>1. last.value * (end - start) \in Int
      BY <1>1, <1>3
    <3> HIDE DEF since
    <3> QED
      BY <1>7, <1>8, <2>1, <3>1
  <2>3. last.time = start => last.value * (end - last.time) = last.value * (end - start)
    OBVIOUS
  <2>4. ~ (end < last.time) /\ (~ (last.time < start) => last.time = start)
    BY <1>1, <1>3, <1>10
  <2> QED
    BY <1>10, <2>2, <2>3, <2>4 DEF ExhaustVal, last, N
<1>11. CASE ~ (last.time <= start) /\ last.time < end
  <2>1. since = last.time /\ ~ (last.time < start) /\ ~ (end < last.time)
    BY <1>1, <1>3, <1>11 DEF Clip
  <2>2. t[start .. end - 1] = total + last.value * (end - last.time)
    BY <1>4, <1>7, <2>1
  <2>3. last.value * (end - last.time) \in Int
    BY <1>1, <1>3
  <2>4. N = 1 => t[start .. end - 1] = last.value * (end - last.time)
    BY <1>9, <2>2, <2>3
  <2> QED
    BY <1>11, <2>1, <2>2, <2>4 DEF ExhaustVal, last, N, total
<1>12. CASE ~ (last.time <= start) /\ ~ (last.time < end)
  <2>1. since = end /\ ~ (last.time < start)
    BY <1>1, <1>3, <1>12 DEF Clip
  <2>2. t[start .. end - 1] = total
    BY <1>4, <2>1
  <2>3. ~ (end < last.time) => last.time = end
    BY <1>1, <1>3, <1>12
  <2>4. last.value * (end - end) = 0
    BY <1>1, <1>3
  <2> QED
    BY <1>9, <1>12, <2>1, <2>2, <2>3, <2>4 DEF ExhaustVal, last, N, total
<1> QED
  BY <1>10, <1>11, <1>12

LEMMA ExhaustIsSums ==
    ASSUME NEW list, Tells(list, BeginOf(list)), NEW count \in Nat \ {0}
    PROVE  GetResampleValueExhaust(list, count) = SumsOf(BeginOf(list), count)
<1> DEFINE begin == BeginOf(list)
           S(id) == Bound(begin, count, id)
           step == KeepDuration \div count
<1>1. Tells(list, begin) /\ begin \in Int
  BY DEF Tells
<1>2. GetResampleValueExhaust(list, count) = [id \in 1 .. count |-> ExhaustVal(list, step, S(id - 1), S(id))]
  BY DEF GetResampleValueExhaust, ExhaustVal, SumSeq, Bound, BeginOf
<1> HIDE DEF begin
<1>3. ASSUME NEW id \in 1 .. count
      PROVE  ExhaustVal(list, step, S(id - 1), S(id)) = SumOfTicks(S(id - 1), S(id))
  <2> DEFINE start == S(id - 1)
             end == S(id)
  <2>1. start \in Int /\ end \in Int /\ begin <= start /\ start <= end
    BY <1>1, BoundsGrow
  <2>2. end = start + step
    BY <1>1, BoundsGrow
  <2>3. step = end - start
    <3>1. step \in Int
      BY TrackerAssumption
    <3> HIDE DEF start, end, step
    <3> QED
      BY <2>1, <2>2, <3>1
  <2> HIDE DEF start, end, step
  <2>5. PICK f, t : /\ Sampling(list, begin, start, end, f, t)
                    /\ t[start .. end - 1] = SumOfTicks(start, end)
    <3>1. HasSums(list, begin, start, end)
      BY <1>1, <2>1, SampleSums
    <3> QED
      BY <3>1 DEF HasSums
  <2>4. ExhaustVal(list, end - start, start, end) = t[start .. end - 1]
    BY <2>5, ExhaustValIsSum
  <2> QED
    BY <2>3, <2>4, <2>5 DEF start, end
<1>4. [id \in 1 .. count |-> ExhaustVal(list, step, S(id - 1), S(id))] = SumsOf(begin, count)
  BY <1>3 DEF SumsOf
<1> QED
  BY <1>2, <1>4 DEF begin

-------------------------------------------------------------------------------
(* The events in the list are the last ones that were pushed, and no event *)
(* is at two places; what was dropped is older than an event that is kept. *)
Stamped == [time : Nat, value : TrackedValue]

Apart(list, pool) ==
    /\ \A m, n \in 1 .. Len(list) : list[m] = list[n] => m = n
    /\ \A m, n \in 1 .. Len(pool) : pool[m] = pool[n] => m = n
    /\ \A m \in 1 .. Len(list), n \in 1 .. Len(pool) : list[m] # pool[n]

Placed(E, list, pool) ==
    list \in Seq(1 .. E) /\ pool \in Seq(1 .. E) /\ Apart(list, pool)

HoldsEnd(h, ev, list) ==
    Len(list) <= Len(h) /\ \A n \in 1 .. Len(list) : ev[list[n]] = h[Len(h) + 1 - n]

KeepsOld(h, k) ==
    h # <<>> => /\ k >= 1
                /\ k < Len(h) => h[Len(h)].time - h[Len(h) + 1 - k].time > KeepDuration

EventsInv ==
    /\ InOrder(history)
    /\ events \in Seq(Stamped)
    /\ Placed(Len(events), eventList, eventPool)
    /\ HoldsEnd(history, events, eventList)
    /\ KeepsOld(history, Len(eventList))

InFront(ev, list, e, contents, longer, rest) ==
    /\ contents \in Seq(Stamped) /\ Placed(Len(contents), longer, rest)
    /\ Len(longer) = Len(list) + 1 /\ contents[longer[1]] = e
    /\ \A n \in 1 .. Len(list) : longer[n + 1] = list[n] /\ contents[list[n]] = ev[list[n]]

(* getEvent and setEvent: whether it is a new event or one of the pool, it *)
(* is in front of the list and nowhere else, and no other one changes.     *)
LEMMA EventTaken ==
    ASSUME NEW ev \in Seq(Stamped), NEW list, NEW pool, Placed(Len(ev), list, pool),
           NEW e \in Stamped
    PROVE  LET id == IF pool = <<>> THEN Len(ev) + 1 ELSE pool[1]
               contents == [n \in 1 .. Len(ev) \cup {id} |-> IF n = id THEN e ELSE ev[n]]
               rest == IF pool = <<>> THEN <<>> ELSE Tail(pool)
               longer == <<id>> \o list
           IN  InFront(ev, list, e, contents, longer, rest)
<1> DEFINE E == Len(ev)
           K == Len(list)
           P == Len(pool)
           id == IF pool = <<>> THEN E + 1 ELSE pool[1]
           contents == [n \in 1 .. E \cup {id} |-> IF n = id THEN e ELSE ev[n]]
           rest == IF pool = <<>> THEN <<>> ELSE Tail(pool)
           longer == <<id>> \o list
           F == IF pool = <<>> THEN E + 1 ELSE E
           R == IF pool = <<>> THEN 0 ELSE P - 1
<1>1. /\ list \in Seq(1 .. E) /\ pool \in Seq(1 .. E) /\ E \in Nat /\ K \in Nat /\ P \in Nat
      /\ \A m, n \in 1 .. K : list[m] = list[n] => m = n
      /\ \A m, n \in 1 .. P : pool[m] = pool[n] => m = n
      /\ \A m \in 1 .. K, n \in 1 .. P : list[m] # pool[n]
  BY LenProperties DEF Placed, Apart
<1>2. pool # <<>> => P >= 1
  BY <1>1, EmptySeq
<1>3. /\ \A n \in 1 .. K : list[n] \in 1 .. E
      /\ \A n \in 1 .. P : pool[n] \in 1 .. E
      /\ \A n \in 1 .. E : ev[n] \in Stamped
  BY <1>1, ElementOfSeq
<1> HIDE DEF E, K, P
<1>4. id \in 1 .. F /\ 1 .. E \cup {id} = 1 .. F /\ F \in Nat /\ 1 .. E \subseteq 1 .. F
  <2>1. CASE pool = <<>>
    BY <1>1, <2>1
  <2>2. CASE pool # <<>>
    <3>1. pool[1] \in 1 .. E
      BY <1>1, <1>2, <1>3, <2>2
    <3> QED
      BY <1>1, <2>2, <3>1
  <2> QED
    BY <2>1, <2>2
<1>5. \A n \in 1 .. K : list[n] # id
  <2>1. CASE pool = <<>>
    <3> SUFFICES ASSUME NEW n \in 1 .. K PROVE list[n] # E + 1
      BY <2>1
    <3>1. list[n] \in 1 .. E
      BY <1>3
    <3> QED
      BY <1>1, <3>1
  <2>2. CASE pool # <<>>
    <3>1. 1 \in 1 .. P
      BY <1>1, <1>2, <2>2
    <3> QED
      BY <1>1, <2>2, <3>1
  <2> QED
    BY <2>1, <2>2
<1>6. contents \in Seq(Stamped) /\ Len(contents) = F
  <2>1. contents = [n \in 1 .. F |-> IF n = id THEN e ELSE ev[n]]
    BY <1>4
  <2>2. \A n \in 1 .. F : n # id => n \in 1 .. E
    BY <1>4
  <2> HIDE DEF id, F
  <2>3. contents \in [1 .. F -> Stamped]
    BY <1>3, <2>1, <2>2
  <2> HIDE DEF contents
  <2> QED
    BY <1>4, <2>3
<1>7. contents[id] = e /\ \A n \in 1 .. K : contents[list[n]] = ev[list[n]]
  <2> HIDE DEF id, F
  <2> QED
    BY <1>3, <1>5
<1>8. /\ longer \in Seq(1 .. F) /\ Len(longer) = K + 1 /\ longer[1] = id
      /\ \A n \in 1 .. K : longer[n + 1] = list[n]
  <2>1. list \in Seq(1 .. F)
    <3>1. list \in [1 .. K -> 1 .. E]
      BY <1>1, LenProperties DEF K
    <3>2. list \in [1 .. K -> 1 .. F]
      BY <1>4, <3>1
    <3> DEFINE G == 1 .. F
    <3>3. list \in [1 .. K -> G] /\ K \in Nat
      BY <1>1, <3>2
    <3> HIDE DEF G
    <3>4. list \in Seq(G)
      BY <3>3
    <3> QED
      BY <3>4 DEF G
  <2> HIDE DEF id, F
  <2>2. <<id>> \in Seq(1 .. F) /\ Len(<<id>>) = 1 /\ <<id>>[1] = id
    BY <1>4
  <2>3. /\ longer \in Seq(1 .. F) /\ Len(longer) = 1 + K
        /\ \A i \in 1 .. 1 + K : longer[i] = IF i <= 1 THEN <<id>>[i] ELSE list[i - 1]
    BY <2>1, <2>2, ConcatProperties DEF K
  <2> HIDE DEF longer
  <2>4. 1 \in 1 .. 1 + K /\ 1 + K = K + 1
    BY <1>1
  <2>5. ASSUME NEW n \in 1 .. K PROVE longer[n + 1] = list[n]
    <3>1. n + 1 \in 1 .. 1 + K /\ ~ (n + 1 <= 1) /\ (n + 1) - 1 = n
      BY <1>1
    <3> QED
      BY <2>3, <3>1
  <2> QED
    BY <2>2, <2>3, <2>4, <2>5
<1>9. /\ rest \in Seq(1 .. F) /\ Len(rest) = R /\ R \in Nat
      /\ \A n \in 1 .. R : n + 1 \in 1 .. P /\ rest[n] = pool[n + 1] /\ rest[n] # id
  <2>1. CASE pool = <<>>
    BY <2>1
  <2>2. CASE pool # <<>>
    <3>1. /\ Tail(pool) \in Seq(1 .. E) /\ Len(Tail(pool)) = P - 1
          /\ \A i \in 1 .. P - 1 : Tail(pool)[i] = pool[i + 1]
      BY <1>1, <2>2, HeadTailProperties DEF P
    <3>2. rest = Tail(pool) /\ F = E /\ R = P - 1 /\ id = pool[1]
      BY <2>2
    <3>3. P - 1 \in Nat /\ \A n \in 1 .. P - 1 : n + 1 \in 1 .. P /\ n + 1 # 1 /\ 1 \in 1 .. P
      BY <1>1, <1>2, <2>2
    <3>4. \A n \in 1 .. P - 1 : pool[n + 1] # pool[1]
      BY <1>1, <3>3
    <3> HIDE DEF rest, F, R, id
    <3> QED
      BY <3>1, <3>2, <3>3, <3>4
  <2> QED
    BY <2>1, <2>2
<1> HIDE DEF id, contents, rest, longer, F, R
<1>10. ASSUME NEW m \in 1 .. K + 1, NEW n \in 1 .. K + 1, longer[m] = longer[n] PROVE m = n
  <2>1. \A i \in 1 .. K + 1 : i # 1 => i - 1 \in 1 .. K /\ (i - 1) + 1 = i
    BY <1>1
  <2>2. \A i \in 1 .. K + 1 : i # 1 => longer[i] = list[i - 1] /\ longer[i] # id
    BY <1>5, <1>8, <2>1
  <2>3. CASE m = 1 \/ n = 1
    BY <1>8, <1>10, <2>2, <2>3
  <2>4. CASE m # 1 /\ n # 1
    <3>1. m - 1 = n - 1
      BY <1>1, <1>10, <2>1, <2>2, <2>4
    <3> QED
      BY <3>1
  <2> QED
    BY <2>3, <2>4
<1>11. ASSUME NEW m \in 1 .. R, NEW n \in 1 .. R, rest[m] = rest[n] PROVE m = n
  <2>1. m + 1 = n + 1
    BY <1>1, <1>9, <1>11
  <2> QED
    BY <1>9, <2>1
<1>12. ASSUME NEW m \in 1 .. K + 1, NEW n \in 1 .. R PROVE longer[m] # rest[n]
  <2>1. CASE m = 1
    BY <1>8, <1>9, <2>1
  <2>2. CASE m # 1
    <3>1. m - 1 \in 1 .. K /\ (m - 1) + 1 = m
      BY <1>1, <2>2
    <3>2. longer[m] = list[m - 1]
      BY <1>8, <3>1
    <3>3. n + 1 \in 1 .. P /\ rest[n] = pool[n + 1]
      BY <1>9
    <3> QED
      BY <1>1, <3>1, <3>2, <3>3
  <2> QED
    BY <2>1, <2>2
<1>13. Apart(longer, rest)
  BY <1>8, <1>9, <1>10, <1>11, <1>12 DEF Apart
<1>14. Placed(Len(contents), longer, rest)
  BY <1>6, <1>8, <1>9, <1>13 DEF Placed
<1>15. InFront(ev, list, e, contents, longer, rest)
  BY <1>6, <1>7, <1>8, <1>14 DEF InFront, K
<1> QED
  BY <1>15 DEF id, contents, rest, longer, E

(* cleanUpOverflow moves events from the list to the pool, and of what is  *)
(* too old the list keeps the newest.                                      *)
LEMMA OverflowMoves ==
    ASSUME NEW h, InOrder(h), NEW ev \in Seq(Stamped), NEW list, NEW pool,
           Placed(Len(ev), list, pool), HoldsEnd(h, ev, list), Len(list) >= 1,
           Len(list) < Len(h) => h[Len(h)].time - h[Len(h) + 1 - Len(list)].time > KeepDuration
    PROVE  LET clean == CleanUpOverflow(list, pool, [n \in DOMAIN ev |-> ev[n].time])
           IN  /\ Placed(Len(ev), clean.list, clean.pool)
               /\ HoldsEnd(h, ev, clean.list) /\ KeepsOld(h, Len(clean.list))
<1> DEFINE E == Len(ev)
           H == Len(h)
           K == Len(list)
           P == Len(pool)
           time == [n \in DOMAIN ev |-> ev[n].time]
           clean == CleanUpOverflow(list, pool, time)
           Old(n) == time[list[1]] - time[list[n]] > KeepDuration
           places == {n \in 1 .. K : n <= 2 \/ ~ Old(n)}
           kept == Max(places)
           popped == SubSeq(list, kept + 1, K)
<1>1. /\ list \in Seq(1 .. E) /\ pool \in Seq(1 .. E) /\ E \in Nat /\ K \in Nat /\ P \in Nat
      /\ H \in Nat /\ K <= H /\ K >= 1 /\ DOMAIN ev = 1 .. E /\ KeepDuration \in Nat
      /\ \A n \in 1 .. K : ev[list[n]] = h[H + 1 - n]
  BY LenProperties, TrackerAssumption DEF Placed, HoldsEnd, InOrder
<1>2. /\ \A m, n \in 1 .. K : list[m] = list[n] => m = n
      /\ \A m, n \in 1 .. P : pool[m] = pool[n] => m = n
      /\ \A m \in 1 .. K, n \in 1 .. P : list[m] # pool[n]
  BY DEF Placed, Apart
<1>3. clean = IF popped = <<>> THEN [list |-> list, pool |-> pool]
              ELSE [list |-> SubSeq(list, 1, kept + 1), pool |-> Tail(popped) \o pool]
  BY DEF CleanUpOverflow
<1>4. \A n \in 1 .. K : list[n] \in 1 .. E
  BY <1>1, ElementOfSeq
<1> HIDE DEF E, H, K, P
<1>5. ASSUME NEW n \in 1 .. K PROVE Old(n) <=> h[H].time - h[H + 1 - n].time > KeepDuration
  <2>1. 1 \in 1 .. K /\ H + 1 - 1 = H
    BY <1>1
  <2>2. time[list[1]] = ev[list[1]].time /\ time[list[n]] = ev[list[n]].time
    BY <1>1, <1>4, <2>1
  <2>3. time[list[1]] = h[H].time /\ time[list[n]] = h[H + 1 - n].time
    BY <1>1, <2>1, <2>2
  <2> HIDE DEF time
  <2> QED
    BY <2>3
<1> HIDE DEF Old, clean
<1>6. kept \in places /\ \A n \in places : n <= kept
  <2>1. places \subseteq 1 .. K /\ 1 \in places
    BY <1>1
  <2>2. places # {}
    BY <2>1
  <2> HIDE DEF places
  <2> QED
    BY <1>1, <2>1, <2>2, GreatestOf
<1>7. kept \in 1 .. K /\ \A n \in 1 .. K : n > kept => n > 2 /\ Old(n)
  <2>1. kept \in 1 .. K
    BY <1>6
  <2>2. ASSUME NEW n \in 1 .. K, n > kept PROVE n > 2 /\ Old(n)
    <3>1. n \notin places
      <4> HIDE DEF places, kept
      <4> QED
        BY <1>1, <1>6, <2>1, <2>2
    <3> QED
      BY <1>1, <3>1
  <2> QED
    BY <2>1, <2>2
<1> HIDE DEF places, kept
<1>8. /\ popped \in Seq(1 .. E) /\ Len(popped) = K - kept
      /\ \A i \in 1 .. K - kept : kept + i \in 1 .. K /\ popped[i] = list[kept + i]
  <2>1. /\ kept + 1 \in Int /\ K \in Int /\ K - (kept + 1) + 1 = K - kept
        /\ (IF kept + 1 <= K THEN K - (kept + 1) + 1 ELSE 0) = K - kept
    <3>1. kept \in Int /\ K \in Int /\ kept <= K
      BY <1>1, <1>7
    <3> HIDE DEF K
    <3> QED
      BY <3>1
  <2>2. \A i \in kept + 1 .. K : list[i] \in 1 .. E
    BY <1>1, <1>4, <1>7
  <2>3. /\ SubSeq(list, kept + 1, K) \in Seq(1 .. E)
        /\ Len(SubSeq(list, kept + 1, K)) = IF kept + 1 <= K THEN K - (kept + 1) + 1 ELSE 0
        /\ \A i \in 1 .. K - (kept + 1) + 1 : SubSeq(list, kept + 1, K)[i] = list[(kept + 1) + i - 1]
    BY <2>1, <2>2, SubSeqProperties
  <2>4. \A i \in 1 .. K - kept : (kept + 1) + i - 1 = kept + i /\ kept + i \in 1 .. K
    BY <1>1, <1>7
  <2> HIDE DEF popped
  <2> QED
    BY <2>1, <2>3, <2>4 DEF popped
<1> HIDE DEF popped
<1>9. CASE popped = <<>>
  <2>1. kept = K
    BY <1>1, <1>7, <1>8, <1>9
  <2>2. clean.list = list /\ clean.pool = pool
    BY <1>3, <1>9
  <2>3. KeepsOld(h, K)
    BY <1>1 DEF KeepsOld, K, H
  <2> QED
    BY <2>2, <2>3 DEF E, K, clean
<1>10. CASE popped # <<>>
  <2> DEFINE short == SubSeq(list, 1, kept + 1)
             more == Tail(popped) \o pool
             D == K - kept - 1
  <2>1. clean.list = short /\ clean.pool = more
    BY <1>3, <1>10
  <2>2. K - kept >= 1 /\ kept + 1 \in 1 .. K /\ D \in Nat
    <3>1. Len(popped) >= 1
      BY <1>8, <1>10, EmptySeq
    <3> QED
      BY <1>1, <1>7, <1>8, <3>1
  <2>3. /\ short \in Seq(1 .. E) /\ Len(short) = kept + 1
        /\ \A n \in 1 .. kept + 1 : n \in 1 .. K /\ short[n] = list[n]
    <3>1. 1 \in Int /\ kept + 1 \in Int /\ 1 <= kept + 1 /\ (kept + 1) - 1 + 1 = kept + 1
      BY <1>7, <2>2
    <3>2. \A i \in 1 .. kept + 1 : i \in 1 .. K /\ 1 + i - 1 = i
      BY <1>1, <2>2
    <3>3. \A i \in 1 .. kept + 1 : list[i] \in 1 .. E
      BY <1>4, <3>2
    <3>4. /\ short \in Seq(1 .. E)
          /\ Len(short) = IF 1 <= kept + 1 THEN (kept + 1) - 1 + 1 ELSE 0
          /\ \A i \in 1 .. (kept + 1) - 1 + 1 : short[i] = list[1 + i - 1]
      BY <3>1, <3>3, SubSeqProperties
    <3> HIDE DEF short
    <3> QED
      BY <3>1, <3>2, <3>4
  <2>4. /\ Tail(popped) \in Seq(1 .. E) /\ Len(Tail(popped)) = D
        /\ \A i \in 1 .. D : kept + 1 + i \in 1 .. K /\ Tail(popped)[i] = list[kept + 1 + i]
    <3>1. /\ Tail(popped) \in Seq(1 .. E) /\ Len(Tail(popped)) = Len(popped) - 1
          /\ \A i \in 1 .. Len(Tail(popped)) : Tail(popped)[i] = popped[i + 1]
      BY <1>8, <1>10, HeadTailProperties
    <3>2. Len(popped) - 1 = D
      BY <1>1, <1>7, <1>8
    <3>3. \A i \in 1 .. D : i + 1 \in 1 .. K - kept /\ kept + (i + 1) = kept + 1 + i
      BY <1>1, <1>7, <2>2
    <3> HIDE DEF D
    <3> QED
      BY <1>8, <3>1, <3>2, <3>3
  <2>5. /\ more \in Seq(1 .. E) /\ Len(more) = D + P
        /\ \A i \in 1 .. D + P :
              \/ i \in 1 .. D /\ kept + 1 + i \in 1 .. K /\ more[i] = list[kept + 1 + i]
              \/ i - D \in 1 .. P /\ more[i] = pool[i - D]
    <3>1. /\ more \in Seq(1 .. E) /\ Len(more) = D + P
          /\ \A i \in 1 .. D + P : more[i] = IF i <= D THEN Tail(popped)[i] ELSE pool[i - D]
      <4> DEFINE G == 1 .. E
                 others == Tail(popped)
      <4>1. others \in Seq(G) /\ pool \in Seq(G) /\ Len(others) = D /\ Len(pool) = P
        BY <1>1, <2>4 DEF P
      <4> HIDE DEF G, others, D
      <4>2. /\ others \o pool \in Seq(G) /\ Len(others \o pool) = Len(others) + Len(pool)
            /\ \A i \in 1 .. Len(others) + Len(pool) :
                 (others \o pool)[i] = IF i <= Len(others) THEN others[i] ELSE pool[i - Len(others)]
        BY <4>1, ConcatProperties
      <4>3. /\ others \o pool \in Seq(G) /\ Len(others \o pool) = D + P
            /\ \A i \in 1 .. D + P : (others \o pool)[i] = IF i <= D THEN others[i] ELSE pool[i - D]
        BY <4>1, <4>2
      <4> QED
        BY <4>3 DEF G, others
    <3>2. \A i \in 1 .. D + P : (i <= D => i \in 1 .. D) /\ (~ (i <= D) => i - D \in 1 .. P)
      <4>1. D \in Nat /\ P \in Nat
        BY <1>1, <2>2
      <4> HIDE DEF D
      <4> QED
        BY <4>1
    <3> HIDE DEF more, D
    <3> QED
      BY <2>4, <3>1, <3>2
  <2> HIDE DEF short, more
  <2>6. ASSUME NEW m \in 1 .. D + P, NEW n \in 1 .. D + P, more[m] = more[n] PROVE m = n
    <3>1. CASE /\ m \in 1 .. D /\ kept + 1 + m \in 1 .. K /\ more[m] = list[kept + 1 + m]
               /\ n \in 1 .. D /\ kept + 1 + n \in 1 .. K /\ more[n] = list[kept + 1 + n]
      <4>1. kept + 1 + m = kept + 1 + n
        BY <1>2, <2>6, <3>1
      <4> QED
        BY <1>7, <4>1
    <3>2. CASE /\ m - D \in 1 .. P /\ more[m] = pool[m - D]
               /\ n - D \in 1 .. P /\ more[n] = pool[n - D]
      <4>1. m - D = n - D
        BY <1>2, <2>6, <3>2
      <4> QED
        BY <2>2, <4>1
    <3>3. CASE \/ /\ kept + 1 + m \in 1 .. K /\ more[m] = list[kept + 1 + m]
                  /\ n - D \in 1 .. P /\ more[n] = pool[n - D]
               \/ /\ m - D \in 1 .. P /\ more[m] = pool[m - D]
                  /\ kept + 1 + n \in 1 .. K /\ more[n] = list[kept + 1 + n]
      BY <1>2, <2>6, <3>3
    <3> QED
      BY <2>5, <3>1, <3>2, <3>3
  <2>7. ASSUME NEW m \in 1 .. kept + 1, NEW n \in 1 .. D + P PROVE short[m] # more[n]
    <3>1. m \in 1 .. K /\ short[m] = list[m]
      BY <2>3
    <3>2. CASE n \in 1 .. D /\ kept + 1 + n \in 1 .. K /\ more[n] = list[kept + 1 + n]
      <4>1. m # kept + 1 + n
        BY <1>7, <3>2
      <4> QED
        BY <1>2, <3>1, <3>2, <4>1
    <3>3. CASE n - D \in 1 .. P /\ more[n] = pool[n - D]
      BY <1>2, <3>1, <3>3
    <3> QED
      BY <2>5, <3>2, <3>3
  <2>8. ASSUME NEW m \in 1 .. kept + 1, NEW n \in 1 .. kept + 1, short[m] = short[n] PROVE m = n
    BY <1>2, <2>3, <2>8
  <2> HIDE DEF D
  <2>9. Apart(short, more)
    BY <2>3, <2>5, <2>6, <2>7, <2>8 DEF Apart
  <2>10. Placed(E, short, more)
    BY <2>3, <2>5, <2>9 DEF Placed
  <2>11. HoldsEnd(h, ev, short)
    <3>1. kept + 1 <= H
      BY <1>1, <2>2
    <3>2. \A n \in 1 .. kept + 1 : ev[short[n]] = h[H + 1 - n]
      BY <1>1, <2>3
    <3> QED
      BY <2>3, <3>1, <3>2 DEF HoldsEnd, H
  <2>12. KeepsOld(h, kept + 1)
    <3>1. Old(kept + 1) /\ kept + 1 >= 1
      BY <1>7, <2>2
    <3>2. h[H].time - h[H + 1 - (kept + 1)].time > KeepDuration
      BY <1>5, <2>2, <3>1
    <3> QED
      BY <3>1, <3>2 DEF KeepsOld, H
  <2> QED
    BY <2>1, <2>3, <2>10, <2>11, <2>12 DEF E, clean, time
<1> QED
  BY <1>9, <1>10

LEMMA EventsStart == TrackerInit => EventsInv
<1> SUFFICES ASSUME TrackerInit PROVE EventsInv
  OBVIOUS
<1>1. history = <<>> /\ events = <<>> /\ eventList = <<>> /\ eventPool = <<>>
  BY DEF TrackerInit
<1>2. \A S : <<>> \in Seq(S)
  OBVIOUS
<1>3. Len(<<>>) = 0
  OBVIOUS
<1>4. InOrder(history)
  BY <1>1, <1>2, <1>3 DEF InOrder
<1>5. Placed(Len(events), eventList, eventPool)
  BY <1>1, <1>2, <1>3 DEF Placed, Apart
<1>6. HoldsEnd(history, events, eventList) /\ KeepsOld(history, Len(eventList))
  BY <1>1, <1>3 DEF HoldsEnd, KeepsOld
<1> QED
  BY <1>1, <1>2, <1>4, <1>5, <1>6 DEF EventsInv

LEMMA EventsStep == EventsInv /\ [TrackerNext]_trackerVars => EventsInv'
<1> SUFFICES ASSUME EventsInv, [TrackerNext]_trackerVars PROVE EventsInv'
  OBVIOUS
<1>0. /\ InOrder(history) /\ events \in Seq(Stamped) /\ Placed(Len(events), eventList, eventPool)
      /\ HoldsEnd(history, events, eventList) /\ KeepsOld(history, Len(eventList))
  BY DEF EventsInv
<1>1. CASE UNCHANGED trackerVars
  BY <1>0, <1>1 DEF trackerVars, EventsInv, InOrder, Placed, Apart, HoldsEnd, KeepsOld
<1>2. ASSUME NEW value \in TrackedValue, NEW step \in TimeSteps, PushValue(value, step)
      PROVE  EventsInv'
  <2> DEFINE H == Len(history)
             K == Len(eventList)
             newest == IF history = <<>> THEN 0 ELSE history[Len(history)].time
             time == newest + step
             e == [time |-> time, value |-> value]
             after == Append(history, e)
             id == IF eventPool = <<>> THEN Len(events) + 1 ELSE eventPool[1]
             contents == [n \in 1 .. Len(events) \cup {id} |-> IF n = id THEN e ELSE events[n]]
             rest == IF eventPool = <<>> THEN <<>> ELSE Tail(eventPool)
             longer == <<id>> \o eventList
             clean == CleanUpOverflow(longer, rest, [n \in DOMAIN contents |-> contents[n].time])
  <2>1. history' = after /\ PushEvent(value, time)
    BY <1>2 DEF PushValue
  <2>2. events' = contents /\ eventList' = clean.list /\ eventPool' = clean.pool
    BY <2>1 DEF PushEvent
  <2>3. /\ history \in Seq(Stamped) /\ H \in Nat /\ K \in Nat /\ K <= H /\ (history # <<>> => H >= 1)
        /\ \A i, j \in 1 .. H : i <= j => history[i].time <= history[j].time
    BY <1>0, LenProperties, EmptySeq DEF InOrder, Placed, HoldsEnd, Stamped
  <2>4. \A i \in 1 .. H : history[i].time \in Nat
    <3>1. \A i \in 1 .. H : history[i] \in Stamped
      BY <2>3, ElementOfSeq
    <3> QED
      BY <3>1 DEF Stamped
  <2>5. newest \in Nat /\ \A i \in 1 .. H : history[i].time <= newest
    <3>1. CASE history = <<>>
      BY <3>1
    <3>2. CASE history # <<>>
      <4>1. H \in 1 .. H /\ newest = history[H].time
        BY <2>3, <3>2
      <4> QED
        BY <2>3, <2>4, <4>1
    <3> QED
      BY <3>1, <3>2
  <2>6. step \in Nat /\ KeepDuration \in Nat
    BY TrackerAssumption
  <2> HIDE DEF newest
  <2>7. time \in Nat /\ \A i \in 1 .. H : history[i].time <= time
    BY <2>4, <2>5, <2>6
  <2> HIDE DEF time
  <2>8. /\ InOrder(after) /\ Len(after) = H + 1 /\ after[H + 1].time = time
        /\ \A i \in 1 .. H : after[i] = history[i]
    BY <1>0, <2>7, PushedInOrder
  <2>9. e \in Stamped /\ after[H + 1] = e
    <3>1. e \in Stamped
      BY <2>7 DEF Stamped
    <3> HIDE DEF e
    <3> QED
      BY <2>3, <3>1, AppendProperties
  <2> HIDE DEF e
  <2>10. /\ contents \in Seq(Stamped) /\ Placed(Len(contents), longer, rest)
         /\ Len(longer) = K + 1 /\ contents[longer[1]] = e
         /\ \A n \in 1 .. K : longer[n + 1] = eventList[n] /\ contents[eventList[n]] = events[eventList[n]]
    <3>1. InFront(events, eventList, e, contents, longer, rest)
      BY <1>0, <2>9, EventTaken
    <3> HIDE DEF contents, longer, rest
    <3> QED
      BY <3>1 DEF InFront
  <2> HIDE DEF contents, longer, rest, after
  <2>11. HoldsEnd(after, contents, longer)
    <3>1. K + 1 <= H + 1
      BY <2>3
    <3>2. ASSUME NEW n \in 1 .. K + 1 PROVE contents[longer[n]] = after[(H + 1) + 1 - n]
      <4>1. CASE n = 1
        <5>1. (H + 1) + 1 - n = H + 1
          BY <2>3, <4>1
        <5> QED
          BY <2>9, <2>10, <4>1, <5>1
      <4>2. CASE n # 1
        <5>1. /\ n - 1 \in 1 .. K /\ (n - 1) + 1 = n
              /\ H + 1 - (n - 1) \in 1 .. H /\ H + 1 - (n - 1) = (H + 1) + 1 - n
          BY <2>3, <4>2
        <5>2. contents[longer[n]] = events[eventList[n - 1]]
          BY <2>10, <5>1
        <5>3. events[eventList[n - 1]] = history[H + 1 - (n - 1)]
          BY <1>0, <5>1 DEF HoldsEnd
        <5> QED
          BY <2>8, <5>1, <5>2, <5>3
      <4> QED
        BY <4>1, <4>2
    <3> QED
      BY <2>8, <2>10, <3>1, <3>2 DEF HoldsEnd
  <2>12. Len(longer) < Len(after) =>
           after[Len(after)].time - after[Len(after) + 1 - Len(longer)].time > KeepDuration
    <3> SUFFICES ASSUME Len(longer) < Len(after)
                 PROVE  after[Len(after)].time - after[Len(after) + 1 - Len(longer)].time > KeepDuration
      OBVIOUS
    <3>1. K < H /\ Len(after) + 1 - Len(longer) = H + 1 - K
      BY <2>3, <2>8, <2>10
    <3>2. history # <<>>
      BY <2>3, <3>1, EmptySeq
    <3>3. K >= 1 /\ history[H].time - history[H + 1 - K].time > KeepDuration
      BY <1>0, <3>1, <3>2 DEF KeepsOld
    <3>4. H + 1 - K \in 1 .. H /\ H \in 1 .. H
      BY <2>3, <3>1, <3>3
    <3>5. history[H].time \in Nat /\ history[H + 1 - K].time \in Nat /\ history[H].time <= time
      BY <2>4, <2>7, <3>4
    <3>6. after[Len(after)].time = time /\ after[H + 1 - K].time = history[H + 1 - K].time
      BY <2>8, <3>4
    <3>7. \A a, b, c, k \in Nat : a - b > k /\ a <= c => c - b > k
      OBVIOUS
    <3> QED
      BY <2>6, <2>7, <3>1, <3>3, <3>5, <3>6, <3>7
  <2>13. Len(longer) >= 1
    BY <2>3, <2>10
  <2>14. /\ Placed(Len(contents), clean.list, clean.pool)
         /\ HoldsEnd(after, contents, clean.list) /\ KeepsOld(after, Len(clean.list))
    BY <2>8, <2>10, <2>11, <2>12, <2>13, OverflowMoves
  <2> HIDE DEF clean, e, time, H, K
  <2>15. history' = after /\ events' = contents /\ eventList' = clean.list /\ eventPool' = clean.pool
    BY <2>1, <2>2
  <2>16. InOrder(history)' /\ (events \in Seq(Stamped))'
    BY <2>8, <2>10, <2>15 DEF InOrder, Stamped
  <2>17. Placed(Len(events), eventList, eventPool)'
    BY <2>14, <2>15 DEF Placed, Apart
  <2>18. HoldsEnd(history, events, eventList)'
    BY <2>14, <2>15 DEF HoldsEnd
  <2>19. KeepsOld(history, Len(eventList))'
    BY <2>14, <2>15 DEF KeepsOld
  <2> QED
    BY <2>16, <2>17, <2>18, <2>19 DEF EventsInv
<1> QED
  BY <1>1, <1>2 DEF TrackerNext

(* The list, the oldest first, tells the values from the begin of the time *)
(* that is kept.                                                           *)
LEMMA ListTells ==
    ASSUME EventsInv, history # <<>>
    PROVE  LET list == [n \in DOMAIN eventList |-> events[Reverse(eventList)[n]]]
           IN  /\ Tells(list, BeginOf(list))
               /\ BeginOf(list) = history[Len(history)].time - KeepDuration
<1> DEFINE H == Len(history)
           K == Len(eventList)
           list == [n \in DOMAIN eventList |-> events[Reverse(eventList)[n]]]
           begin == BeginOf(list)
<1>1. /\ history \in Seq(Stamped) /\ eventList \in Seq(1 .. Len(events))
      /\ \A i, j \in 1 .. H : i <= j => history[i].time <= history[j].time
      /\ K <= H /\ K >= 1 /\ H \in Nat /\ K \in Nat
      /\ \A n \in 1 .. K : events[eventList[n]] = history[H + 1 - n]
      /\ K < H => history[H].time - history[H + 1 - K].time > KeepDuration
      /\ KeepDuration \in Nat /\ TrackedValue \subseteq Int
      /\ DOMAIN eventList = 1 .. K /\ DOMAIN history = 1 .. H
  BY LenProperties, TrackerAssumption
     DEF EventsInv, InOrder, Placed, HoldsEnd, KeepsOld, Stamped
<1>2. \A i \in 1 .. H : /\ history[i].time \in Nat /\ history[i].value \in Int
                        /\ history[i] \in Happening
  <2>1. TrackedValue \subseteq Int /\ history \in Seq(Stamped)
    BY <1>1
  <2>2. ASSUME NEW e \in Stamped PROVE e.time \in Nat /\ e.value \in Int /\ e \in Happening
    <3>1. /\ e = [time |-> e.time, value |-> e.value]
          /\ e.time \in Nat /\ e.value \in TrackedValue
      BY DEF Stamped
    <3>2. e.time \in Int /\ e.value \in Int
      BY <2>1, <3>1
    <3>3. [time |-> e.time, value |-> e.value] \in Happening
      BY <3>2 DEF Happening
    <3> QED
      BY <3>1, <3>2, <3>3
  <2>3. \A i \in 1 .. H : history[i] \in Stamped
    BY <2>1, ElementOfSeq
  <2> QED
    BY <2>2, <2>3
<1>3. ASSUME NEW n \in 1 .. K PROVE list[n] = history[H - K + n] /\ H - K + n \in 1 .. H
  <2>1. /\ (K - n) + 1 \in 1 .. K /\ H + 1 - ((K - n) + 1) = H - K + n /\ H - K + n \in 1 .. H
    BY <1>1
  <2>2. Reverse(eventList)[n] = eventList[(K - n) + 1]
    BY DEF Reverse
  <2>3. list[n] = events[Reverse(eventList)[n]]
    BY <1>1
  <2>4. events[eventList[(K - n) + 1]] = history[H + 1 - ((K - n) + 1)]
    BY <1>1, <2>1
  <2> QED
    BY <2>1, <2>2, <2>3, <2>4
<1>4. DOMAIN list = 1 .. K
  BY <1>1
<1>5. list = [n \in 1 .. K |-> list[n]]
  BY <1>1
<1> HIDE DEF list
<1>6. list \in Seq(Happening) /\ Len(list) = K
  <2>1. list \in [1 .. K -> Happening]
    BY <1>2, <1>3, <1>5
  <2>2. K \in Nat
    BY <1>1
  <2> HIDE DEF K
  <2> QED
    BY <2>1, <2>2
<1> HIDE DEF H, K
<1>7. /\ begin = history[H].time - KeepDuration /\ begin \in Int /\ -KeepDuration <= begin
  <2>1. K \in 1 .. K /\ H - K + K = H /\ H \in 1 .. H
    BY <1>1
  <2>2. begin = list[K].time - KeepDuration
    BY <1>6 DEF BeginOf
  <2>3. list[K] = history[H]
    BY <1>3, <2>1
  <2> HIDE DEF begin
  <2>4. begin = history[H].time - KeepDuration
    BY <2>2, <2>3
  <2>5. history[H].time \in Nat
    BY <1>2, <2>1
  <2> QED
    BY <1>1, <2>4, <2>5
<1> HIDE DEF begin
<1>8. ASSUME NEW i \in 0 .. K, NEW j \in 0 .. K, i <= j
      PROVE  EventAt(list, i).time <= EventAt(list, j).time
  <2>1. CASE j = 0
    <3>1. i = 0
      BY <1>1, <1>8, <2>1
    <3> QED
      BY <1>1, <2>1, <3>1 DEF EventAt, NoEvent
  <2>2. CASE j # 0 /\ i = 0
    <3>1. j \in 1 .. K
      BY <1>1, <2>2
    <3>2. list[j].time \in Nat
      BY <1>2, <1>3, <3>1
    <3>3. -KeepDuration <= list[j].time
      BY <1>1, <3>2
    <3> QED
      BY <2>2, <3>3 DEF EventAt, NoEvent
  <2>3. CASE j # 0 /\ i # 0
    <3>1. i \in 1 .. K /\ j \in 1 .. K /\ H - K + i <= H - K + j
      BY <1>1, <1>8, <2>3
    <3>2. history[H - K + i].time <= history[H - K + j].time
      BY <1>1, <1>3, <3>1
    <3> QED
      BY <1>3, <2>3, <3>1, <3>2 DEF EventAt
  <2> QED
    BY <2>1, <2>2, <2>3
<1>9. ASSUME NEW x \in Int, x >= begin
      PROVE  /\ ValueAt(x) \in Int
             /\ \A n \in 0 .. K : EventAt(list, n).time <= x /\ (n < K => x < list[n + 1].time) =>
                    ValueAt(x) = EventAt(list, n).value
  <2> DEFINE before == {n \in DOMAIN history : history[n].time <= x}
             m == Max(before)
  <2>1. ValueAt(x) = IF before = {} THEN 0 ELSE history[m].value
    BY DEF ValueAt
  <2>2. before # {} => m \in before /\ \A n \in before : n <= m
    <3>1. before \subseteq 1 .. H
      BY <1>1
    <3> HIDE DEF before
    <3> QED
      BY <1>1, <3>1, GreatestOf
  <2>3. ASSUME NEW n \in 1 .. H, history[n].time <= x PROVE n \in before
    BY <1>1, <2>3
  <2>4. ASSUME NEW n \in before PROVE n \in 1 .. H /\ history[n].time <= x
    BY <1>1
  <2> HIDE DEF before, m
  <2>5. ValueAt(x) \in Int
    <3>1. CASE before = {}
      BY <2>1, <3>1
    <3>2. CASE before # {}
      <4>1. m \in 1 .. H
        BY <2>2, <2>4, <3>2
      <4> QED
        BY <1>2, <2>1, <3>2, <4>1
    <3> QED
      BY <3>1, <3>2
  <2>6. ASSUME NEW n \in 0 .. K, EventAt(list, n).time <= x, n < K => x < list[n + 1].time
        PROVE  ValueAt(x) = EventAt(list, n).value
    <3> DEFINE i == H - K + n
    <3>1. ASSUME NEW j \in 1 .. H, history[j].time <= x PROVE j <= i
      <4> SUFFICES ASSUME ~ (j <= i) PROVE FALSE
        OBVIOUS
      <4>1. n < K /\ n + 1 \in 1 .. K /\ H - K + (n + 1) <= j /\ H - K + (n + 1) \in 1 .. H
        BY <1>1
      <4>2. history[H - K + (n + 1)].time <= history[j].time
        BY <1>1, <4>1
      <4>3. x < history[H - K + (n + 1)].time
        BY <1>3, <2>6, <4>1
      <4>4. history[H - K + (n + 1)].time \in Nat /\ history[j].time \in Nat
        BY <1>2, <4>1
      <4> QED
        BY <3>1, <4>2, <4>3, <4>4
    <3>2. CASE n = 0
      <4>1. K = H
        <5> SUFFICES ASSUME K < H PROVE FALSE
          BY <1>1
        <5>1. H + 1 - K \in 1 .. H /\ H - K + 1 = H + 1 - K /\ H \in 1 .. H /\ 0 < K /\ 1 \in 1 .. K
          BY <1>1
        <5>2. x < history[H + 1 - K].time
          BY <1>3, <2>6, <3>2, <5>1
        <5>3. history[H].time - history[H + 1 - K].time > KeepDuration
          BY <1>1
        <5>4. history[H].time \in Nat /\ history[H + 1 - K].time \in Nat
          BY <1>2, <5>1
        <5>5. x \in Int /\ x >= history[H].time - KeepDuration /\ KeepDuration \in Nat
          BY <1>1, <1>7, <1>9
        <5>6. \A a, b, k \in Nat, y \in Int : a - b > k /\ y >= a - k => ~ (y < b)
          OBVIOUS
        <5> QED
          BY <5>2, <5>3, <5>4, <5>5, <5>6
      <4>2. i = 0
        BY <1>1, <3>2, <4>1
      <4>3. before = {}
        <5> SUFFICES ASSUME NEW j \in before PROVE FALSE
          OBVIOUS
        <5>1. j \in 1 .. H /\ history[j].time <= x
          BY <2>4
        <5>2. j <= i
          BY <3>1, <5>1
        <5> QED
          BY <4>2, <5>1, <5>2
      <4> QED
        BY <2>1, <3>2, <4>3 DEF EventAt, NoEvent
    <3>3. CASE n # 0
      <4>1. n \in 1 .. K /\ i \in 1 .. H /\ EventAt(list, n) = history[i]
        BY <1>1, <1>3, <3>3 DEF EventAt
      <4>2. i \in before
        BY <2>3, <2>6, <4>1
      <4>3. m \in 1 .. H /\ history[m].time <= x /\ i <= m
        BY <2>2, <2>4, <4>2
      <4>4. m <= i
        BY <3>1, <4>3
      <4>5. m = i
        <5> HIDE DEF i
        <5> QED
          BY <4>1, <4>3, <4>4
      <4> QED
        BY <2>1, <4>1, <4>2, <4>5
    <3> QED
      BY <3>2, <3>3
  <2> QED
    BY <2>5, <2>6
<1>10. Tells(list, begin)
  BY <1>1, <1>6, <1>7, <1>8, <1>9 DEF Tells
<1> QED
  BY <1>7, <1>10 DEF list, begin, H

LEMMA ListResamples == EventsInv => ResampleIsStepFunction
<1> SUFFICES ASSUME EventsInv, history # <<>> PROVE ResampleIsStepFunction
  BY DEF ResampleIsStepFunction
<1> DEFINE list == [n \in DOMAIN eventList |-> events[Reverse(eventList)[n]]]
           begin == history[Len(history)].time - KeepDuration
           Expected(count) ==
               LET step == KeepDuration \div count
               IN  [id \in 1 .. count |-> SumOfTicks(begin + (id - 1) * step, begin + id * step)]
<1>1. Tells(list, BeginOf(list)) /\ BeginOf(list) = begin
  BY ListTells
<1>2. ASSUME NEW count \in SampleCounts PROVE Expected(count) = SumsOf(begin, count)
  BY DEF SumsOf, Bound
<1> HIDE DEF list, begin, Expected
<1>3. ASSUME NEW count \in SampleCounts
      PROVE  /\ GetResampleValue(list, count) = SumsOf(begin, count)
             /\ GetResampleValueExhaust(list, count) = SumsOf(begin, count)
  <2>1. count \in Nat \ {0}
    BY TrackerAssumption
  <2>2. GetResampleValue(list, count) = SumsOf(BeginOf(list), count)
    BY <1>1, <2>1, ResampleIsSums
  <2>3. GetResampleValueExhaust(list, count) = SumsOf(BeginOf(list), count)
    BY <1>1, <2>1, ExhaustIsSums
  <2> QED
    BY <1>1, <2>2, <2>3
<1>4. ASSUME NEW count \in SampleCounts
      PROVE  /\ GetResampleValue(list, count) = Expected(count)
             /\ GetResampleValueExhaust(list, count) = Expected(count)
  BY <1>2, <1>3
<1> QED
  BY <1>4 DEF ResampleIsStepFunction, list, begin, Expected

(* Although events are dropped and used again, whatever is pushed and      *)
(* however long the values are kept, both ways to resample give for each   *)
(* sample the sum of the values that were ever pushed in its time.         *)
THEOREM ResampleIsAlwaysStepFunction == TrackerSpec => []ResampleIsStepFunction
<1>1. TrackerInit => EventsInv
  BY EventsStart
<1>2. EventsInv /\ [TrackerNext]_trackerVars => EventsInv'
  BY EventsStep
<1>3. EventsInv => ResampleIsStepFunction
  BY ListResamples
<1> QED
  BY <1>1, <1>2, <1>3, PTL DEF TrackerSpec
===============================================================================
