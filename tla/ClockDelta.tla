------------------------------ MODULE ClockDelta ------------------------------
(***************************************************************************)
(* How far the clocks of other hosts are from the clock of the merge node  *)
(* (share/util/ClockDelta) over the sockets of share/sock.  The merge node *)
(* runs SockServer::mainLoop, which polls an inet and a unix domain socket *)
(* for connections and calls ClockDelta::serverMain with each, one after   *)
(* the other: it sends its time, gets it back with the time of the client, *)
(* and averages over maxLoop round trips.  Every client runs               *)
(* ClockDelta::clientMain, which tries to connect a few times, says who it *)
(* is, and answers until the server closes the connection.                 *)
(*                                                                         *)
(* Messages take any time, clients may die, the server may be told to shut *)
(* down, and every call that opens, accepts, sends or receives may fail    *)
(* while the other side lives.  Left out are an interrupted connect, and a *)
(* host that goes without closing its connections (there is no keepalive). *)
(***************************************************************************)
EXTENDS Integers, Sequences, FiniteSets

CONSTANTS
    Client,         \* the processes that measure their clock
    Local,          \* those that name the server "localhost": unix domain
    Offset,         \* by how much the clock of each is ahead of the server's
    MaxLoop,        \* the round trips of a measurement
    MaxTry,         \* how often SockClient::open tries to connect
    MaxTime         \* bound: the time does not go on after it

ASSUME ClockDeltaAssumption ==
    /\ IsFiniteSet(Client) /\ Local \subseteq Client
    /\ Offset \in [Client -> Int]
    /\ {MaxLoop, MaxTry} \subseteq Nat \ {0} /\ MaxTime \in Nat

Domain == {"inet", "unix"}
DomainOf(c) == IF c \in Local THEN "unix" ELSE "inet"

VARIABLES
    now,            \* the clock of the server
    anyPort,        \* the server was given port 0: the system chooses one
    shutdown,       \* *mShutdown
    mainLoop,       \* where the server is in a round of its main loop
    listening,      \* which of the two sockets are open
    client,         \* where each clientMain is
    tries,          \* how often SockClient::open, while it runs, tried to connect
    connection,     \* what became of the connection of each client
    toServer,       \* what each client has sent
    toClient,       \* what the server has sent to each client
    measured,       \* what serverMain found out about each client
    failed          \* history: whose connection saw a send or receive fail

serverVars == <<anyPort, shutdown, mainLoop, listening>>
clientVars == <<client, tries>>
wireVars   == <<toServer, toClient>>
vars == <<now, serverVars, clientVars, connection, wireVars, measured, failed>>

HostName == [kind |-> "hostName"]
Clocks(start, half) == [kind |-> "clocks", start |-> start, half |-> half]
NotMeasured == [tests |-> 0, deltaSum |-> 0, roundTripSum |-> 0]

Init ==
    /\ now = 0
    /\ anyPort \in BOOLEAN
    /\ shutdown = FALSE
    /\ mainLoop = "open"
    /\ listening = [d \in Domain |-> FALSE]
    /\ client = [c \in Client |-> "opening"]
    /\ tries = [c \in Client |-> 0]
    /\ connection = [c \in Client |-> "none"]
    /\ toServer = [c \in Client |-> << >>]
    /\ toClient = [c \in Client |-> << >>]
    /\ measured = [c \in Client |-> NotMeasured]
    /\ failed = {}

-------------------------------------------------------------------------------
(* ClockDelta::clientMain and SockClient.                                  *)

\* The server appends the port it was given to the path of its unix domain
\* socket, the client the port it connects to; with a chosen port they differ.
Reachable(c) == listening[DomainOf(c)] /\ (c \in Local => ~anyPort)

\* clientMain says who it is as soon as it is connected.
Connect(c) ==
    /\ client[c] = "opening"
    /\ Reachable(c)
    /\ client' = [client EXCEPT ![c] = "connected"]
    /\ connection' = [connection EXCEPT ![c] = "backlog"]
    /\ toServer' = [toServer EXCEPT ![c] = <<HostName>>]
    /\ tries' = [tries EXCEPT ![c] = 0]
    /\ UNCHANGED <<now, serverVars, toClient, measured, failed>>

\* The host name cannot be sent: clientMain ends, which closes its socket.
HostNameFails(c) ==
    /\ client[c] = "opening"
    /\ Reachable(c)
    /\ client' = [client EXCEPT ![c] = "false"]
    /\ connection' = [connection EXCEPT ![c] = "backlog"]
    /\ failed' = failed \union {c}
    /\ tries' = [tries EXCEPT ![c] = 0]
    /\ UNCHANGED <<now, serverVars, wireVars, measured>>

OpenFails(c) ==
    /\ client[c] = "opening"
    /\ tries' = [tries EXCEPT ![c] = (@ + 1) % MaxTry]
    /\ client' = [client EXCEPT ![c] = IF tries'[c] = 0 THEN "false" ELSE @]
    /\ UNCHANGED <<now, serverVars, connection, wireVars, measured, failed>>

Answer(c) ==
    /\ client[c] = "connected"
    /\ toClient[c] # << >>
    /\ toClient' = [toClient EXCEPT ![c] = Tail(@)]
    /\ toServer' = [toServer EXCEPT ![c] =
                      Append(@, Clocks(Head(toClient[c]), now + Offset[c]))]
    /\ UNCHANGED <<now, serverVars, clientVars, connection, measured, failed>>

\* End of file, the way a client ends: it cannot tell why it was closed.
ConnectionEnds(c) ==
    /\ client[c] = "connected"
    /\ toClient[c] = << >> /\ connection[c] = "closed"
    /\ client' = [client EXCEPT ![c] = "true"]
    /\ UNCHANGED <<now, serverVars, tries, connection, wireVars, measured, failed>>

\* To receive a time or to send it back fails: the loop ends as it does at
\* the end of the file, and clientMain returns the same.
AnswerFails(c) ==
    /\ client[c] = "connected"
    /\ client' = [client EXCEPT ![c] = "true"]
    /\ failed' = failed \union {c}
    /\ UNCHANGED <<now, serverVars, tries, connection, wireVars, measured>>

Die(c) ==
    /\ client[c] \in {"opening", "connected"}
    /\ client' = [client EXCEPT ![c] = "dead"]
    /\ tries' = [tries EXCEPT ![c] = 0]
    /\ UNCHANGED <<now, serverVars, connection, wireVars, measured, failed>>

ClientStep(c) == Connect(c) \/ OpenFails(c) \/ Answer(c) \/ ConnectionEnds(c)

-------------------------------------------------------------------------------
(* SockServer::mainLoop. One round looks for a connection of either domain *)
(* and then serves those it got.                                           *)

\* With port 0 SockServerInet::open opens its socket at once; else it does so
\* when it is first polled, as the other socket does. There is no server if
\* that fails, or if SockServerUnix::open refuses the path (none, or too
\* long): then the inet socket is open already, and nobody closes it.
Open ==
    /\ mainLoop = "open"
    /\ \/ /\ mainLoop' \in {"inet", "ended"}
          /\ listening' = [listening EXCEPT !["inet"] = anyPort]
       \/ /\ anyPort
          /\ mainLoop' = "ended"
          /\ UNCHANGED listening
    /\ UNCHANGED <<now, anyPort, shutdown, clientVars, connection, wireVars, measured, failed>>

\* The flag is looked at once in every round.
Polls(d) == mainLoop = d /\ (d = "inet" => ~shutdown)
After(d) == IF d = "inet" THEN "unix" ELSE "serve"

\* The socket cannot be opened, or nobody waits, or accept fails.
AcceptNone(d) ==
    /\ Polls(d)
    /\ \E opens \in BOOLEAN : listening' = [listening EXCEPT ![d] = @ \/ opens]
    /\ mainLoop' = After(d)
    /\ UNCHANGED <<now, anyPort, shutdown, clientVars, connection, wireVars, measured, failed>>

\* A connection whose socket options cannot be set is passed on without its
\* socket, which nobody closes any more.
AcceptOne(d) ==
    /\ Polls(d)
    /\ mainLoop' = After(d)
    /\ \E c \in Client :
         /\ DomainOf(c) = d /\ connection[c] = "backlog"
         /\ \E to \in {"accepted", "lost"} : connection' = [connection EXCEPT ![c] = to]
    /\ UNCHANGED <<now, anyPort, shutdown, listening, clientVars, wireVars, measured, failed>>

Serving == {c \in Client : connection[c] \in {"hostName", "send", "receive"}}
Accepted(d) == {c \in Client : connection[c] = "accepted" /\ DomainOf(c) = d}

\* The inet connection of a round is served before its unix connection.
ServeNext ==
    /\ mainLoop = "serve" /\ Serving = {}
    /\ \E c \in IF Accepted("inet") # {} THEN Accepted("inet") ELSE Accepted("unix") :
         connection' = [connection EXCEPT ![c] = "hostName"]
    /\ UNCHANGED <<now, serverVars, clientVars, wireVars, measured, failed>>

NextRound ==
    /\ mainLoop = "serve" /\ Serving = {}
    /\ Accepted("inet") = {} /\ Accepted("unix") = {}
    /\ mainLoop' = "inet"
    /\ UNCHANGED <<now, anyPort, shutdown, listening, clientVars, connection, wireVars, measured, failed>>

\* The inet socket stays open when mainLoop returns, the path is unlinked.
StopServer ==
    /\ mainLoop = "inet" /\ shutdown
    /\ mainLoop' = "ended"
    /\ listening' = [listening EXCEPT !["unix"] = FALSE]
    /\ UNCHANGED <<now, anyPort, shutdown, clientVars, connection, wireVars, measured, failed>>

-------------------------------------------------------------------------------
(* ClockDelta::serverMain with one connection. To read is to wait for data *)
(* or for the end of the file; what was sent before the end comes first.   *)

\* A faulty form: the end of the file is not noticed.
AtEof_Never(c) == FALSE

\* A client that is gone, one way or the other, has closed its socket.
AtEof(c) == toServer[c] = << >> /\ client[c] \in {"true", "false", "dead"}

\* A faulty form: the clock of the client is taken to be read at the end.
Delta_End(start, half, end) == half - end

\* analyzeRoundTripTimeDelta
Delta(start, half, end) == half - ((end - start) \div 2 + start)

\* A faulty form: one round trip too few.
LoopEnds_Early(tests) == tests + 1 >= MaxLoop

LoopEnds(tests) == tests >= MaxLoop

GoesTo(c, at) == connection' = [connection EXCEPT ![c] = at]

ReadHostName(c) ==
    /\ connection[c] = "hostName" /\ toServer[c] # << >>
    /\ toServer' = [toServer EXCEPT ![c] = Tail(@)]
    /\ GoesTo(c, "send")
    /\ UNCHANGED <<now, serverVars, clientVars, toClient, measured, failed>>

SendTime(c) ==
    /\ connection[c] = "send" /\ ~LoopEnds(measured[c].tests)
    /\ toClient' = [toClient EXCEPT ![c] = Append(@, now)]
    /\ GoesTo(c, "receive")
    /\ UNCHANGED <<now, serverVars, clientVars, toServer, measured, failed>>

ReceiveTime(c) ==
    /\ connection[c] = "receive" /\ toServer[c] # << >>
    /\ LET data == Head(toServer[c])
       IN  measured' = [measured EXCEPT ![c] =
             [tests        |-> @.tests + 1,
              deltaSum     |-> @.deltaSum + Delta(data.start, data.half, now),
              roundTripSum |-> @.roundTripSum + (now - data.start)]]
    /\ toServer' = [toServer EXCEPT ![c] = Tail(@)]
    /\ GoesTo(c, "send")
    /\ UNCHANGED <<now, serverVars, clientVars, toClient, failed>>

\* The loop is done, or the client is gone. The connection is dropped by
\* everyone who held it, which closes it.
EndConnection(c) ==
    /\ \/ connection[c] = "send" /\ LoopEnds(measured[c].tests)
       \/ connection[c] \in {"hostName", "receive"} /\ AtEof(c)
    /\ GoesTo(c, "closed")
    /\ UNCHANGED <<now, serverVars, clientVars, wireVars, measured, failed>>

\* To send or to receive fails, whether the client is gone (which a send need
\* not notice) or not: serverMain goes on with what it measured so far.
ServerMainFails(c) ==
    /\ connection[c] \in {"hostName", "send", "receive"}
    /\ connection[c] = "send" => ~LoopEnds(measured[c].tests)
    /\ GoesTo(c, "closed")
    /\ failed' = failed \union {c}
    /\ UNCHANGED <<now, serverVars, clientVars, wireVars, measured>>

ServerMain(c) == ReadHostName(c) \/ SendTime(c) \/ ReceiveTime(c) \/ EndConnection(c)

ServerStep ==
    \/ Open \/ ServeNext \/ NextRound \/ StopServer
    \/ \E d \in Domain : AcceptNone(d) \/ AcceptOne(d)
    \/ \E c \in Client : ServerMain(c)

-------------------------------------------------------------------------------

ShutDown ==
    /\ ~shutdown /\ shutdown' = TRUE
    /\ UNCHANGED <<now, anyPort, mainLoop, listening, clientVars, connection, wireVars, measured, failed>>

Tick ==
    /\ now < MaxTime /\ now' = now + 1
    /\ UNCHANGED <<serverVars, clientVars, connection, wireVars, measured, failed>>

Next ==
    \/ \E c \in Client : ClientStep(c) \/ Die(c)
    \/ \E c \in Client : HostNameFails(c) \/ AnswerFails(c) \/ ServerMainFails(c)
    \/ ServerStep
    \/ ShutDown
    \/ Tick

\* Both programs go on as long as they can, and what makes accept fail (too
\* many open files) does not last for ever. No send or receive has to fail.
Fairness ==
    /\ WF_vars(ServerStep)
    /\ \A d \in Domain : SF_vars(AcceptOne(d))
    /\ \A c \in Client : WF_vars(ClientStep(c))

Spec == Init /\ [][Next]_vars /\ Fairness

-------------------------------------------------------------------------------
(* Properties.                                                             *)

\* The measured shift is as good as the round trips were short, whatever the
\* way there and the way back took (ClockDelta.h: the shift is computed as if
\* both took the same time): the average of a client differs from the real
\* offset of its clock by no more than half of its average round trip, and
\* the half microsecond that the integer division loses.
ShiftIsWithinRoundTrip ==
    \A c \in Client :
      LET m == measured[c]
          twice == 2 * (m.deltaSum - m.tests * Offset[c])
      IN  twice <= m.roundTripSum + m.tests /\ -twice <= m.roundTripSum + m.tests

\* Only a failed call cuts a measurement short of a client that lives: if no
\* send or receive of its connection failed, true means that its clock was
\* measured in all the round trips, although neither side tells the other
\* why it closed the connection; and false means that nothing was measured,
\* also if the client did reach the server.
OnlyFailuresCutShort ==
    \A c \in Client :
      /\ client[c] = "true" => measured[c].tests = MaxLoop \/ c \in failed
      /\ client[c] = "false" => measured[c].tests = 0

\* Every client gets an end of its call, one that connected and one that did
\* not, whoever else is served before it, fails or dies. It is left waiting
\* only where a socket is left behind that nobody closes: its connection
\* could not be set up, or it came to a socket whose server has ended.
ClientsReturn ==
    \A c \in Client :
      client[c] \in {"opening", "connected"} ~>
        \/ client[c] \in {"true", "false", "dead"}
        \/ connection[c] = "lost"
        \/ connection[c] = "backlog" /\ mainLoop = "ended"
=============================================================================
