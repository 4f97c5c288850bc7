------------------------------- MODULE MCAsio -------------------------------
(***************************************************************************)
(* The Boost.Asio programs other than the HTTP servers on small instances, *)
(* each in executions of its own: `program` says which, and the variables  *)
(* of the others keep their first values.                                  *)
(***************************************************************************)
EXTENDS ChatServer, FiniteSets

CONSTANTS s1, s2, s3, p1, p2,
          MaxLines,                                  \* of the chat client
          Width, Lifetime, MaxRequests, MaxPackets,  \* of ping
          Base, MaxBody,                             \* of its packets
          CountMax,                                  \* of the timers
          MaxChunks, Peers, MaxSends                 \* of the servers

\* What the programs need of their bounds.  A number of ping comes again only
\* when a reply that arrived is handled: requests go on while it waits, one for
\* every two packets before it at most.  The sum of a request does not exceed
\* an unsigned int.
ASSUME AsioAssumption ==
  /\ {MaxLines, CountMax} \subseteq Nat
  /\ {MaxRequests, MaxPackets, Lifetime, MaxChunks, MaxSends} \subseteq Nat \ {0}
  /\ Width \in Nat /\ Lifetime + (MaxPackets + 1) \div 2 <= Width
  /\ Base \in Nat /\ 2 <= Base /\ MaxBody \in Nat /\ (MaxBody + 1) \div 2 + 3 <= Base * Base

ThreeSessions == {s1, s2, s3}
TwoPeers == {p1, p2}

VARIABLES program,
          main, typed, calls, running, socket, connect, part, read, write,
          clientMsgs, clientSent,
          sequenceNumber, numReplies, elapsed, expiry, then, waiting, packets,
          ready, pinging, request, counted, reported,
          sentPacket, gotHeader,
          printer, count, timer, at, handling, local, printed,
          kind, alive, status, data, got, tcpSent, inUse, place,
          udpKind, receive, endpoint, received, sends, udpRunning,
          pending, invocable, handlers, invoking, handler, executed

clientVars == <<main, typed, calls, running, socket, connect, part, read, write,
                clientMsgs, clientSent>>
Client == INSTANCE ChatClient WITH
  posted <- calls, writeMsgs <- clientMsgs, sent <- clientSent

pingVars == <<sequenceNumber, numReplies, elapsed, expiry, then, waiting, packets,
              ready, pinging, request, counted, reported>>
Ping == INSTANCE Pinger WITH running <- pinging

\* The packets of ping, one in each execution: the fields of a request that was
\* sent, and the IPv4 header of a packet that came.
packetVars == <<sentPacket, gotHeader>>
NoPacket == <<>>
PacketInit == sentPacket = NoPacket /\ gotHeader = NoPacket

Short == Base * Base
SendPacket == \E identifier, number \in 0 .. Short - 1, length \in 0 .. MaxBody :
                \E body \in [1 .. length -> 0 .. Base - 1] :
                  sentPacket' = <<identifier, number, body>>
ReceivePacket == \E version \in {4, 6}, words \in 0 .. 15 :
                   \E size \in {1, 19, 20} \cup 4 * words + 7 .. 4 * words + 9 :
                     gotHeader' = <<[version |-> version, words |-> words, size |-> size]>>
PacketStep == /\ PacketInit
              /\ \/ SendPacket /\ UNCHANGED gotHeader
                 \/ ReceivePacket /\ UNCHANGED sentPacket

PacketIsRight ==
  /\ sentPacket # NoPacket =>
       Ping!RequestIsRight(sentPacket[1], sentPacket[2], sentPacket[3])
  /\ gotHeader # NoPacket => Ping!HeaderIsFound(gotHeader[1])

timerVars == <<printer, count, timer, at, handling, local, printed>>
Timer == INSTANCE Timers

tcpVars == <<kind, alive, status, data, got, tcpSent, inUse, place>>
Tcp == INSTANCE TcpServers WITH sent <- tcpSent

udpVars == <<udpKind, receive, endpoint, received, sends, udpRunning>>
Udp == INSTANCE UdpServers WITH
  kind <- udpKind, data <- received, running <- udpRunning

queueVars == <<pending, invocable, handlers, invoking, handler, executed>>
Invocation == INSTANCE HandlerQueue WITH
  Priorities <- {0, 42, 100}, ready <- invocable, main <- invoking

all == <<program, vars, clientVars, pingVars, packetVars, timerVars, tcpVars, udpVars, queueVars>>

ServerNext == /\ program = "chat server" /\ Next
              /\ UNCHANGED <<program, clientVars, pingVars, packetVars, timerVars,
                             tcpVars, udpVars, queueVars>>
ClientNext == /\ program = "chat client" /\ Client!Next
              /\ UNCHANGED <<program, vars, pingVars, packetVars, timerVars,
                             tcpVars, udpVars, queueVars>>
PingNext == /\ program = "ping" /\ Ping!Next
            /\ UNCHANGED <<program, vars, clientVars, packetVars, timerVars, tcpVars, udpVars, queueVars>>
PacketNext == /\ program = "packet" /\ PacketStep
              /\ UNCHANGED <<program, vars, clientVars, pingVars, timerVars, tcpVars, udpVars, queueVars>>
TimerNext == /\ program = "timer" /\ Timer!Next
             /\ UNCHANGED <<program, vars, clientVars, pingVars, packetVars, tcpVars, udpVars, queueVars>>
TcpNext == /\ program = "tcp" /\ Tcp!Next
           /\ UNCHANGED <<program, vars, clientVars, pingVars, packetVars, timerVars, udpVars, queueVars>>
UdpNext == /\ program = "udp" /\ Udp!Next
           /\ UNCHANGED <<program, vars, clientVars, pingVars, packetVars, timerVars, tcpVars, queueVars>>
InvocationNext == /\ program = "invocation" /\ Invocation!Next
                  /\ UNCHANGED <<program, vars, clientVars, pingVars, packetVars,
                                 timerVars, tcpVars, udpVars>>

\* Sessions are alike: which one is accepted first makes no difference.  What
\* a program that does not run begins with makes none either.
AsioInit ==
  /\ program \in {"chat server", "chat client", "ping", "packet", "timer", "tcp", "udp",
                 "invocation"}
  /\ Init /\ accepting = s1
  /\ Client!Init /\ Ping!Init /\ PacketInit
  /\ Timer!Init /\ (program # "timer" => printer = "Timer3")
  /\ Tcp!Init /\ alive = {s1} /\ (program # "tcp" => kind = "tcp")
  /\ Udp!Init /\ endpoint = p1 /\ (program # "udp" => udpKind = "echo")
  /\ Invocation!Init

\* Ping!Fairness, of the executions of ping: its timer waits in all others.
PingFairness == /\ WF_pingVars(program = "ping" /\ Ping!Handle)
                /\ WF_pingVars(program = "ping" /\ Ping!Tick)
                /\ WF_pingVars(program = "ping" /\ Ping!Expire)

FairAsioSpec ==
  /\ AsioInit
  /\ [][\/ ServerNext \/ ClientNext \/ PingNext \/ PacketNext
        \/ TimerNext \/ TcpNext \/ UdpNext \/ InvocationNext]_all
  /\ Fairness /\ Client!Fairness /\ PingFairness /\ WF_timerVars(TimerNext)

-----------------------------------------------------------------------------
(* Properties of several *)

\* The variables of each program keep their types.
TypesOK == /\ program = "chat server" => TypeOK
           /\ program = "chat client" => Client!TypeOK
           /\ program = "ping" => Ping!TypeOK
           /\ program = "timer" => Timer!TypeOK
           /\ program = "tcp" => Tcp!TypeOK
           /\ program = "udp" => Udp!TypeOK

\* One async_write of the chat at a time, and one for as long as something
\* waits.  The session of a small server has one operation, which is what
\* keeps it; the echo server of UDP has one, for ever.  Types are part of it.
OneOperationAtATime == /\ TypesOK
                       /\ OneWriteAtATime /\ Client!OneWrite
                       /\ program = "tcp" => Tcp!OneOperationEach
                       /\ program = "udp" => Udp!OneOperation

\* What is sent to a client, and what it sends, has no gap and is in order,
\* what comes from the backlog included; what is echoed is what was sent, and
\* goes to whom it came from; a handler of the priority queue runs once.
NothingIsMissed == /\ program = "chat server" => NoMessageIsMissed /\ BacklogIsComplete
                   /\ program = "chat client" => Client!LinesAreSentInOrder
                   /\ program = "tcp" => Tcp!EchoIsFaithful
                   /\ program = "udp" => Udp!AnswersReachTheAsker
                   /\ program = "invocation" => Invocation!HandlersRunOnceByPriority

\* What ping counts and reports is true, its packets are what they say, and
\* the counts of the timers end where they should.
CountsAreRight == /\ program = "ping" => Ping!VerdictIsRight
                  /\ program = "packet" => PacketIsRight
                  /\ program = "timer" => Timer!FinalCountIsRight

\* "Requests must be sent no less than one second apart" (ping.cpp:70)
RequestsAreASecondApart == Ping!SecondApart

\* A message reaches every client that stays, and a session that is lost is
\* destroyed.
ChatGoesOn == MessagesArrive /\ LostSessionsAreDestroyed

\* After the end of the input the chat client's threads end; ping sends the
\* next request; the programs with one timer end.
ProgramsProceed ==
  /\ Client!ClientReturns
  /\ program = "ping" => Ping!KeepsPinging
  /\ program = "timer" => Timer!CountingEnds
==============================================================================
