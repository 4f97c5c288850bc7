------------------------------- MODULE Pinger -------------------------------
(***************************************************************************)
(* icmp/ping.cpp: class pinger sends a request, waits for a reply with a   *)
(* timer, and sends the next one a second after the one before.  Both      *)
(* handlers of the timer ignore its error, so that cancel() runs the       *)
(* handler sooner instead of suppressing it.                               *)
(*                                                                         *)
(* Time is counted in seconds from time_sent_.  A packet is the number of  *)
(* the request it answers, or Other; its bytes, written and read as in     *)
(* icmp_header.hpp and ipv4_header.hpp, are functions of their fields.     *)
(***************************************************************************)
EXTENDS Integers, Sequences, SequencesExt

CONSTANTS Width,       \* of sequence_number_: the values an unsigned short has
          Lifetime,    \* a reply arrives before that many requests have followed
          MaxRequests, \* bound: the requests sent
          MaxPackets,  \* bound: the packets waiting in the socket
          Base         \* values of a byte

Other == 0      \* a packet that is no echo reply to this process
Limit == 6      \* bound of elapsed: more than every timer waits
MaxReplies == 3 \* bound of numReplies

VARIABLES sequenceNumber, \* sequence_number_
          numReplies,     \* num_replies_
          elapsed,        \* now - time_sent_
          expiry, then,   \* of timer_, and the handler of its async_wait
          waiting,        \* timer_ has not expired
          packets,        \* received and not yet handled
          ready,          \* the handlers the io_context will call
          running,        \* run() has not thrown
          request,        \* auxiliary: the number of requests
          counted,        \* auxiliary: whom the last counted reply answers
          reported        \* auxiliary: "Request timed out"

timer == <<expiry, then, waiting>>
vars == <<sequenceNumber, numReplies, elapsed, timer, packets, ready, running,
          request, counted, reported>>

\* The constructor: start_send(), start_receive()
Init == /\ sequenceNumber = 1 % Width /\ numReplies = 0
        /\ elapsed = 0 /\ expiry = 5 /\ then = "handle_timeout" /\ waiting = TRUE
        /\ packets = <<>> /\ ready = <<>> /\ running = TRUE
        /\ request = 1 /\ counted = Other /\ reported = FALSE

-----------------------------------------------------------------------------
(* The handlers *)

IsNext(handler) == running /\ ready # <<>> /\ Head(ready) = handler

StartSendUnnumbered == \* mutant: sequence_number_ stays as it is
  /\ IsNext("timer") /\ then = "start_send" /\ request < MaxRequests
  /\ request' = request + 1 /\ elapsed' = 0
  /\ numReplies' = 0
  /\ expiry' = 5 /\ then' = "handle_timeout" /\ waiting' = TRUE
  /\ ready' = Tail(ready)
  /\ counted' = Other /\ reported' = FALSE
  /\ UNCHANGED <<sequenceNumber, packets, running>>

StartSend ==
  /\ IsNext("timer") /\ then = "start_send" /\ request < MaxRequests
  /\ request' = request + 1 /\ elapsed' = 0
  /\ sequenceNumber' = (sequenceNumber + 1) % Width
  /\ numReplies' = 0
  /\ expiry' = 5 /\ then' = "handle_timeout" /\ waiting' = TRUE
  /\ ready' = Tail(ready)
  /\ counted' = Other /\ reported' = FALSE
  /\ UNCHANGED <<packets, running>>

SendThrows == \* send_to() fails, main() ends
  /\ IsNext("timer") /\ then = "start_send"
  /\ running' = FALSE
  /\ UNCHANGED <<sequenceNumber, numReplies, elapsed, timer, packets, ready,
                 request, counted, reported>>

HandleTimeoutOnly == \* mutant: the handler reports whatever num_replies_ is
  /\ IsNext("timer") /\ then = "handle_timeout"
  /\ reported' = TRUE
  /\ expiry' = 1 /\ then' = "start_send" /\ waiting' = TRUE
  /\ ready' = Tail(ready)
  /\ UNCHANGED <<sequenceNumber, numReplies, elapsed, packets, running, request, counted>>

HandleTimeoutWaits == \* mutant: the timer is started only after a reply
  /\ IsNext("timer") /\ then = "handle_timeout"
  /\ reported' = (numReplies = 0)
  /\ expiry' = 1 /\ then' = "start_send" /\ waiting' = (numReplies > 0)
  /\ ready' = Tail(ready)
  /\ UNCHANGED <<sequenceNumber, numReplies, elapsed, packets, running, request, counted>>

HandleTimeout ==
  /\ IsNext("timer") /\ then = "handle_timeout"
  /\ reported' = (numReplies = 0)
  /\ expiry' = 1 /\ then' = "start_send" /\ waiting' = TRUE
  /\ ready' = Tail(ready)
  /\ UNCHANGED <<sequenceNumber, numReplies, elapsed, packets, running, request, counted>>

IsExpected(p) == p # Other /\ p % Width = sequenceNumber

\* start_receive() finds what has arrived in the meantime.
Received == IF Len(packets) > 1 THEN Append(Tail(ready), "receive") ELSE Tail(ready)

CancelAlways == \* mutant: each reply cancels the timer
  LET p == Head(packets)
  IN /\ IsNext("receive") /\ packets' = Tail(packets)
     /\ IF IsExpected(p) /\ waiting
        THEN waiting' = FALSE /\ ready' = Append(Received, "timer")
        ELSE waiting' = waiting /\ ready' = Received
     /\ IF IsExpected(p) /\ numReplies < MaxReplies
        THEN numReplies' = numReplies + 1 /\ counted' = p
        ELSE UNCHANGED <<numReplies, counted>>
     /\ UNCHANGED <<sequenceNumber, elapsed, expiry, then, running, request, reported>>

HandleReceive ==
  LET p == Head(packets)
  IN /\ IsNext("receive") /\ packets' = Tail(packets)
     /\ IF IsExpected(p) /\ numReplies = 0 /\ waiting \* cancel()
        THEN waiting' = FALSE /\ ready' = Append(Received, "timer")
        ELSE waiting' = waiting /\ ready' = Received
     /\ IF IsExpected(p) /\ numReplies < MaxReplies
        THEN numReplies' = numReplies + 1 /\ counted' = p
        ELSE UNCHANGED <<numReplies, counted>>
     /\ UNCHANGED <<sequenceNumber, elapsed, expiry, then, running, request, reported>>

-----------------------------------------------------------------------------
(* Time and the network *)

Tick ==
  /\ running /\ elapsed < Limit
  /\ elapsed' = elapsed + 1
  /\ UNCHANGED <<sequenceNumber, numReplies, timer, packets, ready, running,
                 request, counted, reported>>

Expire ==
  /\ running /\ waiting /\ elapsed >= expiry
  /\ waiting' = FALSE /\ ready' = Append(ready, "timer")
  /\ UNCHANGED <<sequenceNumber, numReplies, elapsed, expiry, then, packets, running,
                 request, counted, reported>>

\* A reply, also a second one or to an earlier request, or another packet
Arrive ==
  /\ running /\ Len(packets) < MaxPackets
  /\ \E p \in 0 .. request : /\ p = Other \/ request < p + Lifetime
                             /\ packets' = Append(packets, p)
  /\ ready' = IF packets = <<>> THEN Append(ready, "receive") ELSE ready
  /\ UNCHANGED <<sequenceNumber, numReplies, elapsed, timer, running,
                 request, counted, reported>>

Handle == StartSend \/ HandleTimeout \/ HandleReceive

Next == Handle \/ SendThrows \/ Tick \/ Expire \/ Arrive

Spec == Init /\ [][Next]_vars

\* Time passes, the timer expires and the io_context calls what is ready.
Fairness == WF_vars(Handle) /\ WF_vars(Tick) /\ WF_vars(Expire)

-----------------------------------------------------------------------------
(* The packets: a byte has Base values, a short is two bytes and an unsigned
   int two shorts *)

Short == Base * Base
UInt == Short * Short

echo_request == Base - 1 \* a type, and codes are 0

Encode(n) == <<(n \div Base) % Base, n % Base>>
Decode(p, a) == Base * p[a] + p[a + 1]

FoldOnce(sum) == sum \div Short + (sum % Short) \* mutant: the carry of the carry is lost

Fold(sum) == LET once == sum \div Short + (sum % Short)
             IN once + once \div Short

Checksum(type, code, identifier, number, body) ==
  LET sum[i \in 0 .. Len(body)] ==
        IF i = 0 THEN Base * type + code + identifier + number
        ELSE (sum[i - 1] + (IF i % 2 = 1 THEN Base * body[i] ELSE body[i])) % UInt
  IN Short - 1 - (Fold(sum[Len(body)]) % Short)

EchoRequest(identifier, number, body) == \* os << echo_request << body
  <<echo_request, 0>> \o Encode(Checksum(echo_request, 0, identifier, number, body))
    \o Encode(identifier) \o Encode(number) \o body

\* Of an IPv4 header what reading it depends on is its version, its length in
\* words of four bytes, and how many bytes have come altogether.

ReadTwenty(h) == \* mutant: the options are not read
  IF h.version = 4 /\ h.size >= 20 THEN 20 ELSE -1

ReadIpv4(h) == \* the position after it, -1 if the stream failed
  LET options == 4 * h.words - 20
  IN IF h.version # 4 \/ options < 0 \/ options > 40 \/ h.size < 20 + options
     THEN -1 ELSE 20 + options

\* Where the ICMP header was read, by is >> ipv4_hdr >> icmp_hdr
IcmpAt(h) == IF ReadIpv4(h) = -1 \/ h.size < ReadIpv4(h) + 8 THEN -1 ELSE ReadIpv4(h)

-----------------------------------------------------------------------------
(* Properties *)

\* The variables keep their types; the timer is waiting or its handler is ready.
TypeOK ==
  /\ sequenceNumber \in 0 .. Width - 1 /\ numReplies \in 0 .. MaxReplies
  /\ elapsed \in 0 .. Limit /\ expiry \in {1, 5}
  /\ then \in {"handle_timeout", "start_send"} /\ waiting \in BOOLEAN
  /\ packets \in Seq(0 .. MaxRequests) /\ ready \in Seq({"timer", "receive"})
  /\ running \in BOOLEAN /\ request \in 1 .. MaxRequests
  /\ counted \in 0 .. MaxRequests /\ reported \in BOOLEAN

\* "Requests must be sent no less than one second apart" (line 70), although
\* each of the two waits can be cut short by a reply.
SecondApart == [][request' # request => elapsed >= 1]_vars

\* A reply that is counted answers the request it is counted for, although
\* sequence numbers come again and replies come late.  A request is reported
\* as timed out after five seconds without reply, never because cancel() ran
\* the handler, and no request is followed by another without one of the two.
VerdictIsRight ==
  /\ counted \in {Other, request}
  /\ reported => elapsed >= 5
  /\ then = "start_send" => reported \/ numReplies > 0

\* Requests are sent for ever, replies or not.
KeepsPinging == <>(request = MaxRequests \/ ~running)

\* The checksum as it is defined: all the shorts of a packet, with a last odd
\* byte followed by 0, add up to all ones, when a carry is added at the end.
ShortAt(p, k) == Base * p[2 * k - 1] + (IF 2 * k <= Len(p) THEN p[2 * k] ELSE 0)
WithCarry(sum) == IF sum >= Short THEN sum - Short + 1 ELSE sum

OnesSum(p) ==
  LET count == (Len(p) + 1) \div 2
      sum[k \in 0 .. count] == IF k = 0 THEN 0 ELSE WithCarry(sum[k - 1] + ShortAt(p, k))
  IN sum[count]

\* A request carries what it was made of, with a checksum that its receiver
\* accepts, whatever carries its sum has and whether its body is odd or even.
RequestIsRight(identifier, number, body) ==
  LET packet == EchoRequest(identifier, number, body)
  IN /\ OnesSum(packet) = Short - 1
     /\ Decode(packet, 5) = identifier /\ Decode(packet, 7) = number

\* An ICMP header is looked for where the IPv4 header ends, options included,
\* and found exactly if both are complete.
HeaderIsFound(h) ==
  IcmpAt(h) = IF h.version = 4 /\ h.words >= 5 /\ h.size >= 4 * h.words + 8
              THEN 4 * h.words ELSE -1
==============================================================================
