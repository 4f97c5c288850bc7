----------------------------- MODULE UdpServers -----------------------------
(***************************************************************************)
(* The UDP servers: async_udp_echo_server ("echo") receives or sends, with *)
(* one buffer; 2.Daytime.6 ("daytime", in 2.Daytime.7 again) receives      *)
(* while it sends, each message being held by the handler of its send.     *)
(* One thread runs the io_context, a handler is one step.                  *)
(***************************************************************************)
EXTENDS Naturals, FiniteSets

CONSTANTS Peers,   \* who sends datagrams
          MaxSends \* bound: the sends under way at a time

Contents == {1, 2} \* of a datagram

VARIABLES kind,     \* the server
          receive,  \* the async_receive_from
          endpoint, \* sender_endpoint_, _remoteEndpoint
          data,     \* data_, _recv
          sends,    \* the async_send_to under way: to whom, and what it answers
          running   \* run() has not returned

vars == <<kind, receive, endpoint, data, sends, running>>

Init == /\ kind \in {"echo", "daytime"}
        /\ receive = "pending" /\ running = TRUE
        /\ endpoint \in Peers /\ data = 1
        /\ sends = {}

\* async_send_to() takes a copy of the endpoint.
Answer(to) == [id |-> CHOOSE i \in 1 .. MaxSends : \A s \in sends : s.id # i,
               to |-> to, status |-> "pending", from |-> endpoint, asked |-> data]

ReceiveAtOnce == \* mutant: the buffer is received into while it is sent
  /\ running /\ kind = "echo" /\ receive = "ok"
  /\ Cardinality(sends) < MaxSends
  /\ sends' = sends \cup {Answer(endpoint)}
  /\ receive' = "pending"
  /\ UNCHANGED <<kind, endpoint, data, running>>

HandleReceiveFrom == \* of the echo server, with something received
  /\ running /\ kind = "echo" /\ receive = "ok"
  /\ sends' = sends \cup {Answer(endpoint)}
  /\ receive' = "none"
  /\ UNCHANGED <<kind, endpoint, data, running>>

ReceiveAgain == \* of the echo server, after an error or with nothing received
  /\ running /\ kind = "echo" /\ receive \in {"empty", "error"}
  /\ receive' = "pending"
  /\ UNCHANGED <<kind, endpoint, data, sends, running>>

HandleSendTo(s) ==
  /\ running /\ kind = "echo" /\ s.status = "done"
  /\ sends' = sends \ {s}
  /\ receive' = "pending"
  /\ UNCHANGED <<kind, endpoint, data, running>>

\* mutant: startReceive() before the answer is started, which may find the
\* next datagram at once
ReceiveFirst ==
  /\ running /\ kind = "daytime" /\ receive \in {"ok", "empty"}
  /\ Cardinality(sends) < MaxSends
  /\ \E p \in Peers : sends' = sends \cup {Answer(p)} /\ endpoint' = p
  /\ receive' = "ok"
  /\ UNCHANGED <<kind, data, running>>

HandleReceive == \* of the daytime server
  /\ running /\ kind = "daytime" /\ receive \in {"ok", "empty"}
  /\ Cardinality(sends) < MaxSends
  /\ sends' = sends \cup {Answer(endpoint)}
  /\ receive' = "pending"
  /\ UNCHANGED <<kind, endpoint, data, running>>

HandleReceiveFails == \* startReceive() is not called any more
  /\ running /\ kind = "daytime" /\ receive = "error"
  /\ receive' = "none"
  /\ UNCHANGED <<kind, endpoint, data, sends, running>>

HandleSend(s) ==
  /\ running /\ kind = "daytime" /\ s.status = "done"
  /\ sends' = sends \ {s}
  /\ UNCHANGED <<kind, receive, endpoint, data, running>>

Return == \* no operation is left
  /\ running /\ receive = "none" /\ sends = {}
  /\ running' = FALSE
  /\ UNCHANGED <<kind, receive, endpoint, data, sends>>

-----------------------------------------------------------------------------
(* The network *)

Arrive ==
  /\ receive = "pending"
  /\ \/ receive' \in {"ok", "empty"} /\ endpoint' \in Peers /\ data' \in Contents
     \/ receive' = "error" /\ UNCHANGED <<endpoint, data>>
  /\ UNCHANGED <<kind, sends, running>>

Depart(s) == \* sent or not: the handlers do not ask
  /\ s.status = "pending"
  /\ sends' = (sends \ {s}) \cup {[s EXCEPT !.status = "done"]}
  /\ UNCHANGED <<kind, receive, endpoint, data, running>>

Handle == \/ HandleReceiveFrom \/ ReceiveAgain \/ HandleReceive \/ HandleReceiveFails
          \/ Return \/ \E s \in sends : HandleSendTo(s) \/ HandleSend(s)

Next == Handle \/ Arrive \/ \E s \in sends : Depart(s)

Spec == Init /\ [][Next]_vars

-----------------------------------------------------------------------------
(* Properties *)

TypeOK ==
  /\ kind \in {"echo", "daytime"} /\ running \in BOOLEAN
  /\ receive \in {"none", "pending", "ok", "empty", "error"}
  /\ endpoint \in Peers /\ data \in Contents
  /\ sends \subseteq [id : 1 .. MaxSends, to : Peers, status : {"pending", "done"},
                      from : Peers, asked : Contents]

\* An answer goes to the peer whose datagram it answers, and the echo is still
\* of that datagram when it leaves, though each server has but one endpoint and
\* one buffer, and the daytime server receives again before it has sent.
AnswersReachTheAsker ==
  \A s \in sends : /\ s.to = s.from
                   /\ kind = "echo" /\ s.status = "pending" => data = s.asked

\* The echo server has one operation at a time, and for ever; the daytime
\* server has one receive until one fails.
OneOperation ==
  /\ kind = "echo" => (receive = "none") = (Cardinality(sends) = 1) /\ running
  /\ ~running => receive = "none" /\ sends = {}
==============================================================================
