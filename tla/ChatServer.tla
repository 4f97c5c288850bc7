----------------------------- MODULE ChatServer -----------------------------
(***************************************************************************)
(* chat_server/chat_server.cpp: a room, the sessions of the clients that   *)
(* connect, and the acceptor.  One thread runs the io_context, so that a   *)
(* handler is one step; what it starts (accept, read, write) completes     *)
(* later, with or without an error, in any order.  A session lives while a *)
(* handler or the room holds a shared_ptr to it.                           *)
(*                                                                         *)
(* A message is the number of its delivery to the room.  The network is    *)
(* the choice of how operations complete: a client may half-close, send a  *)
(* bad header, or disconnect, after which nothing succeeds.                *)
(***************************************************************************)
EXTENDS Naturals, Sequences

CONSTANTS Sessions,    \* the chat_session objects, each for one connection
          None,
          MaxRecent,   \* max_recent_msgs, 100 in the code
          MaxMessages  \* bound: the messages delivered to the room

ASSUME ChatAssumption == /\ None \notin Sessions
                         /\ MaxRecent \in Nat \ {0} /\ MaxMessages \in Nat

VARIABLES participants, \* participants_
          recent,       \* recent_msgs_
          accepting,    \* the session of the outstanding async_accept
          used,         \* the sessions constructed
          reading,      \* the outstanding async_read of each session
          writeMsgs,    \* write_msgs_ of each session
          writes,       \* the number of its outstanding async_writes
          down,         \* the sessions whose connection is lost
          posted,       \* auxiliary: the number of messages delivered
          from,         \* auxiliary: the first message due to each session
          sent          \* auxiliary: the messages written to each client

room == <<participants, recent, posted>>
acceptor == <<accepting, used>>
vars == <<room, acceptor, reading, writeMsgs, writes, down, from, sent>>

LastNOrMore(s, n) == s \* mutant: the oldest message is not removed

LastN(s, n) == IF Len(s) <= n THEN s ELSE SubSeq(s, Len(s) - n + 1, Len(s))

Init == /\ participants = {} /\ recent = <<>> /\ posted = 0
        /\ accepting \in Sessions /\ used = {accepting}
        /\ reading = [s \in Sessions |-> "none"]
        /\ writeMsgs = [s \in Sessions |-> <<>>]
        /\ writes = [s \in Sessions |-> 0]
        /\ down = {}
        /\ from = [s \in Sessions |-> 1]
        /\ sent = [s \in Sessions |-> <<>>]

-----------------------------------------------------------------------------
(* The acceptor *)

StartAccept == \* bound: no session is left to accept with
  IF used = Sessions
  THEN accepting' = None /\ UNCHANGED used
  ELSE \E s \in Sessions \ used : accepting' = s /\ used' = used \cup {s}

\* chat_session::start: room_.join() delivers the recent messages, one after
\* the other, and the first of them starts a write.
Joined(s) ==
  /\ participants' = participants \cup {s}
  /\ writeMsgs' = [writeMsgs EXCEPT ![s] = recent]
  /\ writes' = [writes EXCEPT ![s] = IF recent = <<>> THEN 0 ELSE 1]
  /\ reading' = [reading EXCEPT ![s] = "header"]
  /\ from' = [from EXCEPT ![s] = posted - Len(recent) + 1]
  /\ UNCHANGED <<recent, posted, down, sent>>

HandleAccept(s) == accepting = s /\ Joined(s) /\ StartAccept

AcceptFails(s) ==
  /\ accepting = s
  /\ StartAccept
  /\ UNCHANGED <<room, reading, writeMsgs, writes, down, from, sent>>

-----------------------------------------------------------------------------
(* Reading *)

Leave(s) == /\ participants' = participants \ {s}
            /\ UNCHANGED <<recent, posted>>

ReadHeader(s) ==
  /\ reading[s] = "header" /\ s \notin down
  /\ reading' = [reading EXCEPT ![s] = "body"]
  /\ UNCHANGED <<room, acceptor, writeMsgs, writes, down, from, sent>>

ReadFailsSilently(s) == \* mutant: the session stays in the room
  /\ reading[s] # "none"
  /\ reading' = [reading EXCEPT ![s] = "none"]
  /\ UNCHANGED <<room, acceptor, writeMsgs, writes, down, from, sent>>

\* handle_read_header() and handle_read_body() with an error, or with a
\* header that decode_header() refuses.
ReadFails(s) ==
  /\ reading[s] # "none"
  /\ reading' = [reading EXCEPT ![s] = "none"]
  /\ Leave(s)
  /\ UNCHANGED <<acceptor, writeMsgs, writes, down, from, sent>>

StartWrites(receivers) ==
  writes' = [s \in Sessions |->
               IF s \in receivers /\ writeMsgs[s] = <<>> THEN writes[s] + 1
                                                          ELSE writes[s]]

DeliverAtOnce(m) == \* mutant: deliver() starts a write for every message
  /\ recent' = LastN(Append(recent, m), MaxRecent)
  /\ writeMsgs' = [s \in Sessions |-> IF s \in participants
                                      THEN Append(writeMsgs[s], m) ELSE writeMsgs[s]]
  /\ writes' = [s \in Sessions |-> IF s \in participants THEN writes[s] + 1
                                                         ELSE writes[s]]

DeliverUnkept(m) == \* mutant: the room forgets to keep the message
  /\ UNCHANGED recent
  /\ writeMsgs' = [s \in Sessions |-> IF s \in participants
                                      THEN Append(writeMsgs[s], m) ELSE writeMsgs[s]]
  /\ StartWrites(participants)

\* chat_room::deliver, and chat_session::deliver for each participant
Deliver(m) ==
  /\ recent' = LastN(Append(recent, m), MaxRecent)
  /\ writeMsgs' = [s \in Sessions |-> IF s \in participants
                                      THEN Append(writeMsgs[s], m) ELSE writeMsgs[s]]
  /\ StartWrites(participants)

ReadBody(s) ==
  /\ reading[s] = "body" /\ s \notin down
  /\ posted < MaxMessages
  /\ posted' = posted + 1
  /\ Deliver(posted')
  /\ reading' = [reading EXCEPT ![s] = "header"]
  /\ UNCHANGED <<participants, acceptor, down, from, sent>>

-----------------------------------------------------------------------------
(* Writing *)

WrittenKept(s) == \* mutant: pop_front() is missing
  /\ writes[s] > 0 /\ s \notin down
  /\ Len(sent[s]) < MaxMessages
  /\ sent' = [sent EXCEPT ![s] = Append(@, Head(writeMsgs[s]))]
  /\ UNCHANGED <<room, acceptor, reading, writeMsgs, writes, down, from>>

Written(s) == \* handle_write() without an error
  /\ writes[s] > 0 /\ s \notin down
  /\ sent' = [sent EXCEPT ![s] = Append(@, Head(writeMsgs[s]))]
  /\ writeMsgs' = [writeMsgs EXCEPT ![s] = Tail(@)]
  /\ writes' = [writes EXCEPT ![s] = IF Len(writeMsgs[s]) > 1 THEN @ ELSE @ - 1]
  /\ UNCHANGED <<room, acceptor, reading, down, from>>

WriteFailsSilently(s) == \* mutant: the session stays in the room
  /\ writes[s] > 0
  /\ writes' = [writes EXCEPT ![s] = @ - 1]
  /\ UNCHANGED <<room, acceptor, reading, writeMsgs, down, from, sent>>

WriteFails(s) == \* handle_write() with an error
  /\ writes[s] > 0
  /\ writes' = [writes EXCEPT ![s] = @ - 1]
  /\ Leave(s)
  /\ UNCHANGED <<acceptor, reading, writeMsgs, down, from, sent>>

-----------------------------------------------------------------------------
Disconnect(s) ==
  /\ reading[s] # "none" \/ writes[s] > 0
  /\ s \notin down
  /\ down' = down \cup {s}
  /\ UNCHANGED <<room, acceptor, reading, writeMsgs, writes, from, sent>>

Next == \E s \in Sessions :
          \/ HandleAccept(s) \/ AcceptFails(s) \/ ReadHeader(s) \/ ReadFails(s)
          \/ ReadBody(s) \/ Written(s) \/ WriteFails(s) \/ Disconnect(s)

Spec == Init /\ [][Next]_vars

\* A write completes; a read completes once the connection is lost.
Fairness == \A s \in Sessions : /\ WF_vars(Written(s) \/ WriteFails(s))
                              /\ WF_vars(s \in down /\ ReadFails(s))

-----------------------------------------------------------------------------
(* Properties *)

\* Each variable keeps its type; the room keeps at most MaxRecent messages.
TypeOK ==
  /\ participants \subseteq used /\ down \subseteq used
  /\ accepting \in Sessions \cup {None}
  /\ recent \in Seq(1 .. MaxMessages) /\ Len(recent) <= MaxRecent
  /\ reading \in [Sessions -> {"none", "header", "body"}]
  /\ writeMsgs \in [Sessions -> Seq(1 .. MaxMessages)]
  /\ writes \in [Sessions -> Nat]
  /\ posted \in 0 .. MaxMessages
  /\ sent \in [Sessions -> Seq(1 .. MaxMessages)]

\* A session has at most one async_write under way, and one in the room has
\* one whenever messages wait: deliver() and handle_write() decide this from
\* whether write_msgs_ is empty (lines 103, 151).
OneWriteAtATime ==
  \A s \in Sessions :
    /\ writes[s] <= 1
    /\ writes[s] = 1 => writeMsgs[s] # <<>>
    /\ s \in participants => (writes[s] = 1 <=> writeMsgs[s] # <<>>)

Run(i, j) == [k \in 1 .. j - i + 1 |-> i + k - 1]

\* Written and waiting messages of a participant are, in order and without a
\* gap, the recent messages when it joined and all those after; one that has
\* left has got an initial part of them.
NoMessageIsMissed ==
  \A s \in used \ {accepting} :
    LET got == sent[s] \o writeMsgs[s]
    IN IF s \in participants
       THEN got = Run(from[s], posted)
       ELSE got = Run(from[s], from[s] + Len(got) - 1) /\ from[s] + Len(got) - 1 <= posted

\* A new participant is sent the last messages, MaxRecent if there are so many.
BacklogIsComplete ==
  \A s \in participants : from[s] > 1 => Len(sent[s] \o writeMsgs[s]) >= MaxRecent

\* What waits for a participant is written, unless it leaves.
MessagesArrive ==
  \A s \in Sessions :
    (s \in participants /\ writeMsgs[s] # <<>>)
      ~> (writeMsgs[s] = <<>> \/ s \notin participants)

Held(s) == s \in participants \/ reading[s] # "none" \/ writes[s] > 0

\* The session of a lost connection leaves the room and is destroyed.
LostSessionsAreDestroyed == \A s \in Sessions : (s \in down) ~> ~Held(s)
==============================================================================
