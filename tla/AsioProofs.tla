------------------------------ MODULE AsioProofs ------------------------------
(***************************************************************************)
(* The Boost.Asio programs other than the HTTP servers, in the executions  *)
(* of MCAsio, for every number of sessions, messages, lines and packets.   *)
(***************************************************************************)
EXTENDS MCAsio, Integers, FiniteSetTheorems, WellFoundedInduction, TLAPS

-----------------------------------------------------------------------------
(* Lists to which elements are appended, and from which the first is taken *)

\* An append leaves the others in their places.
LEMMA Appended ==
  ASSUME NEW S, NEW l \in Seq(S), NEW e \in S
  PROVE  /\ Append(l, e) \in Seq(S) /\ Append(l, e) # <<>>
         /\ Len(l) \in Nat /\ Len(Append(l, e)) = Len(l) + 1
         /\ \A k \in 1 .. Len(l) : Append(l, e)[k] = l[k]
         /\ Append(l, e)[Len(l) + 1] = e
<1>1. Len(l) \in Nat /\ Append(l, e) \in Seq(S) /\ Len(Append(l, e)) = Len(l) + 1
  OBVIOUS
<1>2. \A k \in 1 .. Len(l) : Append(l, e)[k] = l[k]
  OBVIOUS
<1>3. Append(l, e)[Len(l) + 1] = e
  OBVIOUS
<1>4. Append(l, e) # <<>>
  BY <1>1
<1>. QED
  BY <1>1, <1>2, <1>3, <1>4

\* The others move up when the first is taken.
LEMMA FirstTaken ==
  ASSUME NEW S, NEW l \in Seq(S), l # <<>>
  PROVE  /\ Head(l) = l[1] /\ Head(l) \in S /\ Tail(l) \in Seq(S)
         /\ Len(l) \in Nat /\ Len(l) >= 1 /\ Len(Tail(l)) = Len(l) - 1
         /\ \A k \in 1 .. Len(l) - 1 : Tail(l)[k] = l[k + 1]
<1>1. Len(l) \in Nat /\ Len(l) >= 1 /\ Tail(l) \in Seq(S) /\ Len(Tail(l)) = Len(l) - 1
  OBVIOUS
<1>2. Head(l) = l[1] /\ Head(l) \in S
  BY <1>1
<1>3. \A k \in 1 .. Len(l) - 1 : Tail(l)[k] = l[k + 1]
  BY <1>1
<1>. QED
  BY <1>1, <1>2, <1>3

\* Lists with the same elements in the same places are one list.
LEMMA SameList ==
  ASSUME NEW S, NEW l \in Seq(S), NEW m \in Seq(S), Len(l) = Len(m),
         \A k \in 1 .. Len(l) : l[k] = m[k]
  PROVE  l = m
  OBVIOUS

LEMMA Element ==
  ASSUME NEW S, NEW l \in Seq(S), NEW k \in 1 .. Len(l)
  PROVE  l[k] \in S
  OBVIOUS

LEMMA WiderList ==
  ASSUME NEW S, NEW T, S \subseteq T, NEW l \in Seq(S)
  PROVE  l \in Seq(T)
  OBVIOUS

-----------------------------------------------------------------------------
(* The chat server *)

\* What is true of a session with its writes w, the messages q that wait and
\* the messages o that were written, from message f on, when n were delivered:
\* a message that waits is being written, and o and q have no gap.
SessionOK(w, q, o, f, n) ==
  /\ w \in {0, 1} /\ f \in Nat \ {0}
  /\ q \in Seq(1 .. MaxMessages) /\ o \in Seq(1 .. MaxMessages)
  /\ w = 1 => q # <<>>
  /\ \A k \in 1 .. Len(o) : o[k] = f + k - 1
  /\ \A k \in 1 .. Len(q) : q[k] = f + Len(o) + k - 1
  /\ f + Len(o) + Len(q) <= n + 1

\* And of a participant: it has all of them.
MemberOK(w, q, o, f, n) ==
  /\ q # <<>> => w = 1
  /\ f + Len(o) + Len(q) = n + 1
  /\ f > 1 => Len(o) + Len(q) >= MaxRecent

\* The room keeps the last messages r.
RoomOK(r, n) ==
  /\ n \in 0 .. MaxMessages /\ r \in Seq(1 .. MaxMessages)
  /\ Len(r) = IF n < MaxRecent THEN n ELSE MaxRecent
  /\ \A k \in 1 .. Len(r) : r[k] = n - Len(r) + k

\* join() gives a new participant the recent messages.
LEMMA SessionJoins ==
  ASSUME NEW r, NEW n, RoomOK(r, n), NEW w, w = IF r = <<>> THEN 0 ELSE 1
  PROVE  /\ SessionOK(w, r, <<>>, n - Len(r) + 1, n)
         /\ MemberOK(w, r, <<>>, n - Len(r) + 1, n)
  BY ChatAssumption DEF RoomOK, SessionOK, MemberOK

\* deliver() appends a message, and starts a write if there was none.
LEMMA SessionDelivers ==
  ASSUME NEW w, NEW q, NEW o, NEW f, NEW n \in 0 .. MaxMessages - 1, MaxMessages \in Nat,
         SessionOK(w, q, o, f, n), MemberOK(w, q, o, f, n),
         NEW v, v = IF q = <<>> THEN w + 1 ELSE w
  PROVE  /\ SessionOK(v, Append(q, n + 1), o, f, n + 1)
         /\ MemberOK(v, Append(q, n + 1), o, f, n + 1)
<1> DEFINE p == Append(q, n + 1)
<1>1. /\ q \in Seq(1 .. MaxMessages) /\ n + 1 \in 1 .. MaxMessages /\ o \in Seq(1 .. MaxMessages)
      /\ f \in Nat \ {0} /\ Len(q) \in Nat /\ Len(o) \in Nat /\ n \in Nat
      /\ f + Len(o) + Len(q) = n + 1
      /\ f > 1 => Len(o) + Len(q) >= MaxRecent
  BY ChatAssumption DEF SessionOK, MemberOK
<1>2. /\ p \in Seq(1 .. MaxMessages) /\ Len(p) = Len(q) + 1 /\ p # <<>>
      /\ \A k \in 1 .. Len(q) : p[k] = q[k]
      /\ p[Len(q) + 1] = n + 1
  BY <1>1, Appended
<1>3. \A k \in 1 .. Len(p) : p[k] = f + Len(o) + k - 1
  <2>. SUFFICES ASSUME NEW k \in 1 .. Len(p) PROVE p[k] = f + Len(o) + k - 1
    OBVIOUS
  <2>1. CASE k \in 1 .. Len(q)
    BY <1>2, <2>1 DEF SessionOK
  <2>2. CASE k = Len(q) + 1
    BY <1>1, <1>2, <2>2
  <2>. QED
    BY <1>1, <1>2, <2>1, <2>2
<1>4. v = 1 /\ w \in {0, 1}
  <2>1. w \in {0, 1} /\ (w = 1 <=> q # <<>>)
    BY DEF SessionOK, MemberOK
  <2>. QED
    BY <2>1
<1> HIDE DEF p
<1>5. SessionOK(v, p, o, f, n + 1)
  <2>1. f + Len(o) + Len(p) <= (n + 1) + 1 /\ v \in {0, 1}
    BY <1>1, <1>2, <1>4
  <2>2. \A k \in 1 .. Len(o) : o[k] = f + k - 1
    BY DEF SessionOK
  <2>. QED
    BY <1>1, <1>2, <1>3, <2>1, <2>2 DEF SessionOK
<1>6. MemberOK(v, p, o, f, n + 1)
  <2>1. f + Len(o) + Len(p) = (n + 1) + 1
    BY <1>1, <1>2
  <2>2. f > 1 => Len(o) + Len(p) >= MaxRecent
    <3>1. MaxRecent \in Nat
      BY ChatAssumption
    <3>. QED
      BY <1>1, <1>2, <3>1
  <2>. QED
    BY <1>4, <2>1, <2>2 DEF MemberOK
<1>. QED
  BY <1>5, <1>6 DEF p

\* handle_write() takes the message off, and goes on if there is another.
LEMMA SessionWrites ==
  ASSUME NEW w, NEW q, NEW o, NEW f, NEW n \in Nat, SessionOK(w, q, o, f, n), w > 0,
         NEW v, v = IF Len(q) > 1 THEN w ELSE w - 1
  PROVE  /\ SessionOK(v, Tail(q), Append(o, Head(q)), f, n)
         /\ MemberOK(w, q, o, f, n) => MemberOK(v, Tail(q), Append(o, Head(q)), f, n)
<1> DEFINE p == Tail(q)
           h == Append(o, Head(q))
<1>1. /\ w = 1 /\ q # <<>> /\ q \in Seq(1 .. MaxMessages) /\ o \in Seq(1 .. MaxMessages)
      /\ f \in Nat /\ Len(q) \in Nat /\ Len(o) \in Nat
  BY DEF SessionOK
<1>2. /\ p \in Seq(1 .. MaxMessages) /\ Len(p) = Len(q) - 1 /\ Head(q) = q[1]
      /\ \A k \in 1 .. Len(p) : p[k] = q[k + 1]
      /\ Head(q) \in 1 .. MaxMessages /\ Len(q) >= 1
  BY <1>1, FirstTaken
<1>3. /\ h \in Seq(1 .. MaxMessages) /\ Len(h) = Len(o) + 1
      /\ \A k \in 1 .. Len(o) : h[k] = o[k]
      /\ h[Len(o) + 1] = q[1]
  BY <1>1, <1>2, Appended
<1>4. \A k \in 1 .. Len(h) : h[k] = f + k - 1
  <2>. SUFFICES ASSUME NEW k \in 1 .. Len(h) PROVE h[k] = f + k - 1
    OBVIOUS
  <2>1. CASE k \in 1 .. Len(o)
    BY <1>3, <2>1 DEF SessionOK
  <2>2. CASE k = Len(o) + 1
    <3>1. 1 \in 1 .. Len(q)
      BY <1>1, <1>2
    <3>2. q[1] = f + Len(o) + 1 - 1
      BY <3>1 DEF SessionOK
    <3>. QED
      BY <1>1, <1>3, <2>2, <3>2
  <2>. QED
    BY <1>1, <1>3, <2>1, <2>2
<1>5. \A k \in 1 .. Len(p) : p[k] = f + Len(h) + k - 1
  <2>. SUFFICES ASSUME NEW k \in 1 .. Len(p) PROVE p[k] = f + Len(h) + k - 1
    OBVIOUS
  <2>1. k + 1 \in 1 .. Len(q)
    BY <1>1, <1>2
  <2>2. q[k + 1] = f + Len(o) + (k + 1) - 1
    BY <2>1 DEF SessionOK
  <2>. QED
    BY <1>1, <1>2, <1>3, <2>2
<1>6. /\ v \in {0, 1} /\ (v = 1 <=> p # <<>>)
  BY <1>1, <1>2
<1> HIDE DEF p, h
<1>7. SessionOK(v, p, h, f, n)
  <2>1. f + Len(h) + Len(p) <= n + 1 /\ f \in Nat \ {0}
    BY <1>1, <1>2, <1>3 DEF SessionOK
  <2>. QED
    BY <1>2, <1>3, <1>4, <1>5, <1>6, <2>1 DEF SessionOK
<1>8. MemberOK(w, q, o, f, n) => MemberOK(v, p, h, f, n)
  <2>1. Len(h) + Len(p) = Len(o) + Len(q) /\ f + Len(h) + Len(p) = f + Len(o) + Len(q)
    BY <1>1, <1>2, <1>3
  <2>. QED
    BY <1>6, <2>1 DEF MemberOK
<1>. QED
  BY <1>7, <1>8 DEF p, h

\* The oldest message goes when there are too many.
LEMMA RoomDelivers ==
  ASSUME NEW r, NEW n, RoomOK(r, n), n < MaxMessages
  PROVE  RoomOK(LastN(Append(r, n + 1), MaxRecent), n + 1)
<1> DEFINE p == Append(r, n + 1)
<1>1. /\ MaxRecent \in Nat \ {0} /\ MaxMessages \in Nat /\ n \in 0 .. MaxMessages
      /\ r \in Seq(1 .. MaxMessages) /\ Len(r) \in Nat /\ n + 1 \in 1 .. MaxMessages
  BY ChatAssumption DEF RoomOK
<1>2. /\ p \in Seq(1 .. MaxMessages) /\ Len(p) = Len(r) + 1
      /\ \A k \in 1 .. Len(p) : p[k] = n - Len(r) + k
  <2>1. /\ p \in Seq(1 .. MaxMessages) /\ Len(p) = Len(r) + 1
        /\ \A k \in 1 .. Len(r) : p[k] = r[k]
        /\ p[Len(r) + 1] = n + 1
    BY <1>1
  <2>. QED
    BY <1>1, <2>1 DEF RoomOK
<1> HIDE DEF p
<1>3. CASE n < MaxRecent
  <2>1. Len(p) = n + 1 /\ LastN(p, MaxRecent) = p
    BY <1>1, <1>2, <1>3 DEF RoomOK, LastN
  <2>. QED
    BY <1>1, <1>2, <1>3, <2>1 DEF RoomOK, p
<1>4. CASE ~(n < MaxRecent)
  <2>1. Len(r) = MaxRecent /\ Len(p) = MaxRecent + 1
    BY <1>1, <1>2, <1>4 DEF RoomOK
  <2>2. LastN(p, MaxRecent) = SubSeq(p, 2, MaxRecent + 1)
    BY <1>1, <2>1 DEF LastN
  <2>3. /\ SubSeq(p, 2, MaxRecent + 1) \in Seq(1 .. MaxMessages)
        /\ Len(SubSeq(p, 2, MaxRecent + 1)) = MaxRecent
        /\ \A k \in 1 .. MaxRecent : SubSeq(p, 2, MaxRecent + 1)[k] = p[k + 1]
    BY <1>1, <1>2, <2>1
  <2>4. \A k \in 1 .. MaxRecent : p[k + 1] = (n + 1) - MaxRecent + k
    <3>. SUFFICES ASSUME NEW k \in 1 .. MaxRecent PROVE p[k + 1] = (n + 1) - MaxRecent + k
      OBVIOUS
    <3>1. k + 1 \in 1 .. Len(p) /\ k \in Nat
      BY <1>1, <2>1
    <3>2. p[k + 1] = n - Len(r) + (k + 1)
      BY <1>2, <3>1
    <3>. QED
      BY <1>1, <2>1, <3>1, <3>2
  <2>5. n + 1 \in 0 .. MaxMessages /\ ~(n + 1 < MaxRecent)
    BY <1>1, <1>4
  <2>. QED
    BY <2>2, <2>3, <2>4, <2>5 DEF RoomOK, p
<1>. QED
  BY <1>1, <1>3, <1>4

\* A session that has not started.
Fresh(s) == /\ reading[s] = "none" /\ writes[s] = 0 /\ writeMsgs[s] = <<>>
            /\ sent[s] = <<>> /\ from[s] = 1 /\ s \notin participants

ChatSession(s) ==
  /\ SessionOK(writes[s], writeMsgs[s], sent[s], from[s], posted)
  /\ s \in participants => MemberOK(writes[s], writeMsgs[s], sent[s], from[s], posted)
  /\ s \notin used \/ s = accepting => Fresh(s)

\* Types, and which sessions there are.
ChatTyped ==
  /\ used \subseteq Sessions /\ down \subseteq used
  /\ accepting \in used \cup {None}
  /\ reading \in [Sessions -> {"none", "header", "body"}]
  /\ writeMsgs \in [Sessions -> Seq(1 .. MaxMessages)]
  /\ sent \in [Sessions -> Seq(1 .. MaxMessages)]
  /\ writes \in [Sessions -> {0, 1}] /\ from \in [Sessions -> Nat \ {0}]
  /\ participants \subseteq Sessions

ChatInv == /\ ChatTyped /\ RoomOK(recent, posted)
           /\ \A s \in Sessions : ChatSession(s)

\* The first session waits to be accepted.
LEMMA ChatInvInit == Init => ChatInv
<1> SUFFICES ASSUME Init PROVE ChatInv
  OBVIOUS
<1>1. ChatTyped
  BY DEF Init, ChatTyped
<1>2. RoomOK(recent, posted)
  BY ChatAssumption DEF Init, RoomOK
<1>3. ASSUME NEW s \in Sessions PROVE ChatSession(s)
  <2>1. /\ writes[s] = 0 /\ writeMsgs[s] = <<>> /\ sent[s] = <<>> /\ from[s] = 1
        /\ reading[s] = "none" /\ participants = {} /\ posted = 0
    BY DEF Init
  <2>2. SessionOK(0, <<>>, <<>>, 1, 0)
    BY DEF SessionOK
  <2>. QED
    BY <2>1, <2>2 DEF ChatSession, Fresh
<1>. QED
  BY <1>1, <1>2, <1>3 DEF ChatInv

\* A step that leaves a session alone, delivers nothing to it and does not
\* take it away.
LEMMA ChatSessionStays ==
  ASSUME NEW s \in Sessions, ChatSession(s),
         writes'[s] = writes[s], writeMsgs'[s] = writeMsgs[s], sent'[s] = sent[s],
         from'[s] = from[s], posted' = posted, reading'[s] = reading[s],
         s \in participants' <=> s \in participants,
         s \notin used' \/ s = accepting' => s \notin used \/ s = accepting
  PROVE  ChatSession(s)'
  BY DEF ChatSession, Fresh

\* The acceptor takes a session that was not used.
LEMMA ChatAccepts ==
  ASSUME ChatInv, StartAccept, accepting # None
  PROVE  /\ used' \subseteq Sessions /\ used \subseteq used'
         /\ accepting' \in used' \cup {None} /\ accepting' # accepting
         /\ \A s \in Sessions : s \notin used' \/ s = accepting' => s \notin used
<1>1. /\ used \subseteq Sessions /\ accepting \in used
  BY DEF ChatInv, ChatTyped
<1>2. CASE used = Sessions
  BY <1>1, <1>2, ChatAssumption DEF StartAccept
<1>3. CASE used # Sessions
  <2>1. PICK s \in Sessions \ used : accepting' = s /\ used' = used \cup {s}
    BY <1>3 DEF StartAccept
  <2>. QED
    BY <1>1, <2>1
<1>. QED
  BY <1>2, <1>3

\* Accepting a session, or failing to.
LEMMA ChatAcceptStep ==
  ASSUME ChatInv, NEW s \in Sessions, HandleAccept(s) \/ AcceptFails(s)
  PROVE  ChatInv'
<1>0. /\ accepting = s /\ StartAccept /\ ChatTyped /\ RoomOK(recent, posted)
      /\ recent' = recent /\ posted' = posted /\ down' = down /\ s # None
  BY ChatAssumption DEF HandleAccept, AcceptFails, Joined, room, ChatInv
<1>1. /\ used' \subseteq Sessions /\ used \subseteq used'
      /\ accepting' \in used' \cup {None} /\ accepting' # s
      /\ \A x \in Sessions : x \notin used' \/ x = accepting' => x \notin used
      /\ s \in used
  BY <1>0, ChatAccepts DEF ChatTyped
<1>2. CASE HandleAccept(s)
  <2>1. /\ participants' = participants \cup {s}
        /\ writeMsgs' = [writeMsgs EXCEPT ![s] = recent]
        /\ writes' = [writes EXCEPT ![s] = IF recent = <<>> THEN 0 ELSE 1]
        /\ reading' = [reading EXCEPT ![s] = "header"]
        /\ from' = [from EXCEPT ![s] = posted - Len(recent) + 1]
        /\ sent' = sent
    BY <1>2 DEF HandleAccept, Joined
  <2>2. ChatTyped'
    <3>1. recent \in Seq(1 .. MaxMessages) /\ posted - Len(recent) + 1 \in Nat \ {0}
      BY <1>0, ChatAssumption DEF RoomOK
    <3>. QED
      BY <1>0, <1>1, <2>1, <3>1 DEF ChatTyped
  <2>3. ASSUME NEW x \in Sessions, x # s PROVE ChatSession(x)'
    BY <1>0, <1>1, <2>1, <2>3, ChatSessionStays DEF ChatInv, ChatTyped
  <2>4. ChatSession(s)'
    <3>1. /\ writes'[s] = (IF recent = <<>> THEN 0 ELSE 1) /\ writeMsgs'[s] = recent
          /\ from'[s] = posted - Len(recent) + 1 /\ sent'[s] = <<>>
      BY <1>0, <2>1 DEF ChatTyped, ChatInv, ChatSession, Fresh
    <3>2. /\ SessionOK(writes'[s], writeMsgs'[s], sent'[s], from'[s], posted')
          /\ MemberOK(writes'[s], writeMsgs'[s], sent'[s], from'[s], posted')
      BY <1>0, <3>1, SessionJoins
    <3>3. s \in used' /\ s # accepting'
      BY <1>1
    <3>. QED
      BY <3>2, <3>3 DEF ChatSession
  <2>. QED
    BY <1>0, <2>2, <2>3, <2>4 DEF ChatInv
<1>3. CASE AcceptFails(s)
  <2>1. UNCHANGED <<participants, writeMsgs, writes, reading, from, sent>>
    BY <1>3 DEF AcceptFails, room
  <2>2. ChatTyped'
    BY <1>0, <1>1, <2>1 DEF ChatTyped
  <2>3. ASSUME NEW x \in Sessions PROVE ChatSession(x)'
    BY <1>0, <1>1, <2>1, ChatSessionStays DEF ChatInv
  <2>. QED
    BY <1>0, <2>2, <2>3 DEF ChatInv
<1>. QED
  BY <1>2, <1>3

\* A step of session s that is neither accepted nor delivers: the others stay.
LEMMA ChatOneSession ==
  ASSUME ChatInv, NEW s \in Sessions,
         UNCHANGED <<recent, posted, accepting, used, from>>,
         down' \subseteq used /\ reading' \in [Sessions -> {"none", "header", "body"}],
         writes' \in [Sessions -> {0, 1}], writeMsgs' \in [Sessions -> Seq(1 .. MaxMessages)],
         sent' \in [Sessions -> Seq(1 .. MaxMessages)],
         \A x \in Sessions \ {s} : /\ writes'[x] = writes[x] /\ writeMsgs'[x] = writeMsgs[x]
                                   /\ sent'[x] = sent[x] /\ reading'[x] = reading[x]
                                   /\ x \in participants' <=> x \in participants,
         participants' \subseteq participants,
         reading[s] # "none" \/ writes[s] > 0,
         SessionOK(writes'[s], writeMsgs'[s], sent'[s], from[s], posted),
         s \in participants' => MemberOK(writes'[s], writeMsgs'[s], sent'[s], from[s], posted)
  PROVE  ChatInv'
<1>1. ChatTyped' /\ RoomOK(recent', posted')
  BY DEF ChatInv, ChatTyped
<1>2. ASSUME NEW x \in Sessions, x # s PROVE ChatSession(x)'
  BY <1>2, ChatSessionStays DEF ChatInv
<1>3. ChatSession(s)'
  <2>1. ~Fresh(s) /\ ChatSession(s)
    BY DEF Fresh, ChatInv
  <2>2. s \in used /\ s # accepting
    BY <2>1 DEF ChatSession
  <2>. QED
    BY <2>2 DEF ChatSession
<1>. QED
  BY <1>1, <1>2, <1>3 DEF ChatInv

\* Reading a header, failing to read or to write, writing, and losing the connection.
LEMMA ChatSessionStep ==
  ASSUME ChatInv, NEW s \in Sessions,
         ReadHeader(s) \/ ReadFails(s) \/ Written(s) \/ WriteFails(s) \/ Disconnect(s)
  PROVE  ChatInv'
<1>0. /\ ChatTyped /\ ChatSession(s) /\ posted \in Nat
  BY ChatAssumption DEF ChatInv, RoomOK
<1>1. /\ SessionOK(writes[s], writeMsgs[s], sent[s], from[s], posted)
      /\ s \in participants => MemberOK(writes[s], writeMsgs[s], sent[s], from[s], posted)
  BY <1>0 DEF ChatSession
<1>2. UNCHANGED <<recent, posted, accepting, used, from>>
  BY DEF ReadHeader, ReadFails, Written, WriteFails, Disconnect, room, acceptor, Leave
<1>3. s \in used
  BY <1>0 DEF ChatSession, Fresh, ReadHeader, ReadFails, Written, WriteFails, Disconnect
<1>4. CASE ReadHeader(s) \/ ReadFails(s) \/ Disconnect(s)
  <2>1. /\ UNCHANGED <<writes, writeMsgs, sent>> /\ participants' \subseteq participants
        /\ down' \subseteq used /\ reading' \in [Sessions -> {"none", "header", "body"}]
        /\ \A x \in Sessions \ {s} : reading'[x] = reading[x]
        /\ \A x \in Sessions \ {s} : x \in participants' <=> x \in participants
        /\ reading[s] # "none" \/ writes[s] > 0
    BY <1>0, <1>3, <1>4 DEF ChatTyped, ReadHeader, ReadFails, Disconnect, Leave, room
  <2>2. /\ SessionOK(writes'[s], writeMsgs'[s], sent'[s], from[s], posted)
        /\ s \in participants' => MemberOK(writes'[s], writeMsgs'[s], sent'[s], from[s], posted)
    BY <1>1, <2>1
  <2>3. /\ writes' \in [Sessions -> {0, 1}] /\ writeMsgs' \in [Sessions -> Seq(1 .. MaxMessages)]
        /\ sent' \in [Sessions -> Seq(1 .. MaxMessages)]
    BY <1>0, <2>1 DEF ChatTyped
  <2>4. ASSUME NEW x \in Sessions \ {s}
        PROVE  /\ writes'[x] = writes[x] /\ writeMsgs'[x] = writeMsgs[x]
               /\ sent'[x] = sent[x] /\ reading'[x] = reading[x]
               /\ x \in participants' <=> x \in participants
    <3>1. writes'[x] = writes[x] /\ writeMsgs'[x] = writeMsgs[x] /\ sent'[x] = sent[x]
      BY <2>1
    <3>2. reading'[x] = reading[x]
      BY <2>1
    <3>3. x \in participants' <=> x \in participants
      BY <2>1
    <3>. QED
      BY <3>1, <3>2, <3>3
  <2>. QED
    BY <1>2, <2>1, <2>2, <2>3, <2>4, ChatOneSession
<1>5. CASE Written(s)
  <2>1. /\ UNCHANGED <<participants, reading, down>> /\ writes[s] > 0
        /\ sent' = [sent EXCEPT ![s] = Append(sent[s], Head(writeMsgs[s]))]
        /\ writeMsgs' = [writeMsgs EXCEPT ![s] = Tail(writeMsgs[s])]
        /\ writes' = [writes EXCEPT ![s] = IF Len(writeMsgs[s]) > 1 THEN writes[s]
                                           ELSE writes[s] - 1]
    BY <1>5 DEF Written, room
  <2>2. /\ sent'[s] = Append(sent[s], Head(writeMsgs[s])) /\ writeMsgs'[s] = Tail(writeMsgs[s])
        /\ writes'[s] = IF Len(writeMsgs[s]) > 1 THEN writes[s] ELSE writes[s] - 1
        /\ \A x \in Sessions \ {s} : /\ writes'[x] = writes[x] /\ writeMsgs'[x] = writeMsgs[x]
                                     /\ sent'[x] = sent[x]
    BY <1>0, <2>1 DEF ChatTyped
  <2>3. /\ SessionOK(writes'[s], writeMsgs'[s], sent'[s], from[s], posted)
        /\ s \in participants => MemberOK(writes'[s], writeMsgs'[s], sent'[s], from[s], posted)
    BY <1>0, <1>1, <2>1, <2>2, SessionWrites
  <2>4. /\ writes' \in [Sessions -> {0, 1}] /\ writeMsgs' \in [Sessions -> Seq(1 .. MaxMessages)]
        /\ sent' \in [Sessions -> Seq(1 .. MaxMessages)]
    <3>1. /\ Append(sent[s], Head(writeMsgs[s])) \in Seq(1 .. MaxMessages)
          /\ Tail(writeMsgs[s]) \in Seq(1 .. MaxMessages)
          /\ (IF Len(writeMsgs[s]) > 1 THEN writes[s] ELSE writes[s] - 1) \in {0, 1}
      BY <2>2, <2>3 DEF SessionOK
    <3>. QED
      BY <1>0, <2>1, <3>1 DEF ChatTyped
  <2>. QED
    BY <1>0, <1>2, <2>1, <2>2, <2>3, <2>4, ChatOneSession DEF ChatTyped
<1>6. CASE WriteFails(s)
  <2>1. /\ UNCHANGED <<reading, down, writeMsgs, sent>> /\ writes[s] > 0
        /\ writes' = [writes EXCEPT ![s] = writes[s] - 1]
        /\ participants' = participants \ {s}
    BY <1>6 DEF WriteFails, Leave
  <2>2. /\ writes'[s] = 0 /\ writes' \in [Sessions -> {0, 1}]
        /\ \A x \in Sessions \ {s} : writes'[x] = writes[x]
    BY <1>0, <1>1, <2>1 DEF ChatTyped, SessionOK
  <2>3. SessionOK(writes'[s], writeMsgs'[s], sent'[s], from[s], posted)
    BY <1>1, <2>1, <2>2 DEF SessionOK
  <2>. QED
    BY <1>0, <1>2, <2>1, <2>2, <2>3, ChatOneSession DEF ChatTyped
<1>. QED
  BY <1>4, <1>5, <1>6

\* A message goes to all that are in the room.
LEMMA ChatReadBody ==
  ASSUME ChatInv, NEW s \in Sessions, ReadBody(s)
  PROVE  ChatInv'
<1>0. /\ ChatTyped /\ RoomOK(recent, posted) /\ MaxMessages \in Nat
      /\ posted \in 0 .. MaxMessages - 1
  BY ChatAssumption DEF ChatInv, RoomOK, ReadBody
<1>1. /\ posted' = posted + 1 /\ recent' = LastN(Append(recent, posted + 1), MaxRecent)
      /\ reading' = [reading EXCEPT ![s] = "header"] /\ reading[s] = "body"
      /\ UNCHANGED <<participants, accepting, used, down, from, sent>>
      /\ writeMsgs' = [x \in Sessions |-> IF x \in participants
                                          THEN Append(writeMsgs[x], posted + 1) ELSE writeMsgs[x]]
      /\ writes' = [x \in Sessions |-> IF x \in participants /\ writeMsgs[x] = <<>>
                                       THEN writes[x] + 1 ELSE writes[x]]
  BY DEF ReadBody, Deliver, StartWrites, acceptor
<1>2. ChatTyped'
  <2>1. ASSUME NEW x \in Sessions
        PROVE  /\ x \in participants => Append(writeMsgs[x], posted + 1) \in Seq(1 .. MaxMessages)
               /\ writeMsgs[x] = <<>> => writes[x] + 1 \in {0, 1}
    <3>1. SessionOK(writes[x], writeMsgs[x], sent[x], from[x], posted)
      BY DEF ChatInv, ChatSession
    <3>. QED
      BY <1>0, <3>1, Appended DEF SessionOK
  <2>2. /\ writeMsgs' \in [Sessions -> Seq(1 .. MaxMessages)]
        /\ writes' \in [Sessions -> {0, 1}]
    BY <1>0, <1>1, <2>1 DEF ChatTyped
  <2>. QED
    BY <1>0, <1>1, <2>2 DEF ChatTyped
<1>3. RoomOK(recent', posted')
  BY <1>0, <1>1, RoomDelivers
<1>4. ASSUME NEW x \in Sessions PROVE ChatSession(x)'
  <2>1. /\ ChatSession(x)
        /\ SessionOK(writes[x], writeMsgs[x], sent[x], from[x], posted)
        /\ x \in participants => MemberOK(writes[x], writeMsgs[x], sent[x], from[x], posted)
    BY DEF ChatInv, ChatSession
  <2>2. x \notin used \/ x = accepting => x # s /\ x \notin participants
    BY <1>1, <2>1 DEF ChatSession, Fresh
  <2>3. CASE x \in participants
    <3>1. /\ writeMsgs'[x] = Append(writeMsgs[x], posted + 1)
          /\ writes'[x] = IF writeMsgs[x] = <<>> THEN writes[x] + 1 ELSE writes[x]
      BY <1>1, <2>3
    <3>2. /\ SessionOK(writes'[x], writeMsgs'[x], sent[x], from[x], posted + 1)
          /\ MemberOK(writes'[x], writeMsgs'[x], sent[x], from[x], posted + 1)
      BY <1>0, <2>1, <2>3, <3>1, SessionDelivers
    <3>. QED
      BY <1>1, <2>2, <2>3, <3>2 DEF ChatSession
  <2>4. CASE x \notin participants
    <3>1. writes'[x] = writes[x] /\ writeMsgs'[x] = writeMsgs[x]
      BY <1>1, <2>4
    <3>2. SessionOK(writes[x], writeMsgs[x], sent[x], from[x], posted + 1)
      <4>1. Len(sent[x]) \in Nat /\ Len(writeMsgs[x]) \in Nat /\ from[x] \in Nat
        BY <2>1 DEF SessionOK
      <4>2. from[x] + Len(sent[x]) + Len(writeMsgs[x]) <= (posted + 1) + 1
        BY <1>0, <2>1, <4>1 DEF SessionOK
      <4>. QED
        BY <2>1, <4>2 DEF SessionOK
    <3>3. x # s => reading'[x] = reading[x]
      BY <1>0, <1>1 DEF ChatTyped
    <3>4. x \notin used' \/ x = accepting' => Fresh(x)'
      BY <1>1, <2>1, <2>2, <3>1, <3>3 DEF ChatSession, Fresh
    <3>. QED
      BY <1>1, <2>4, <3>1, <3>2, <3>4 DEF ChatSession
  <2>. QED
    BY <2>3, <2>4
<1>. QED
  BY <1>2, <1>3, <1>4 DEF ChatInv

LEMMA ChatInvStep == ChatInv /\ [Next]_vars => ChatInv'
<1>1. ASSUME ChatInv, Next PROVE ChatInv'
  BY <1>1, ChatAcceptStep, ChatSessionStep, ChatReadBody DEF Next
<1>2. ASSUME ChatInv, UNCHANGED vars PROVE ChatInv'
  BY <1>2 DEF vars, room, acceptor, ChatInv, ChatTyped, ChatSession, Fresh
<1>. QED
  BY <1>1, <1>2

\* What is written and what waits of a session are one list.
LEMMA ChatIsSafe ==
  ChatInv => TypeOK /\ OneWriteAtATime /\ NoMessageIsMissed /\ BacklogIsComplete
<1> SUFFICES ASSUME ChatInv
             PROVE  TypeOK /\ OneWriteAtATime /\ NoMessageIsMissed /\ BacklogIsComplete
  OBVIOUS
<1>0. /\ ChatTyped /\ RoomOK(recent, posted) /\ MaxMessages \in Nat
      /\ MaxRecent \in Nat \ {0} /\ posted \in Nat
      /\ \A s \in Sessions : /\ ChatSession(s)
                             /\ SessionOK(writes[s], writeMsgs[s], sent[s], from[s], posted)
  BY ChatAssumption DEF ChatInv, RoomOK, ChatSession
<1>1. TypeOK
  <2>1. participants \subseteq used
    BY <1>0 DEF ChatTyped, ChatSession, Fresh
  <2>2. /\ writeMsgs \in [Sessions -> Seq(1 .. MaxMessages)]
        /\ sent \in [Sessions -> Seq(1 .. MaxMessages)]
        /\ writes \in [Sessions -> Nat]
    <3>1. {0, 1} \subseteq Nat
      OBVIOUS
    <3>. QED
      BY <1>0, <3>1 DEF ChatTyped
  <2>3. recent \in Seq(1 .. MaxMessages) /\ Len(recent) <= MaxRecent /\ posted \in 0 .. MaxMessages
    BY <1>0 DEF RoomOK
  <2>. QED
    BY <1>0, <2>1, <2>2, <2>3 DEF TypeOK, ChatTyped
<1>2. OneWriteAtATime
  <2>. SUFFICES ASSUME NEW s \in Sessions
                PROVE  /\ writes[s] <= 1
                       /\ writes[s] = 1 => writeMsgs[s] # <<>>
                       /\ s \in participants => (writes[s] = 1 <=> writeMsgs[s] # <<>>)
    BY DEF OneWriteAtATime
  <2>1. writes[s] \in {0, 1} /\ (writes[s] = 1 => writeMsgs[s] # <<>>)
    BY <1>0 DEF SessionOK
  <2>2. s \in participants => (writeMsgs[s] # <<>> => writes[s] = 1)
    BY <1>0 DEF ChatSession, MemberOK
  <2>. QED
    BY <2>1, <2>2
<1>3. ASSUME NEW s \in Sessions
      PROVE  LET both == sent[s] \o writeMsgs[s]
             IN /\ Len(both) = Len(sent[s]) + Len(writeMsgs[s])
                /\ Len(both) \in Nat /\ from[s] \in Nat \ {0}
                /\ both = Run(from[s], from[s] + Len(both) - 1)
                /\ from[s] + Len(both) - 1 <= posted
  <2> DEFINE o == sent[s]
             q == writeMsgs[s]
             f == from[s]
             both == o \o q
  <2>1. /\ o \in Seq(1 .. MaxMessages) /\ q \in Seq(1 .. MaxMessages) /\ f \in Nat \ {0}
        /\ Len(o) \in Nat /\ Len(q) \in Nat /\ f + Len(o) + Len(q) <= posted + 1
        /\ \A k \in 1 .. Len(o) : o[k] = f + k - 1
        /\ \A k \in 1 .. Len(q) : q[k] = f + Len(o) + k - 1
    BY <1>0 DEF SessionOK
  <2> HIDE DEF o, q, f
  <2>2. /\ both \in Seq(1 .. MaxMessages) /\ Len(both) = Len(o) + Len(q)
        /\ \A k \in 1 .. Len(o) : both[k] = o[k]
        /\ \A k \in Len(o) + 1 .. Len(o) + Len(q) : both[k] = q[k - Len(o)]
    BY <2>1
  <2>3. ASSUME NEW k \in 1 .. Len(o) + Len(q) PROVE both[k] = f + k - 1
    <3>1. CASE k \in 1 .. Len(o)
      BY <2>1, <2>2, <3>1
    <3>2. CASE k \notin 1 .. Len(o)
      <4>1. k \in Len(o) + 1 .. Len(o) + Len(q) /\ k - Len(o) \in 1 .. Len(q)
        BY <2>1, <3>2
      <4>. QED
        BY <2>1, <2>2, <4>1
    <3>. QED
      BY <3>1, <3>2
  <2> HIDE DEF both
  <2>4. (f + Len(both) - 1) - f + 1 = Len(both) /\ Len(both) \in Nat
    BY <2>1, <2>2
  <2>5. both = [k \in 1 .. Len(both) |-> both[k]]
    BY <2>2
  <2>6. Run(f, f + Len(both) - 1) = [k \in 1 .. Len(both) |-> f + k - 1]
    BY <2>4 DEF Run
  <2>7. both = Run(f, f + Len(both) - 1)
    BY <2>2, <2>3, <2>5, <2>6
  <2>8. f + Len(both) - 1 <= posted
    BY <1>0, <2>1, <2>2
  <2>. QED
    BY <2>1, <2>2, <2>4, <2>7, <2>8 DEF both, o, q, f
<1>4. ASSUME NEW s \in participants
      PROVE  /\ s \in Sessions
             /\ from[s] + Len(sent[s] \o writeMsgs[s]) - 1 = posted
             /\ from[s] > 1 => Len(sent[s] \o writeMsgs[s]) >= MaxRecent
  <2>1. s \in Sessions
    BY <1>0 DEF ChatTyped
  <2>2. MemberOK(writes[s], writeMsgs[s], sent[s], from[s], posted)
    BY <1>0, <2>1 DEF ChatSession
  <2>3. Len(sent[s] \o writeMsgs[s]) = Len(sent[s]) + Len(writeMsgs[s])
    BY <1>3, <2>1
  <2>4. Len(sent[s]) \in Nat /\ Len(writeMsgs[s]) \in Nat /\ from[s] \in Nat
    BY <1>0, <2>1 DEF SessionOK
  <2>5. from[s] + Len(sent[s] \o writeMsgs[s]) - 1 = posted
    <3>1. from[s] + Len(sent[s]) + Len(writeMsgs[s]) = posted + 1
      BY <2>2 DEF MemberOK
    <3> DEFINE n == Len(sent[s] \o writeMsgs[s])
               a == Len(sent[s])
               b == Len(writeMsgs[s])
               f == from[s]
    <3>2. /\ posted \in Nat /\ n = a + b /\ f + a + b = posted + 1
          /\ a \in Nat /\ b \in Nat /\ f \in Nat
      BY <1>0, <2>3, <2>4, <3>1
    <3> HIDE DEF n, a, b, f
    <3>3. f + n - 1 = posted
      BY <3>2
    <3>. QED
      BY <3>3 DEF n, f
  <2>. QED
    BY <2>1, <2>2, <2>3, <2>5 DEF MemberOK
<1>5. NoMessageIsMissed
  BY <1>0, <1>3, <1>4 DEF NoMessageIsMissed, ChatTyped
<1>6. BacklogIsComplete
  BY <1>4 DEF BacklogIsComplete
<1>. QED
  BY <1>1, <1>2, <1>5, <1>6

-----------------------------------------------------------------------------
(* The chat client *)

ClientTyped ==
  /\ main \in {"typing", "joining", "returned"} /\ typed \in 0 .. MaxLines
  /\ calls \in Seq(0 .. MaxLines) /\ running \in BOOLEAN
  /\ socket \in {"connecting", "connected", "closed"}
  /\ connect \in Client!Status /\ read \in Client!Status /\ write \in Client!Status
  /\ part \in {"header", "body"}
  /\ clientMsgs \in Seq(1 .. MaxLines) /\ clientSent \in Seq(1 .. MaxLines)

\* The first n calls, all but one of do_close(), are lines that follow those
\* written and those that wait to be written, and end with the last line typed.
ClientOrder(n) ==
  LET done == Len(clientSent) + Len(clientMsgs)
  IN /\ \A k \in 1 .. Len(clientSent) : clientSent[k] = k
     /\ \A k \in 1 .. Len(clientMsgs) : clientMsgs[k] = Len(clientSent) + k
     /\ \A k \in 1 .. n : calls[k] = done + k
     /\ done + n = typed
     /\ \/ n = Len(calls)
        \/ n + 1 = Len(calls) /\ calls[n + 1] = 0 /\ main # "typing"

\* A write that goes on although the client is not connected has failed; one
\* that is never connected is closed before it could be.
ClientWrites ==
  /\ write # "none" => clientMsgs # <<>>
  /\ socket # "closed" /\ clientMsgs # <<>> => write # "none"
  /\ connect = "pending" => socket # "closed"

ClientInv == ClientTyped /\ ClientWrites /\ \E n \in Nat : ClientOrder(n)

LEMMA ClientInvInit == Client!Init => ClientInv
<1> SUFFICES ASSUME Client!Init PROVE ClientInv
  OBVIOUS
<1>1. MaxLines \in Nat
  BY AsioAssumption
<1>2. ClientTyped
  BY <1>1 DEF Client!Init, ClientTyped, Client!Status, Client!Finished
<1>3. ClientWrites
  BY DEF Client!Init, ClientWrites
<1>4. ClientOrder(0)
  BY DEF Client!Init, ClientOrder
<1>. QED
  BY <1>2, <1>3, <1>4 DEF ClientInv

\* The steps that neither type, nor take a call, nor write.
ClientOther ==
  \/ Client!Joined \/ Client!HandleConnect \/ Client!HandleRead \/ Client!HandleReadFails
  \/ Client!HandleWriteFails \/ Client!Return
  \/ Client!Connected \/ Client!Arrive \/ Client!Depart

LEMMA ClientOtherStep == ClientInv /\ ClientOther => ClientInv'
<1> SUFFICES ASSUME ClientInv, ClientOther PROVE ClientInv'
  OBVIOUS
<1> USE DEF Client!Status, Client!Finished, Client!Started, Client!Abort, Client!DoClose,
            Client!ops
<1>0. ClientTyped /\ ClientWrites /\ \E n \in Nat : ClientOrder(n)
  BY DEF ClientInv
<1>1. UNCHANGED <<typed, calls, clientMsgs, clientSent>> /\ (main' = main \/ main' = "returned")
  BY DEF ClientOther, Client!Joined, Client!HandleConnect, Client!HandleRead,
         Client!HandleReadFails, Client!HandleWriteFails, Client!Return, Client!Connected,
         Client!Arrive, Client!Depart
<1>2. \E n \in Nat : ClientOrder(n)'
  BY <1>0, <1>1 DEF ClientOrder
<1>3. ClientTyped' /\ ClientWrites'
  <2>1. CASE Client!Joined \/ Client!Return
    BY <1>0, <1>1, <2>1 DEF ClientTyped, ClientWrites, Client!Joined, Client!Return
  <2>2. CASE Client!HandleConnect
    BY <1>0, <1>1, <2>2 DEF ClientTyped, ClientWrites, Client!HandleConnect
  <2>3. CASE Client!HandleRead
    BY <1>0, <1>1, <2>3 DEF ClientTyped, ClientWrites, Client!HandleRead
  <2>4. CASE Client!HandleReadFails
    BY <1>0, <1>1, <2>4 DEF ClientTyped, ClientWrites, Client!HandleReadFails
  <2>5. CASE Client!HandleWriteFails
    BY <1>0, <1>1, <2>5 DEF ClientTyped, ClientWrites, Client!HandleWriteFails
  <2>6. CASE Client!Connected
    BY <1>0, <1>1, <2>6 DEF ClientTyped, ClientWrites, Client!Connected
  <2>7. CASE Client!Arrive \/ Client!Depart
    BY <1>0, <1>1, <2>7 DEF ClientTyped, ClientWrites, Client!Arrive, Client!Depart
  <2>. QED
    BY <2>1, <2>2, <2>3, <2>4, <2>5, <2>6, <2>7 DEF ClientOther
<1>. QED
  BY <1>2, <1>3 DEF ClientInv

\* main() posts a line, or the end.
LEMMA ClientMainStep == ClientInv /\ (Client!Type \/ Client!EndOfInput) => ClientInv'
<1> SUFFICES ASSUME ClientInv, Client!Type \/ Client!EndOfInput PROVE ClientInv'
  OBVIOUS
<1>0. ClientTyped /\ ClientWrites /\ main = "typing" /\ MaxLines \in Nat
  BY AsioAssumption DEF ClientInv, Client!Type, Client!EndOfInput
<1>1. PICK n \in Nat : ClientOrder(n)
  BY DEF ClientInv
<1>2. n = Len(calls) /\ Len(clientSent) + Len(clientMsgs) + n = typed
  BY <1>0, <1>1 DEF ClientOrder
<1>3. UNCHANGED <<running, socket, connect, part, read, write, clientMsgs, clientSent>>
  BY DEF Client!Type, Client!EndOfInput, Client!ops
<1>4. CASE Client!Type
  <2>1. /\ typed' = typed + 1 /\ calls' = Append(calls, typed + 1) /\ main' = main
        /\ typed + 1 \in 1 .. MaxLines
    BY <1>0, <1>4 DEF Client!Type, ClientTyped
  <2>2. /\ calls' \in Seq(0 .. MaxLines) /\ Len(calls') = n + 1
        /\ \A k \in 1 .. n : calls'[k] = calls[k]
        /\ calls'[n + 1] = typed + 1
    BY <1>0, <1>2, <2>1, Appended DEF ClientTyped
  <2>3. ClientTyped' /\ ClientWrites'
    BY <1>0, <1>3, <2>1, <2>2 DEF ClientTyped, ClientWrites
  <2>4. ClientOrder(n + 1)'
    <3>1. \A k \in 1 .. n + 1 : calls'[k] = Len(clientSent) + Len(clientMsgs) + k
      <4>. SUFFICES ASSUME NEW k \in 1 .. n + 1
                    PROVE  calls'[k] = Len(clientSent) + Len(clientMsgs) + k
        OBVIOUS
      <4>1. CASE k \in 1 .. n
        BY <1>1, <2>2, <4>1 DEF ClientOrder
      <4>2. CASE k = n + 1
        <5>1. Len(clientSent) \in Nat /\ Len(clientMsgs) \in Nat
          BY <1>0 DEF ClientTyped
        <5>. QED
          BY <1>2, <2>2, <4>2, <5>1
      <4>. QED
        BY <4>1, <4>2
    <3>2. Len(clientSent) + Len(clientMsgs) + (n + 1) = typed'
      <4>1. Len(clientSent) \in Nat /\ Len(clientMsgs) \in Nat
        BY <1>0 DEF ClientTyped
      <4>. QED
        BY <1>2, <2>1, <4>1
    <3>. QED
      BY <1>1, <1>3, <2>2, <3>1, <3>2 DEF ClientOrder
  <2>. QED
    BY <2>3, <2>4 DEF ClientInv
<1>5. CASE Client!EndOfInput
  <2>1. typed' = typed /\ calls' = Append(calls, 0) /\ main' = "joining"
    BY <1>5 DEF Client!EndOfInput, Client!Close
  <2>2. /\ calls' \in Seq(0 .. MaxLines) /\ Len(calls') = n + 1
        /\ \A k \in 1 .. n : calls'[k] = calls[k]
        /\ calls'[n + 1] = 0
    BY <1>0, <1>2, <2>1, Appended DEF ClientTyped
  <2>3. ClientTyped' /\ ClientWrites'
    BY <1>0, <1>3, <2>1, <2>2 DEF ClientTyped, ClientWrites
  <2>4. ClientOrder(n)'
    BY <1>1, <1>3, <2>1, <2>2 DEF ClientOrder
  <2>. QED
    BY <2>3, <2>4 DEF ClientInv
<1>. QED
  BY <1>4, <1>5

\* The first of the calls: it is the next line, or the last call.
LEMMA ClientFirstCall ==
  ASSUME ClientInv, calls # <<>>
  PROVE  /\ Len(calls) \in Nat \ {0} /\ Head(calls) = calls[1] /\ Head(calls) \in 0 .. MaxLines
         /\ Tail(calls) \in Seq(0 .. MaxLines) /\ Len(Tail(calls)) = Len(calls) - 1
         /\ \A k \in 1 .. Len(calls) - 1 : Tail(calls)[k] = calls[k + 1]
         /\ Len(clientSent) \in Nat /\ Len(clientMsgs) \in Nat
         /\ \E n \in Nat :
              /\ ClientOrder(n)
              /\ IF Head(calls) = 0 THEN n = 0 /\ Len(calls) = 1
                 ELSE n > 0 /\ Head(calls) = Len(clientSent) + Len(clientMsgs) + 1
<1>1. /\ calls \in Seq(0 .. MaxLines) /\ Len(clientSent) \in Nat /\ Len(clientMsgs) \in Nat
  BY DEF ClientInv, ClientTyped
<1>2. /\ Len(calls) \in Nat \ {0} /\ Head(calls) = calls[1] /\ Head(calls) \in 0 .. MaxLines
      /\ Tail(calls) \in Seq(0 .. MaxLines) /\ Len(Tail(calls)) = Len(calls) - 1
      /\ \A k \in 1 .. Len(calls) - 1 : Tail(calls)[k] = calls[k + 1]
  <2>1. Len(calls) \in Nat /\ Len(calls) >= 1
    BY <1>1, FirstTaken
  <2>2. Len(calls) \in Nat \ {0}
    BY <2>1
  <2>. QED
    BY <1>1, <2>2, FirstTaken
<1>3. PICK n \in Nat : ClientOrder(n)
  BY DEF ClientInv
<1>4. CASE n = 0
  <2>1. Len(calls) = 1 /\ calls[1] = 0
    BY <1>2, <1>3, <1>4 DEF ClientOrder
  <2>. QED
    BY <1>1, <1>2, <1>3, <1>4, <2>1
<1>5. CASE n # 0
  <2>1. 1 \in 1 .. n
    BY <1>5
  <2>2. calls[1] = Len(clientSent) + Len(clientMsgs) + 1
    BY <1>3, <2>1 DEF ClientOrder
  <2>3. Head(calls) # 0 /\ n > 0
    BY <1>1, <1>2, <1>5, <2>2
  <2>. QED
    BY <1>1, <1>2, <1>3, <2>2, <2>3
<1>. QED
  BY <1>4, <1>5

\* do_write() moves a line from the calls to those that wait to be written.
LEMMA ClientDoWrite ==
  ASSUME ClientInv, NEW x \in 1 .. MaxLines, Client!DoWrite(x)
  PROVE  ClientInv'
<1>0. /\ ClientTyped /\ ClientWrites /\ MaxLines \in Nat /\ calls # <<>> /\ Head(calls) = x
      /\ x # 0 /\ clientMsgs \in Seq(1 .. MaxLines)
  BY AsioAssumption DEF ClientInv, ClientTyped, Client!DoWrite, Client!HeadIs
<1>1. PICK n \in Nat : /\ ClientOrder(n) /\ n > 0
                       /\ x = Len(clientSent) + Len(clientMsgs) + 1
  BY <1>0, ClientFirstCall
<1>2. /\ calls' = Tail(calls) /\ clientMsgs' = Append(clientMsgs, x)
      /\ write' = IF clientMsgs = <<>> THEN Client!Started ELSE write
      /\ UNCHANGED <<main, typed, running, socket, connect, part, read, clientSent>>
  BY DEF Client!DoWrite
<1>3. /\ calls' \in Seq(0 .. MaxLines) /\ Len(calls') = Len(calls) - 1
      /\ \A k \in 1 .. Len(calls) - 1 : calls'[k] = calls[k + 1]
      /\ Len(calls) \in Nat /\ Len(clientSent) \in Nat /\ Len(clientMsgs) \in Nat
  BY <1>0, <1>2, ClientFirstCall
<1>4. /\ clientMsgs' \in Seq(1 .. MaxLines) /\ clientMsgs' # <<>>
      /\ Len(clientMsgs') = Len(clientMsgs) + 1
      /\ \A k \in 1 .. Len(clientMsgs) : clientMsgs'[k] = clientMsgs[k]
      /\ clientMsgs'[Len(clientMsgs) + 1] = x
  BY <1>0, <1>2, Appended
<1>5. ClientTyped'
  BY <1>0, <1>2, <1>3, <1>4 DEF ClientTyped, Client!Started, Client!Status, Client!Finished
<1>6. ClientWrites'
  BY <1>0, <1>2, <1>4 DEF ClientTyped, ClientWrites, Client!Started
<1>7. ClientOrder(n - 1)'
  <2> DEFINE a == Len(clientSent)
             b == Len(clientMsgs)
  <2>1. /\ \A k \in 1 .. a : clientSent[k] = k
        /\ \A k \in 1 .. b : clientMsgs[k] = a + k
        /\ \A k \in 1 .. n : calls[k] = (a + b) + k
        /\ a \in Nat /\ b \in Nat /\ (a + b) + n = typed
        /\ \/ n = Len(calls)
           \/ n + 1 = Len(calls) /\ calls[n + 1] = 0 /\ main # "typing"
    BY <1>1, <1>3 DEF ClientOrder
  <2>2. x = a + b + 1 /\ Len(clientMsgs') = b + 1 /\ clientMsgs'[b + 1] = x
    BY <1>1, <1>4
  <2> HIDE DEF a, b
  <2>3. \A k \in 1 .. b + 1 : clientMsgs'[k] = a + k
    <3>. SUFFICES ASSUME NEW k \in 1 .. b + 1 PROVE clientMsgs'[k] = a + k
      OBVIOUS
    <3>1. CASE k \in 1 .. b
      BY <1>4, <2>1, <3>1 DEF b
    <3>2. CASE k = b + 1
      BY <2>1, <2>2, <3>2
    <3>. QED
      BY <2>1, <3>1, <3>2
  <2>4. \A k \in 1 .. n - 1 : calls'[k] = (a + (b + 1)) + k
    <3>. SUFFICES ASSUME NEW k \in 1 .. n - 1 PROVE calls'[k] = (a + (b + 1)) + k
      OBVIOUS
    <3>1. k \in 1 .. Len(calls) - 1 /\ k + 1 \in 1 .. n
      BY <1>3, <2>1
    <3>. QED
      BY <1>3, <2>1, <3>1
  <2>5. (a + (b + 1)) + (n - 1) = typed'
    BY <1>2, <2>1
  <2>6. \/ n - 1 = Len(calls')
        \/ (n - 1) + 1 = Len(calls') /\ calls'[(n - 1) + 1] = 0 /\ main' # "typing"
    <3>1. CASE n = Len(calls)
      BY <1>3, <3>1
    <3>2. CASE n + 1 = Len(calls) /\ calls[n + 1] = 0 /\ main # "typing"
      <4>1. n \in 1 .. Len(calls) - 1 /\ (n - 1) + 1 = n
        BY <1>1, <1>3, <3>2
      <4>2. calls'[n] = 0 /\ Len(calls') = n
        BY <1>3, <3>2, <4>1
      <4>. QED
        BY <1>2, <3>2, <4>1, <4>2
    <3>. QED
      BY <2>1, <3>1, <3>2
  <2>7. Len(clientSent') = a /\ clientSent' = clientSent /\ Len(clientMsgs') = b + 1
    BY <1>2, <2>2 DEF a
  <2>8. \A k \in 1 .. Len(clientSent') : clientSent'[k] = k
    BY <2>1, <2>7
  <2>. QED
    BY <2>3, <2>4, <2>5, <2>6, <2>7, <2>8 DEF ClientOrder
<1>8. n - 1 \in Nat
  BY <1>1
<1>. QED
  BY <1>5, <1>6, <1>7, <1>8 DEF ClientInv

\* do_close() is the last of the calls.
LEMMA ClientCloses == ClientInv /\ Client!HandleClose => ClientInv'
<1> SUFFICES ASSUME ClientInv, Client!HandleClose PROVE ClientInv'
  OBVIOUS
<1>0. /\ ClientTyped /\ ClientWrites /\ calls # <<>> /\ Head(calls) = 0
  BY DEF ClientInv, Client!HandleClose, Client!HeadIs, Client!Close
<1>1. ClientOrder(0) /\ Len(calls) = 1
  BY <1>0, ClientFirstCall
<1>2. /\ calls' = Tail(calls)
      /\ UNCHANGED <<main, typed, running, part, clientMsgs, clientSent>>
      /\ socket' = "closed" /\ connect' = Client!Abort(connect)
      /\ read' = Client!Abort(read) /\ write' = Client!Abort(write)
  BY DEF Client!HandleClose, Client!DoClose
<1>3. calls' \in Seq(0 .. MaxLines) /\ Len(calls') = 0
  BY <1>0, <1>1, <1>2, ClientFirstCall
<1>4. ClientTyped' /\ ClientWrites'
  BY <1>0, <1>2, <1>3 DEF ClientTyped, ClientWrites, Client!Abort, Client!Status, Client!Finished
<1>5. ClientOrder(0)'
  BY <1>1, <1>2, <1>3 DEF ClientOrder
<1>. QED
  BY <1>4, <1>5 DEF ClientInv

\* A line is written: it moves from those that wait to those that were sent.
LEMMA ClientHandleWrite == ClientInv /\ Client!HandleWrite => ClientInv'
<1> SUFFICES ASSUME ClientInv, Client!HandleWrite PROVE ClientInv'
  OBVIOUS
<1>0. /\ ClientTyped /\ ClientWrites /\ write = "ok"
      /\ clientMsgs \in Seq(1 .. MaxLines) /\ clientMsgs # <<>>
      /\ clientSent \in Seq(1 .. MaxLines)
  BY DEF ClientInv, ClientTyped, ClientWrites, Client!HandleWrite
<1>1. PICK n \in Nat : ClientOrder(n)
  BY DEF ClientInv
<1>2. /\ clientSent' = Append(clientSent, Head(clientMsgs)) /\ clientMsgs' = Tail(clientMsgs)
      /\ write' = IF clientMsgs' = <<>> THEN "none" ELSE Client!Started
      /\ UNCHANGED <<main, typed, calls, running, socket, connect, part, read>>
  BY DEF Client!HandleWrite
<1>3. /\ Head(clientMsgs) = clientMsgs[1] /\ Head(clientMsgs) \in 1 .. MaxLines
      /\ clientMsgs' \in Seq(1 .. MaxLines) /\ Len(clientMsgs) \in Nat /\ Len(clientMsgs) >= 1
      /\ Len(clientMsgs') = Len(clientMsgs) - 1
      /\ \A k \in 1 .. Len(clientMsgs) - 1 : clientMsgs'[k] = clientMsgs[k + 1]
  BY <1>0, <1>2, FirstTaken
<1>4. /\ clientSent' \in Seq(1 .. MaxLines) /\ Len(clientSent) \in Nat
      /\ Len(clientSent') = Len(clientSent) + 1
      /\ \A k \in 1 .. Len(clientSent) : clientSent'[k] = clientSent[k]
      /\ clientSent'[Len(clientSent) + 1] = clientMsgs[1]
  BY <1>0, <1>2, <1>3, Appended
<1>5. ClientTyped'
  BY <1>0, <1>2, <1>3, <1>4 DEF ClientTyped, Client!Started, Client!Status, Client!Finished
<1>6. ClientWrites'
  BY <1>0, <1>2 DEF ClientWrites, Client!Started
<1>7. ClientOrder(n)'
  <2> DEFINE a == Len(clientSent)
             b == Len(clientMsgs)
  <2>1. /\ \A k \in 1 .. a : clientSent[k] = k
        /\ \A k \in 1 .. b : clientMsgs[k] = a + k
        /\ \A k \in 1 .. n : calls[k] = (a + b) + k
        /\ a \in Nat /\ b \in Nat /\ b >= 1 /\ (a + b) + n = typed
        /\ \/ n = Len(calls)
           \/ n + 1 = Len(calls) /\ calls[n + 1] = 0 /\ main # "typing"
    BY <1>1, <1>3, <1>4 DEF ClientOrder
  <2>2. Len(clientSent') = a + 1 /\ Len(clientMsgs') = b - 1
    BY <1>3, <1>4
  <2> HIDE DEF a, b
  <2>3. \A k \in 1 .. a + 1 : clientSent'[k] = k
    <3>. SUFFICES ASSUME NEW k \in 1 .. a + 1 PROVE clientSent'[k] = k
      OBVIOUS
    <3>1. CASE k \in 1 .. a
      BY <1>4, <2>1, <3>1 DEF a
    <3>2. CASE k = a + 1
      <4>1. clientMsgs[1] = a + 1
        BY <2>1
      <4>. QED
        BY <1>4, <3>2, <4>1 DEF a
    <3>. QED
      BY <2>1, <3>1, <3>2
  <2>4. \A k \in 1 .. b - 1 : clientMsgs'[k] = (a + 1) + k
    <3>. SUFFICES ASSUME NEW k \in 1 .. b - 1 PROVE clientMsgs'[k] = (a + 1) + k
      OBVIOUS
    <3>1. k + 1 \in 1 .. b
      BY <2>1
    <3>2. clientMsgs'[k] = clientMsgs[k + 1]
      BY <1>3 DEF b
    <3>. QED
      BY <2>1, <3>1, <3>2
  <2>5. (a + 1) + (b - 1) = a + b
    BY <2>1
  <2>. QED
    BY <1>2, <2>1, <2>2, <2>3, <2>4, <2>5 DEF ClientOrder
<1>. QED
  BY <1>5, <1>6, <1>7 DEF ClientInv

LEMMA ClientInvStep == ClientInv /\ [Client!Next]_clientVars => ClientInv'
<1>1. ASSUME ClientInv, Client!Next PROVE ClientInv'
  BY <1>1, ClientOtherStep, ClientMainStep, ClientDoWrite, ClientCloses, ClientHandleWrite
     DEF ClientOther, Client!Next, Client!Handle, Client!Posted
<1>2. ASSUME ClientInv, UNCHANGED clientVars PROVE ClientInv'
  BY <1>2 DEF clientVars, ClientInv, ClientTyped, ClientWrites, ClientOrder
<1>. QED
  BY <1>1, <1>2

LEMMA ClientIsSafe ==
  ClientInv => Client!TypeOK /\ Client!OneWrite /\ Client!LinesAreSentInOrder
<1> SUFFICES ASSUME ClientInv
             PROVE  Client!TypeOK /\ Client!OneWrite /\ Client!LinesAreSentInOrder
  OBVIOUS
<1>1. Client!TypeOK /\ Client!OneWrite
  BY DEF ClientInv, ClientTyped, ClientWrites, Client!TypeOK, Client!OneWrite
<1>2. Client!LinesAreSentInOrder
  <2> DEFINE a == Len(clientSent)
             b == Len(clientMsgs)
             line == [k \in 1 .. typed |-> k]
             out == clientSent \o clientMsgs \o calls
  <2>1. PICK n \in Nat : ClientOrder(n)
    BY DEF ClientInv
  <2>2. /\ \A k \in 1 .. a : clientSent[k] = k
        /\ \A k \in 1 .. b : clientMsgs[k] = a + k
        /\ \A k \in 1 .. n : calls[k] = (a + b) + k
        /\ a \in Nat /\ b \in Nat /\ (a + b) + n = typed
        /\ \/ n = Len(calls)
           \/ n + 1 = Len(calls) /\ calls[n + 1] = 0
        /\ clientSent \in Seq(Nat) /\ clientMsgs \in Seq(Nat) /\ calls \in Seq(Nat)
    <3>1. /\ clientSent \in Seq(1 .. MaxLines) /\ clientMsgs \in Seq(1 .. MaxLines)
          /\ calls \in Seq(0 .. MaxLines)
      BY DEF ClientInv, ClientTyped
    <3>2. clientSent \in Seq(Nat) /\ clientMsgs \in Seq(Nat) /\ calls \in Seq(Nat)
      <4>1. 1 .. MaxLines \subseteq Nat /\ 0 .. MaxLines \subseteq Nat
        BY AsioAssumption
      <4>. QED
        BY <3>1, <4>1, WiderList
    <3>3. a \in Nat /\ b \in Nat
      BY <3>2
    <3>. QED
      BY <2>1, <3>2, <3>3 DEF ClientOrder
  <2>3. /\ out \in Seq(Nat) /\ Len(out) = a + b + Len(calls)
        /\ \A k \in 1 .. a : out[k] = clientSent[k]
        /\ \A k \in a + 1 .. a + b : out[k] = clientMsgs[k - a]
        /\ \A k \in a + b + 1 .. a + b + Len(calls) : out[k] = calls[k - (a + b)]
    BY <2>2
  <2> HIDE DEF out, a, b
  <2>4. ASSUME NEW k \in 1 .. typed PROVE out[k] = k
    <3>1. CASE k \in 1 .. a
      BY <2>2, <2>3, <3>1
    <3>2. CASE k \in a + 1 .. a + b
      <4>1. k - a \in 1 .. b
        BY <2>2, <3>2
      <4>. QED
        BY <2>2, <2>3, <3>2, <4>1
    <3>3. CASE k \in a + b + 1 .. typed
      <4>1. k - (a + b) \in 1 .. n /\ k \in a + b + 1 .. a + b + Len(calls)
        BY <2>2, <3>3
      <4>. QED
        BY <2>2, <2>3, <3>3, <4>1
    <3>. QED
      BY <2>2, <3>1, <3>2, <3>3
  <2>5. typed \in Nat /\ line \in Seq(Nat) /\ Len(line) = typed
    BY <2>2
  <2>6. CASE n = Len(calls)
    <3>1. Len(out) = typed
      BY <2>2, <2>3, <2>6
    <3>2. out = line
      BY <2>3, <2>4, <2>5, <3>1
    <3>. QED
      BY <3>2 DEF Client!LinesAreSentInOrder, out
  <2>7. CASE n + 1 = Len(calls) /\ calls[n + 1] = 0
    <3>1. /\ Len(out) = typed + 1 /\ typed + 1 \in a + b + 1 .. a + b + Len(calls)
          /\ (typed + 1) - (a + b) = n + 1
      BY <2>2, <2>3, <2>7
    <3>2. out[typed + 1] = 0
      <4>1. out[typed + 1] = calls[(typed + 1) - (a + b)]
        BY <2>3, <3>1
      <4>. QED
        BY <2>7, <3>1, <4>1
    <3>3. /\ Append(line, 0) \in Seq(Nat) /\ Len(Append(line, 0)) = typed + 1
          /\ \A k \in 1 .. typed : Append(line, 0)[k] = k
          /\ Append(line, 0)[typed + 1] = 0
      BY <2>5, Appended
    <3>4. \A k \in 1 .. typed + 1 : out[k] = Append(line, 0)[k]
      <4>. SUFFICES ASSUME NEW k \in 1 .. typed + 1 PROVE out[k] = Append(line, 0)[k]
        OBVIOUS
      <4>1. k \in 1 .. typed \/ k = typed + 1
        BY <2>5
      <4>. QED
        BY <2>4, <3>2, <3>3, <4>1
    <3>5. out = Append(line, 0)
      BY <2>3, <3>1, <3>3, <3>4, SameList
    <3>. QED
      BY <3>5 DEF Client!LinesAreSentInOrder, Client!Close, out
  <2>. QED
    BY <2>2, <2>6, <2>7
<1>. QED
  BY <1>1, <1>2

-----------------------------------------------------------------------------
(* Ping *)

PingTyped ==
  /\ request \in 1 .. MaxRequests
  /\ numReplies \in 0 .. 3 /\ elapsed \in 0 .. 6 /\ counted \in {0, request}
  /\ packets \in Seq(0 .. MaxRequests)
  /\ Len(packets) <= MaxPackets

PingFlags == waiting \in BOOLEAN /\ pinging \in BOOLEAN /\ reported \in BOOLEAN

\* The number of a request is what is left of how many there were.
PingNumber == sequenceNumber = request % Width

\* The handlers that are ready: that of the timer when it does not wait, that
\* of the socket when it has packets.
PingReady ==
  ready \in IF packets = <<>>
            THEN IF waiting THEN {<<>>} ELSE {<<"timer">>}
            ELSE IF waiting THEN {<<"receive">>}
                            ELSE {<<"timer", "receive">>, <<"receive", "timer">>}

\* The timer was cut short by a reply or has expired.  A request without reply
\* is reported after its timeout, and its pause ends at once if a reply comes.
PingTimer ==
  /\ \/ then = "handle_timeout" /\ expiry = 5 /\ ~reported
        /\ (~waiting => numReplies > 0 \/ elapsed >= 5)
     \/ then = "start_send" /\ expiry = 1
        /\ (~waiting => elapsed >= 1)
        /\ (reported \/ numReplies > 0)
  /\ reported => elapsed >= 5

\* How many requests can be sent before the k-th packet is handled: the timer
\* goes between two packets once, and every second time it sends.
Sends(k) ==
  LET turns == IF ready = <<"timer", "receive">> THEN k ELSE k - 1
  IN IF then = "start_send" THEN (turns + 1) \div 2 ELSE turns \div 2

PingPackets ==
  \A k \in 1 .. Len(packets) :
    /\ packets[k] <= request
    /\ packets[k] # 0 => (request + Sends(k)) - packets[k] < Width

PingInv == PingTyped /\ PingFlags /\ PingNumber /\ PingReady /\ PingTimer /\ PingPackets

\* Numbers below Width are not taken for each other, nor are numbers that are
\* less than Width apart.
LEMMA Remainders ==
  ASSUME NEW w \in Nat, w > 0
  PROVE  /\ \A a \in Nat : (a % w) \in 0 .. w - 1
         /\ \A a \in Nat : ((a % w) + 1) % w = (a + 1) % w
         /\ \A a, b \in Nat : b <= a /\ a - b < w /\ a % w = b % w => a = b
<1>1. \A a \in Nat : /\ (a % w) \in 0 .. w - 1 /\ (a \div w) \in Nat
                     /\ a = w * (a \div w) + (a % w)
  OBVIOUS
<1>2. \A q, r \in Nat : r < w => (w * q + r) % w = r
  OBVIOUS
<1>3. ASSUME NEW a \in Nat PROVE ((a % w) + 1) % w = (a + 1) % w
  <2> DEFINE q == a \div w
             r == a % w
  <2>1. q \in Nat /\ r \in 0 .. w - 1 /\ a = w * q + r
    BY <1>1
  <2> HIDE DEF q, r
  <2>2. CASE r + 1 < w
    <3>1. a + 1 = w * q + (r + 1) /\ r + 1 = w * 0 + (r + 1)
      BY <2>1
    <3>2. (a + 1) % w = r + 1 /\ (r + 1) % w = r + 1
      BY <1>2, <2>1, <2>2, <3>1
    <3>. QED
      BY <3>2 DEF r
  <2>3. CASE r + 1 = w
    <3>1. a + 1 = w * (q + 1) + 0 /\ r + 1 = w * 1 + 0
      BY <2>1, <2>3
    <3>2. (a + 1) % w = 0 /\ (r + 1) % w = 0
      BY <1>2, <2>1, <3>1
    <3>. QED
      BY <3>2 DEF r
  <2>. QED
    BY <2>1, <2>2, <2>3
<1>4. ASSUME NEW a \in Nat, NEW b \in Nat, b <= a, a - b < w, a % w = b % w
      PROVE  a = b
  <2> DEFINE p == a \div w
             q == b \div w
             r == b % w
  <2>1. p \in Nat /\ q \in Nat /\ r \in Nat /\ a = w * p + r /\ b = w * q + r
    BY <1>1, <1>4
  <2> HIDE DEF p, q, r
  <2>2. w * p < w * q + w /\ w * q <= w * p
    BY <1>4, <2>1
  <2>3. p < q + 1
    <3>1. SUFFICES ASSUME p >= q + 1 PROVE FALSE
      BY <2>1
    <3>2. PICK d \in Nat : p = (q + 1) + d
      <4>1. p - (q + 1) \in Nat /\ p = (q + 1) + (p - (q + 1))
        BY <2>1, <3>1
      <4>. QED
        BY <4>1
    <3>3. w * p = w * q + w + w * d /\ w * d >= 0 /\ w * q \in Nat /\ w * d \in Nat
      BY <2>1, <3>2
    <3>. QED
      BY <2>2, <3>3
  <2>4. q < p + 1
    <3>1. SUFFICES ASSUME q >= p + 1 PROVE FALSE
      BY <2>1
    <3>2. PICK d \in Nat : q = (p + 1) + d
      <4>1. q - (p + 1) \in Nat /\ q = (p + 1) + (q - (p + 1))
        BY <2>1, <3>1
      <4>. QED
        BY <4>1
    <3>3. w * q = w * p + w + w * d /\ w * d >= 0 /\ w * p \in Nat /\ w * d \in Nat
      BY <2>1, <3>2
    <3>. QED
      BY <2>2, <3>3
  <2>. QED
    BY <2>1, <2>3, <2>4
<1>. QED
  BY <1>1, <1>3, <1>4

\* Lists of one and two handlers.
LEMMA Pair == ASSUME NEW a, NEW b PROVE Append(<<a>>, b) = <<a, b>>
<1>1. /\ <<a>> \in Seq({a, b}) /\ <<a, b>> \in Seq({a, b}) /\ Len(<<a>>) = 1
      /\ Len(<<a, b>>) = 2 /\ <<a>>[1] = a /\ <<a, b>>[1] = a /\ <<a, b>>[2] = b
  OBVIOUS
<1>2. /\ Append(<<a>>, b) \in Seq({a, b}) /\ Len(Append(<<a>>, b)) = 2
      /\ Append(<<a>>, b)[1] = a /\ Append(<<a>>, b)[2] = b
  BY <1>1, Appended
<1>3. \A k \in 1 .. 2 : <<a, b>>[k] = Append(<<a>>, b)[k]
  <2>1. SUFFICES ASSUME NEW k \in 1 .. 2 PROVE <<a, b>>[k] = Append(<<a>>, b)[k]
    OBVIOUS
  <2>2. k = 1 \/ k = 2
    BY <2>1
  <2>. QED
    BY <1>1, <1>2, <2>2
<1>. QED
  BY <1>1, <1>2, <1>3, SameList

LEMMA Handlers ==
  /\ Tail(<<"timer">>) = <<>> /\ Tail(<<"receive">>) = <<>>
  /\ Tail(<<"timer", "receive">>) = <<"receive">> /\ Tail(<<"receive", "timer">>) = <<"timer">>
  /\ Head(<<"timer">>) = "timer" /\ Head(<<"receive">>) = "receive"
  /\ Head(<<"timer", "receive">>) = "timer" /\ Head(<<"receive", "timer">>) = "receive"
  /\ Append(<<>>, "receive") = <<"receive">> /\ Append(<<>>, "timer") = <<"timer">>
  /\ Append(<<"timer">>, "receive") = <<"timer", "receive">>
  /\ Append(<<"receive">>, "timer") = <<"receive", "timer">>
  /\ <<>> # <<"timer", "receive">> /\ <<"timer">> # <<"timer", "receive">>
  /\ <<"receive">> # <<"timer", "receive">> /\ <<"receive", "timer">> # <<"timer", "receive">>
<1>1. /\ Append(<<"timer">>, "receive") = <<"timer", "receive">>
      /\ Append(<<"receive">>, "timer") = <<"receive", "timer">>
  BY Pair
<1>. QED
  BY <1>1

LEMMA PingConstants ==
  /\ Width \in Nat /\ Width > 0 /\ MaxRequests \in Nat /\ MaxRequests > 0
  /\ MaxPackets \in Nat /\ MaxPackets > 0 /\ Lifetime \in Nat /\ Lifetime > 0
  /\ Lifetime + (MaxPackets + 1) \div 2 <= Width
<1>1. /\ Width \in Nat /\ MaxRequests \in Nat /\ MaxRequests > 0
      /\ MaxPackets \in Nat /\ MaxPackets > 0 /\ Lifetime \in Nat /\ Lifetime > 0
      /\ Lifetime + (MaxPackets + 1) \div 2 <= Width
  BY AsioAssumption
<1>2. (MaxPackets + 1) \div 2 \in Nat
  BY <1>1
<1>. QED
  BY <1>1, <1>2

LEMMA PingInvInit == Ping!Init => PingInv
<1> SUFFICES ASSUME Ping!Init PROVE PingInv
  OBVIOUS
<1> USE DEF Ping!Init
<1>1. PingTyped /\ PingFlags /\ PingNumber
  <2>1. packets \in Seq(0 .. MaxRequests) /\ Len(packets) = 0
    OBVIOUS
  <2>2. 1 \in 1 .. MaxRequests /\ 0 \in 0 .. 3 /\ 0 \in 0 .. 6 /\ 0 <= MaxPackets
    BY PingConstants
  <2>. QED
    BY <2>1, <2>2 DEF PingTyped, PingFlags, PingNumber, Ping!Other
<1>2. PingReady
  BY DEF PingReady
<1>3. PingTimer
  BY DEF PingTimer
<1>4. PingPackets
  BY DEF PingPackets
<1>. QED
  BY <1>1, <1>2, <1>3, <1>4 DEF PingInv

\* The handler of the timer is the first to be called, before that of the
\* socket if there are packets.
LEMMA PingTimerFirst ==
  ASSUME PingReady, Ping!IsNext("timer"), ready' = Tail(ready), waiting' = TRUE,
         packets' = packets
  PROVE  /\ ~waiting /\ PingReady'
         /\ packets # <<>> => ready = <<"timer", "receive">> /\ ready' # <<"timer", "receive">>
<1>1. ready # <<>> /\ Head(ready) = "timer"
  BY DEF Ping!IsNext
<1>2. CASE packets = <<>>
  <2>1. ready = <<"timer">> /\ ~waiting
    BY <1>1, <1>2 DEF PingReady
  <2>. QED
    BY <1>2, <2>1, Handlers DEF PingReady
<1>3. CASE packets # <<>>
  <2>1. ready = <<"timer", "receive">> /\ ~waiting
    BY <1>1, <1>3, Handlers DEF PingReady
  <2>. QED
    BY <1>3, <2>1, Handlers DEF PingReady
<1>. QED
  BY <1>2, <1>3

\* The next request is sent: a turn of the timer less before every packet.
LEMMA PingStartSend == PingInv /\ Ping!StartSend => PingInv'
<1> SUFFICES ASSUME PingInv, Ping!StartSend PROVE PingInv'
  OBVIOUS
<1>0. /\ PingTyped /\ PingFlags /\ PingNumber /\ PingReady /\ PingTimer /\ PingPackets
      /\ Ping!IsNext("timer")
      /\ then = "start_send" /\ request < MaxRequests /\ request' = request + 1
      /\ elapsed' = 0 /\ sequenceNumber' = (sequenceNumber + 1) % Width /\ numReplies' = 0
      /\ expiry' = 5 /\ then' = "handle_timeout" /\ waiting' = TRUE /\ ready' = Tail(ready)
      /\ counted' = 0 /\ reported' = FALSE /\ packets' = packets /\ pinging' = pinging
  BY DEF PingInv, Ping!StartSend, Ping!Other
<1>1. /\ ~waiting /\ PingReady'
      /\ packets # <<>> => ready = <<"timer", "receive">> /\ ready' # <<"timer", "receive">>
  BY <1>0, PingTimerFirst
<1>2. PingTyped' /\ PingFlags' /\ PingNumber'
  <2>1. request \in Nat /\ request + 1 \in 1 .. MaxRequests
    BY <1>0, PingConstants DEF PingTyped
  <2>2. ((request % Width) + 1) % Width = (request + 1) % Width
    BY <2>1, PingConstants, Remainders
  <2>3. PingNumber'
    BY <1>0, <2>2 DEF PingNumber
  <2>4. PingTyped'
    BY <1>0, <2>1 DEF PingTyped
  <2>. QED
    BY <1>0, <2>3, <2>4 DEF PingFlags
<1>3. PingTimer'
  BY <1>0 DEF PingTimer
<1>4. PingPackets'
  <2>. SUFFICES ASSUME NEW k \in 1 .. Len(packets)
                PROVE  /\ packets[k] <= request'
                       /\ packets[k] # 0 => (request' + Sends(k)') - packets[k] < Width
    BY <1>0 DEF PingPackets
  <2>1. packets \in Seq(0 .. MaxRequests) /\ Len(packets) \in Nat /\ packets # <<>>
    BY <1>0 DEF PingTyped
  <2>2. k \in Nat /\ k > 0 /\ packets[k] \in Nat /\ request \in Nat
    <3>1. packets[k] \in 0 .. MaxRequests
      BY <2>1, Element
    <3>. QED
      BY <1>0, <2>1, <3>1, PingConstants DEF PingTyped
  <2>3. Sends(k) = (k + 1) \div 2 /\ Sends(k)' = (k - 1) \div 2
    BY <1>0, <1>1, <2>1 DEF Sends
  <2>4. (k + 1) \div 2 = (k - 1) \div 2 + 1 /\ (k - 1) \div 2 \in Nat
    BY <2>2
  <2>. QED
    BY <1>0, <2>2, <2>3, <2>4, PingConstants DEF PingPackets
<1>. QED
  BY <1>1, <1>2, <1>3, <1>4 DEF PingInv

LEMMA PingHandleTimeout == PingInv /\ Ping!HandleTimeout => PingInv'
<1> SUFFICES ASSUME PingInv, Ping!HandleTimeout PROVE PingInv'
  OBVIOUS
<1>0. /\ PingTyped /\ PingFlags /\ PingNumber /\ PingReady /\ PingTimer /\ PingPackets
      /\ Ping!IsNext("timer")
      /\ then = "handle_timeout" /\ reported' = (numReplies = 0)
      /\ expiry' = 1 /\ then' = "start_send" /\ waiting' = TRUE /\ ready' = Tail(ready)
      /\ UNCHANGED <<sequenceNumber, numReplies, elapsed, packets, pinging, request, counted>>
  BY DEF PingInv, Ping!HandleTimeout
<1>1. /\ ~waiting /\ PingReady'
      /\ packets # <<>> => ready = <<"timer", "receive">> /\ ready' # <<"timer", "receive">>
  BY <1>0, PingTimerFirst
<1>2. PingTyped' /\ PingFlags' /\ PingNumber'
  <2>1. PingFlags'
    BY <1>0 DEF PingFlags
  <2>2. PingNumber'
    BY <1>0 DEF PingNumber
  <2>. QED
    BY <1>0, <2>1, <2>2 DEF PingTyped
<1>3. PingTimer'
  <2>1. numReplies \in 0 .. 3 /\ ~reported
    BY <1>0 DEF PingTyped, PingTimer
  <2>2. numReplies > 0 \/ elapsed >= 5
    BY <1>0, <1>1 DEF PingTimer
  <2>3. reported' <=> (numReplies = 0)
    BY <1>0
  <2>4. reported' => elapsed >= 5
    BY <2>1, <2>2, <2>3
  <2>5. reported' \/ numReplies > 0
    BY <2>1, <2>3
  <2>. QED
    BY <1>0, <2>4, <2>5 DEF PingTimer
<1>4. PingPackets'
  <2>. SUFFICES ASSUME NEW k \in 1 .. Len(packets)
                PROVE  /\ packets[k] <= request
                       /\ packets[k] # 0 => (request + Sends(k)') - packets[k] < Width
    BY <1>0 DEF PingPackets
  <2>1. packets \in Seq(0 .. MaxRequests) /\ Len(packets) \in Nat /\ packets # <<>>
    BY <1>0 DEF PingTyped
  <2>2. k \in Nat /\ k > 0
    BY <2>1
  <2>3. Sends(k) = k \div 2 /\ Sends(k)' = ((k - 1) + 1) \div 2
    BY <1>0, <1>1, <2>1 DEF Sends
  <2>4. (k - 1) + 1 = k
    BY <2>2
  <2>. QED
    BY <1>0, <2>3, <2>4 DEF PingPackets
<1>. QED
  BY <1>1, <1>2, <1>3, <1>4 DEF PingInv

\* A packet is taken: no packet has more turns of the timer before it.
LEMMA PingReceive == PingInv /\ Ping!HandleReceive => PingInv'
<1> SUFFICES ASSUME PingInv, Ping!HandleReceive PROVE PingInv'
  OBVIOUS
<1> DEFINE p == Head(packets)
<1>0. /\ PingTyped /\ PingFlags /\ PingNumber /\ PingReady /\ PingTimer /\ PingPackets
      /\ ready # <<>> /\ Head(ready) = "receive"
      /\ packets' = Tail(packets)
      /\ UNCHANGED <<sequenceNumber, elapsed, expiry, then, pinging, request, reported>>
      /\ IF Ping!IsExpected(p) /\ numReplies = 0 /\ waiting
         THEN waiting' = FALSE /\ ready' = Append(Ping!Received, "timer")
         ELSE waiting' = waiting /\ ready' = Ping!Received
      /\ IF Ping!IsExpected(p) /\ numReplies < 3
         THEN numReplies' = numReplies + 1 /\ counted' = p
         ELSE UNCHANGED <<numReplies, counted>>
  BY DEF PingInv, Ping!HandleReceive, Ping!IsNext, Ping!MaxReplies
<1>1. /\ packets # <<>>
      /\ ready = IF waiting THEN <<"receive">> ELSE <<"receive", "timer">>
  <2>1. packets # <<>>
    BY <1>0, Handlers DEF PingReady
  <2>. QED
    BY <1>0, <2>1, Handlers DEF PingReady
<1>2. /\ p = packets[1] /\ p \in 0 .. MaxRequests /\ packets' \in Seq(0 .. MaxRequests)
      /\ Len(packets) \in Nat /\ Len(packets) >= 1 /\ Len(packets') = Len(packets) - 1
      /\ \A k \in 1 .. Len(packets) - 1 : packets'[k] = packets[k + 1]
  BY <1>0, <1>1, FirstTaken DEF PingTyped
<1>3. Ping!IsExpected(p) => p = request
  <2>. SUFFICES ASSUME p # 0, p % Width = request % Width PROVE p = request
    BY <1>0 DEF Ping!IsExpected, Ping!Other, PingNumber
  <2>1. p <= request /\ (request + Sends(1)) - p < Width
    BY <1>0, <1>2 DEF PingPackets
  <2>2. Sends(1) \in Nat
    <3>1. ready # <<"timer", "receive">>
      BY <1>1, Handlers
    <3>. QED
      BY <3>1 DEF Sends
  <2>3. request \in Nat /\ p \in Nat
    BY <1>0, <1>2 DEF PingTyped
  <2>4. request - p < Width
    BY <2>1, <2>2, <2>3, PingConstants
  <2>. QED
    BY <2>1, <2>3, <2>4, PingConstants, Remainders
<1> HIDE DEF p
<1>4. PingTyped' /\ PingFlags' /\ PingNumber'
  <2>1. packets' \in Seq(0 .. MaxRequests) /\ Len(packets') <= MaxPackets
    <3>1. Len(packets) <= MaxPackets
      BY <1>0 DEF PingTyped
    <3>. QED
      BY <1>0, <1>2, <3>1, PingConstants
  <2>2. numReplies' \in 0 .. 3 /\ counted' \in {0, request}
    <3>1. numReplies \in 0 .. 3 /\ counted \in {0, request}
      BY <1>0 DEF PingTyped
    <3>. QED
      BY <1>0, <1>3, <3>1
  <2>3. PingNumber'
    BY <1>0 DEF PingNumber
  <2>4. PingFlags'
    BY <1>0 DEF PingFlags
  <2>. QED
    BY <1>0, <2>1, <2>2, <2>3, <2>4 DEF PingTyped
<1>5. /\ packets' = <<>> => ready' = IF waiting' THEN <<>> ELSE <<"timer">>
      /\ packets' # <<>> =>
           \/ waiting' /\ ready' = <<"receive">>
           \/ ~waiting' /\ waiting /\ ready' = <<"receive", "timer">>
           \/ ~waiting' /\ ~waiting /\ ready' = <<"timer", "receive">>
  <2>2. packets' = <<>> <=> ~(Len(packets) > 1)
    BY <1>2
  <2>3. Ping!Received = IF packets' = <<>> THEN IF waiting THEN <<>> ELSE <<"timer">>
                        ELSE IF waiting THEN <<"receive">> ELSE <<"timer", "receive">>
    BY <1>1, <2>2, Handlers DEF Ping!Received
  <2>4. waiting \in BOOLEAN /\ waiting' \in BOOLEAN
    BY <1>0, <1>4 DEF PingFlags
  <2>5. CASE Ping!IsExpected(p) /\ numReplies = 0 /\ waiting
    BY <1>0, <2>3, <2>5, Handlers
  <2>6. CASE ~(Ping!IsExpected(p) /\ numReplies = 0 /\ waiting)
    <3>1. waiting' = waiting /\ ready' = Ping!Received
      BY <1>0, <2>6
    <3>. QED
      BY <2>3, <3>1
  <2>. QED
    BY <2>5, <2>6
<1>6. PingReady'
  BY <1>5 DEF PingReady
<1>7. PingTimer'
  <2>1. numReplies \in 0 .. 3 /\ elapsed \in 0 .. 6
    BY <1>0 DEF PingTyped
  <2>2. numReplies' >= numReplies /\ numReplies' \in 0 .. 3
    BY <1>0, <1>4, <2>1 DEF PingTyped
  <2>3. \/ waiting' = waiting
        \/ waiting' = FALSE /\ numReplies = 0 /\ numReplies' > 0
    BY <1>0, <2>1
  <2>. QED
    BY <1>0, <2>1, <2>2, <2>3 DEF PingTimer
<1>8. PingPackets'
  <2>. SUFFICES ASSUME NEW k \in 1 .. Len(packets')
                PROVE  /\ packets'[k] <= request
                       /\ packets'[k] # 0 => (request + Sends(k)') - packets'[k] < Width
    BY <1>0 DEF PingPackets
  <2>1. k \in 1 .. Len(packets) - 1 /\ k + 1 \in 1 .. Len(packets) /\ k \in Nat /\ k > 0
    BY <1>2
  <2>2. packets'[k] = packets[k + 1] /\ packets[k + 1] \in Nat /\ request \in Nat
    <3>1. packets \in Seq(0 .. MaxRequests) /\ request \in Nat
      BY <1>0 DEF PingTyped
    <3>2. packets[k + 1] \in 0 .. MaxRequests
      BY <2>1, <3>1, Element
    <3>. QED
      BY <1>2, <2>1, <3>1, <3>2, PingConstants
  <2>3. packets[k + 1] <= request /\ (packets[k + 1] # 0 =>
                                      (request + Sends(k + 1)) - packets[k + 1] < Width)
    BY <1>0, <2>1 DEF PingPackets
  <2>4. ready # <<"timer", "receive">>
    BY <1>1, Handlers
  <2>5. Sends(k + 1) = IF then = "start_send" THEN (k + 1) \div 2 ELSE k \div 2
    <3>1. (k + 1) - 1 = k
      BY <2>1
    <3>. QED
      BY <2>4, <3>1 DEF Sends
  <2>6. /\ (k + 1) \div 2 \in Nat /\ k \div 2 \in Nat
        /\ ((k - 1) + 1) \div 2 <= (k + 1) \div 2 /\ (k - 1) \div 2 <= k \div 2
        /\ ((k - 1) + 1) \div 2 \in Nat /\ (k - 1) \div 2 \in Nat
    BY <2>1
  <2>7. Sends(k)' \in Nat /\ Sends(k + 1) \in Nat /\ Sends(k)' <= Sends(k + 1)
    BY <1>0, <2>5, <2>6 DEF Sends
  <2>. QED
    BY <2>2, <2>3, <2>7, PingConstants
<1>. QED
  BY <1>4, <1>6, <1>7, <1>8 DEF PingInv

\* Time, and a failure to send.
LEMMA PingTimeStep == PingInv /\ (Ping!SendThrows \/ Ping!Tick \/ Ping!Expire) => PingInv'
<1> SUFFICES ASSUME PingInv, Ping!SendThrows \/ Ping!Tick \/ Ping!Expire PROVE PingInv'
  OBVIOUS
<1>0. PingTyped /\ PingFlags /\ PingNumber /\ PingReady /\ PingTimer /\ PingPackets
  BY DEF PingInv
<1>1. CASE Ping!SendThrows \/ Ping!Tick
  <2>1. /\ UNCHANGED <<sequenceNumber, numReplies, expiry, then, waiting, packets, ready,
                       request, counted, reported>>
        /\ pinging' \in BOOLEAN /\ elapsed' \in 0 .. 6 /\ elapsed' >= elapsed /\ elapsed \in 0 .. 6
    <3>1. elapsed \in 0 .. 6 /\ pinging \in BOOLEAN
      BY <1>0 DEF PingTyped, PingFlags
    <3>2. CASE Ping!SendThrows
      <4>1. pinging' \in BOOLEAN
        BY <3>2 DEF Ping!SendThrows
      <4>. QED
        BY <3>1, <3>2, <4>1 DEF Ping!SendThrows, Ping!timer
    <3>3. CASE Ping!Tick
      BY <3>1, <3>3 DEF Ping!Tick, Ping!timer, Ping!Limit
    <3>. QED
      BY <1>1, <3>2, <3>3
  <2>2. PingTyped' /\ PingFlags' /\ PingNumber'
    BY <1>0, <2>1 DEF PingTyped, PingFlags, PingNumber
  <2>3. PingReady' /\ PingPackets'
    BY <1>0, <2>1 DEF PingReady, PingPackets, Sends
  <2>4. PingTimer'
    BY <1>0, <2>1 DEF PingTimer
  <2>. QED
    BY <2>2, <2>3, <2>4 DEF PingInv
<1>2. CASE Ping!Expire
  <2>1. /\ UNCHANGED <<sequenceNumber, numReplies, elapsed, expiry, then, packets, pinging,
                       request, counted, reported>>
        /\ waiting /\ elapsed >= expiry /\ waiting' = FALSE /\ ready' = Append(ready, "timer")
    BY <1>2 DEF Ping!Expire
  <2>2. /\ ready = IF packets = <<>> THEN <<>> ELSE <<"receive">>
        /\ ready' = IF packets = <<>> THEN <<"timer">> ELSE <<"receive", "timer">>
    <3>1. ready = IF packets = <<>> THEN <<>> ELSE <<"receive">>
      BY <1>0, <2>1 DEF PingReady
    <3>. QED
      BY <2>1, <3>1, Handlers
  <2>3. PingTyped' /\ PingFlags' /\ PingNumber' /\ PingReady'
    BY <1>0, <2>1, <2>2 DEF PingTyped, PingFlags, PingNumber, PingReady
  <2>4. PingTimer'
    BY <1>0, <2>1 DEF PingTimer, PingTyped
  <2>5. ready # <<"timer", "receive">> /\ ready' # <<"timer", "receive">>
    BY <2>2, Handlers
  <2>6. PingPackets'
    BY <1>0, <2>1, <2>5 DEF PingPackets, Sends
  <2>. QED
    BY <2>3, <2>4, <2>6 DEF PingInv
<1>. QED
  BY <1>1, <1>2

\* A packet arrives, a reply not later than Lifetime requests after its own.
LEMMA PingArrive == PingInv /\ Ping!Arrive => PingInv'
<1> SUFFICES ASSUME PingInv, Ping!Arrive PROVE PingInv'
  OBVIOUS
<1>0. /\ PingTyped /\ PingFlags /\ PingNumber /\ PingReady /\ PingTimer /\ PingPackets
      /\ Len(packets) < MaxPackets
      /\ packets \in Seq(0 .. MaxRequests) /\ request \in 1 .. MaxRequests /\ MaxRequests \in Nat
      /\ ready' = IF packets = <<>> THEN Append(ready, "receive") ELSE ready
      /\ UNCHANGED <<sequenceNumber, numReplies, elapsed, expiry, then, waiting, pinging,
                     request, counted, reported>>
  BY PingConstants DEF PingInv, PingTyped, Ping!Arrive, Ping!timer
<1>1. PICK p \in 0 .. request : /\ p = 0 \/ request < p + Lifetime
                                /\ packets' = Append(packets, p)
  BY DEF Ping!Arrive, Ping!Other
<1> DEFINE n == Len(packets)
<1>2. /\ packets' \in Seq(0 .. MaxRequests) /\ packets' # <<>> /\ n \in Nat
      /\ Len(packets') = n + 1
      /\ \A k \in 1 .. n : packets'[k] = packets[k]
      /\ packets'[n + 1] = p
  <2>1. p \in 0 .. MaxRequests
    BY <1>0
  <2>. QED
    BY <1>0, <1>1, <2>1, Appended
<1>3. PingTyped' /\ PingFlags' /\ PingNumber' /\ PingTimer'
  BY <1>0, <1>2, PingConstants DEF PingTyped, PingFlags, PingNumber, PingTimer
<1>4. PingReady'
  <2>1. CASE packets = <<>>
    <3>1. ready = IF waiting THEN <<>> ELSE <<"timer">>
      BY <1>0, <2>1 DEF PingReady
    <3>2. ready' = IF waiting THEN <<"receive">> ELSE <<"timer", "receive">>
      BY <1>0, <2>1, <3>1, Handlers
    <3>. QED
      BY <1>0, <1>2, <3>2 DEF PingReady
  <2>2. CASE packets # <<>>
    BY <1>0, <1>2, <2>2 DEF PingReady
  <2>. QED
    BY <2>1, <2>2
<1>5. PingPackets'
  <2>. SUFFICES ASSUME NEW k \in 1 .. n + 1
                PROVE  /\ packets'[k] <= request
                       /\ packets'[k] # 0 => (request + Sends(k)') - packets'[k] < Width
    BY <1>0, <1>2 DEF PingPackets
  <2>1. CASE k \in 1 .. n
    <3>1. packets # <<>>
      BY <1>0, <1>2, <2>1
    <3>2. ready' = ready /\ packets'[k] = packets[k]
      BY <1>0, <1>2, <2>1, <3>1
    <3>. QED
      BY <1>0, <2>1, <3>2 DEF PingPackets, Sends
  <2>2. CASE k = n + 1
    <3>1. k \in 1 .. MaxPackets /\ p \in Nat /\ request \in Nat /\ p <= request
      BY <1>0, <1>2, <2>2, PingConstants
    <3>2. /\ (k + 1) \div 2 <= (MaxPackets + 1) \div 2
          /\ ((k - 1) + 1) \div 2 <= (MaxPackets + 1) \div 2
          /\ k \div 2 <= (MaxPackets + 1) \div 2 /\ (k - 1) \div 2 <= (MaxPackets + 1) \div 2
          /\ (k + 1) \div 2 \in Nat /\ ((k - 1) + 1) \div 2 \in Nat
          /\ k \div 2 \in Nat /\ (k - 1) \div 2 \in Nat /\ (MaxPackets + 1) \div 2 \in Nat
      BY <3>1, PingConstants
    <3>3. Sends(k)' \in Nat /\ Sends(k)' <= (MaxPackets + 1) \div 2
      BY <3>2 DEF Sends
    <3>4. packets'[k] = p
      BY <1>2, <2>2
    <3>. QED
      BY <1>1, <3>1, <3>2, <3>3, <3>4, PingConstants
  <2>. QED
    BY <1>2, <2>1, <2>2
<1>. QED
  BY <1>3, <1>4, <1>5 DEF PingInv

LEMMA PingInvStep == PingInv /\ [Ping!Next]_pingVars => PingInv'
<1>1. ASSUME PingInv, Ping!Next PROVE PingInv'
  BY <1>1, PingStartSend, PingHandleTimeout, PingReceive, PingTimeStep, PingArrive
     DEF Ping!Next, Ping!Handle
<1>2. ASSUME PingInv, UNCHANGED pingVars PROVE PingInv'
  BY <1>2 DEF pingVars, PingInv, PingTyped, PingFlags, PingNumber,
                 PingReady, PingTimer, PingPackets, Sends
<1>. QED
  BY <1>1, <1>2

LEMMA PingIsSafe == PingInv => Ping!TypeOK /\ Ping!VerdictIsRight
<1> SUFFICES ASSUME PingInv PROVE Ping!TypeOK /\ Ping!VerdictIsRight
  OBVIOUS
<1>0. PingTyped /\ PingFlags /\ PingNumber /\ PingReady /\ PingTimer
  BY DEF PingInv
<1>1. ready \in Seq({"timer", "receive"})
  <2>1. /\ <<>> \in Seq({"timer", "receive"})
        /\ <<"timer">> \in Seq({"timer", "receive"})
        /\ <<"receive">> \in Seq({"timer", "receive"})
        /\ <<"timer", "receive">> \in Seq({"timer", "receive"})
        /\ <<"receive", "timer">> \in Seq({"timer", "receive"})
    OBVIOUS
  <2>. QED
    BY <1>0, <2>1 DEF PingReady
<1>2. sequenceNumber \in 0 .. Width - 1
  <2>1. request \in Nat
    BY <1>0, PingConstants DEF PingTyped
  <2>. QED
    BY <1>0, <2>1, PingConstants, Remainders DEF PingNumber
<1>3. counted \in 0 .. MaxRequests
  BY <1>0, PingConstants DEF PingTyped
<1>4. Ping!TypeOK
  BY <1>0, <1>1, <1>2, <1>3 DEF Ping!TypeOK, Ping!MaxReplies, Ping!Limit, PingTyped,
                                 PingFlags, PingTimer
<1>5. Ping!VerdictIsRight
  BY <1>0 DEF Ping!VerdictIsRight, Ping!Other, PingTyped, PingTimer
<1>. QED
  BY <1>4, <1>5

\* A request follows another only when its pause is over, or was cut short
\* after the five seconds of a timeout.
LEMMA PingIsPatient ==
  ASSUME PingInv, [Ping!Next]_pingVars, request' # request
  PROVE  elapsed >= 1
<1>1. Ping!StartSend
  BY DEF Ping!Next, Ping!Handle, Ping!HandleTimeout, Ping!HandleReceive, Ping!SendThrows,
         Ping!Tick, Ping!Expire, Ping!Arrive, pingVars
<1>2. then = "start_send" /\ ready' = Tail(ready) /\ waiting' = TRUE /\ packets' = packets
      /\ Ping!IsNext("timer")
  BY <1>1 DEF Ping!StartSend
<1>3. ~waiting
  BY <1>2, PingTimerFirst DEF PingInv
<1>. QED
  BY <1>2, <1>3 DEF PingInv, PingTimer
-----------------------------------------------------------------------------
(* Timers *)

Threads == {1, 2}
Busy == {"print", "load", "store"}

TimerTyped ==
  /\ printer \in {"Timer3", "Timer4", "Timer5"} /\ count \in 0 .. CountMax + 1
  /\ timer \in [{1, 2} -> {"none", "waiting", "ready"}]
  /\ at \in [Threads -> {"run", "test", "print", "load", "store", "rearm", "returned"}]
  /\ handling \in [Threads -> {1, 2}] /\ local \in [Threads -> 0 .. CountMax]
  /\ printed \subseteq 0 .. CountMax

\* One thread at most is between its test and its write once the count is
\* CountMax: it passed the test before the other thread wrote.
TimerLast ==
  \A t, u \in Threads : t # u =>
    /\ at[t] \in {"print", "load"} /\ count >= CountMax => count = CountMax /\ at[u] \notin Busy
    /\ at[t] = "store" /\ local[t] = CountMax => count = CountMax /\ at[u] \notin Busy

\* As long as the count is low somebody will count.
TimerGoesOn ==
  /\ count < CountMax => \/ \E c \in {1, 2} : timer[c] # "none"
                         \/ \E t \in Threads : at[t] \notin {"run", "returned"}
  /\ (\A t \in Threads : at[t] = "returned") => \A c \in {1, 2} : timer[c] = "none"

\* With one thread the test holds until the write, and each number is printed.
TimerAlone ==
  printer # "Timer5" =>
    /\ at[2] = "returned" /\ timer[2] = "none" /\ handling[1] = 1 /\ count <= CountMax
    /\ at[1] \in Busy => count < CountMax
    /\ at[1] = "store" => local[1] = count
    /\ printed = IF at[1] \in {"load", "store"} THEN 0 .. count ELSE 0 .. count - 1

TimerInv == TimerTyped /\ TimerLast /\ TimerGoesOn /\ TimerAlone

LEMMA TimerInvInit == Timer!Init => TimerInv
<1> SUFFICES ASSUME Timer!Init PROVE TimerInv
  OBVIOUS
<1>0. CountMax \in Nat
  BY AsioAssumption
<1> USE DEF Timer!Init, Timer!Uses, Timer!Programs, Timer!Clocks, Timer!Threads, Threads
<1>1. TimerTyped
  BY <1>0 DEF TimerTyped
<1>2. \A t \in Threads : at[t] \in {"run", "returned"}
  OBVIOUS
<1>3. TimerLast
  BY <1>2 DEF TimerLast
<1>4. TimerGoesOn
  BY DEF TimerGoesOn
<1>5. TimerAlone
  BY <1>0 DEF TimerAlone, Busy
<1>. QED
  BY <1>1, <1>3, <1>4, <1>5 DEF TimerInv

\* The parts that a step leaves alone, or disturbs at thread t only.
LEMMA TimerTest ==
  ASSUME TimerInv, NEW t \in Threads, Timer!Test(t)
  PROVE  TimerInv'
<1>0. /\ TimerTyped /\ TimerLast /\ TimerGoesOn /\ TimerAlone /\ CountMax \in Nat
      /\ count \in Nat /\ t \in {1, 2}
  BY AsioAssumption DEF TimerInv, TimerTyped, Threads
<1>1. /\ at[t] = "test" /\ at' = [at EXCEPT ![t] = IF count < CountMax THEN "print" ELSE "run"]
      /\ UNCHANGED <<printer, count, timer, handling, local, printed>>
  BY DEF Timer!Test, Timer!Goto
<1>2. /\ at'[t] = IF count < CountMax THEN "print" ELSE "run"
      /\ \A u \in Threads : u # t => at'[u] = at[u]
  BY <1>0, <1>1 DEF TimerTyped
<1>3. TimerTyped'
  BY <1>0, <1>1 DEF TimerTyped
<1>4. TimerLast'
  BY <1>0, <1>1, <1>2 DEF TimerLast, Busy
<1>5. TimerGoesOn'
  BY <1>0, <1>1, <1>2 DEF TimerGoesOn, Threads
<1>6. TimerAlone'
  BY <1>0, <1>1, <1>2 DEF TimerAlone, Busy, Threads
<1>. QED
  BY <1>3, <1>4, <1>5, <1>6 DEF TimerInv

LEMMA TimerPrint ==
  ASSUME TimerInv, NEW t \in Threads, Timer!PrintCount(t)
  PROVE  TimerInv'
<1>0. /\ TimerTyped /\ TimerLast /\ TimerGoesOn /\ TimerAlone /\ CountMax \in Nat
      /\ count \in Nat /\ t \in {1, 2}
  BY AsioAssumption DEF TimerInv, TimerTyped, Threads
<1>1. /\ at[t] = "print" /\ at' = [at EXCEPT ![t] = "load"] /\ printed' = printed \cup {count}
      /\ UNCHANGED <<printer, count, timer, handling, local>>
  BY DEF Timer!PrintCount, Timer!Goto
<1>2. at'[t] = "load" /\ \A u \in Threads : u # t => at'[u] = at[u]
  BY <1>0, <1>1 DEF TimerTyped
<1>3. count <= CountMax
  <2>1. PICK u \in Threads : u # t
    BY <1>0 DEF Threads
  <2>. QED
    BY <1>0, <1>1, <2>1 DEF TimerLast
<1>4. TimerTyped'
  BY <1>0, <1>1, <1>3 DEF TimerTyped
<1>5. TimerLast'
  BY <1>0, <1>1, <1>2 DEF TimerLast, Busy
<1>6. TimerGoesOn'
  BY <1>0, <1>1, <1>2 DEF TimerGoesOn, Threads
<1>7. TimerAlone'
  BY <1>0, <1>1, <1>2 DEF TimerAlone, Busy, Threads
<1>. QED
  BY <1>4, <1>5, <1>6, <1>7 DEF TimerInv

LEMMA TimerLoad ==
  ASSUME TimerInv, NEW t \in Threads, Timer!Load(t)
  PROVE  TimerInv'
<1>0. /\ TimerTyped /\ TimerLast /\ TimerGoesOn /\ TimerAlone /\ CountMax \in Nat
      /\ count \in Nat /\ t \in {1, 2}
  BY AsioAssumption DEF TimerInv, TimerTyped, Threads
<1>1. /\ at[t] = "load" /\ at' = [at EXCEPT ![t] = "store"]
      /\ local' = [local EXCEPT ![t] = count]
      /\ UNCHANGED <<printer, count, timer, handling, printed>>
  BY DEF Timer!Load, Timer!Goto
<1>2. /\ at'[t] = "store" /\ local'[t] = count
      /\ \A u \in Threads : u # t => at'[u] = at[u] /\ local'[u] = local[u]
  BY <1>0, <1>1 DEF TimerTyped
<1>3. count <= CountMax
  <2>1. PICK u \in Threads : u # t
    BY <1>0 DEF Threads
  <2>. QED
    BY <1>0, <1>1, <2>1 DEF TimerLast
<1>4. TimerTyped'
  BY <1>0, <1>1, <1>3 DEF TimerTyped
<1>5. TimerLast'
  BY <1>0, <1>1, <1>2, <1>3 DEF TimerLast, Busy
<1>6. TimerGoesOn'
  BY <1>0, <1>1, <1>2 DEF TimerGoesOn, Threads
<1>7. TimerAlone'
  BY <1>0, <1>1, <1>2 DEF TimerAlone, Busy, Threads
<1>. QED
  BY <1>4, <1>5, <1>6, <1>7 DEF TimerInv

\* What is written is at most one more than CountMax, and then the other
\* thread has nothing left to write.
LEMMA TimerStore ==
  ASSUME TimerInv, NEW t \in Threads, Timer!Store(t)
  PROVE  TimerInv'
<1>0. /\ TimerTyped /\ TimerLast /\ TimerGoesOn /\ TimerAlone /\ CountMax \in Nat
      /\ count \in Nat /\ t \in {1, 2} /\ local[t] \in 0 .. CountMax
  BY AsioAssumption DEF TimerInv, TimerTyped, Threads
<1>1. /\ at[t] = "store" /\ at' = [at EXCEPT ![t] = "rearm"] /\ count' = local[t] + 1
      /\ local' = [local EXCEPT ![t] = 0]
      /\ UNCHANGED <<printer, timer, handling, printed>>
  BY DEF Timer!Store, Timer!Goto
<1>2. /\ at'[t] = "rearm" /\ local'[t] = 0
      /\ \A u \in Threads : u # t => at'[u] = at[u] /\ local'[u] = local[u]
  BY <1>0, <1>1 DEF TimerTyped
<1>3. TimerTyped'
  BY <1>0, <1>1 DEF TimerTyped
<1>4. TimerLast'
  <2>1. SUFFICES ASSUME NEW u \in Threads, NEW v \in Threads, u # v
                 PROVE  /\ at'[u] \in {"print", "load"} /\ count' >= CountMax =>
                             count' = CountMax /\ at'[v] \notin Busy
                        /\ at'[u] = "store" /\ local'[u] = CountMax =>
                             count' = CountMax /\ at'[v] \notin Busy
    BY <1>1 DEF TimerLast
  <2>2. CASE u = t
    BY <1>2, <2>2
  <2>3. CASE u # t
    <3>1. v = t
      BY <1>0, <2>1, <2>3 DEF Threads
    <3>2. at'[v] \notin Busy
      BY <1>2, <3>1 DEF Busy
    <3>3. ~(at[u] = "store" /\ local[u] = CountMax)
      BY <1>0, <1>1, <2>1, <3>1 DEF TimerLast, Busy
    <3>4. at[u] \in {"print", "load"} => count' <= CountMax
      <4>1. at[u] \in {"print", "load"} => local[t] # CountMax
        BY <1>0, <1>1, <2>1, <3>1 DEF TimerLast, Busy
      <4>. QED
        BY <1>0, <1>1, <4>1
    <3>. QED
      BY <1>0, <1>1, <1>2, <2>3, <3>2, <3>3, <3>4
  <2>. QED
    BY <2>2, <2>3
<1>5. TimerGoesOn'
  BY <1>0, <1>1, <1>2 DEF TimerGoesOn, Threads
<1>6. TimerAlone'
  <2>1. SUFFICES ASSUME printer # "Timer5" PROVE TimerAlone'
    BY <1>1 DEF TimerAlone
  <2>2. t = 1
    BY <1>0, <1>1, <2>1 DEF TimerAlone, Threads
  <2>3. count' = count + 1 /\ count < CountMax /\ printed = 0 .. count /\ (count + 1) - 1 = count
    BY <1>0, <1>1, <2>1, <2>2 DEF TimerAlone, Busy
  <2>. QED
    BY <1>0, <1>1, <1>2, <2>1, <2>2, <2>3 DEF TimerAlone, Busy, Threads
<1>. QED
  BY <1>3, <1>4, <1>5, <1>6 DEF TimerInv

\* The steps between two counts.
LEMMA TimerWaits ==
  ASSUME TimerInv,
         \/ \E t \in Threads : \/ Timer!Rearm(t) \/ Timer!Return(t)
                               \/ \E c \in Timer!Clocks : Timer!Call(t, c)
         \/ \E c \in Timer!Clocks : Timer!Expire(c)
  PROVE  TimerInv'
<1>0. /\ TimerTyped /\ TimerLast /\ TimerGoesOn /\ TimerAlone /\ CountMax \in Nat
      /\ count \in Nat
  BY AsioAssumption DEF TimerInv, TimerTyped
<1> USE DEF Timer!Clocks, Timer!Threads, Timer!Goto, Threads
<1>1. CASE \E t \in Threads : Timer!Rearm(t)
  <2>1. PICK t \in Threads : Timer!Rearm(t)
    BY <1>1
  <2>2. /\ at[t] = "rearm" /\ at' = [at EXCEPT ![t] = "run"]
        /\ timer' = [timer EXCEPT ![handling[t]] = "waiting"]
        /\ UNCHANGED <<printer, count, handling, local, printed>>
    BY <2>1 DEF Timer!Rearm
  <2>3. /\ at'[t] = "run" /\ \A u \in Threads : u # t => at'[u] = at[u]
        /\ handling[t] \in {1, 2} /\ timer'[handling[t]] = "waiting"
        /\ \A c \in {1, 2} : c # handling[t] => timer'[c] = timer[c]
    BY <1>0, <2>2 DEF TimerTyped
  <2>4. TimerTyped'
    BY <1>0, <2>2 DEF TimerTyped
  <2>5. TimerLast'
    BY <1>0, <2>2, <2>3 DEF TimerLast, Busy
  <2>6. TimerGoesOn'
    BY <1>0, <2>2, <2>3 DEF TimerGoesOn
  <2>7. TimerAlone'
    BY <1>0, <2>2, <2>3 DEF TimerAlone, Busy
  <2>. QED
    BY <2>4, <2>5, <2>6, <2>7 DEF TimerInv
<1>2. CASE \E t \in Threads : Timer!Return(t)
  <2>1. PICK t \in Threads : Timer!Return(t)
    BY <1>2
  <2>2. /\ at[t] = "run" /\ at' = [at EXCEPT ![t] = "returned"]
        /\ \A c \in {1, 2} : timer[c] = "none"
        /\ UNCHANGED <<printer, count, timer, handling, local, printed>>
    BY <2>1 DEF Timer!Return
  <2>3. at'[t] = "returned" /\ \A u \in Threads : u # t => at'[u] = at[u]
    BY <1>0, <2>2 DEF TimerTyped
  <2>4. TimerTyped'
    BY <1>0, <2>2 DEF TimerTyped
  <2>5. TimerLast'
    BY <1>0, <2>2, <2>3 DEF TimerLast, Busy
  <2>6. TimerGoesOn'
    BY <1>0, <2>2, <2>3 DEF TimerGoesOn
  <2>7. TimerAlone'
    BY <1>0, <2>2, <2>3 DEF TimerAlone, Busy
  <2>. QED
    BY <2>4, <2>5, <2>6, <2>7 DEF TimerInv
<1>3. CASE \E t \in Threads : \E c \in Timer!Clocks : Timer!Call(t, c)
  <2>1. PICK t \in Threads, c \in {1, 2} : Timer!Call(t, c)
    BY <1>3
  <2>2. /\ at[t] = "run" /\ at' = [at EXCEPT ![t] = "test"] /\ timer[c] = "ready"
        /\ timer' = [timer EXCEPT ![c] = "none"] /\ handling' = [handling EXCEPT ![t] = c]
        /\ UNCHANGED <<printer, count, local, printed>>
    BY <2>1 DEF Timer!Call
  <2>3. /\ at'[t] = "test" /\ \A u \in Threads : u # t => at'[u] = at[u]
        /\ timer'[c] = "none" /\ \A d \in {1, 2} : d # c => timer'[d] = timer[d]
        /\ handling'[t] = c /\ \A u \in Threads : u # t => handling'[u] = handling[u]
    BY <1>0, <2>2 DEF TimerTyped
  <2>4. TimerTyped'
    BY <1>0, <2>2 DEF TimerTyped
  <2>5. TimerLast'
    BY <1>0, <2>2, <2>3 DEF TimerLast, Busy
  <2>6. TimerGoesOn'
    BY <1>0, <2>2, <2>3 DEF TimerGoesOn
  <2>7. TimerAlone'
    BY <1>0, <2>2, <2>3 DEF TimerAlone, Busy
  <2>. QED
    BY <2>4, <2>5, <2>6, <2>7 DEF TimerInv
<1>4. CASE \E c \in Timer!Clocks : Timer!Expire(c)
  <2>1. PICK c \in {1, 2} : Timer!Expire(c)
    BY <1>4
  <2>2. /\ timer[c] = "waiting" /\ timer' = [timer EXCEPT ![c] = "ready"]
        /\ UNCHANGED <<printer, count, at, handling, local, printed>>
    BY <2>1 DEF Timer!Expire
  <2>3. timer'[c] = "ready" /\ \A d \in {1, 2} : d # c => timer'[d] = timer[d]
    BY <1>0, <2>2 DEF TimerTyped
  <2>4. TimerTyped' /\ TimerLast'
    BY <1>0, <2>2 DEF TimerTyped, TimerLast
  <2>5. TimerGoesOn'
    BY <1>0, <2>2, <2>3 DEF TimerGoesOn
  <2>6. TimerAlone'
    BY <1>0, <2>2, <2>3 DEF TimerAlone
  <2>. QED
    BY <2>4, <2>5, <2>6 DEF TimerInv
<1>. QED
  BY <1>1, <1>2, <1>3, <1>4

LEMMA TimerInvStep == TimerInv /\ [Timer!Next]_timerVars => TimerInv'
<1>1. ASSUME TimerInv, Timer!Next PROVE TimerInv'
  BY <1>1, TimerTest, TimerPrint, TimerLoad, TimerStore, TimerWaits
     DEF Timer!Next, Timer!Step, Timer!Threads, Threads
<1>2. ASSUME TimerInv, UNCHANGED timerVars PROVE TimerInv'
  BY <1>2 DEF timerVars, TimerInv, TimerTyped, TimerLast, TimerGoesOn, TimerAlone
<1>. QED
  BY <1>1, <1>2

LEMMA TimerIsSafe == TimerInv => Timer!TypeOK /\ Timer!FinalCountIsRight
<1> SUFFICES ASSUME TimerInv PROVE Timer!TypeOK /\ Timer!FinalCountIsRight
  OBVIOUS
<1>0. TimerTyped /\ TimerGoesOn /\ TimerAlone /\ CountMax \in Nat
  BY AsioAssumption DEF TimerInv
<1>1. Timer!TypeOK
  BY <1>0 DEF Timer!TypeOK, Timer!Programs, Timer!Clocks, Timer!Threads, TimerTyped, Threads
<1>2. Timer!FinalCountIsRight
  <2>1. SUFFICES ASSUME Timer!AllReturned
                 PROVE  /\ count \in IF printer = "Timer5" THEN {CountMax, CountMax + 1}
                                                           ELSE {CountMax}
                        /\ printer # "Timer5" => printed = 0 .. CountMax - 1
    BY DEF Timer!FinalCountIsRight
  <2>2. at[1] = "returned" /\ at[2] = "returned"
    BY <2>1 DEF Timer!AllReturned, Timer!Threads
  <2>3. count \in 0 .. CountMax + 1 /\ ~(count < CountMax)
    BY <1>0, <2>2 DEF TimerTyped, TimerGoesOn, Threads
  <2>. QED
    BY <1>0, <2>2, <2>3 DEF TimerAlone
<1>. QED
  BY <1>1, <1>2
-----------------------------------------------------------------------------
(* The queue of priorities *)

Priorities == {0, 42, 100}
Executed == {executed[k] : k \in DOMAIN executed}

QueueTyped ==
  /\ pending \subseteq Priorities /\ invocable \subseteq Priorities
  /\ handlers \subseteq Priorities /\ executed \in Seq(Priorities)
  /\ invoking \in {"run one", "poll one", "execute", "pop", "returned"}

\* Every handler waits for its operation, is ready, is in the queue or was
\* executed; only the one being executed is in the queue as well.
QueueParts ==
  /\ pending \cup invocable \cup handlers \cup Executed = Priorities
  /\ pending \cap (invocable \cup handlers \cup Executed) = {}
  /\ invocable \cap (handlers \cup Executed) = {}
  /\ handlers \cap Executed = IF invoking = "pop" THEN {handler} ELSE {}
  /\ Cardinality(Executed) = Len(executed)

\* What main() does tells what the queue is.
QueueMain ==
  /\ invoking # "pop" => handler = Invocation!NoHandler
  /\ invoking = "pop" => handler \in handlers /\ handler = Invocation!Highest(handlers)
  /\ invoking = "run one" => handlers = {}
  /\ invoking = "returned" => pending = {} /\ invocable = {} /\ handlers = {}

QueueInv == QueueTyped /\ QueueParts /\ QueueMain

LEMMA HighestPriority ==
  ASSUME NEW S, S \subseteq Priorities, S # {}
  PROVE  Invocation!Highest(S) \in S /\ \A h \in S : h <= Invocation!Highest(S)
<1>1. \E x \in S : \A y \in S : x >= y
  <2>1. \A y \in S : y = 0 \/ y = 42 \/ y = 100
    BY DEF Priorities
  <2>2. CASE 100 \in S
    <3>1. \A y \in S : 100 >= y
      BY <2>1
    <3>. QED
      BY <2>2, <3>1
  <2>3. CASE 100 \notin S /\ 42 \in S
    <3>1. \A y \in S : 42 >= y
      BY <2>1, <2>3
    <3>. QED
      BY <2>3, <3>1
  <2>4. CASE 100 \notin S /\ 42 \notin S
    <3>1. \A y \in S : y = 0
      BY <2>1, <2>4
    <3>. QED
      BY <3>1
  <2>. QED
    BY <2>2, <2>3, <2>4
<1>. QED
  BY <1>1 DEF Invocation!Highest, Invocation!Max, Priorities

LEMMA LowestPriority == Invocation!Min({0, 42, 100}) \in Priorities
<1>1. \E x \in {0, 42, 100} : \A y \in {0, 42, 100} : x <= y
  OBVIOUS
<1>. QED
  BY <1>1 DEF Invocation!Min, Priorities

LEMMA QueueInvInit == Invocation!Init => QueueInv
<1> SUFFICES ASSUME Invocation!Init PROVE QueueInv
  OBVIOUS
<1>1. /\ invocable \subseteq Priorities /\ pending = Priorities \ invocable
      /\ handlers = {} /\ invoking = "run one" /\ handler = Invocation!NoHandler
      /\ executed = <<>>
  BY LowestPriority DEF Invocation!Init, Priorities
<1>2. <<>> \in Seq(Priorities) /\ Len(<<>>) = 0 /\ DOMAIN <<>> = {}
  OBVIOUS
<1>3. Executed = {}
  BY <1>1, <1>2 DEF Executed
<1>4. QueueParts
  BY <1>1, <1>2, <1>3, FS_EmptySet DEF QueueParts
<1>5. QueueTyped
  BY <1>1, <1>2 DEF QueueTyped
<1>6. QueueMain
  BY <1>1 DEF QueueMain
<1>. QED
  BY <1>4, <1>5, <1>6 DEF QueueInv

\* A handler becomes ready, and goes into the queue.
LEMMA QueueFills ==
  ASSUME QueueInv, Invocation!Completes \/ Invocation!RunOne \/ Invocation!PollOne
  PROVE  QueueInv'
<1>0. QueueTyped /\ QueueParts /\ QueueMain
  BY DEF QueueInv
<1>1. executed' = executed /\ handler' = handler /\ Executed' = Executed
  BY DEF Invocation!Completes, Invocation!RunOne, Invocation!PollOne, Invocation!Add, Executed
<1>2. CASE Invocation!Completes
  <2>1. PICK h \in pending : pending' = pending \ {h} /\ invocable' = invocable \cup {h}
    BY <1>2 DEF Invocation!Completes
  <2>2. handlers' = handlers /\ invoking' = invoking
    BY <1>2 DEF Invocation!Completes
  <2>3. QueueTyped'
    BY <1>0, <1>1, <2>1, <2>2 DEF QueueTyped
  <2>4. QueueParts'
    BY <1>0, <1>1, <2>1, <2>2 DEF QueueParts
  <2>5. QueueMain'
    BY <1>0, <1>1, <2>1, <2>2 DEF QueueMain
  <2>. QED
    BY <2>3, <2>4, <2>5 DEF QueueInv
<1>3. CASE Invocation!RunOne \/ Invocation!PollOne
  <2>1. /\ pending' = pending /\ invoking \in {"run one", "poll one"}
        /\ \/ \E h \in invocable : /\ invocable' = invocable \ {h} /\ handlers' = handlers \cup {h}
                                   /\ invoking' = "poll one"
           \/ /\ invoking = "run one" /\ invoking' = "returned" /\ invocable \cup pending = {}
              /\ invocable' = invocable /\ handlers' = handlers
           \/ /\ invoking = "poll one" /\ invoking' = "execute"
              /\ invocable' = invocable /\ handlers' = handlers
    BY <1>3 DEF Invocation!RunOne, Invocation!PollOne, Invocation!Add
  <2>2. QueueTyped'
    BY <1>0, <1>1, <2>1 DEF QueueTyped
  <2>3. QueueParts'
    BY <1>0, <1>1, <2>1 DEF QueueParts
  <2>4. QueueMain'
    BY <1>0, <1>1, <2>1 DEF QueueMain
  <2>. QED
    BY <2>2, <2>3, <2>4 DEF QueueInv
<1>. QED
  BY <1>2, <1>3

\* The handler of the highest priority is executed.
LEMMA QueueExecutes == ASSUME QueueInv, Invocation!Execute PROVE QueueInv'
<1> DEFINE h == Invocation!Highest(handlers)
<1>0. QueueTyped /\ QueueParts /\ QueueMain
  BY DEF QueueInv
<1>1. /\ invoking = "execute" /\ invoking' = "pop" /\ handlers # {} /\ handler' = h
      /\ executed' = Append(executed, h)
      /\ UNCHANGED <<pending, invocable, handlers>>
  BY DEF Invocation!Execute
<1>2. h \in handlers /\ h \in Priorities
  BY <1>0, <1>1, HighestPriority DEF QueueTyped
<1> HIDE DEF h
<1>3. /\ executed' \in Seq(Priorities) /\ Len(executed) \in Nat
      /\ Len(executed') = Len(executed) + 1
      /\ \A k \in 1 .. Len(executed) : executed'[k] = executed[k]
      /\ executed'[Len(executed) + 1] = h
  BY <1>0, <1>1, <1>2, Appended DEF QueueTyped
<1>4. DOMAIN executed = 1 .. Len(executed) /\ DOMAIN executed' = 1 .. Len(executed) + 1
  <2>1. ASSUME NEW l \in Seq(Priorities) PROVE DOMAIN l = 1 .. Len(l)
    OBVIOUS
  <2>2. executed \in Seq(Priorities)
    BY <1>0 DEF QueueTyped
  <2>. QED
    BY <1>3, <2>1, <2>2
<1>5. Executed' = Executed \cup {h}
  BY <1>3, <1>4 DEF Executed
<1>6. h \notin Executed
  BY <1>0, <1>1, <1>2 DEF QueueParts
<1>7. Cardinality(Executed') = Len(executed')
  <2>1. IsFiniteSet(Priorities)
    <3>1. 0 \in Int /\ 100 \in Int
      OBVIOUS
    <3>2. IsFiniteSet(0 .. 100)
      BY <3>1, FS_Interval
    <3>3. Priorities \subseteq 0 .. 100
      BY DEF Priorities
    <3>. QED
      BY <3>2, <3>3, FS_Subset
  <2>2. IsFiniteSet(Executed)
    BY <1>0, <2>1, FS_Subset DEF QueueParts
  <2>. QED
    BY <1>0, <1>3, <1>5, <1>6, <2>2, FS_AddElement DEF QueueParts
<1>8. QueueTyped'
  BY <1>0, <1>1, <1>3 DEF QueueTyped
<1>9. QueueParts'
  BY <1>0, <1>1, <1>2, <1>5, <1>6, <1>7 DEF QueueParts
<1>10. QueueMain'
  BY <1>1, <1>2 DEF QueueMain, h
<1>. QED
  BY <1>8, <1>9, <1>10 DEF QueueInv

LEMMA QueueEmpties ==
  ASSUME QueueInv, Invocation!Pop \/ Invocation!AllExecuted
  PROVE  QueueInv'
<1>0. QueueTyped /\ QueueParts /\ QueueMain
  BY DEF QueueInv
<1>1. Executed' = Executed /\ executed' = executed /\ pending' = pending /\ invocable' = invocable
  BY DEF Invocation!Pop, Invocation!AllExecuted, Executed
<1>2. CASE Invocation!Pop
  <2>1. /\ invoking = "pop" /\ invoking' = "execute" /\ handler' = Invocation!NoHandler
        /\ handlers' = handlers \ {handler} /\ handler \in Executed
    BY <1>0, <1>2 DEF Invocation!Pop, QueueMain, QueueParts
  <2>2. QueueTyped' /\ QueueMain'
    BY <1>0, <1>1, <2>1 DEF QueueTyped, QueueMain
  <2>3. QueueParts'
    BY <1>0, <1>1, <2>1 DEF QueueParts
  <2>. QED
    BY <2>2, <2>3 DEF QueueInv
<1>3. CASE Invocation!AllExecuted
  <2>1. /\ invoking = "execute" /\ invoking' = "run one" /\ handlers = {}
        /\ handlers' = handlers /\ handler' = handler
    BY <1>3 DEF Invocation!AllExecuted
  <2>. QED
    BY <1>0, <1>1, <2>1 DEF QueueInv, QueueTyped, QueueParts, QueueMain
<1>. QED
  BY <1>2, <1>3

LEMMA QueueInvStep == QueueInv /\ [Invocation!Next]_queueVars => QueueInv'
<1>1. ASSUME QueueInv, Invocation!Next PROVE QueueInv'
  BY <1>1, QueueFills, QueueExecutes, QueueEmpties DEF Invocation!Next
<1>2. ASSUME QueueInv, UNCHANGED queueVars PROVE QueueInv'
  BY <1>2 DEF queueVars, QueueInv, QueueTyped, QueueParts, QueueMain, Executed
<1>. QED
  BY <1>1, <1>2

LEMMA QueueIsSafe == QueueInv => Invocation!HandlersRunOnceByPriority
<1> SUFFICES ASSUME QueueInv PROVE Invocation!HandlersRunOnceByPriority
  OBVIOUS
<1>0. QueueTyped /\ QueueParts /\ QueueMain
  BY DEF QueueInv
<1>1. Cardinality(Executed) = Len(executed) /\ Executed \cap (pending \cup invocable) = {}
  BY <1>0 DEF QueueParts
<1>2. invoking = "returned" => Executed = {0, 42, 100}
  BY <1>0 DEF QueueParts, QueueMain, Priorities
<1>3. handler # Invocation!NoHandler => handler \in handlers /\ \A h \in handlers : h <= handler
  BY <1>0, HighestPriority DEF QueueMain, QueueTyped
<1>4. Invocation!Cardinality(Executed) = Cardinality(Executed)
  BY DEF Cardinality, Invocation!Cardinality
<1>. QED
  BY <1>1, <1>2, <1>3, <1>4 DEF Invocation!HandlersRunOnceByPriority, Executed
-----------------------------------------------------------------------------
(* The UDP servers *)

UdpTyped ==
  /\ udpKind \in {"echo", "daytime"}
  /\ receive \in {"none", "pending", "ok", "empty", "error"}
  /\ endpoint \in Peers /\ received \in {1, 2}
  /\ sends \subseteq [id : 1 .. MaxSends, to : Peers, status : {"pending", "done"},
                      from : Peers, asked : {1, 2}]
  /\ IsFiniteSet(sends)

UdpRunning == /\ udpRunning \in BOOLEAN
              /\ udpKind = "echo" => udpRunning
              /\ ~udpRunning => receive = "none" /\ sends = {}

\* The echo server sends when it does not receive, once.
UdpEcho ==
  udpKind = "echo" =>
    /\ (receive = "none") <=> (sends # {})
    /\ \A s, t \in sends : s = t
    /\ \A s \in sends : s.status = "pending" => received = s.asked

UdpAnswers == \A s \in sends : s.to = s.from

UdpInv == UdpTyped /\ UdpRunning /\ UdpEcho /\ UdpAnswers

LEMMA UdpInvInit == Udp!Init => UdpInv
<1> SUFFICES ASSUME Udp!Init PROVE UdpInv
  OBVIOUS
<1>1. UdpTyped
  BY FS_EmptySet DEF Udp!Init, UdpTyped
<1>2. UdpRunning /\ UdpEcho /\ UdpAnswers
  BY DEF Udp!Init, UdpRunning, UdpEcho, UdpAnswers
<1>. QED
  BY <1>1, <1>2 DEF UdpInv

\* A send is started only while there is a number for it.
LEMMA NumberIsFree ==
  ASSUME UdpTyped, Cardinality(sends) < MaxSends
  PROVE  \E i \in 1 .. MaxSends : \A s \in sends : s.id # i
<1>1. SUFFICES ASSUME \A i \in 1 .. MaxSends : \E s \in sends : s.id = i PROVE FALSE
  OBVIOUS
<1> DEFINE holder == [i \in 1 .. MaxSends |-> CHOOSE s \in sends : s.id = i]
<1>2. MaxSends \in Nat
  BY AsioAssumption
<1>3. IsFiniteSet(1 .. MaxSends) /\ Cardinality(1 .. MaxSends) = MaxSends
  BY <1>2, FS_Interval
<1>4. holder \in [1 .. MaxSends -> sends] /\ \A i \in 1 .. MaxSends : holder[i].id = i
  BY <1>1
<1>5. IsFiniteSet(sends)
  BY DEF UdpTyped
<1> HIDE DEF holder
<1>6. \E i, j \in 1 .. MaxSends : i # j /\ holder[i] = holder[j]
  BY <1>3, <1>4, <1>5, FS_PigeonHole
<1>. QED
  BY <1>4, <1>6

\* What is started answers the datagram that is in the buffer.
LEMMA AnswerIsRight ==
  ASSUME UdpTyped, \E i \in 1 .. MaxSends : \A s \in sends : s.id # i
  PROVE  LET a == Udp!Answer(endpoint)
         IN /\ a \in [id : 1 .. MaxSends, to : Peers, status : {"pending", "done"},
                      from : Peers, asked : {1, 2}]
            /\ a.to = endpoint /\ a.from = endpoint /\ a.asked = received
            /\ a.status = "pending" /\ sends \cup {a} # {}
<1> DEFINE i == CHOOSE j \in 1 .. MaxSends : \A s \in sends : s.id # j
<1>1. i \in 1 .. MaxSends
  OBVIOUS
<1>2. Udp!Answer(endpoint) = [id |-> i, to |-> endpoint, status |-> "pending",
                              from |-> endpoint, asked |-> received]
  BY DEF Udp!Answer
<1> HIDE DEF i
<1>. QED
  BY <1>1, <1>2 DEF UdpTyped

LEMMA UdpReceives ==
  ASSUME UdpInv,
         \/ Udp!HandleReceiveFrom \/ Udp!ReceiveAgain
         \/ Udp!HandleReceive \/ Udp!HandleReceiveFails
  PROVE  UdpInv'
<1> DEFINE a == Udp!Answer(endpoint)
<1>0. UdpTyped /\ UdpRunning /\ UdpEcho /\ UdpAnswers
  BY DEF UdpInv
<1>1. CASE Udp!HandleReceiveFrom \/ Udp!HandleReceive
  <2>1. /\ udpRunning /\ receive \in {"ok", "empty"}
        /\ sends' = sends \cup {a}
        /\ UNCHANGED <<udpKind, endpoint, received, udpRunning>>
        /\ \/ udpKind = "echo" /\ receive' = "none"
           \/ udpKind = "daytime" /\ receive' = "pending" /\ Udp!Cardinality(sends) < MaxSends
    BY <1>1 DEF Udp!HandleReceiveFrom, Udp!HandleReceive
  <2>2. \E i \in 1 .. MaxSends : \A s \in sends : s.id # i
    <3>1. CASE udpKind = "echo"
      <4>1. sends = {} /\ MaxSends \in Nat /\ MaxSends > 0
        BY <1>0, <2>1, <3>1, AsioAssumption DEF UdpEcho
      <4>2. 1 \in 1 .. MaxSends
        BY <4>1
      <4>. QED
        BY <4>1, <4>2
    <3>2. CASE udpKind # "echo"
      <4>1. Cardinality(sends) < MaxSends
        BY <2>1, <3>2 DEF Cardinality, Udp!Cardinality
      <4>. QED
        BY <1>0, <4>1, NumberIsFree
    <3>. QED
      BY <3>1, <3>2
  <2>3. /\ a \in [id : 1 .. MaxSends, to : Peers, status : {"pending", "done"},
                  from : Peers, asked : {1, 2}]
        /\ a.to = endpoint /\ a.from = endpoint /\ a.asked = received
        /\ a.status = "pending" /\ sends \cup {a} # {}
    BY <1>0, <2>2, AnswerIsRight
  <2> HIDE DEF a
  <2>4. UdpTyped'
    <3>1. IsFiniteSet(sends')
      BY <1>0, <2>1, FS_AddElement DEF UdpTyped
    <3>. QED
      BY <1>0, <2>1, <2>3, <3>1 DEF UdpTyped
  <2>5. UdpRunning'
    BY <1>0, <2>1 DEF UdpRunning
  <2>6. UdpEcho'
    BY <1>0, <2>1, <2>3 DEF UdpEcho
  <2>7. UdpAnswers'
    BY <1>0, <2>1, <2>3 DEF UdpAnswers
  <2>. QED
    BY <2>4, <2>5, <2>6, <2>7 DEF UdpInv
<1>2. CASE Udp!ReceiveAgain \/ Udp!HandleReceiveFails
  <2>1. /\ udpRunning /\ receive # "none"
        /\ UNCHANGED <<udpKind, endpoint, received, sends, udpRunning>>
        /\ \/ udpKind = "echo" /\ receive' = "pending"
           \/ udpKind = "daytime" /\ receive' = "none"
    BY <1>2 DEF Udp!ReceiveAgain, Udp!HandleReceiveFails
  <2>2. UdpTyped' /\ UdpAnswers'
    BY <1>0, <2>1 DEF UdpTyped, UdpAnswers
  <2>3. UdpRunning'
    BY <1>0, <2>1 DEF UdpRunning
  <2>4. UdpEcho'
    BY <1>0, <2>1 DEF UdpEcho
  <2>. QED
    BY <2>2, <2>3, <2>4 DEF UdpInv
<1>. QED
  BY <1>1, <1>2

\* A datagram comes, and one leaves.
LEMMA UdpNetwork ==
  ASSUME UdpInv, Udp!Arrive \/ \E s \in sends : Udp!Depart(s)
  PROVE  UdpInv'
<1>0. UdpTyped /\ UdpRunning /\ UdpEcho /\ UdpAnswers
  BY DEF UdpInv
<1>1. CASE Udp!Arrive
  <2>1. /\ receive = "pending" /\ receive' \in {"ok", "empty", "error"}
        /\ endpoint' \in Peers /\ received' \in {1, 2}
        /\ UNCHANGED <<udpKind, sends, udpRunning>>
    BY <1>0, <1>1 DEF Udp!Arrive, Udp!Contents, UdpTyped
  <2>2. UdpTyped' /\ UdpAnswers'
    BY <1>0, <2>1 DEF UdpTyped, UdpAnswers
  <2>3. UdpRunning'
    BY <1>0, <2>1 DEF UdpRunning
  <2>4. UdpEcho'
    BY <1>0, <2>1 DEF UdpEcho
  <2>. QED
    BY <2>2, <2>3, <2>4 DEF UdpInv
<1>2. CASE \E s \in sends : Udp!Depart(s)
  <2>1. PICK s \in sends : Udp!Depart(s)
    BY <1>2
  <2> DEFINE d == [s EXCEPT !.status = "done"]
  <2>2. /\ sends' = (sends \ {s}) \cup {d} /\ s.status = "pending"
        /\ UNCHANGED <<udpKind, receive, endpoint, received, udpRunning>>
    BY <2>1 DEF Udp!Depart
  <2>3. /\ d \in [id : 1 .. MaxSends, to : Peers, status : {"pending", "done"},
                  from : Peers, asked : {1, 2}]
        /\ d.to = s.to /\ d.from = s.from /\ d.status = "done"
    BY <1>0 DEF UdpTyped
  <2> HIDE DEF d
  <2>4. UdpTyped'
    <3>1. IsFiniteSet(sends')
      BY <1>0, <2>2, FS_AddElement, FS_RemoveElement DEF UdpTyped
    <3>. QED
      BY <1>0, <2>2, <2>3, <3>1 DEF UdpTyped
  <2>5. UdpRunning'
    BY <1>0, <2>2 DEF UdpRunning
  <2>6. UdpEcho'
    BY <1>0, <2>2, <2>3 DEF UdpEcho
  <2>7. UdpAnswers'
    BY <1>0, <2>2, <2>3 DEF UdpAnswers
  <2>. QED
    BY <2>4, <2>5, <2>6, <2>7 DEF UdpInv
<1>. QED
  BY <1>1, <1>2

LEMMA UdpEnds ==
  ASSUME UdpInv,
         Udp!Return \/ \E s \in sends : Udp!HandleSendTo(s) \/ Udp!HandleSend(s)
  PROVE  UdpInv'
<1>0. UdpTyped /\ UdpRunning /\ UdpEcho /\ UdpAnswers
  BY DEF UdpInv
<1>1. CASE Udp!Return
  <2>1. /\ udpRunning' = FALSE /\ receive = "none" /\ sends = {}
        /\ UNCHANGED <<udpKind, receive, endpoint, received, sends>>
    BY <1>1 DEF Udp!Return
  <2>2. udpKind # "echo"
    BY <1>0, <2>1 DEF UdpEcho
  <2>3. UdpTyped' /\ UdpAnswers' /\ UdpEcho'
    BY <1>0, <2>1, <2>2 DEF UdpTyped, UdpAnswers, UdpEcho
  <2>4. UdpRunning'
    BY <2>1, <2>2 DEF UdpRunning
  <2>. QED
    BY <2>3, <2>4 DEF UdpInv
<1>2. CASE \E s \in sends : Udp!HandleSendTo(s) \/ Udp!HandleSend(s)
  <2>1. PICK s \in sends : Udp!HandleSendTo(s) \/ Udp!HandleSend(s)
    BY <1>2
  <2>2. /\ sends' = sends \ {s} /\ udpRunning
        /\ UNCHANGED <<udpKind, endpoint, received, udpRunning>>
        /\ \/ udpKind = "echo" /\ receive' = "pending"
           \/ udpKind = "daytime" /\ receive' = receive
    BY <2>1 DEF Udp!HandleSendTo, Udp!HandleSend
  <2>3. UdpTyped'
    <3>1. IsFiniteSet(sends')
      BY <1>0, <2>2, FS_RemoveElement DEF UdpTyped
    <3>. QED
      BY <1>0, <2>2, <3>1 DEF UdpTyped
  <2>4. UdpRunning'
    BY <1>0, <2>2 DEF UdpRunning
  <2>5. UdpEcho'
    BY <1>0, <2>2 DEF UdpEcho
  <2>6. UdpAnswers'
    BY <1>0, <2>2 DEF UdpAnswers
  <2>. QED
    BY <2>3, <2>4, <2>5, <2>6 DEF UdpInv
<1>. QED
  BY <1>1, <1>2

LEMMA UdpInvStep == UdpInv /\ [Udp!Next]_udpVars => UdpInv'
<1>1. ASSUME UdpInv, Udp!Next PROVE UdpInv'
  BY <1>1, UdpReceives, UdpNetwork, UdpEnds DEF Udp!Next, Udp!Handle
<1>2. ASSUME UdpInv, UNCHANGED udpVars PROVE UdpInv'
  BY <1>2 DEF udpVars, UdpInv, UdpTyped, UdpRunning, UdpEcho, UdpAnswers
<1>. QED
  BY <1>1, <1>2

LEMMA UdpIsSafe == UdpInv => Udp!TypeOK /\ Udp!OneOperation /\ Udp!AnswersReachTheAsker
<1> SUFFICES ASSUME UdpInv PROVE Udp!TypeOK /\ Udp!OneOperation /\ Udp!AnswersReachTheAsker
  OBVIOUS
<1>0. UdpTyped /\ UdpRunning /\ UdpEcho /\ UdpAnswers
  BY DEF UdpInv
<1>1. Udp!TypeOK
  BY <1>0 DEF Udp!TypeOK, Udp!Contents, UdpTyped, UdpRunning
<1>2. Udp!OneOperation
  <2>1. udpKind = "echo" => (sends # {}) <=> (Cardinality(sends) = 1)
    <3>1. SUFFICES ASSUME udpKind = "echo" PROVE (sends # {}) <=> (Cardinality(sends) = 1)
      OBVIOUS
    <3>2. CASE sends = {}
      BY <3>2, FS_EmptySet
    <3>3. CASE sends # {}
      <4>1. PICK s \in sends : sends = {s}
        BY <1>0, <3>1, <3>3 DEF UdpEcho
      <4>. QED
        BY <4>1, FS_Singleton
    <3>. QED
      BY <3>2, <3>3
  <2>2. Udp!Cardinality(sends) = Cardinality(sends)
    BY DEF Cardinality, Udp!Cardinality
  <2>3. udpKind = "echo" => (receive = "none") = (Udp!Cardinality(sends) = 1)
    BY <1>0, <2>1, <2>2 DEF UdpEcho
  <2>. QED
    BY <1>0, <2>3 DEF Udp!OneOperation, UdpRunning
<1>3. Udp!AnswersReachTheAsker
  BY <1>0 DEF Udp!AnswersReachTheAsker, UdpEcho, UdpAnswers
<1>. QED
  BY <1>1, <1>2, <1>3
-----------------------------------------------------------------------------
(* The small TCP servers *)

Operations == {"accept", "handshake", "read", "write"}
Timed == {"daytime", "buffers"} \* that write the time
Failed == {"pending", "error"}

TcpTyped ==
  /\ kind \in {"tcp", "ssl", "allocation", "daytime", "buffers"} /\ alive \subseteq Sessions
  /\ status \in [Sessions -> [Operations -> {"none", "pending", "ok", "error"}]]
  /\ data \in [Sessions -> 0 .. MaxChunks] /\ got \in [Sessions -> 0 .. MaxChunks]
  /\ tcpSent \in [Sessions -> Seq(0 .. MaxChunks)]
  /\ inUse \in [Sessions -> BOOLEAN] /\ place \in [Sessions -> {"none", "block", "heap"}]

\* A session that exists has one operation, of those that do not one is to be
\* accepted, and the others have none.
TcpOne ==
  /\ \A s \in Sessions : \A o \in Operations : status[s][o] # "none" =>
       s \in alive /\ \A p \in Operations : p # o => status[s][p] = "none"
  /\ \A s \in alive : \E o \in Operations : status[s][o] # "none"
  /\ \E s \in Sessions : status[s]["accept"] # "none"
  /\ \A s, t \in Sessions :
       status[s]["accept"] # "none" /\ status[t]["accept"] # "none" => s = t

\* The block is in use while an operation that is no accept is under way.
TcpMemory ==
  kind = "allocation" =>
    \A s \in Sessions : /\ inUse[s] <=> (s \in alive /\ status[s]["accept"] = "none")
                        /\ place[s] = IF inUse[s] THEN "block" ELSE "none"

\* A session that echoes has written what it has read, but for one chunk
\* between the end of the read and that of the write.
Settled(s) == \/ status[s]["accept"] # "none" \/ status[s]["handshake"] # "none"
              \/ status[s]["read"] \in Failed \/ status[s]["write"] = "ok"
Halfway(s) == status[s]["read"] = "ok" \/ status[s]["write"] \in Failed

EchoOf(s) == LET n == Len(tcpSent[s])
             IN /\ n = got[s] \/ n + 1 = got[s]
                /\ Settled(s) => n = got[s]
                /\ Halfway(s) => n + 1 = got[s] /\ data[s] = got[s]
TimeOf(s) == LET n == Len(tcpSent[s])
             IN /\ n <= 1
                /\ status[s]["accept"] # "none" => n = 0
                /\ status[s]["write"] \in Failed => n = 0 /\ data[s] = 1

TcpSent == \A s \in Sessions :
             /\ \A k \in 1 .. Len(tcpSent[s]) : tcpSent[s][k] = k
             /\ IF kind \in Timed THEN TimeOf(s) ELSE EchoOf(s)

TcpInv == TcpTyped /\ TcpOne /\ TcpMemory /\ TcpSent

LEMMA TcpInvInit == Tcp!Init => TcpInv
<1> SUFFICES ASSUME Tcp!Init PROVE TcpInv
  OBVIOUS
<1>1. PICK s \in Sessions :
        /\ alive = {s}
        /\ status = [x \in Sessions |-> IF x = s THEN Tcp!Only("accept") ELSE Tcp!Idle]
  BY DEF Tcp!Init
<1>2. /\ kind \in {"tcp", "ssl", "allocation", "daytime", "buffers"}
      /\ data = [x \in Sessions |-> 0] /\ got = [x \in Sessions |-> 0]
      /\ tcpSent = [x \in Sessions |-> <<>>]
      /\ inUse = [x \in Sessions |-> FALSE] /\ place = [x \in Sessions |-> "none"]
  BY DEF Tcp!Init, Tcp!Servers
<1>3. status \in [Sessions -> [Operations -> {"none", "pending", "ok", "error"}]]
  BY <1>1 DEF Tcp!Only, Tcp!Idle, Tcp!Operations, Operations
<1>4. \A x \in Sessions, o \in Operations :
        status[x][o] = IF x = s /\ o = "accept" THEN "pending" ELSE "none"
  BY <1>1 DEF Tcp!Only, Tcp!Idle, Tcp!Operations, Operations
<1>5. TcpTyped
  <2>1. 0 \in 0 .. MaxChunks /\ <<>> \in Seq(0 .. MaxChunks)
    BY AsioAssumption
  <2>. QED
    BY <1>1, <1>2, <1>3, <2>1 DEF TcpTyped
<1>6. TcpOne
  BY <1>1, <1>4 DEF TcpOne, Operations
<1>7. TcpMemory
  BY <1>1, <1>2, <1>4 DEF TcpMemory, Operations
<1>8. TcpSent
  <2>1. SUFFICES ASSUME NEW x \in Sessions
                 PROVE  /\ \A k \in 1 .. Len(tcpSent[x]) : tcpSent[x][k] = k
                        /\ TimeOf(x) /\ EchoOf(x)
    BY DEF TcpSent
  <2>2. Len(tcpSent[x]) = 0 /\ got[x] = 0
    BY <1>2
  <2>3. /\ status[x]["write"] = "none" /\ status[x]["read"] = "none"
    BY <1>4 DEF Operations
  <2>. QED
    BY <2>2, <2>3 DEF TimeOf, EchoOf, Halfway, Failed
<1>. QED
  BY <1>5, <1>6, <1>7, <1>8 DEF TcpInv

\* The memory of a handler is the block, which is free when it is needed.
LEMMA TcpBlock ==
  ASSUME TcpTyped, TcpMemory, NEW s \in Sessions
  PROVE  /\ Tcp!Memory(s, TRUE) =>
              /\ inUse' \in [Sessions -> BOOLEAN]
              /\ place' \in [Sessions -> {"none", "block", "heap"}]
              /\ kind = "allocation" =>
                   \A x \in Sessions :
                     /\ inUse'[x] <=> (x = s \/ inUse[x])
                     /\ place'[x] = IF x = s THEN "block" ELSE place[x]
         /\ Tcp!Memory(s, FALSE) =>
              /\ inUse' \in [Sessions -> BOOLEAN]
              /\ place' \in [Sessions -> {"none", "block", "heap"}]
              /\ kind = "allocation" =>
                   \A x \in Sessions :
                     /\ inUse'[x] <=> (x # s /\ inUse[x])
                     /\ place'[x] = IF x = s THEN "none" ELSE place[x]
<1>0. inUse \in [Sessions -> BOOLEAN] /\ place \in [Sessions -> {"none", "block", "heap"}]
  BY DEF TcpTyped
<1>1. CASE kind # "allocation"
  BY <1>0, <1>1 DEF Tcp!Memory, Tcp!memory
<1>2. CASE kind = "allocation"
  <2>1. Tcp!Deallocate(s) = FALSE
    BY <1>2 DEF Tcp!Deallocate, TcpMemory
  <2>2. ASSUME Tcp!Memory(s, TRUE)
        PROVE  /\ inUse' = [inUse EXCEPT ![s] = TRUE]
               /\ place' = [place EXCEPT ![s] = "block"]
    BY <1>2, <2>1, <2>2 DEF Tcp!Memory, Tcp!Allocate
  <2>3. ASSUME Tcp!Memory(s, FALSE)
        PROVE  /\ inUse' = [inUse EXCEPT ![s] = FALSE]
               /\ place' = [place EXCEPT ![s] = "none"]
    BY <1>2, <2>1, <2>3 DEF Tcp!Memory, Tcp!Release
  <2>. QED
    BY <1>0, <2>2, <2>3
<1>. QED
  BY <1>1, <1>2

\* A handler of session s starts the next operation, p: with the handshake done
\* it reads, and it writes what it has read.
LEMMA TcpStarts ==
  ASSUME TcpInv, NEW s \in Sessions, NEW o \in Operations, NEW p \in {"read", "write"},
         status[s][o] = "ok", Tcp!Start(s, p), kind \notin Timed,
         \/ o \in {"handshake", "write"} /\ p = "read"
         \/ o = "read" /\ p = "write",
         UNCHANGED <<kind, data, got, tcpSent>>
  PROVE  TcpInv'
<1>0. TcpTyped /\ TcpOne /\ TcpMemory /\ TcpSent
  BY DEF TcpInv
<1>1. /\ status' = [status EXCEPT ![s] = Tcp!Only(p)] /\ Tcp!Memory(s, TRUE)
      /\ alive' = alive /\ p \in Operations /\ o # "accept"
  BY DEF Tcp!Start, Operations
<1>2. /\ inUse' \in [Sessions -> BOOLEAN] /\ place' \in [Sessions -> {"none", "block", "heap"}]
      /\ kind = "allocation" =>
           \A x \in Sessions : /\ inUse'[x] <=> (x = s \/ inUse[x])
                               /\ place'[x] = IF x = s THEN "block" ELSE place[x]
  BY <1>0, <1>1, TcpBlock
<1>3. Tcp!Only(p) = [q \in Operations |-> IF q = p THEN "pending" ELSE "none"]
  BY <1>1 DEF Tcp!Only, Tcp!Idle, Tcp!Operations, Operations
<1>4. /\ \A q \in Operations : status'[s][q] = IF q = p THEN "pending" ELSE "none"
      /\ \A x \in Sessions : x # s => status'[x] = status[x]
      /\ status' \in [Sessions -> [Operations -> {"none", "pending", "ok", "error"}]]
  BY <1>0, <1>1, <1>3 DEF TcpTyped
<1>5. TcpTyped'
  BY <1>0, <1>1, <1>2, <1>4 DEF TcpTyped
<1>6. /\ s \in alive /\ status[s]["accept"] = "none" /\ status'[s]["accept"] = "none"
  BY <1>0, <1>1, <1>4 DEF TcpOne, Operations
<1>7. TcpOne'
  <2>1. /\ \A x \in Sessions : \A q \in Operations : status'[x][q] # "none" =>
             x \in alive /\ \A r \in Operations : r # q => status'[x][r] = "none"
        /\ \A x \in alive : \E q \in Operations : status'[x][q] # "none"
    BY <1>0, <1>1, <1>4, <1>6 DEF TcpOne
  <2>2. \A x \in Sessions : status'[x]["accept"] = status[x]["accept"]
    BY <1>4, <1>6
  <2>. QED
    BY <1>0, <1>1, <2>1, <2>2 DEF TcpOne
<1>8. TcpMemory'
  BY <1>0, <1>1, <1>2, <1>4, <1>6 DEF TcpMemory
<1>9. TcpSent'
  <2>1. \A k \in 1 .. Len(tcpSent[s]) : tcpSent[s][k] = k
    BY <1>0 DEF TcpSent
  <2>2. EchoOf(s)
    BY <1>0 DEF TcpSent
  <2>3. EchoOf(s)'
    <3>1. CASE o = "read"
      BY <1>4, <2>2, <3>1 DEF EchoOf, Settled, Halfway, Failed, Operations
    <3>2. CASE o # "read"
      <4>1. Settled(s)
        BY <3>2 DEF Settled
      <4>2. ~Halfway(s)'
        BY <1>4, <3>2 DEF Halfway, Failed, Operations
      <4>. QED
        BY <2>2, <4>1, <4>2 DEF EchoOf
    <3>. QED
      BY <3>1, <3>2
  <2>4. ASSUME NEW x \in Sessions, x # s
        PROVE  EchoOf(x) => EchoOf(x)'
    BY <1>4, <2>4 DEF EchoOf, Settled, Halfway
  <2>. QED
    BY <1>0, <2>1, <2>3, <2>4 DEF TcpSent
<1>. QED
  BY <1>5, <1>7, <1>8, <1>9 DEF TcpInv

\* A handler of session s is the last: it destroys the session.
LEMMA TcpDestroys ==
  ASSUME TcpInv, NEW s \in Sessions, NEW o \in {"handshake", "read", "write"},
         status[s][o] # "none", Tcp!Destroy(s), UNCHANGED <<kind, data, got, tcpSent>>
  PROVE  TcpInv'
<1>0. TcpTyped /\ TcpOne /\ TcpMemory /\ TcpSent
  BY DEF TcpInv
<1>1. /\ status' = [status EXCEPT ![s] = Tcp!Idle] /\ Tcp!Memory(s, FALSE)
      /\ alive' = alive \ {s} /\ o \in Operations /\ o # "accept"
  BY DEF Tcp!Destroy, Operations
<1>2. /\ inUse' \in [Sessions -> BOOLEAN] /\ place' \in [Sessions -> {"none", "block", "heap"}]
      /\ kind = "allocation" =>
           \A x \in Sessions : /\ inUse'[x] <=> (x # s /\ inUse[x])
                               /\ place'[x] = IF x = s THEN "none" ELSE place[x]
  BY <1>0, <1>1, TcpBlock
<1>3. Tcp!Idle = [q \in Operations |-> "none"]
  BY DEF Tcp!Idle, Tcp!Operations, Operations
<1>4. /\ \A q \in Operations : status'[s][q] = "none"
      /\ \A x \in Sessions : x # s => status'[x] = status[x]
      /\ status' \in [Sessions -> [Operations -> {"none", "pending", "ok", "error"}]]
  BY <1>0, <1>1, <1>3 DEF TcpTyped
<1>5. TcpTyped'
  BY <1>0, <1>1, <1>2, <1>4 DEF TcpTyped
<1>6. s \in alive /\ status[s]["accept"] = "none" /\ status'[s]["accept"] = "none"
  BY <1>0, <1>1, <1>4 DEF TcpOne, Operations
<1>7. TcpOne'
  <2>1. /\ \A x \in Sessions : \A q \in Operations : status'[x][q] # "none" =>
             x \in alive' /\ \A r \in Operations : r # q => status'[x][r] = "none"
        /\ \A x \in alive' : \E q \in Operations : status'[x][q] # "none"
    BY <1>0, <1>1, <1>4 DEF TcpOne, TcpTyped
  <2>2. \A x \in Sessions : status'[x]["accept"] = status[x]["accept"]
    BY <1>4, <1>6
  <2>. QED
    BY <1>0, <2>1, <2>2 DEF TcpOne
<1>8. TcpMemory'
  BY <1>0, <1>1, <1>2, <1>4 DEF TcpMemory
<1>9. TcpSent'
  <2>1. ~Settled(s)' /\ ~Halfway(s)' /\ status'[s]["accept"] = "none"
        /\ status'[s]["write"] \notin Failed
    BY <1>4 DEF Settled, Halfway, Failed, Operations
  <2>2. (EchoOf(s) => EchoOf(s)') /\ (TimeOf(s) => TimeOf(s)')
    BY <2>1 DEF EchoOf, TimeOf
  <2>3. ASSUME NEW x \in Sessions, x # s
        PROVE  (EchoOf(x) => EchoOf(x)') /\ (TimeOf(x) => TimeOf(x)')
    BY <1>4, <2>3 DEF EchoOf, TimeOf, Settled, Halfway
  <2>. QED
    BY <1>0, <2>2, <2>3 DEF TcpSent
<1>. QED
  BY <1>5, <1>7, <1>8, <1>9 DEF TcpInv

LEMMA TcpHandlers ==
  ASSUME TcpInv, NEW s \in Sessions,
         \/ Tcp!TcpSession(s) \/ Tcp!SslSession(s) \/ Tcp!AllocationSession(s)
         \/ Tcp!DaytimeSession(s) \/ Tcp!BuffersSession(s)
  PROVE  TcpInv'
<1> USE DEF Operations, Timed
<1>1. CASE Tcp!HandleHandshake(s) /\ kind \notin Timed
  BY <1>1, TcpStarts, TcpDestroys DEF Tcp!HandleHandshake
<1>2. CASE Tcp!HandleRead(s) /\ kind \notin Timed
  BY <1>2, TcpStarts, TcpDestroys DEF Tcp!HandleRead
<1>3. CASE Tcp!HandleWrite(s) /\ kind \notin Timed
  BY <1>3, TcpStarts, TcpDestroys DEF Tcp!HandleWrite
<1>4. CASE Tcp!HandleWritten(s)
  BY <1>4, TcpDestroys DEF Tcp!HandleWritten, Tcp!Finished
<1>. QED
  BY <1>1, <1>2, <1>3, <1>4
     DEF Tcp!TcpSession, Tcp!SslSession, Tcp!AllocationSession, Tcp!DaytimeSession,
         Tcp!BuffersSession

\* The session that was accepted starts, or is destroyed, and the next is made.
LEMMA TcpAccepts ==
  ASSUME TcpInv, NEW s \in Sessions, NEW n \in Sessions, Tcp!HandleAccept(s, n)
  PROVE  TcpInv'
<1> DEFINE ok == status[s]["accept"] = "ok"
           first == [q \in Operations |-> IF ok /\ q = Tcp!First THEN "pending" ELSE "none"]
           accepted == [q \in Operations |-> IF q = "accept" THEN "pending" ELSE "none"]
<1>0. TcpTyped /\ TcpOne /\ TcpMemory /\ TcpSent /\ MaxChunks \in Nat /\ MaxChunks > 0
  BY AsioAssumption DEF TcpInv
<1>1. /\ status[s]["accept"] # "none" /\ s \in alive /\ "accept" \in Operations
      /\ \A x \in Sessions : x # s => status[x]["accept"] = "none"
  BY <1>0 DEF Tcp!HandleAccept, Tcp!Finished, TcpOne, Operations
<1>2. /\ alive' = (IF ok THEN alive ELSE alive \ {s}) \cup {n}
      /\ n \notin alive \/ (~ok /\ n = s /\ kind # "allocation")
      /\ status' = [status EXCEPT ![s] = IF ok THEN Tcp!Only(Tcp!First) ELSE Tcp!Idle,
                                  ![n] = Tcp!Only("accept")]
      /\ data' = [data EXCEPT ![s] = IF ok /\ Tcp!First = "write" THEN 1 ELSE 0, ![n] = 0]
      /\ IF ok THEN Tcp!Memory(s, TRUE) ELSE inUse' = inUse /\ place' = place
      /\ got' = [got EXCEPT ![n] = 0] /\ tcpSent' = [tcpSent EXCEPT ![n] = <<>>]
      /\ kind' = kind
  BY DEF Tcp!HandleAccept, Tcp!RawPointers, Tcp!memory
<1>3. /\ Tcp!First \in {"handshake", "read", "write"}
      /\ (Tcp!First = "write") <=> (kind \in Timed)
  BY DEF Tcp!First, Timed
<1>4. /\ (IF ok THEN Tcp!Only(Tcp!First) ELSE Tcp!Idle) = first
      /\ Tcp!Only("accept") = accepted
  BY <1>3 DEF Tcp!Only, Tcp!Idle, Tcp!Operations, Operations
<1>5. /\ first \in [Operations -> {"none", "pending", "ok", "error"}]
      /\ accepted \in [Operations -> {"none", "pending", "ok", "error"}]
      /\ first["accept"] = "none"
      /\ \A q \in Operations :
           /\ first[q] = IF ok /\ q = Tcp!First THEN "pending" ELSE "none"
           /\ accepted[q] = IF q = "accept" THEN "pending" ELSE "none"
  BY <1>1, <1>3
<1> HIDE DEF first, accepted
<1>6. /\ \A q \in Operations : status'[n][q] = IF q = "accept" THEN "pending" ELSE "none"
      /\ n # s => status'[s] = first
      /\ \A x \in Sessions : x # s /\ x # n => status'[x] = status[x]
      /\ status' \in [Sessions -> [Operations -> {"none", "pending", "ok", "error"}]]
  <2>1. status' = [status EXCEPT ![s] = first, ![n] = accepted]
    BY <1>2, <1>4
  <2>2. status \in [Sessions -> [Operations -> {"none", "pending", "ok", "error"}]]
    BY <1>0 DEF TcpTyped
  <2>3. /\ status'[n] = accepted /\ (n # s => status'[s] = first)
        /\ \A x \in Sessions : x # s /\ x # n => status'[x] = status[x]
    BY <2>1, <2>2
  <2>4. status' \in [Sessions -> [Operations -> {"none", "pending", "ok", "error"}]]
    BY <1>5, <2>1, <2>2
  <2>. QED
    BY <1>5, <2>3, <2>4
<1>7. /\ data'[n] = 0 /\ got'[n] = 0 /\ tcpSent'[n] = <<>>
      /\ n # s => data'[s] = IF ok /\ Tcp!First = "write" THEN 1 ELSE 0
      /\ \A x \in Sessions : x # s /\ x # n => data'[x] = data[x]
      /\ \A x \in Sessions : x # n => got'[x] = got[x] /\ tcpSent'[x] = tcpSent[x]
  BY <1>0, <1>2 DEF TcpTyped
<1>8. TcpTyped'
  <2>1. inUse' \in [Sessions -> BOOLEAN] /\ place' \in [Sessions -> {"none", "block", "heap"}]
    <3>1. CASE ok
      BY <1>0, <1>2, <3>1, TcpBlock
    <3>2. CASE ~ok
      BY <1>0, <1>2, <3>2 DEF TcpTyped
    <3>. QED
      BY <3>1, <3>2
  <2>2. 0 \in 0 .. MaxChunks /\ 1 \in 0 .. MaxChunks /\ <<>> \in Seq(0 .. MaxChunks)
    BY <1>0
  <2>3. data' \in [Sessions -> 0 .. MaxChunks] /\ got' \in [Sessions -> 0 .. MaxChunks]
        /\ tcpSent' \in [Sessions -> Seq(0 .. MaxChunks)]
    BY <1>0, <1>2, <2>2 DEF TcpTyped
  <2>. QED
    BY <1>0, <1>2, <1>6, <2>1, <2>3 DEF TcpTyped
<1>9. n # s => ok \/ s \notin alive'
  BY <1>2
<1>10. TcpOne'
  <2>1. \A x \in Sessions : x # n => status'[x]["accept"] = "none"
    BY <1>1, <1>5, <1>6
  <2>2. ASSUME NEW x \in Sessions, NEW q \in Operations, status'[x][q] # "none"
        PROVE  x \in alive' /\ \A r \in Operations : r # q => status'[x][r] = "none"
    <3>1. CASE x = n
      BY <1>2, <1>6, <2>2, <3>1
    <3>2. CASE x # n /\ x = s
      BY <1>1, <1>2, <1>5, <1>6, <2>2, <3>2
    <3>3. CASE x # n /\ x # s
      BY <1>0, <1>2, <1>6, <2>2, <3>3 DEF TcpOne
    <3>. QED
      BY <3>1, <3>2, <3>3
  <2>3. ASSUME NEW x \in alive' PROVE \E q \in Operations : status'[x][q] # "none"
    <3>1. CASE x = n
      BY <1>1, <1>6, <3>1
    <3>2. CASE x # n /\ x = s
      <4>1. ok /\ Tcp!First \in Operations
        BY <1>3, <1>9, <2>3, <3>2 DEF Operations
      <4>. QED
        BY <1>5, <1>6, <3>2, <4>1
    <3>3. CASE x # n /\ x # s
      BY <1>0, <1>2, <1>6, <2>3, <3>3 DEF TcpOne, TcpTyped
    <3>. QED
      BY <3>1, <3>2, <3>3
  <2>4. status'[n]["accept"] # "none"
    BY <1>1, <1>6
  <2>. QED
    BY <2>1, <2>2, <2>3, <2>4 DEF TcpOne
<1>11. TcpMemory'
  <2>1. SUFFICES ASSUME kind = "allocation" PROVE TcpMemory'
    BY <1>2 DEF TcpMemory
  <2>2. n # s /\ n \notin alive /\ ~inUse[n] /\ ~inUse[s]
        /\ place[n] = "none" /\ place[s] = "none"
    BY <1>0, <1>1, <1>2, <2>1 DEF TcpMemory
  <2>3. \A x \in Sessions : /\ inUse'[x] <=> ((ok /\ x = s) \/ inUse[x])
                            /\ place'[x] = IF ok /\ x = s THEN "block" ELSE place[x]
    <3>1. CASE ok
      BY <1>0, <1>2, <2>1, <3>1, TcpBlock
    <3>2. CASE ~ok
      BY <1>2, <3>2
    <3>. QED
      BY <3>1, <3>2
  <2>4. ASSUME NEW x \in Sessions
        PROVE  /\ inUse'[x] <=> (x \in alive' /\ status'[x]["accept"] = "none")
               /\ place'[x] = IF inUse'[x] THEN "block" ELSE "none"
    <3>1. CASE x = n
      BY <1>1, <1>6, <2>2, <2>3, <3>1
    <3>2. CASE x = s
      BY <1>1, <1>2, <1>5, <1>6, <2>2, <2>3, <3>2
    <3>3. CASE x # n /\ x # s
      BY <1>0, <1>2, <1>6, <2>1, <2>3, <3>3 DEF TcpMemory
    <3>. QED
      BY <3>1, <3>2, <3>3
  <2>. QED
    BY <2>4 DEF TcpMemory
<1>12. TcpSent'
  <2>1. ASSUME NEW x \in Sessions
        PROVE  /\ \A k \in 1 .. Len(tcpSent'[x]) : tcpSent'[x][k] = k
               /\ IF kind \in Timed THEN TimeOf(x)' ELSE EchoOf(x)'
    <3>1. CASE x = n
      <4>1. Len(tcpSent'[x]) = 0 /\ got'[x] = 0
        BY <1>7, <3>1
      <4>2. status'[x]["write"] = "none" /\ status'[x]["read"] = "none"
        BY <1>6, <3>1 DEF Operations
      <4>. QED
        BY <4>1, <4>2 DEF TimeOf, EchoOf, Halfway, Failed
    <3>2. CASE x # n /\ x = s
      <4>1. /\ \A k \in 1 .. Len(tcpSent[x]) : tcpSent[x][k] = k
            /\ IF kind \in Timed THEN TimeOf(x) ELSE EchoOf(x)
        BY <1>0 DEF TcpSent
      <4>2. got'[x] = got[x] /\ tcpSent'[x] = tcpSent[x] /\ status'[x] = first
        BY <1>6, <1>7, <3>2
      <4>3. first["write"] \in Failed => kind \in Timed /\ data'[x] = 1
        BY <1>3, <1>5, <1>7, <3>2 DEF Failed, Operations
      <4>4. first["read"] # "ok" /\ first["write"] # "ok" /\ first["accept"] = "none"
        BY <1>5 DEF Operations
      <4>5. CASE kind \in Timed
        BY <1>1, <3>2, <4>1, <4>2, <4>3, <4>4, <4>5 DEF TimeOf
      <4>6. CASE kind \notin Timed
        <5>1. Settled(x)
          BY <1>1, <3>2 DEF Settled
        <5>2. ~Halfway(x)'
          BY <4>2, <4>3, <4>4, <4>6 DEF Halfway
        <5>. QED
          BY <4>1, <4>2, <4>6, <5>1, <5>2 DEF EchoOf
      <4>. QED
        BY <4>5, <4>6
    <3>3. CASE x # n /\ x # s
      BY <1>0, <1>6, <1>7, <3>3 DEF TcpSent, TimeOf, EchoOf, Settled, Halfway
    <3>. QED
      BY <3>1, <3>2, <3>3
  <2>. QED
    BY <1>2, <2>1 DEF TcpSent
<1>. QED
  BY <1>8, <1>10, <1>11, <1>12 DEF TcpInv

\* An operation ends: a chunk more is read, or written.
LEMMA TcpCompletes ==
  ASSUME TcpInv, NEW s \in Sessions, NEW o \in Operations, Tcp!Complete(s, o)
  PROVE  TcpInv'
<1>0. TcpTyped /\ TcpOne /\ TcpMemory /\ TcpSent /\ MaxChunks \in Nat /\ MaxChunks > 0
  BY AsioAssumption DEF TcpInv
<1>1. PICK end \in {"ok", "error"} :
        /\ status[s][o] = "pending" /\ status' = [status EXCEPT ![s][o] = end]
        /\ IF o = "read" /\ end = "ok"
           THEN /\ got[s] < MaxChunks /\ got' = [got EXCEPT ![s] = got[s] + 1]
                /\ data' = [data EXCEPT ![s] = got[s] + 1]
           ELSE got' = got /\ data' = data
        /\ tcpSent' = IF o = "write" /\ end = "ok"
                      THEN [tcpSent EXCEPT ![s] = Append(tcpSent[s], data[s])] ELSE tcpSent
        /\ UNCHANGED <<kind, alive, inUse, place>>
  BY DEF Tcp!Complete, Tcp!Finished, Tcp!memory
<1>2. /\ got[s] \in 0 .. MaxChunks /\ data[s] \in 0 .. MaxChunks
      /\ tcpSent[s] \in Seq(0 .. MaxChunks)
      /\ Append(tcpSent[s], data[s]) \in Seq(0 .. MaxChunks)
      /\ status[s] \in [Operations -> {"none", "pending", "ok", "error"}]
  BY <1>0, Appended DEF TcpTyped
<1>3. /\ status'[s][o] = end /\ \A q \in Operations : q # o => status'[s][q] = status[s][q]
      /\ \A x \in Sessions : x # s => status'[x] = status[x]
      /\ status' \in [Sessions -> [Operations -> {"none", "pending", "ok", "error"}]]
  <2>1. status \in [Sessions -> [Operations -> {"none", "pending", "ok", "error"}]]
    BY <1>0 DEF TcpTyped
  <2>. QED
    BY <1>1, <1>2, <2>1
<1>4. \A x \in Sessions :
        x # s => got'[x] = got[x] /\ data'[x] = data[x] /\ tcpSent'[x] = tcpSent[x]
  BY <1>0, <1>1 DEF TcpTyped
<1>5. TcpTyped'
  <2>1. got' \in [Sessions -> 0 .. MaxChunks] /\ data' \in [Sessions -> 0 .. MaxChunks]
    <3>1. CASE o = "read" /\ end = "ok"
      <4>1. got[s] + 1 \in 0 .. MaxChunks
        BY <1>0, <1>1, <1>2, <3>1
      <4>. QED
        BY <1>0, <1>1, <3>1, <4>1 DEF TcpTyped
    <3>2. CASE ~(o = "read" /\ end = "ok")
      BY <1>0, <1>1, <3>2 DEF TcpTyped
    <3>. QED
      BY <3>1, <3>2
  <2>2. tcpSent' \in [Sessions -> Seq(0 .. MaxChunks)]
    BY <1>0, <1>1, <1>2 DEF TcpTyped
  <2>. QED
    BY <1>0, <1>1, <1>3, <2>1, <2>2 DEF TcpTyped
<1>6. \A x \in Sessions : \A q \in Operations : (status'[x][q] # "none") <=> (status[x][q] # "none")
  BY <1>1, <1>3
<1>7. "accept" \in Operations
  BY DEF Operations
<1>8. TcpOne'
  <2>1. \A x \in Sessions : \A q \in Operations : status'[x][q] # "none" =>
          x \in alive /\ \A p \in Operations : p # q => status'[x][p] = "none"
    BY <1>0, <1>6 DEF TcpOne
  <2>2. \A x \in alive : \E q \in Operations : status'[x][q] # "none"
    BY <1>0, <1>6 DEF TcpOne, TcpTyped
  <2>3. /\ \E x \in Sessions : status'[x]["accept"] # "none"
        /\ \A x, y \in Sessions :
             status'[x]["accept"] # "none" /\ status'[y]["accept"] # "none" => x = y
    BY <1>0, <1>6, <1>7 DEF TcpOne
  <2>. QED
    BY <1>1, <2>1, <2>2, <2>3 DEF TcpOne
<1>9. TcpMemory'
  BY <1>0, <1>1, <1>6, <1>7 DEF TcpMemory
<1>10. TcpSent'
  <2>1. ASSUME NEW x \in Sessions, x # s
        PROVE  /\ \A k \in 1 .. Len(tcpSent'[x]) : tcpSent'[x][k] = k
               /\ IF kind \in Timed THEN TimeOf(x)' ELSE EchoOf(x)'
    BY <1>0, <1>3, <1>4, <2>1 DEF TcpSent, TimeOf, EchoOf, Settled, Halfway
  <2>2. /\ \A k \in 1 .. Len(tcpSent[s]) : tcpSent[s][k] = k
        /\ IF kind \in Timed THEN TimeOf(s) ELSE EchoOf(s)
    BY <1>0 DEF TcpSent
  <2>3. \A q \in Operations : q # o => status[s][q] = "none" /\ status'[s][q] = "none"
    BY <1>0, <1>1, <1>3 DEF TcpOne
  <2>4. Len(tcpSent[s]) \in Nat /\ got[s] \in Nat
    BY <1>2
  <2>5. CASE o = "write" /\ end = "ok"
    <3>1. got'[s] = got[s] /\ data'[s] = data[s] /\ tcpSent'[s] = Append(tcpSent[s], data[s])
      BY <1>0, <1>1, <2>5 DEF TcpTyped
    <3>2. /\ Len(tcpSent'[s]) = Len(tcpSent[s]) + 1
          /\ \A k \in 1 .. Len(tcpSent[s]) : tcpSent'[s][k] = tcpSent[s][k]
          /\ tcpSent'[s][Len(tcpSent[s]) + 1] = data[s]
      BY <1>2, <3>1, Appended
    <3>3. status[s]["write"] \in Failed /\ status'[s]["write"] = "ok"
      BY <1>1, <1>3, <2>5 DEF Failed
    <3>4. data[s] = Len(tcpSent[s]) + 1
      BY <2>2, <2>4, <3>3 DEF TimeOf, EchoOf, Halfway
    <3>5. \A k \in 1 .. Len(tcpSent'[s]) : tcpSent'[s][k] = k
      BY <2>2, <2>4, <3>2, <3>4
    <3>6. status'[s]["accept"] = "none" /\ status'[s]["read"] = "none"
      BY <2>3, <2>5 DEF Operations
    <3>7. CASE kind \in Timed
      <4>1. Len(tcpSent[s]) = 0
        BY <2>2, <3>3, <3>7 DEF TimeOf
      <4>2. TimeOf(s)'
        BY <3>2, <3>3, <3>6, <4>1 DEF TimeOf, Failed
      <4>. QED
        BY <1>1, <2>1, <3>5, <3>7, <4>2 DEF TcpSent
    <3>8. CASE kind \notin Timed
      <4>1. Len(tcpSent[s]) + 1 = got[s]
        BY <2>2, <3>3, <3>8 DEF EchoOf, Halfway
      <4>2. ~Halfway(s)'
        BY <3>3, <3>6 DEF Halfway, Failed
      <4>3. EchoOf(s)'
        BY <3>1, <3>2, <4>1, <4>2 DEF EchoOf
      <4>. QED
        BY <1>1, <2>1, <3>5, <3>8, <4>3 DEF TcpSent
    <3>. QED
      BY <3>7, <3>8
  <2>6. CASE o = "read" /\ end = "ok"
    <3>1. /\ got'[s] = got[s] + 1 /\ data'[s] = got[s] + 1 /\ tcpSent'[s] = tcpSent[s]
      BY <1>0, <1>1, <2>6 DEF TcpTyped
    <3>2. /\ status[s]["read"] \in Failed /\ status'[s]["read"] = "ok"
          /\ status'[s]["accept"] = "none" /\ status'[s]["handshake"] = "none"
          /\ status'[s]["write"] = "none"
      BY <1>1, <1>3, <2>3, <2>6 DEF Failed, Operations
    <3>3. TimeOf(s) => TimeOf(s)'
      BY <3>1, <3>2 DEF TimeOf, Failed
    <3>4. EchoOf(s) => EchoOf(s)'
      <4>1. EchoOf(s) => Len(tcpSent[s]) = got[s]
        BY <3>2 DEF EchoOf, Settled
      <4>2. ~Settled(s)'
        BY <3>2 DEF Settled, Failed
      <4>. QED
        BY <2>4, <3>1, <4>1, <4>2 DEF EchoOf
    <3>. QED
      BY <1>1, <2>1, <2>2, <3>1, <3>3, <3>4 DEF TcpSent
  <2>7. CASE ~(o = "write" /\ end = "ok") /\ ~(o = "read" /\ end = "ok")
    <3>1. got'[s] = got[s] /\ data'[s] = data[s] /\ tcpSent'[s] = tcpSent[s]
      BY <1>1, <2>7
    <3>2. (Settled(s)' => Settled(s)) /\ (Halfway(s)' => Halfway(s))
      BY <1>1, <1>3, <2>3, <2>7 DEF Settled, Halfway, Failed, Operations
    <3>3. /\ status'[s]["accept"] # "none" => status[s]["accept"] # "none"
          /\ status'[s]["write"] \in Failed => status[s]["write"] \in Failed
      BY <1>1, <1>3, <2>3, <2>7 DEF Failed, Operations
    <3>4. (TimeOf(s) => TimeOf(s)') /\ (EchoOf(s) => EchoOf(s)')
      BY <3>1, <3>2, <3>3 DEF TimeOf, EchoOf
    <3>. QED
      BY <1>1, <2>1, <2>2, <3>1, <3>4 DEF TcpSent
  <2>. QED
    BY <2>5, <2>6, <2>7
<1>. QED
  BY <1>5, <1>8, <1>9, <1>10 DEF TcpInv

LEMMA TcpInvStep == TcpInv /\ [Tcp!Next]_tcpVars => TcpInv'
<1>1. ASSUME TcpInv, Tcp!Next PROVE TcpInv'
  BY <1>1, TcpHandlers, TcpAccepts, TcpCompletes DEF Tcp!Next, Tcp!Operations, Operations
<1>2. ASSUME TcpInv, UNCHANGED tcpVars PROVE TcpInv'
  BY <1>2 DEF tcpVars, TcpInv, TcpTyped, TcpOne, TcpMemory, TcpSent, TimeOf, EchoOf,
              Settled, Halfway
<1>. QED
  BY <1>1, <1>2

LEMMA TcpIsSafe == TcpInv => Tcp!TypeOK /\ Tcp!OneOperationEach /\ Tcp!EchoIsFaithful
<1> SUFFICES ASSUME TcpInv PROVE Tcp!TypeOK /\ Tcp!OneOperationEach /\ Tcp!EchoIsFaithful
  OBVIOUS
<1>0. TcpTyped /\ TcpOne /\ TcpMemory /\ TcpSent
  BY DEF TcpInv
<1>1. Tcp!TypeOK
  BY <1>0 DEF Tcp!TypeOK, Tcp!Servers, Tcp!Operations, Tcp!Finished, TcpTyped, Operations
<1>2. \A S : Tcp!Cardinality(S) = Cardinality(S)
  BY DEF Cardinality, Tcp!Cardinality
<1>3. \A s \in Sessions : Cardinality(Tcp!UnderWay(s)) = IF s \in alive THEN 1 ELSE 0
  <2>1. SUFFICES ASSUME NEW s \in Sessions
                 PROVE  Cardinality(Tcp!UnderWay(s)) = IF s \in alive THEN 1 ELSE 0
    OBVIOUS
  <2>2. Tcp!UnderWay(s) = {o \in Operations : status[s][o] # "none"}
    BY DEF Tcp!UnderWay, Tcp!Operations, Operations
  <2>3. CASE s \in alive
    <3>1. PICK o \in Operations : status[s][o] # "none"
      BY <1>0, <2>3 DEF TcpOne
    <3>2. Tcp!UnderWay(s) = {o}
      BY <1>0, <2>2, <3>1 DEF TcpOne
    <3>. QED
      BY <2>3, <3>2, FS_Singleton
  <2>4. CASE s \notin alive
    <3>1. Tcp!UnderWay(s) = {}
      BY <1>0, <2>2, <2>4 DEF TcpOne
    <3>. QED
      BY <2>4, <3>1, FS_EmptySet
  <2>. QED
    BY <2>3, <2>4
<1>4. Cardinality({s \in Sessions : status[s]["accept"] # "none"}) = 1
  <2>1. PICK s \in Sessions : status[s]["accept"] # "none"
    BY <1>0 DEF TcpOne
  <2>2. {x \in Sessions : status[x]["accept"] # "none"} = {s}
    BY <1>0, <2>1 DEF TcpOne
  <2>. QED
    BY <2>2, FS_Singleton
<1>5. ASSUME kind = "allocation", NEW s \in alive
      PROVE  /\ inUse[s] = ("accept" \notin Tcp!UnderWay(s))
             /\ place[s] = IF inUse[s] THEN "block" ELSE "none"
  <2>1. s \in Sessions /\ inUse[s] \in BOOLEAN
    BY <1>0 DEF TcpTyped
  <2>2. ("accept" \notin Tcp!UnderWay(s)) <=> (status[s]["accept"] = "none")
    BY DEF Tcp!UnderWay, Tcp!Operations
  <2>3. inUse[s] <=> (status[s]["accept"] = "none")
    BY <1>0, <1>5, <2>1 DEF TcpMemory
  <2>4. place[s] = IF inUse[s] THEN "block" ELSE "none"
    BY <1>0, <1>5, <2>1 DEF TcpMemory
  <2>5. inUse[s] = ("accept" \notin Tcp!UnderWay(s))
    BY <2>1, <2>2, <2>3
  <2>. QED
    BY <2>4, <2>5
<1>6. Tcp!OneOperationEach
  BY <1>2, <1>3, <1>4, <1>5 DEF Tcp!OneOperationEach
<1>7. Tcp!EchoIsFaithful
  <2>1. SUFFICES ASSUME NEW s \in Sessions
                 PROVE  /\ tcpSent[s] = [k \in 1 .. Len(tcpSent[s]) |-> k]
                        /\ Len(tcpSent[s]) <= IF kind \in Timed THEN 1 ELSE got[s]
    BY DEF Tcp!EchoIsFaithful, Timed
  <2>2. tcpSent[s] \in Seq(0 .. MaxChunks) /\ got[s] \in Nat
    BY <1>0 DEF TcpTyped
  <2>3. /\ \A k \in 1 .. Len(tcpSent[s]) : tcpSent[s][k] = k
        /\ IF kind \in Timed THEN TimeOf(s) ELSE EchoOf(s)
    BY <1>0 DEF TcpSent
  <2>4. tcpSent[s] = [k \in 1 .. Len(tcpSent[s]) |-> k]
    BY <2>2, <2>3
  <2>5. Len(tcpSent[s]) <= IF kind \in Timed THEN 1 ELSE got[s]
    BY <2>2, <2>3 DEF TimeOf, EchoOf
  <2>. QED
    BY <2>4, <2>5
<1>. QED
  BY <1>1, <1>6, <1>7
-----------------------------------------------------------------------------
(* The headers of packets *)

Header == [version : {4, 6}, words : 0 .. 15, size : Nat]
HeaderInv == gotHeader = NoPacket \/ \E h \in Header : gotHeader = <<h>>

LEMMA HeaderInvStep == HeaderInv /\ [PacketStep]_packetVars => HeaderInv'
<1> SUFFICES ASSUME HeaderInv, PacketStep \/ UNCHANGED packetVars PROVE HeaderInv'
  OBVIOUS
<1>1. CASE gotHeader' = gotHeader
  BY <1>1 DEF HeaderInv
<1>2. CASE ReceivePacket
  <2>1. PICK version \in {4, 6}, words \in 0 .. 15 :
          \E size \in {1, 19, 20} \cup 4 * words + 7 .. 4 * words + 9 :
            gotHeader' = <<[version |-> version, words |-> words, size |-> size]>>
    BY <1>2 DEF ReceivePacket
  <2>2. PICK size \in {1, 19, 20} \cup 4 * words + 7 .. 4 * words + 9 :
          gotHeader' = <<[version |-> version, words |-> words, size |-> size]>>
    BY <2>1
  <2>3. size \in Nat
    OBVIOUS
  <2>. QED
    BY <2>2, <2>3 DEF HeaderInv, Header
<1>. QED
  BY <1>1, <1>2 DEF PacketStep, packetVars

LEMMA HeaderIsSafe == HeaderInv /\ gotHeader # NoPacket => Ping!HeaderIsFound(gotHeader[1])
<1>1. SUFFICES ASSUME NEW h \in Header PROVE Ping!HeaderIsFound(h)
  BY DEF HeaderInv
<1>2. h.version \in {4, 6} /\ h.words \in 0 .. 15 /\ h.size \in Nat
  BY <1>1 DEF Header
<1>. QED
  BY <1>2 DEF Ping!HeaderIsFound, Ping!IcmpAt, Ping!ReadIpv4

-----------------------------------------------------------------------------
(* The checksum of a request *)

Less == {p \in Nat \X Nat : p[1] < p[2]}

LEMMA LeastNumber ==
  ASSUME NEW S, S \subseteq Nat, S # {}
  PROVE  \E x \in S : \A y \in S : x <= y
<1>1. IsWellFoundedOn(Less, Nat)
  BY NatLessThanWellFounded DEF OpToRel, Less
<1>2. PICK x \in S : \A y \in S : ~ (<<y, x>> \in Less)
  BY <1>1, WFMin
<1>3. \A y \in S : ~ (y < x)
  BY <1>2 DEF Less
<1>. QED
  BY <1>2, <1>3

\* What the first number has, and each after the one before, they all have.
LEMMA NumbersUpTo ==
  ASSUME NEW n \in Nat, NEW S, 0 \in S, \A i \in 1 .. n : i - 1 \in S => i \in S
  PROVE  0 .. n \subseteq S
<1> DEFINE R == (0 .. n) \ S
<1>1. SUFFICES ASSUME R # {} PROVE FALSE
  OBVIOUS
<1>2. PICK x \in R : \A y \in R : x <= y
  <2>1. R \subseteq Nat
    OBVIOUS
  <2>. HIDE DEF R
  <2>. QED
    BY <1>1, <2>1, LeastNumber
<1>3. x \in 1 .. n /\ x \notin S
  BY <1>2
<1>4. x - 1 \in 0 .. n /\ x - 1 < x
  BY <1>3
<1>5. x - 1 \notin R
  <2>. HIDE DEF R
  <2>. QED
    BY <1>2, <1>3, <1>4
<1>. QED
  BY <1>3, <1>4, <1>5

\* The values of a function that has its first value and makes each from the
\* one before.
IsIteration(F, V, v, k, g) ==
  g \in [0 .. k -> V] /\ g[0] = v /\ \A i \in 1 .. k : g[i] = F[i][g[i - 1]]

LEMMA Iterates ==
  ASSUME NEW n \in Nat, NEW V, NEW v \in V, NEW F \in [1 .. n -> [V -> V]]
  PROVE  \E g : IsIteration(F, V, v, n, g)
<1> DEFINE S == {k \in 0 .. n : \E g : IsIteration(F, V, v, k, g)}
<1>1. 0 \in S
  <2> DEFINE g == [i \in 0 .. 0 |-> v]
  <2>1. IsIteration(F, V, v, 0, g)
    BY DEF IsIteration
  <2>. HIDE DEF g
  <2>. QED
    BY <2>1
<1>2. ASSUME NEW k \in 1 .. n, k - 1 \in S PROVE k \in S
  <2>1. PICK g : IsIteration(F, V, v, k - 1, g)
    BY <1>2
  <2> DEFINE h == [i \in 0 .. k |-> IF i = k THEN F[k][g[k - 1]] ELSE g[i]]
  <2>2. k - 1 \in 0 .. k - 1 /\ g[k - 1] \in V /\ F[k][g[k - 1]] \in V
    BY <2>1 DEF IsIteration
  <2>3. h \in [0 .. k -> V] /\ h[0] = v
    BY <2>1, <2>2 DEF IsIteration
  <2>4. ASSUME NEW i \in 1 .. k PROVE h[i] = F[i][h[i - 1]]
    <3>1. i - 1 \in 0 .. k /\ i - 1 # k /\ h[i - 1] = g[i - 1]
      OBVIOUS
    <3>2. CASE i = k
      BY <3>1, <3>2
    <3>3. CASE i # k
      <4>1. i \in 1 .. k - 1 /\ h[i] = g[i]
        BY <3>3
      <4>. HIDE DEF h
      <4>. QED
        BY <2>1, <3>1, <4>1 DEF IsIteration
    <3>. QED
      BY <3>2, <3>3
  <2>. HIDE DEF h
  <2>5. IsIteration(F, V, v, k, h)
    BY <2>3, <2>4 DEF IsIteration
  <2>. QED
    BY <2>5
<1>3. 0 .. n \subseteq S
  <2>. HIDE DEF S
  <2>. QED
    BY <1>1, <1>2, NumbersUpTo
<1>4. n \in 0 .. n
  OBVIOUS
<1>. QED
  BY <1>3, <1>4

LEMMA DivMod ==
  ASSUME NEW a \in Nat, NEW b \in Nat \ {0}
  PROVE  /\ a = b * (a \div b) + (a % b) /\ (a \div b) \in Nat
         /\ (a % b) \in Nat /\ (a % b) < b
OBVIOUS

LEMMA TimesGrows ==
  ASSUME NEW a \in Nat, NEW b \in Nat, NEW c \in Nat, a <= b
  PROVE  a * c \in Nat /\ a * c <= b * c
OBVIOUS

LEMMA BytesAndShorts ==
  /\ Base \in Nat /\ 2 <= Base /\ Ping!Short = Base * Base /\ Ping!Short \in Nat
  /\ 2 * Base <= Ping!Short /\ Ping!UInt = Ping!Short * Ping!Short /\ Ping!UInt \in Nat
  /\ MaxBody \in Nat /\ (MaxBody + 1) \div 2 + 3 <= Ping!Short
BY AsioAssumption DEF AsioAssumption, Ping!Short, Ping!UInt

\* The sum that compute_checksum() adds up.
IsSum(f, first, body) ==
  f = [i \in 0 .. Len(body) |->
         IF i = 0 THEN first
         ELSE (f[i - 1] + (IF i % 2 = 1 THEN Base * body[i] ELSE body[i])) % Ping!UInt]

Bytes == 0 .. Base - 1

LEMMA SumExists ==
  ASSUME NEW first \in Nat, NEW body \in Seq(Bytes)
  PROVE  \E f : IsSum(f, first, body)
<1> DEFINE n == Len(body)
           b(i) == IF i % 2 = 1 THEN Base * body[i] ELSE body[i]
           F == [i \in 1 .. n |-> [x \in Nat |-> (x + b(i)) % Ping!UInt]]
<1>1. n \in Nat /\ Ping!UInt \in Nat \ {0}
  BY BytesAndShorts
<1>2. ASSUME NEW i \in 1 .. n PROVE b(i) \in Nat
  <2>1. body[i] \in Nat
    BY BytesAndShorts DEF Bytes
  <2>. QED
    BY <2>1, BytesAndShorts
<1>. HIDE DEF n, b
<1>3. ASSUME NEW i \in 1 .. n, NEW x \in Nat PROVE (x + b(i)) % Ping!UInt \in Nat
  BY <1>1, <1>2, DivMod
<1>4. F \in [1 .. n -> [Nat -> Nat]]
  BY <1>3
<1>5. \A i \in 1 .. n : \A x \in Nat : F[i][x] = (x + b(i)) % Ping!UInt
  OBVIOUS
<1>. HIDE DEF F
<1>. PICK g : IsIteration(F, Nat, first, n, g)
  BY <1>1, <1>4, Iterates
<1>6. g \in [0 .. n -> Nat] /\ g[0] = first /\ \A i \in 1 .. n : g[i] = F[i][g[i - 1]]
  BY DEF IsIteration
<1>7. \A i \in 1 .. n : g[i] = (g[i - 1] + b(i)) % Ping!UInt
  <2> SUFFICES ASSUME NEW i \in 1 .. n PROVE g[i] = (g[i - 1] + b(i)) % Ping!UInt
    OBVIOUS
  <2>1. i - 1 \in 0 .. n
    BY <1>1
  <2>2. g[i - 1] \in Nat
    BY <1>6, <2>1
  <2>. QED
    BY <1>5, <1>6, <2>2
<1>8. \A i \in 0 .. n : i # 0 => i \in 1 .. n
  BY <1>1
<1>9. g = [i \in 0 .. n |-> IF i = 0 THEN first ELSE (g[i - 1] + b(i)) % Ping!UInt]
  BY <1>6, <1>7, <1>8
<1>. QED
  BY <1>9 DEF IsSum, n, b

\* Of one byte, of two, and of both in a short.
Ones == Ping!Short - 1

\* The value of a byte of the body in the sum.
ByteOf(body, i) == IF i % 2 = 1 THEN Base * body[i] ELSE body[i]

LEMMA ByteFits ==
  ASSUME NEW body \in Seq(Bytes), NEW i \in 1 .. Len(body)
  PROVE  /\ body[i] \in Nat /\ body[i] <= Base - 1
         /\ Base * body[i] \in Nat /\ Base * body[i] <= Ping!Short - Base
         /\ ByteOf(body, i) \in Nat
         /\ ByteOf(body, i) <= IF i % 2 = 1 THEN Ping!Short - Base ELSE Base - 1
<1>1. body[i] \in Nat /\ body[i] <= Base - 1 /\ Base - 1 \in Nat /\ Base \in Nat
  BY BytesAndShorts DEF Bytes
<1>2. Base * body[i] \in Nat /\ body[i] * Base <= (Base - 1) * Base
  BY <1>1, TimesGrows
<1>3. (Base - 1) * Base = Ping!Short - Base /\ body[i] * Base = Base * body[i]
  BY <1>1, BytesAndShorts
<1>. QED
  BY <1>1, <1>2, <1>3 DEF ByteOf

\* The sum of a body that is not too long does not exceed an unsigned int.
SumBound(i) == (3 + (i \div 2)) * Ones + (IF i % 2 = 1 THEN Ping!Short - Base ELSE 0)

LEMMA BoundGrows ==
  ASSUME NEW i \in Nat \ {0}, (i + 1) \div 2 + 3 <= Ping!Short
  PROVE  /\ SumBound(i) = SumBound(i - 1) + (IF i % 2 = 1 THEN Ping!Short - Base ELSE Base - 1)
         /\ SumBound(i) \in Nat /\ SumBound(i) < Ping!UInt
<1> DEFINE q == i \div 2
           s == Ping!Short
<1>1. /\ s \in Nat /\ Ones \in Nat /\ Ones = s - 1 /\ q \in Nat /\ Base \in Nat
      /\ 2 <= Base /\ 2 * Base <= s /\ Ping!UInt = s * s
  BY BytesAndShorts DEF Ones
<1>2. CASE i % 2 = 1
  <2>1. (i - 1) \div 2 = q /\ (i - 1) % 2 = 0 /\ (i + 1) \div 2 = q + 1
    BY <1>2
  <2>2. SumBound(i) = (3 + q) * Ones + (s - Base) /\ SumBound(i - 1) = (3 + q) * Ones
    BY <1>1, <1>2, <2>1 DEF SumBound
  <2>3. (3 + q) * Ones + Ones = (4 + q) * Ones
    BY <1>1
  <2>4. 4 + q <= s
    BY <2>1
  <2>5. (4 + q) * Ones <= s * Ones
    BY <1>1, <2>4, TimesGrows
  <2>6. (3 + q) * Ones \in Nat
    BY <1>1, TimesGrows
  <2>7. s * Ones = s * s - s /\ s * s \in Nat
    BY <1>1
  <2> DEFINE x == (3 + q) * Ones
             u == s * s
  <2>8. x \in Nat /\ u \in Nat /\ x + Ones <= u - s
    BY <2>3, <2>5, <2>6, <2>7
  <2>9. SumBound(i) = x + (s - Base) /\ SumBound(i - 1) = x /\ Ping!UInt = u
    BY <1>1, <2>2
  <2>. HIDE DEF s, q, x, u
  <2>10. x + (s - Base) \in Nat /\ x + (s - Base) < u
    BY <1>1, <2>8
  <2>. QED
    BY <1>2, <2>9, <2>10 DEF s
<1>3. CASE i % 2 # 1
  <2>1. (i - 1) \div 2 = q - 1 /\ (i - 1) % 2 = 1 /\ (i + 1) \div 2 = q /\ q - 1 \in Nat
    BY <1>3
  <2>2. SumBound(i) = (3 + q) * Ones /\ SumBound(i - 1) = (2 + q) * Ones + (s - Base)
    BY <1>1, <1>3, <2>1 DEF SumBound
  <2>3. (2 + q) * Ones + Ones = (3 + q) * Ones
    BY <1>1
  <2>4. 3 + q <= s
    BY <2>1
  <2>5. (3 + q) * Ones <= s * Ones /\ (3 + q) * Ones \in Nat
    BY <1>1, <2>4, TimesGrows
  <2>6. s * Ones = s * s - s
    BY <1>1
  <2>7. s * s \in Nat
    BY <1>1
  <2>. HIDE DEF s, q
  <2>. QED
    BY <1>1, <1>3, <2>2, <2>3, <2>5, <2>6, <2>7
<1>. QED
  BY <1>2, <1>3

LEMMA SumFits ==
  ASSUME NEW first \in Nat, first <= 3 * Ones, NEW body \in Seq(Bytes), Len(body) <= MaxBody,
         NEW f, IsSum(f, first, body)
  PROVE  /\ f[0] = first /\ \A i \in 0 .. Len(body) : f[i] \in Nat /\ f[i] < Ping!UInt
         /\ \A i \in 1 .. Len(body) : f[i] = f[i - 1] + ByteOf(body, i)
<1> DEFINE n == Len(body)
           S == {i \in 0 .. n : f[i] \in Nat /\ f[i] <= SumBound(i)}
<1>1. /\ n \in Nat /\ Ones \in Nat /\ Ping!UInt \in Nat
      /\ \A i \in 0 .. n : (i + 1) \div 2 + 3 <= Ping!Short
  BY BytesAndShorts DEF Ones
<1>2. f[0] = first /\ \A i \in 1 .. n : f[i] = (f[i - 1] + ByteOf(body, i)) % Ping!UInt
  BY <1>1 DEF IsSum, ByteOf
<1>. HIDE DEF n
<1>3. SumBound(0) = 3 * Ones
  BY <1>1 DEF SumBound
<1>4. 0 \in S
  BY <1>1, <1>2, <1>3
<1>5. ASSUME NEW i \in 1 .. n, i - 1 \in S
      PROVE  i \in S /\ f[i] = f[i - 1] + ByteOf(body, i) /\ f[i] < Ping!UInt
  <2>1. f[i - 1] \in Nat /\ f[i - 1] <= SumBound(i - 1) /\ i \in Nat \ {0}
    BY <1>5
  <2>2. /\ ByteOf(body, i) \in Nat
        /\ ByteOf(body, i) <= IF i % 2 = 1 THEN Ping!Short - Base ELSE Base - 1
    BY ByteFits DEF n
  <2>3. i \in 0 .. n
    BY <1>1
  <2>4. /\ SumBound(i) = SumBound(i - 1) + (IF i % 2 = 1 THEN Ping!Short - Base ELSE Base - 1)
        /\ SumBound(i) \in Nat /\ SumBound(i) < Ping!UInt
    BY <1>1, <2>1, <2>3, BoundGrows
  <2>5. SumBound(i - 1) \in Int
    <3>1. (i - 1) \div 2 \in Int
      BY <2>1
    <3>. QED
      BY <1>1, <3>1, BytesAndShorts DEF SumBound
  <2> DEFINE t == f[i - 1] + ByteOf(body, i)
  <2>6. t \in Nat /\ t <= SumBound(i) /\ t < Ping!UInt
    BY <2>1, <2>2, <2>4, <2>5, BytesAndShorts
  <2>. HIDE DEF t
  <2>7. t % Ping!UInt = t
    BY <1>1, <2>6
  <2>8. f[i] = t
    BY <1>2, <2>7 DEF t
  <2>. QED
    BY <2>3, <2>6, <2>8 DEF t
<1>6. 0 .. n \subseteq S
  <2>. HIDE DEF S
  <2>. QED
    BY <1>1, <1>4, <1>5, NumbersUpTo
<1>7. \A i \in 1 .. n : i - 1 \in 0 .. n
  BY <1>1
<1>8. f[0] < Ping!UInt
  <2>1. 3 * Ones < Ping!UInt
    <3> DEFINE s == Ping!Short
    <3>1. s \in Nat /\ 3 <= s /\ Ones = s - 1 /\ Ping!UInt = s * s
      BY BytesAndShorts DEF Ones
    <3>2. 3 * Ones <= s * Ones
      BY <1>1, <3>1, TimesGrows
    <3>3. s * Ones = s * s - s
      BY <3>1
    <3>4. s * s \in Nat
      BY <3>1
    <3>. HIDE DEF s
    <3>. QED
      BY <1>1, <3>1, <3>2, <3>3, <3>4
  <2>. QED
    BY <1>1, <1>2, <2>1
<1>9. \A i \in 0 .. n : i = 0 \/ i \in 1 .. n
  BY <1>1
<1>10. \A i \in 1 .. n : f[i] = f[i - 1] + ByteOf(body, i) /\ f[i] < Ping!UInt
  BY <1>5, <1>6, <1>7
<1>11. \A i \in 0 .. n : f[i] \in Nat
  BY <1>6
<1>. QED
  BY <1>2, <1>8, <1>9, <1>10, <1>11 DEF n

\* The checksum makes of the sum a multiple of all ones.
LEMMA ChecksumCompletes ==
  ASSUME NEW sum \in Nat, sum < Ping!UInt
  PROVE  LET c == Ping!Short - 1 - (Ping!Fold(sum) % Ping!Short)
         IN c \in 0 .. Ones /\ \E k \in Nat : sum + c = k * Ones
<1> DEFINE s == Ping!Short
           h == sum \div s
           l == sum % s
           once == h + l
           c == s - 1 - (Ping!Fold(sum) % s)
<1>1. s \in Nat \ {0} /\ 4 <= s /\ Ones = s - 1 /\ Ones \in Nat /\ Ping!UInt = s * s
  BY BytesAndShorts DEF Ones
<1>2. sum = s * h + l /\ h \in Nat /\ l \in Nat /\ l < s
  BY <1>1, DivMod
<1>3. h < s
  <2>1. CASE s <= h
    <3>1. s * s <= h * s
      BY <1>1, <1>2, <2>1, TimesGrows
    <3>2. h * s = s * h /\ s * h \in Nat /\ s * s \in Nat
      BY <1>1, <1>2
    <3>. HIDE DEF h, l, s
    <3>. QED
      BY <1>1, <1>2, <3>1, <3>2
  <2>. QED
    BY <1>1, <1>2, <2>1
<1>4. Ping!Fold(sum) = once + (once \div s)
  BY DEF Ping!Fold
<1>5. s * h = h * Ones + h /\ h * Ones \in Nat
  BY <1>1, <1>2
<1>. HIDE DEF h, l
<1>6. once \in Nat /\ once <= Ones + Ones /\ sum = h * Ones + once
  <2>. HIDE DEF s
  <2>. QED
    BY <1>1, <1>2, <1>3, <1>5
<1>. HIDE DEF once
<1>7. CASE once < s
  <2>1. once \div s = 0 /\ once % s = once
    BY <1>1, <1>6, <1>7
  <2>2. Ping!Fold(sum) % s = once
    BY <1>4, <1>6, <2>1
  <2>3. c \in 0 .. Ones /\ sum + c = h * Ones + Ones
    BY <1>1, <1>5, <1>6, <1>7, <2>2
  <2>4. h * Ones + Ones = (h + 1) * Ones /\ h + 1 \in Nat
    BY <1>1, <1>2
  <2>. QED
    BY <2>3, <2>4
<1>8. CASE ~(once < s)
  <2> DEFINE x == once - s
  <2>1. x \in Nat /\ x + 1 < s /\ once = s + x
    BY <1>1, <1>6, <1>8
  <2>2. once \div s = 1
    <3>1. once = s * (once \div s) + (once % s) /\ (once \div s) \in Nat
          /\ (once % s) \in Nat /\ (once % s) < s
      BY <1>1, <1>6, DivMod
    <3> DEFINE d == once \div s
               r == once % s
    <3>2. d = 0 \/ d = 1 \/ 2 <= d
      BY <3>1
    <3>3. d = 0 => s * d = 0
      BY <1>1
    <3>4. 2 <= d => 2 * s <= d * s /\ d * s = s * d
      BY <1>1, <3>1, TimesGrows
    <3>5. once = s * d + r /\ d \in Nat /\ r \in Nat /\ r < s /\ s * d \in Nat
      BY <1>1, <3>1
    <3>. HIDE DEF d, r, s, x
    <3>6. d = 1
      BY <1>1, <2>1, <3>2, <3>3, <3>4, <3>5
    <3>. QED
      BY <3>6 DEF d
  <2>3. (s + (x + 1)) % s = x + 1
    <3> DEFINE y == s + (x + 1)
               e == y \div s
               r == y % s
    <3>5. y = s + x + 1 /\ y \in Nat
      BY <1>1, <2>1
    <3>. HIDE DEF y
    <3>1. y = s * e + r /\ e \in Nat /\ r \in Nat /\ r < s
      BY <1>1, <3>5, DivMod
    <3>. HIDE DEF e, r
    <3>2. (e = 0 \/ e = 1 \/ 2 <= e) /\ s * e \in Nat
      BY <1>1, <3>1
    <3>3. /\ e = 0 => s * e = 0
          /\ e = 1 => s * e = s
      BY <1>1
    <3>4. 2 <= e => 2 * s <= e * s /\ e * s = s * e
      BY <1>1, <3>1, TimesGrows
    <3>. HIDE DEF s, x
    <3>6. r = x + 1
      BY <1>1, <2>1, <3>1, <3>2, <3>3, <3>4, <3>5
    <3>. QED
      BY <3>6 DEF r, y
  <2>4. Ping!Fold(sum) % s = x + 1
    <3>1. Ping!Fold(sum) = s + (x + 1)
      BY <1>1, <1>4, <2>1, <2>2
    <3>. QED
      BY <2>3, <3>1
  <2>5. c \in 0 .. Ones /\ sum + c = h * Ones + Ones + Ones
    BY <1>1, <1>5, <1>6, <2>1, <2>4
  <2>6. h * Ones + Ones + Ones = (h + 2) * Ones /\ h + 2 \in Nat
    BY <1>1, <1>2
  <2>. QED
    BY <2>5, <2>6
<1>. QED
  BY <1>7, <1>8

\* A sum with its carries added at the end: t, but for a multiple of all ones.
Congruent(t, x) == x \in 1 .. Ones /\ \E q \in Nat : t = x + q * Ones

LEMMA CarryIsCongruent ==
  ASSUME NEW t \in Nat, NEW x, Congruent(t, x), NEW v \in 0 .. Ones
  PROVE  Congruent(t + v, Ping!WithCarry(x + v))
<1>1. Ones \in Nat /\ Ping!Short = Ones + 1
  BY BytesAndShorts DEF Ones
<1>2. PICK q \in Nat : t = x + q * Ones
  BY DEF Congruent
<1>3. x \in 1 .. Ones
  BY DEF Congruent
<1>4. q * Ones \in Nat /\ (q + 1) * Ones = q * Ones + Ones /\ q + 1 \in Nat
  BY <1>1
<1>5. CASE x + v >= Ping!Short
  <2>1. Ping!WithCarry(x + v) = x + v - Ones
    BY <1>1, <1>3, <1>5 DEF Ping!WithCarry
  <2>2. t + v = (x + v - Ones) + (q + 1) * Ones /\ x + v - Ones \in 1 .. Ones
    BY <1>1, <1>2, <1>3, <1>4, <1>5
  <2>. QED
    BY <1>4, <2>1, <2>2 DEF Congruent
<1>6. CASE ~(x + v >= Ping!Short)
  <2>1. Ping!WithCarry(x + v) = x + v
    BY <1>1, <1>3, <1>6 DEF Ping!WithCarry
  <2>2. t + v = (x + v) + q * Ones /\ x + v \in 1 .. Ones
    BY <1>1, <1>2, <1>3, <1>4, <1>6
  <2>. QED
    BY <2>1, <2>2 DEF Congruent
<1>. QED
  BY <1>5, <1>6

LEMMA AllOnes ==
  ASSUME NEW t \in Nat, NEW x, Congruent(t, x), NEW k \in Nat, t = k * Ones
  PROVE  x = Ones
<1>1. Ones \in Nat
  BY BytesAndShorts DEF Ones
<1>2. PICK q \in Nat : t = x + q * Ones
  BY DEF Congruent
<1>3. x \in 1 .. Ones /\ q * Ones \in Nat /\ k * Ones \in Nat
  BY <1>1 DEF Congruent
<1>4. k <= q => k * Ones <= q * Ones
  BY <1>1, TimesGrows
<1>5. q + 2 <= k => (q + 2) * Ones <= k * Ones
  BY <1>1, TimesGrows
<1>6. (q + 2) * Ones = q * Ones + Ones + Ones /\ (q + 1) * Ones = q * Ones + Ones
  BY <1>1
<1>7. k = q + 1 => k * Ones = q * Ones + Ones
  BY <1>6
<1>. QED
  BY <1>1, <1>2, <1>3, <1>4, <1>5, <1>6, <1>7


LEMMA EncodeShort ==
  ASSUME NEW x \in 0 .. Ones
  PROVE  \E a, b \in Bytes : Ping!Encode(x) = <<a, b>> /\ Base * a + b = x
<1> DEFINE a == x \div Base
           b == x % Base
<1>1. Base \in Nat \ {0} /\ Ones + 1 = Base * Base /\ x \in Nat /\ x < Base * Base
  BY BytesAndShorts DEF Ones
<1>2. x = Base * a + b /\ a \in Nat /\ b \in Nat /\ b < Base
  BY <1>1, DivMod
<1>. HIDE DEF a, b
<1>3. a < Base
  <2>1. CASE Base <= a
    <3>1. Base * Base <= a * Base
      BY <1>1, <1>2, <2>1, TimesGrows
    <3>2. a * Base = Base * a /\ Base * a \in Nat /\ Base * Base \in Nat
      BY <1>1, <1>2
    <3> DEFINE w == Base * a
               s == Base * Base
    <3>. HIDE DEF w, s
    <3>. QED
      BY <1>1, <1>2, <3>1, <3>2 DEF w, s
  <2>. QED
    BY <1>1, <1>2, <2>1
<1>4. a % Base = a
  BY <1>1, <1>2, <1>3
<1>5. Ping!Encode(x) = <<a, b>>
  BY <1>4 DEF Ping!Encode, a, b
<1>. QED
  BY <1>1, <1>2, <1>3, <1>5 DEF Bytes

\* A request with some checksum.
PacketOf(c, identifier, number, body) ==
  <<Ping!echo_request, 0>> \o Ping!Encode(c) \o Ping!Encode(identifier)
    \o Ping!Encode(number) \o body

IsPacket(p, c, identifier, number, body) ==
  /\ p \in Seq(Bytes) /\ Len(p) = 8 + Len(body)
  /\ p[1] = Base - 1 /\ p[2] = 0
  /\ Base * p[3] + p[4] = c /\ Base * p[5] + p[6] = identifier /\ Base * p[7] + p[8] = number
  /\ \A i \in 1 .. Len(body) : p[8 + i] = body[i]

\* q is the list l, and then r.
IsJoin(S, q, l, r) == /\ q \in Seq(S) /\ Len(q) = Len(l) + Len(r)
                      /\ \A k \in 1 .. Len(l) : q[k] = l[k]
                      /\ \A k \in 1 .. Len(r) : q[Len(l) + k] = r[k]

LEMMA Concatenated ==
  ASSUME NEW S, NEW l \in Seq(S), NEW r \in Seq(S)
  PROVE  IsJoin(S, l \o r, l, r)
<1>1. l \o r \in Seq(S) /\ Len(l \o r) = Len(l) + Len(r)
  OBVIOUS
<1>2. \A k \in 1 .. Len(l) : (l \o r)[k] = l[k]
  OBVIOUS
<1>3. \A k \in 1 .. Len(r) : (l \o r)[Len(l) + k] = r[k]
  OBVIOUS
<1>. QED
  BY <1>1, <1>2, <1>3 DEF IsJoin

\* q is the list l of n elements, and then a and b.
IsTwoMore(S, q, l, n, a, b) ==
  /\ q \in Seq(S) /\ Len(q) = n + 2 /\ q[n + 1] = a /\ q[n + 2] = b
  /\ \A k \in 1 .. n : q[k] = l[k]

LEMMA TwoMore ==
  ASSUME NEW S, NEW l \in Seq(S), NEW n \in Nat, Len(l) = n, NEW a \in S, NEW b \in S
  PROVE  IsTwoMore(S, l \o <<a, b>>, l, n, a, b)
<1> DEFINE t == <<a, b>>
           q == l \o t
<1>1. t \in Seq(S) /\ Len(t) = 2 /\ t[1] = a /\ t[2] = b
  OBVIOUS
<1>2. IsJoin(S, q, l, t)
  <2>. HIDE DEF t
  <2>. QED
    BY <1>1, Concatenated
<1>. HIDE DEF q, t
<1>3. 1 \in 1 .. Len(t) /\ 2 \in 1 .. Len(t)
  BY <1>1
<1>4. q[n + 1] = a /\ q[n + 2] = b
  BY <1>1, <1>2, <1>3 DEF IsJoin
<1>5. IsTwoMore(S, q, l, n, a, b)
  BY <1>1, <1>2, <1>4 DEF IsJoin, IsTwoMore
<1>. QED
  BY <1>5 DEF q, t

LEMMA PacketsAreSo ==
  ASSUME NEW c \in 0 .. Ones, NEW identifier \in 0 .. Ones, NEW number \in 0 .. Ones,
         NEW body \in Seq(Bytes)
  PROVE  IsPacket(PacketOf(c, identifier, number, body), c, identifier, number, body)
<1>1. PICK a1, b1 \in Bytes : Ping!Encode(c) = <<a1, b1>> /\ Base * a1 + b1 = c
  BY EncodeShort
<1>2. PICK a2, b2 \in Bytes :
        Ping!Encode(identifier) = <<a2, b2>> /\ Base * a2 + b2 = identifier
  BY EncodeShort
<1>3. PICK a3, b3 \in Bytes : Ping!Encode(number) = <<a3, b3>> /\ Base * a3 + b3 = number
  BY EncodeShort
<1> DEFINE h0 == <<Base - 1, 0>>
           h1 == h0 \o <<a1, b1>>
           h2 == h1 \o <<a2, b2>>
           h3 == h2 \o <<a3, b3>>
           p == PacketOf(c, identifier, number, body)
<1>4. h0 \in Seq(Bytes) /\ Len(h0) = 2 /\ h0[1] = Base - 1 /\ h0[2] = 0
  <2>1. Base - 1 \in Bytes /\ 0 \in Bytes
    BY BytesAndShorts DEF Bytes
  <2>. QED
    BY <2>1
<1>5. p = h3 \o body
  BY <1>1, <1>2, <1>3 DEF PacketOf, Ping!echo_request
<1>. HIDE DEF h0, p
<1>6. IsTwoMore(Bytes, h1, h0, 2, a1, b1)
  BY <1>4, TwoMore
<1>. HIDE DEF h1
<1>7. IsTwoMore(Bytes, h2, h1, 4, a2, b2)
  <2>1. h1 \in Seq(Bytes) /\ Len(h1) = 4
    BY <1>6 DEF IsTwoMore
  <2>. QED
    BY <2>1, TwoMore
<1>. HIDE DEF h2
<1>8. IsTwoMore(Bytes, h3, h2, 6, a3, b3)
  <2>1. h2 \in Seq(Bytes) /\ Len(h2) = 6
    BY <1>7 DEF IsTwoMore
  <2>. QED
    BY <2>1, TwoMore
<1>. HIDE DEF h3
<1>9. IsJoin(Bytes, p, h3, body) /\ Len(h3) = 8
  <2>1. h3 \in Seq(Bytes) /\ Len(h3) = 8
    BY <1>8 DEF IsTwoMore
  <2>. QED
    BY <1>5, <2>1, Concatenated
<1>10. /\ p[1] = Base - 1 /\ p[2] = 0 /\ p[3] = a1 /\ p[4] = b1 /\ p[5] = a2 /\ p[6] = b2
       /\ p[7] = a3 /\ p[8] = b3
  <2>1. h1[1] = Base - 1 /\ h1[2] = 0 /\ h1[3] = a1 /\ h1[4] = b1
    BY <1>4, <1>6 DEF IsTwoMore
  <2>2. /\ h2[1] = Base - 1 /\ h2[2] = 0 /\ h2[3] = a1 /\ h2[4] = b1
        /\ h2[5] = a2 /\ h2[6] = b2
    BY <1>7, <2>1 DEF IsTwoMore
  <2>3. /\ h3[1] = Base - 1 /\ h3[2] = 0 /\ h3[3] = a1 /\ h3[4] = b1
        /\ h3[5] = a2 /\ h3[6] = b2 /\ h3[7] = a3 /\ h3[8] = b3
    BY <1>8, <2>2 DEF IsTwoMore
  <2>. QED
    BY <1>9, <2>3 DEF IsJoin
<1>11. /\ p \in Seq(Bytes) /\ Len(p) = 8 + Len(body)
       /\ \A i \in 1 .. Len(body) : p[8 + i] = body[i]
  BY <1>9 DEF IsJoin
<1>. QED
  BY <1>1, <1>2, <1>3, <1>10, <1>11 DEF IsPacket, p

\* The sum of the shorts of a packet.
IsOnes(g, p) ==
  g = [k \in 0 .. (Len(p) + 1) \div 2 |->
         IF k = 0 THEN 0 ELSE Ping!WithCarry(g[k - 1] + Ping!ShortAt(p, k))]

LEMMA OnesExists ==
  ASSUME NEW p \in Seq(Bytes)
  PROVE  \E g : IsOnes(g, p)
<1> DEFINE n == (Len(p) + 1) \div 2
           b(k) == Ping!ShortAt(p, k)
           F == [k \in 1 .. n |-> [x \in Nat |-> Ping!WithCarry(x + b(k))]]
<1>1. n \in Nat /\ Len(p) \in Nat
  OBVIOUS
<1>2. ASSUME NEW k \in 1 .. n PROVE b(k) \in Nat
  <2>1. 2 * k - 1 \in 1 .. Len(p) /\ (2 * k <= Len(p) => 2 * k \in 1 .. Len(p))
    BY <1>1
  <2>2. p[2 * k - 1] \in Nat /\ (2 * k <= Len(p) => p[2 * k] \in Nat)
    BY <2>1, BytesAndShorts DEF Bytes
  <2>3. Base * p[2 * k - 1] \in Nat
    BY <2>2, BytesAndShorts
  <2>. QED
    BY <2>2, <2>3 DEF Ping!ShortAt
<1>. HIDE DEF n, b
<1>3. ASSUME NEW k \in 1 .. n, NEW x \in Nat PROVE Ping!WithCarry(x + b(k)) \in Nat
  BY <1>1, <1>2, BytesAndShorts DEF Ping!WithCarry
<1>4. F \in [1 .. n -> [Nat -> Nat]]
  BY <1>3
<1>5. \A k \in 1 .. n : \A x \in Nat : F[k][x] = Ping!WithCarry(x + b(k))
  OBVIOUS
<1>. HIDE DEF F
<1>. PICK g : IsIteration(F, Nat, 0, n, g)
  BY <1>1, <1>4, Iterates
<1>6. g \in [0 .. n -> Nat] /\ g[0] = 0 /\ \A k \in 1 .. n : g[k] = F[k][g[k - 1]]
  BY DEF IsIteration
<1>7. \A k \in 1 .. n : g[k] = Ping!WithCarry(g[k - 1] + b(k))
  <2> SUFFICES ASSUME NEW k \in 1 .. n PROVE g[k] = Ping!WithCarry(g[k - 1] + b(k))
    OBVIOUS
  <2>1. k - 1 \in 0 .. n
    BY <1>1
  <2>2. g[k - 1] \in Nat
    BY <1>6, <2>1
  <2>. QED
    BY <1>5, <1>6, <2>2
<1>8. \A k \in 0 .. n : k # 0 => k \in 1 .. n
  BY <1>1
<1>9. g = [k \in 0 .. n |-> IF k = 0 THEN 0 ELSE Ping!WithCarry(g[k - 1] + b(k))]
  BY <1>6, <1>7, <1>8
<1>. QED
  BY <1>9 DEF IsOnes, n, b

\* A request whose checksum c completes the sum f of its fields and its body:
\* g is the sum of its shorts, and each of them adds to both what it has.
At(k, n) == IF 2 * k <= n THEN 2 * k ELSE n

LEMMA BodyShort ==
  ASSUME NEW c, NEW identifier, NEW number, NEW body \in Seq(Bytes),
         NEW p, IsPacket(p, c, identifier, number, body),
         NEW first \in Nat, first <= 3 * Ones, Len(body) <= MaxBody,
         NEW f, IsSum(f, first, body), NEW k \in 1 .. (Len(body) + 1) \div 2
  PROVE  /\ Ping!ShortAt(p, 4 + k) \in 0 .. Ones
         /\ f[At(k - 1, Len(body))] \in Nat
         /\ f[At(k, Len(body))] = f[At(k - 1, Len(body))] + Ping!ShortAt(p, 4 + k)
<1> DEFINE n == Len(body)
           i == 2 * k - 1
<1>1. n \in Nat /\ i \in 1 .. n /\ i % 2 = 1 /\ i + 1 = 2 * k /\ (i + 1) % 2 = 0
  OBVIOUS
<1>2. At(k - 1, n) = i - 1 /\ At(k, n) = IF i + 1 <= n THEN i + 1 ELSE i
  BY <1>1 DEF At
<1>3. Len(p) = 8 + n /\ \A j \in 1 .. n : p[8 + j] = body[j]
  BY DEF IsPacket
<1>4. f[i - 1] \in Nat /\ \A j \in 1 .. n : f[j] = f[j - 1] + ByteOf(body, j)
  <2>1. i - 1 \in 0 .. n
    BY <1>1
  <2>. HIDE DEF i
  <2>. QED
    BY <2>1, SumFits
<1>5. 2 * (4 + k) - 1 = 8 + i /\ 2 * (4 + k) = 8 + (i + 1) /\ i + 1 - 1 = i
  BY <1>1
<1>6. k \in Nat
  OBVIOUS
<1>. HIDE DEF n, i
<1>7. Ping!ShortAt(p, 4 + k) = Base * body[i] + (IF i + 1 <= n THEN body[i + 1] ELSE 0)
  <2>1. p[8 + i] = body[i] /\ (i + 1 <= n => p[8 + (i + 1)] = body[i + 1])
    BY <1>1, <1>3
  <2>2. 8 + (i + 1) <= 8 + n <=> i + 1 <= n
    BY <1>1
  <2>. QED
    BY <1>3, <1>5, <2>1, <2>2 DEF Ping!ShortAt
<1>8. Base * body[i] \in Nat /\ Base * body[i] <= Ping!Short - Base /\ ByteOf(body, i) = Base * body[i]
  BY <1>1, ByteFits DEF ByteOf, n
<1>9. i + 1 <= n => /\ body[i + 1] \in Nat /\ body[i + 1] <= Base - 1
                    /\ ByteOf(body, i + 1) = body[i + 1]
  BY <1>1, ByteFits DEF ByteOf, n
<1>10. Base \in Nat /\ 2 <= Base /\ Ones = Ping!Short - 1 /\ Ping!Short \in Nat
  BY BytesAndShorts DEF Ones
<1> DEFINE v == Ping!ShortAt(p, 4 + k)
           w == Base * body[i]
<1>11. v = w + (IF i + 1 <= n THEN body[i + 1] ELSE 0) /\ w \in Nat /\ w <= Ping!Short - Base
  BY <1>7, <1>8
<1>12. ByteOf(body, i) = w
  BY <1>8
<1>. HIDE DEF v, w
<1>13. v \in 0 .. Ones
  BY <1>9, <1>10, <1>11
<1>14. f[i] = f[i - 1] + w
  BY <1>1, <1>4, <1>12
<1>15. ASSUME i + 1 <= n PROVE f[i + 1] = f[i] + body[i + 1]
  <2> DEFINE j == i + 1
  <2>1. j \in 1 .. n /\ j - 1 = i
    BY <1>1, <1>15
  <2>. HIDE DEF j
  <2>2. f[j] = f[i] + ByteOf(body, j)
    BY <1>4, <2>1
  <2>. QED
    BY <1>9, <1>15, <2>2 DEF j
<1>16. f[At(k, n)] = f[At(k - 1, n)] + v
  <2>1. CASE i + 1 <= n
    <3>1. f[At(k, n)] = (f[i - 1] + w) + body[i + 1] /\ v = w + body[i + 1]
      BY <1>2, <1>11, <1>14, <1>15, <2>1
    <3>. QED
      BY <1>2, <1>4, <1>9, <1>11, <2>1, <3>1
  <2>2. CASE ~(i + 1 <= n)
    <3>1. f[At(k, n)] = f[i - 1] + w /\ v = w + 0
      BY <1>2, <1>11, <1>14, <2>2
    <3>. QED
      BY <1>2, <1>4, <1>11, <3>1
  <2>. QED
    BY <2>1, <2>2
<1>. QED
  BY <1>2, <1>4, <1>13, <1>16 DEF v, n

LEMMA HeadShorts ==
  ASSUME NEW c \in 0 .. Ones, NEW identifier \in 0 .. Ones, NEW number \in 0 .. Ones,
         NEW body \in Seq(Bytes), NEW p, IsPacket(p, c, identifier, number, body),
         NEW g, IsOnes(g, p)
  PROVE  Congruent(Base * Ping!echo_request + identifier + number + c, g[4])
<1> DEFINE e == Base * (Base - 1)
           n == Len(body)
<1>1. /\ n \in Nat /\ Base \in Nat /\ 2 <= Base /\ Ones \in Nat /\ Ping!Short = Ones + 1
      /\ e = Ping!Short - Base /\ 2 * Base <= Ping!Short /\ Ping!echo_request = Base - 1
  BY BytesAndShorts DEF Ones, Ping!echo_request
<1>2. Len(p) = 8 + n
  BY DEF IsPacket
<1>. HIDE DEF n
<1>3. \A k \in 1 .. 4 : k \in 0 .. (Len(p) + 1) \div 2 /\ 2 * k <= Len(p)
  BY <1>1, <1>2
<1>4. 0 \in 0 .. (Len(p) + 1) \div 2
  BY <1>1, <1>2
<1>5. g[0] = 0 /\ \A k \in 1 .. 4 : g[k] = Ping!WithCarry(g[k - 1] + Ping!ShortAt(p, k))
  BY <1>3, <1>4 DEF IsOnes
<1>6. /\ Ping!ShortAt(p, 1) = e + 0 /\ Ping!ShortAt(p, 2) = c
      /\ Ping!ShortAt(p, 3) = identifier /\ Ping!ShortAt(p, 4) = number
  BY <1>3 DEF Ping!ShortAt, IsPacket
<1>7. /\ g[1] = Ping!WithCarry(0 + (e + 0)) /\ g[2] = Ping!WithCarry(g[1] + c)
      /\ g[3] = Ping!WithCarry(g[2] + identifier) /\ g[4] = Ping!WithCarry(g[3] + number)
  BY <1>5, <1>6
<1>8. Base * Ping!echo_request = e
  BY <1>1
<1>. HIDE DEF e
<1>9. Congruent(e, g[1])
  <2>1. g[1] = e /\ e \in 1 .. Ones
    BY <1>1, <1>7 DEF Ping!WithCarry
  <2>2. e = e + 0 * Ones
    BY <1>1, <2>1
  <2>. QED
    BY <2>1, <2>2 DEF Congruent
<1>10. e \in Nat /\ c \in Nat /\ identifier \in Nat /\ number \in Nat
  BY <1>1
<1>11. Congruent(e + c, g[2])
  BY <1>7, <1>9, <1>10, CarryIsCongruent
<1>12. Congruent((e + c) + identifier, g[3])
  <2> DEFINE t == e + c
  <2>1. t \in Nat
    BY <1>10
  <2>. HIDE DEF t
  <2>2. Congruent(t, g[2])
    BY <1>11 DEF t
  <2>3. Congruent(t + identifier, g[3])
    BY <1>7, <2>1, <2>2, CarryIsCongruent
  <2>. QED
    BY <2>3 DEF t
<1>13. Congruent(((e + c) + identifier) + number, g[4])
  <2> DEFINE t == (e + c) + identifier
  <2>1. t \in Nat
    BY <1>10
  <2>. HIDE DEF t
  <2>2. Congruent(t, g[3])
    BY <1>12 DEF t
  <2>3. Congruent(t + number, g[4])
    BY <1>7, <2>1, <2>2, CarryIsCongruent
  <2>. QED
    BY <2>3 DEF t
<1>14. ((e + c) + identifier) + number = e + identifier + number + c
  BY <1>10
<1>. QED
  BY <1>8, <1>13, <1>14

LEMMA PacketCompletes ==
  ASSUME NEW c \in 0 .. Ones, NEW identifier \in 0 .. Ones, NEW number \in 0 .. Ones,
         NEW body \in Seq(Bytes), Len(body) <= MaxBody,
         NEW p, IsPacket(p, c, identifier, number, body), NEW g, IsOnes(g, p),
         NEW f, IsSum(f, Base * Ping!echo_request + identifier + number, body),
         NEW k \in Nat, f[Len(body)] + c = k * Ones
  PROVE  g[(Len(p) + 1) \div 2] = Ones
<1> DEFINE n == Len(body)
           m == (n + 1) \div 2
           first == Base * Ping!echo_request + identifier + number
           S == {j \in 0 .. m : Congruent(f[At(j, n)] + c, g[4 + j])}
<1>1. n \in Nat /\ m \in Nat /\ Ones \in Nat /\ c \in Nat
  BY BytesAndShorts DEF Ones
<1>2. Len(p) = 8 + n /\ (Len(p) + 1) \div 2 = 4 + m
  BY <1>1 DEF IsPacket
<1>3. first \in Nat /\ first <= 3 * Ones
  <2>1. /\ Base * (Base - 1) = Ping!Short - Base /\ Ping!echo_request = Base - 1
        /\ Base \in Nat /\ 2 <= Base /\ Ones = Ping!Short - 1
        /\ Ping!Short \in Nat /\ 2 * Base <= Ping!Short
    BY BytesAndShorts DEF Ones, Ping!echo_request
  <2>. QED
    BY <1>1, <2>1
<1>. HIDE DEF first
<1>4. IsSum(f, first, body)
  BY DEF first
<1>5. f[0] = first
  BY <1>3, <1>4, SumFits
<1>6. 0 \in S
  <2>1. At(0, n) = 0 /\ 4 + 0 = 4 /\ 0 \in 0 .. m
    BY <1>1 DEF At
  <2>2. Congruent(first + c, g[4])
    BY HeadShorts DEF first
  <2>. QED
    BY <1>5, <2>1, <2>2
<1>7. ASSUME NEW j \in 1 .. m, j - 1 \in S PROVE j \in S
  <2> DEFINE v == Ping!ShortAt(p, 4 + j)
             t == f[At(j - 1, n)]
  <2>1. v \in 0 .. Ones /\ t \in Nat /\ f[At(j, n)] = t + v
    BY <1>3, <1>4, BodyShort
  <2>2. g[4 + j] = Ping!WithCarry(g[4 + (j - 1)] + v)
    <3>1. /\ 4 + j \in 0 .. (Len(p) + 1) \div 2 /\ 4 + j # 0 /\ 4 + j - 1 = 4 + (j - 1)
          /\ j \in 0 .. m
      BY <1>1, <1>2
    <3>. QED
      BY <3>1 DEF IsOnes
  <2>3. Congruent(t + c, g[4 + (j - 1)])
    BY <1>7
  <2>. HIDE DEF v, t
  <2>4. t + c \in Nat /\ (t + c) + v = (t + v) + c
    BY <1>1, <2>1
  <2> DEFINE u == t + c
  <2>. HIDE DEF u
  <2>5. Congruent(u, g[4 + (j - 1)]) /\ u \in Nat
    BY <2>3, <2>4 DEF u
  <2>6. Congruent(u + v, g[4 + j])
    BY <2>1, <2>2, <2>5, CarryIsCongruent
  <2>7. Congruent(f[At(j, n)] + c, g[4 + j])
    BY <2>1, <2>4, <2>6 DEF u
  <2>8. j \in 0 .. m
    BY <1>1
  <2>. QED
    BY <2>7, <2>8
<1>8. 0 .. m \subseteq S
  <2>. HIDE DEF S, m
  <2>. QED
    BY <1>1, <1>6, <1>7, NumbersUpTo
<1>9. At(m, n) = n /\ m \in 0 .. m
  BY <1>1 DEF At
<1>10. Congruent(f[n] + c, g[4 + m])
  BY <1>8, <1>9
<1>11. f[n] + c \in Nat
  <2>1. f[n] \in Nat
    BY <1>1, <1>3, <1>4, SumFits
  <2>. QED
    BY <1>1, <2>1
<1> DEFINE u == f[n] + c
<1>12. u \in Nat /\ Congruent(u, g[4 + m]) /\ u = k * Ones
  BY <1>10, <1>11
<1>. HIDE DEF u, m
<1>13. g[4 + m] = Ones
  BY <1>12, AllOnes
<1>. QED
  BY <1>2, <1>13

LEMMA RequestsAreRight ==
  ASSUME NEW identifier \in 0 .. Ones, NEW number \in 0 .. Ones,
         NEW body \in Seq(Bytes), Len(body) <= MaxBody
  PROVE  Ping!RequestIsRight(identifier, number, body)
<1> DEFINE first == Base * Ping!echo_request + identifier + number
           c == Ping!Checksum(Ping!echo_request, 0, identifier, number, body)
           p == Ping!EchoRequest(identifier, number, body)
<1>1. first \in Nat /\ first <= 3 * Ones /\ Len(body) \in Nat
  <2>1. /\ Base * (Base - 1) = Ping!Short - Base /\ Ping!echo_request = Base - 1
        /\ Base \in Nat /\ 2 <= Base /\ Ones = Ping!Short - 1
        /\ Ping!Short \in Nat /\ 2 * Base <= Ping!Short
    BY BytesAndShorts DEF Ones, Ping!echo_request
  <2>. QED
    BY <2>1
<1>2. PICK f : IsSum(f, first, body) /\
               c = Ping!Short - 1 - (Ping!Fold(f[Len(body)]) % Ping!Short)
  <2>1. Base * Ping!echo_request + 0 + identifier + number = first
    BY BytesAndShorts DEF Ping!echo_request
  <2> DEFINE f == CHOOSE f : IsSum(f, first, body)
  <2>2. IsSum(f, first, body)
    BY <1>1, SumExists
  <2>3. c = Ping!Short - 1 - (Ping!Fold(f[Len(body)]) % Ping!Short)
    BY <2>1 DEF Ping!Checksum, IsSum
  <2>. QED
    BY <2>2, <2>3
<1>3. f[Len(body)] \in Nat /\ f[Len(body)] < Ping!UInt
  <2>1. Len(body) \in 0 .. Len(body)
    BY <1>1
  <2>. HIDE DEF first
  <2>. QED
    BY <1>1, <1>2, <2>1, SumFits
<1>4. c \in 0 .. Ones /\ \E k \in Nat : f[Len(body)] + c = k * Ones
  <2> DEFINE sum == f[Len(body)]
  <2>. HIDE DEF sum, c
  <2>1. sum \in Nat /\ sum < Ping!UInt
    BY <1>3 DEF sum
  <2>2. LET d == Ping!Short - 1 - (Ping!Fold(sum) % Ping!Short)
        IN d \in 0 .. Ones /\ \E k \in Nat : sum + d = k * Ones
    BY <2>1, ChecksumCompletes
  <2>3. c = Ping!Short - 1 - (Ping!Fold(sum) % Ping!Short)
    BY <1>2 DEF sum
  <2>. QED
    BY <2>2, <2>3 DEF sum
<1>5. PICK k \in Nat : f[Len(body)] + c = k * Ones
  BY <1>4
<1>6. IsPacket(p, c, identifier, number, body)
  <2>1. p = PacketOf(c, identifier, number, body)
    BY DEF PacketOf, Ping!EchoRequest
  <2>. HIDE DEF p, c
  <2>. QED
    BY <1>4, <2>1, PacketsAreSo
<1>7. Ping!OnesSum(p) = Ones
  <2>. HIDE DEF p, c
  <2>1. p \in Seq(Bytes)
    BY <1>6 DEF IsPacket
  <2> DEFINE g == CHOOSE g : IsOnes(g, p)
  <2>2. IsOnes(g, p)
    BY <2>1, OnesExists
  <2>3. Ping!OnesSum(p) = g[(Len(p) + 1) \div 2]
    BY DEF Ping!OnesSum, IsOnes
  <2>. HIDE DEF g
  <2>4. g[(Len(p) + 1) \div 2] = Ones
    BY <1>2, <1>4, <1>5, <1>6, <2>2, PacketCompletes
  <2>. QED
    BY <2>3, <2>4
<1>8. Ping!Decode(p, 5) = identifier /\ Ping!Decode(p, 7) = number
  <2>. HIDE DEF p, c
  <2>1. /\ Base * p[5] + p[5 + 1] = identifier
        /\ Base * p[7] + p[7 + 1] = number
    BY <1>6 DEF IsPacket
  <2>. QED
    BY <2>1 DEF Ping!Decode
<1>. HIDE DEF c
<1>. QED
  BY <1>7, <1>8 DEF Ping!RequestIsRight, Ones

SentInv == \/ sentPacket = NoPacket
           \/ \E identifier, number \in 0 .. Ones, body \in Seq(Bytes) :
                Len(body) <= MaxBody /\ sentPacket = <<identifier, number, body>>

LEMMA SentInvStep == SentInv /\ [PacketStep]_packetVars => SentInv'
<1> SUFFICES ASSUME SentInv, PacketStep \/ UNCHANGED packetVars PROVE SentInv'
  OBVIOUS
<1>1. CASE sentPacket' = sentPacket
  BY <1>1 DEF SentInv
<1>2. CASE SendPacket
  <2>1. PICK identifier \in 0 .. Short - 1, number \in 0 .. Short - 1, length \in 0 .. MaxBody :
          \E body \in [1 .. length -> 0 .. Base - 1] :
            sentPacket' = <<identifier, number, body>>
    BY <1>2 DEF SendPacket
  <2>2. PICK body \in [1 .. length -> 0 .. Base - 1] :
          sentPacket' = <<identifier, number, body>>
    BY <2>1
  <2>3. Short = Ping!Short
    BY BytesAndShorts DEF Short
  <2>4. body \in Seq(Bytes) /\ Len(body) = length
    <3>1. length \in Nat /\ body \in [1 .. length -> Bytes]
      BY BytesAndShorts DEF Bytes
    <3>2. body \in Seq(Bytes)
      BY <3>1
    <3>. QED
      BY <3>1, <3>2
  <2>5. length <= MaxBody
    BY BytesAndShorts
  <2>. QED
    BY <2>2, <2>3, <2>4, <2>5 DEF SentInv, Ones
<1>. QED
  BY <1>1, <1>2 DEF PacketStep, packetVars

LEMMA SentIsSafe ==
  SentInv /\ sentPacket # NoPacket
    => Ping!RequestIsRight(sentPacket[1], sentPacket[2], sentPacket[3])
<1> SUFFICES ASSUME SentInv, sentPacket # NoPacket
             PROVE  Ping!RequestIsRight(sentPacket[1], sentPacket[2], sentPacket[3])
  OBVIOUS
<1>1. PICK identifier \in 0 .. Ones, number \in 0 .. Ones, body \in Seq(Bytes) :
        Len(body) <= MaxBody /\ sentPacket = <<identifier, number, body>>
  BY DEF SentInv
<1>2. Ping!RequestIsRight(identifier, number, body)
  BY <1>1, RequestsAreRight
<1>3. sentPacket[1] = identifier /\ sentPacket[2] = number /\ sentPacket[3] = body
  BY <1>1
<1>. QED
  BY <1>2, <1>3

-----------------------------------------------------------------------------
(* The executions *)

AsioNext == \/ ServerNext \/ ClientNext \/ PingNext \/ PacketNext
            \/ TimerNext \/ TcpNext \/ UdpNext \/ InvocationNext

\* A step of one program leaves the others where they are.
LEMMA ProgramsAreApart ==
  [AsioNext]_all => /\ [Next]_vars /\ [Client!Next]_clientVars /\ [Ping!Next]_pingVars
                    /\ [PacketStep]_packetVars /\ [Timer!Next]_timerVars
                    /\ [Tcp!Next]_tcpVars /\ [Udp!Next]_udpVars /\ [Invocation!Next]_queueVars
<1>1. CASE AsioNext
  BY <1>1 DEF AsioNext, ServerNext, ClientNext, PingNext, PacketNext, TimerNext, TcpNext,
              UdpNext, InvocationNext
<1>2. CASE UNCHANGED all
  BY <1>2 DEF all
<1>. QED
  BY <1>1, <1>2

AsioInv == /\ ChatInv /\ ClientInv /\ PingInv /\ HeaderInv /\ SentInv
           /\ TimerInv /\ TcpInv /\ UdpInv /\ QueueInv

LEMMA AsioInvariant == FairAsioSpec => []AsioInv
<1>1. AsioInit => AsioInv
  BY ChatInvInit, ClientInvInit, PingInvInit, TimerInvInit, TcpInvInit, UdpInvInit, QueueInvInit
     DEF AsioInit, AsioInv, PacketInit, HeaderInv, SentInv
<1>2. AsioInv /\ [AsioNext]_all => AsioInv'
  <2> SUFFICES ASSUME AsioInv, [AsioNext]_all PROVE AsioInv'
    OBVIOUS
  <2>1. /\ [Next]_vars /\ [Client!Next]_clientVars /\ [Ping!Next]_pingVars
        /\ [PacketStep]_packetVars /\ [Timer!Next]_timerVars
        /\ [Tcp!Next]_tcpVars /\ [Udp!Next]_udpVars /\ [Invocation!Next]_queueVars
    BY ProgramsAreApart
  <2>2. ChatInv' /\ ClientInv' /\ PingInv' /\ HeaderInv' /\ SentInv'
    BY <2>1, ChatInvStep, ClientInvStep, PingInvStep, HeaderInvStep, SentInvStep DEF AsioInv
  <2>3. TimerInv' /\ TcpInv' /\ UdpInv' /\ QueueInv'
    BY <2>1, TimerInvStep, TcpInvStep, UdpInvStep, QueueInvStep DEF AsioInv
  <2>. QED
    BY <2>2, <2>3 DEF AsioInv
<1>. QED
  BY <1>1, <1>2, PTL DEF FairAsioSpec, AsioNext

\* Writes of the chat server and of its client do not overlap, and go on as
\* long as something waits; each session of a small server has one operation,
\* the echo server of UDP one for ever.
THEOREM OneOperation == FairAsioSpec => []OneOperationAtATime
<1>1. AsioInv => OneOperationAtATime
  BY ChatIsSafe, ClientIsSafe, PingIsSafe, TimerIsSafe, TcpIsSafe, UdpIsSafe
     DEF AsioInv, OneOperationAtATime, TypesOK
<1>. QED
  BY <1>1, AsioInvariant, PTL

\* Nothing that is sent is left out, comes twice or out of order: the messages
\* of the chat, the lines of its client, echoes, answers, and handlers.
THEOREM NothingMissed == FairAsioSpec => []NothingIsMissed
<1>1. AsioInv => NothingIsMissed
  BY ChatIsSafe, ClientIsSafe, TcpIsSafe, UdpIsSafe, QueueIsSafe DEF AsioInv, NothingIsMissed
<1>. QED
  BY <1>1, AsioInvariant, PTL

\* What ping counts and reports is true, the counts of the timers end where
\* they should, a request has a checksum that its receiver accepts, and an
\* ICMP header is found where it is.
THEOREM CountsRight == FairAsioSpec => []CountsAreRight
<1>1. AsioInv => CountsAreRight
  BY PingIsSafe, TimerIsSafe, SentIsSafe, HeaderIsSafe
     DEF AsioInv, CountsAreRight, PacketIsRight
<1>. QED
  BY <1>1, AsioInvariant, PTL

\* "Requests must be sent no less than one second apart" (ping.cpp:70)
THEOREM PingIsSlow == FairAsioSpec => RequestsAreASecondApart
<1>1. AsioInv /\ [AsioNext]_all => [request' # request => elapsed >= 1]_(Ping!vars)
  <2>1. SUFFICES ASSUME AsioInv, [AsioNext]_all, request' # request PROVE elapsed >= 1
    OBVIOUS
  <2>2. [Ping!Next]_pingVars
    BY <2>1, ProgramsAreApart
  <2>. QED
    BY <2>1, <2>2, PingIsPatient DEF AsioInv
<1>. QED
  BY <1>1, AsioInvariant, PTL
     DEF FairAsioSpec, AsioNext, RequestsAreASecondApart, Ping!SecondApart
==============================================================================
