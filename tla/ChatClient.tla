----------------------------- MODULE ChatClient -----------------------------
(***************************************************************************)
(* chat_client/chat_client.cpp: main() reads lines and posts them to the   *)
(* thread t, which runs the io_context until it has no work left.  The     *)
(* handlers run on t, one step each; an operation is pending, then         *)
(* finished with a result while its handler waits.                         *)
(*                                                                         *)
(* A line is its number.  The server is the choice of how operations end.  *)
(***************************************************************************)
EXTENDS Naturals, Sequences

CONSTANT MaxLines \* bound: the lines typed

Finished == {"ok", "error"}
Status == {"none", "pending"} \cup Finished
Close == 0 \* do_close, among the numbers of lines

VARIABLES main,      \* where main() is
          typed,     \* the number of lines typed
          posted,    \* the calls of do_write and do_close posted to io_context_
          running,   \* run() has not returned
          socket,    \* "connecting", "connected" or "closed"
          connect,   \* the async_connect
          part,      \* what is read: "header" or "body"
          read, write, \* the async_read and async_write
          writeMsgs, \* write_msgs_
          sent       \* auxiliary: the lines written to the server

ops == <<connect, part, read, write>>
vars == <<main, typed, posted, running, socket, ops, writeMsgs, sent>>

Init == /\ main = "typing" /\ typed = 0
        /\ posted = <<>> /\ running = TRUE
        /\ socket = "connecting" /\ connect = "pending"
        /\ part = "header" /\ read = "none" /\ write = "none"
        /\ writeMsgs = <<>> /\ sent = <<>>

-----------------------------------------------------------------------------
(* main() *)

Type == \* c.write(msg)
  /\ main = "typing" /\ typed < MaxLines
  /\ typed' = typed + 1
  /\ posted' = Append(posted, typed')
  /\ UNCHANGED <<main, running, socket, ops, writeMsgs, sent>>

EndOfInput == \* c.close(), t.join()
  /\ main = "typing"
  /\ main' = "joining"
  /\ posted' = Append(posted, Close)
  /\ UNCHANGED <<typed, running, socket, ops, writeMsgs, sent>>

Joined ==
  /\ main = "joining" /\ ~running
  /\ main' = "returned"
  /\ UNCHANGED <<typed, posted, running, socket, ops, writeMsgs, sent>>

-----------------------------------------------------------------------------
(* The handlers, on t *)

Started == IF socket = "connected" THEN "pending" ELSE "error"

Abort(status) == IF status = "pending" THEN "error" ELSE status

\* do_close(), at the end of a handler that leaves r and w under way
DoClose(r, w) ==
  /\ socket' = "closed"
  /\ connect' = Abort(connect)
  /\ read' = Abort(r) /\ write' = Abort(w)

\* The intermediate handler of async_connect makes it an error if the socket
\* was closed in the meantime.
HandleConnect ==
  /\ running /\ connect \in Finished
  /\ connect' = "none"
  /\ IF connect = "ok" /\ socket = "connected" THEN read' = "pending"
                                              ELSE UNCHANGED read
  /\ UNCHANGED <<main, typed, posted, running, socket, part, write, writeMsgs, sent>>

HandleRead == \* of a header, then of a body, then of a header
  /\ running /\ read = "ok"
  /\ read' = Started
  /\ part' = IF part = "header" THEN "body" ELSE "header"
  /\ UNCHANGED <<main, typed, posted, running, socket, connect, write, writeMsgs, sent>>

HandleReadFails == \* or decode_header() refuses the header
  /\ running /\ (read = "error" \/ (read = "ok" /\ part = "header"))
  /\ DoClose("none", write)
  /\ UNCHANGED <<main, typed, posted, running, part, writeMsgs, sent>>

HeadIs(x) == running /\ posted # <<>> /\ Head(posted) = x

DoWriteIfIdle(n) == \* mutant: a message is lost when a write is under way
  /\ HeadIs(n) /\ posted' = Tail(posted)
  /\ writeMsgs' = IF writeMsgs = <<>> THEN <<n>> ELSE writeMsgs
  /\ write' = IF writeMsgs = <<>> THEN Started ELSE write
  /\ UNCHANGED <<main, typed, running, socket, connect, part, read, sent>>

DoWrite(n) ==
  /\ HeadIs(n) /\ posted' = Tail(posted)
  /\ writeMsgs' = Append(writeMsgs, n)
  /\ write' = IF writeMsgs = <<>> THEN Started ELSE write
  /\ UNCHANGED <<main, typed, running, socket, connect, part, read, sent>>

WriteOnlyFront == \* mutant: the next message is not written
  /\ running /\ write = "ok"
  /\ sent' = Append(sent, Head(writeMsgs))
  /\ writeMsgs' = Tail(writeMsgs)
  /\ write' = "none"
  /\ UNCHANGED <<main, typed, posted, running, socket, connect, part, read>>

HandleWrite ==
  /\ running /\ write = "ok"
  /\ sent' = Append(sent, Head(writeMsgs))
  /\ writeMsgs' = Tail(writeMsgs)
  /\ write' = IF writeMsgs' = <<>> THEN "none" ELSE Started
  /\ UNCHANGED <<main, typed, posted, running, socket, connect, part, read>>

HandleWriteFails ==
  /\ running /\ write = "error"
  /\ DoClose(read, "none")
  /\ UNCHANGED <<main, typed, posted, running, part, writeMsgs, sent>>

CloseNothing == \* mutant: do_close() leaves the socket open
  /\ HeadIs(Close) /\ posted' = Tail(posted)
  /\ UNCHANGED <<main, typed, running, socket, ops, writeMsgs, sent>>

HandleClose ==
  /\ HeadIs(Close) /\ posted' = Tail(posted)
  /\ DoClose(read, write)
  /\ UNCHANGED <<main, typed, running, part, writeMsgs, sent>>

Return == \* run() has nothing to do any more; what is posted later waits for ever
  /\ running /\ posted = <<>>
  /\ connect = "none" /\ read = "none" /\ write = "none"
  /\ running' = FALSE
  /\ UNCHANGED <<main, typed, posted, socket, ops, writeMsgs, sent>>

-----------------------------------------------------------------------------
(* The network *)

Connected ==
  /\ connect = "pending"
  /\ connect' \in Finished
  /\ socket' = IF connect' = "ok" THEN "connected" ELSE socket
  /\ UNCHANGED <<main, typed, posted, running, part, read, write, writeMsgs, sent>>

Arrive ==
  /\ read = "pending" /\ read' \in Finished
  /\ UNCHANGED <<main, typed, posted, running, socket, connect, part, write, writeMsgs, sent>>

Depart ==
  /\ write = "pending" /\ write' \in Finished
  /\ UNCHANGED <<main, typed, posted, running, socket, connect, part, read, writeMsgs, sent>>

Posted == HandleClose \/ \E n \in 1 .. MaxLines : DoWrite(n)

Handle == \/ HandleConnect \/ HandleRead \/ HandleReadFails
          \/ HandleWrite \/ HandleWriteFails \/ Posted \/ Return

Next == Type \/ EndOfInput \/ Joined \/ Handle \/ Connected \/ Arrive \/ Depart

Spec == Init /\ [][Next]_vars

\* The threads run, and posted calls are taken in turn with other handlers; of
\* Handle and Joined only one is enabled, they are fair each.
Fairness == WF_vars(Handle \/ Joined) /\ SF_vars(Posted)

-----------------------------------------------------------------------------
(* Properties *)

\* The variables keep their types.
TypeOK ==
  /\ main \in {"typing", "joining", "returned"} /\ typed \in 0 .. MaxLines
  /\ posted \in Seq(0 .. MaxLines) /\ running \in BOOLEAN
  /\ socket \in {"connecting", "connected", "closed"}
  /\ {connect, read, write} \subseteq Status /\ part \in {"header", "body"}
  /\ writeMsgs \in Seq(1 .. MaxLines) /\ sent \in Seq(1 .. MaxLines)

\* A write is under way for the front of write_msgs_, and always for it while
\* the client has its connection: do_write() and handle_write() decide this
\* from whether the queue is empty, also after a write that failed.
OneWrite ==
  /\ write # "none" => writeMsgs # <<>>
  /\ socket = "connected" /\ writeMsgs # <<>> => write # "none"

\* Lines go through the posted calls and write_msgs_ in the order in which they
\* were typed; none is sent twice, or sent after one that was not, and close()
\* is called after the last.
LinesAreSentInOrder ==
  LET lines == [k \in 1 .. typed |-> k]
  IN sent \o writeMsgs \o posted \in {lines, Append(lines, Close)}

\* After the end of the input the program ends: close() ends what is under way.
ClientReturns == (main = "joining") ~> (main = "returned")
==============================================================================
