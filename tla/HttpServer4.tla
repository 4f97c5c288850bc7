----------------------------- MODULE HttpServer4 -----------------------------
(***************************************************************************)
(* http_server4: the server is a coroutine.  It is the handler of its own  *)
(* operations, each of which holds a copy of it; a fork makes a copy that  *)
(* handles the connection, while the parent accepts the next one.  Copies  *)
(* share what their shared_ptrs point to: socket_, buffer_, request_.      *)
(*                                                                         *)
(* One thread runs the io_context.  request_parser_ is the choice of its   *)
(* result, see RequestParser4.                                             *)
(***************************************************************************)
EXTENDS Naturals, FiniteSets

CONSTANT Conns \* sockets; one is used again when nothing points to it

Finished == {"ok", "error"}

VARIABLES socket,      \* socket_ of the parent; empty when the parent is gone
          accept,      \* its async_accept
          forks,       \* the sockets to which a child has a socket_
          read, write, \* the async_read_some and async_write on each socket
          signal,      \* the async_wait of signals
          running      \* io_context.run() has not returned

ops == <<read, write>>
vars == <<socket, accept, forks, ops, signal, running>>

Init == /\ \E c \in Conns : socket = {c}
        /\ accept = "pending" /\ signal = "pending" /\ running = TRUE
        /\ forks = {}
        /\ read = [c \in Conns |-> "none"]
        /\ write = [c \in Conns |-> "none"]

AcceptInChild == \* mutant: the child goes on in the loop, the parent leaves it
  /\ running /\ accept = "ok"
  /\ forks' = forks \cup socket
  /\ read' = [c \in Conns |-> IF c \in socket THEN "pending" ELSE read[c]]
  /\ accept' = "pending"
  /\ UNCHANGED <<socket, write, signal, running>>

\* fork: the child runs up to its first read, then the parent takes a socket.
Fork ==
  /\ running /\ accept = "ok"
  /\ forks' = forks \cup socket
  /\ read' = [c \in Conns |-> IF c \in socket THEN "pending" ELSE read[c]]
  /\ \E c \in Conns \ forks' : socket' = {c}
  /\ accept' = "pending"
  /\ UNCHANGED <<write, signal, running>>

AcceptFails == \* the coroutine is not reentered, nobody accepts any more
  /\ running /\ accept = "error"
  /\ accept' = "none" /\ socket' = {}
  /\ UNCHANGED <<forks, ops, signal, running>>

KeepCopy(c) == UNCHANGED forks \* mutant: a copy stays behind

\* A handler of c has ended without starting an operation: its copy is
\* destroyed, and the socket with it.
Drop(c) == forks' = forks \ {c}

ReadMore(c) == \* the parser's result is indeterminate
  /\ running /\ read[c] = "ok"
  /\ read' = [read EXCEPT ![c] = "pending"]
  /\ UNCHANGED <<socket, accept, forks, write, signal, running>>

Reply(c) == \* from request_handler_, or a bad_request
  /\ running /\ read[c] = "ok"
  /\ read' = [read EXCEPT ![c] = "none"]
  /\ write' = [write EXCEPT ![c] = "pending"]
  /\ UNCHANGED <<socket, accept, forks, signal, running>>

ReadFails(c) ==
  /\ running /\ read[c] = "error"
  /\ read' = [read EXCEPT ![c] = "none"]
  /\ Drop(c)
  /\ UNCHANGED <<socket, accept, write, signal, running>>

HandleWrite(c) == \* shutdown, or the error
  /\ running /\ write[c] \in Finished
  /\ write' = [write EXCEPT ![c] = "none"]
  /\ Drop(c)
  /\ UNCHANGED <<socket, accept, read, signal, running>>

Stop == \* io_context::stop, bound to signals
  /\ running /\ signal = "ok"
  /\ running' = FALSE /\ signal' = "none"
  /\ UNCHANGED <<socket, accept, forks, ops>>

-----------------------------------------------------------------------------
(* The operating system *)

\* bound: a connection is accepted while another socket is free.
Connect == /\ accept = "pending" /\ Conns \ (forks \cup socket) # {}
           /\ accept' \in Finished
           /\ UNCHANGED <<socket, forks, ops, signal, running>>

Arrive(c) == /\ read[c] = "pending"
             /\ \E r \in Finished : read' = [read EXCEPT ![c] = r]
             /\ UNCHANGED <<socket, accept, forks, write, signal, running>>

Depart(c) == /\ write[c] = "pending"
             /\ \E r \in Finished : write' = [write EXCEPT ![c] = r]
             /\ UNCHANGED <<socket, accept, forks, read, signal, running>>

Interrupt == /\ signal = "pending" /\ signal' = "ok"
             /\ UNCHANGED <<socket, accept, forks, ops, running>>

Handle(c) == ReadMore(c) \/ Reply(c) \/ ReadFails(c) \/ HandleWrite(c)

Next == \/ Fork \/ AcceptFails \/ Stop
        \/ \E c \in Conns : Handle(c) \/ Arrive(c) \/ Depart(c)
        \/ Connect \/ Interrupt

\* The io_context takes handlers in the order in which operations finished.
Fairness == WF_vars(Stop)

-----------------------------------------------------------------------------
(* Properties *)

\* The variables keep their types, and there is one parent at most.
TypeOK == /\ socket \subseteq Conns /\ Cardinality(socket) <= 1
          /\ accept \in {"none", "pending", "ok", "error"}
          /\ forks \subseteq Conns
          /\ read \in [Conns -> {"none", "pending", "ok", "error"}]
          /\ write \in [Conns -> {"none", "pending", "ok", "error"}]
          /\ signal \in {"none", "pending", "ok"} /\ running \in BOOLEAN

\* Copies do not meet: no socket is both accepted on and read or written, and
\* each child waits for one operation, which keeps it alive: none is lost.
CopiesAreApart ==
  /\ socket \cap forks = {}
  /\ \A c \in Conns :
       LET underWay == (IF read[c] # "none" THEN {"read"} ELSE {})
                         \cup (IF write[c] # "none" THEN {"write"} ELSE {})
       IN Cardinality(underWay) = (IF c \in forks THEN 1 ELSE 0)

\* There is one accept for as long as there is a parent.
ParentAccepts == (accept = "none") <=> (socket = {})

\* run() returns after a signal, whatever is under way.
RunReturns == (signal = "ok") ~> ~running
==============================================================================
