---------------------------- MODULE HttpServerPool ----------------------------
(***************************************************************************)
(* http_server2 and http_server3: the server on several threads.  In the   *)
(* former each thread runs an io_context of its own, and the sockets are   *)
(* spread over them; in the latter all threads run one.  Their             *)
(* connections have no manager, no lock and a strand that is not used.     *)
(*                                                                         *)
(* A thread takes a finished operation and runs its handler; a handler is  *)
(* split where it starts an operation that another thread may finish while *)
(* it goes on.  Of a context that is stopped no handler is taken any more. *)
(***************************************************************************)
EXTENDS Naturals, FiniteSets

CONSTANTS NumThreads, \* the size of the pool
          Conns       \* connection objects; used again when destroyed

Threads == 0 .. NumThreads - 1

VARIABLES server,     \* 2 or 3
          next,       \* next_io_context_
          context,    \* the io_context of each connection's socket
          newConn,    \* new_connection_
          accept,     \* the async_accept
          signal,     \* the async_wait of signals_
          read, write, \* the async_read_some and async_write of each connection
          at, conn,   \* where a thread is, and the connection it handles
          stopped,    \* the io_contexts that were stopped
          toStop      \* i, of io_context_pool::stop()

ops == <<read, write>>
vars == <<server, next, context, newConn, accept, signal, ops, at, conn, stopped, toStop>>

NumContexts == IF server = 2 THEN NumThreads ELSE 1
ContextOf(t) == IF server = 2 THEN t ELSE 0

AfterTheLast(i) == IF i = NumContexts THEN 0 ELSE i + 1 \* mutant: tested before ++

\* get_io_context(): the contexts in turn
After(i) == IF i + 1 = NumContexts THEN 0 ELSE i + 1

SignalContext == 0
AcceptorContext == After(0)

Init == /\ server \in {2, 3}
        /\ newConn \in Conns
        /\ context = [c \in Conns |-> After(After(0))]
        /\ next = After(After(After(0)))
        /\ accept = "pending" /\ signal = "pending"
        /\ read = [c \in Conns |-> "none"]
        /\ write = [c \in Conns |-> "none"]
        /\ at = [t \in Threads |-> "run"]
        /\ conn = [t \in Threads |-> newConn]
        /\ stopped = {} /\ toStop = 0

Finished == {"ok", "error"}

\* t, in io_context::run(), can take a handler of context k.
Takes(t, k) == at[t] = "run" /\ ContextOf(t) = k /\ k \notin stopped

Goto(t, to) == at' = [at EXCEPT ![t] = to]

\* Nothing refers to c: its destructor has run.
Destroyed(c) == /\ c # newConn /\ read[c] = "none" /\ write[c] = "none"
                /\ \A t \in Threads : at[t] = "read" => conn[t] # c

-----------------------------------------------------------------------------
(* server *)

HandleAccept(t) ==
  /\ accept \in Finished /\ Takes(t, AcceptorContext)
  /\ accept' = "none"
  /\ Goto(t, IF accept = "ok" THEN "start" ELSE "accept")
  /\ UNCHANGED <<server, next, context, newConn, signal, ops, conn, stopped, toStop>>

StartLate(t) == \* mutant: start() after start_accept()
  /\ at[t] = "start"
  /\ Goto(t, "accept")
  /\ accept' = "pending"
  /\ read' = [read EXCEPT ![newConn] = "pending"]
  /\ UNCHANGED <<server, next, context, newConn, signal, write, conn, stopped, toStop>>

Start(t) == \* new_connection_->start(): another thread may run handle_read()
  /\ at[t] = "start"
  /\ Goto(t, "accept")
  /\ read' = [read EXCEPT ![newConn] = "pending"]
  /\ UNCHANGED <<server, next, context, newConn, accept, signal, write, conn, stopped,
                 toStop>>

StartAccept(t) ==
  /\ at[t] = "accept"
  /\ Goto(t, "run")
  /\ \E c \in Conns :
       /\ Destroyed(c)
       /\ newConn' = c
       /\ context' = [context EXCEPT ![c] = next]
  /\ next' = After(next)
  /\ accept' = "pending"
  /\ UNCHANGED <<server, signal, ops, conn, stopped, toStop>>

HandleStop(t) ==
  /\ signal = "ok" /\ Takes(t, SignalContext)
  /\ signal' = "none"
  /\ Goto(t, "stop")
  /\ UNCHANGED <<server, next, context, newConn, accept, ops, conn, stopped, toStop>>

StopOwn(t) == \* mutant: only the context of the caller is stopped
  /\ at[t] = "stop"
  /\ stopped' = stopped \cup {0}
  /\ Goto(t, "run")
  /\ UNCHANGED <<server, next, context, newConn, accept, signal, ops, conn, toStop>>

Stop(t) == \* io_contexts_[i]->stop(): its threads may return at once
  /\ at[t] = "stop"
  /\ stopped' = stopped \cup {toStop}
  /\ toStop' = toStop + 1
  /\ Goto(t, IF toStop' = NumContexts THEN "run" ELSE "stop")
  /\ UNCHANGED <<server, next, context, newConn, accept, signal, ops, conn>>

Return(t) == \* io_context::run() returns, the thread ends
  /\ at[t] = "run" /\ ContextOf(t) \in stopped
  /\ Goto(t, "end")
  /\ UNCHANGED <<server, next, context, newConn, accept, signal, ops, conn, stopped,
                 toStop>>

-----------------------------------------------------------------------------
(* connection *)

HandleRead(t) == \* after an error nothing is started, and c is destroyed
  \E c \in Conns :
    /\ read[c] \in Finished /\ Takes(t, context[c])
    /\ read' = [read EXCEPT ![c] = "none"]
    /\ IF read[c] = "ok" THEN Goto(t, "read") /\ conn' = [conn EXCEPT ![t] = c]
                         ELSE UNCHANGED <<at, conn>>
    /\ UNCHANGED <<server, next, context, newConn, accept, signal, write, stopped, toStop>>

ReadOnAndReply(t) == \* mutant: it reads on while the reply is written
  /\ at[t] = "read"
  /\ Goto(t, "run")
  /\ read' = [read EXCEPT ![conn[t]] = "pending"]
  /\ write' = [write EXCEPT ![conn[t]] = "pending"]
  /\ UNCHANGED <<server, next, context, newConn, accept, signal, conn, stopped, toStop>>

\* The end of handle_read(): the reply, or more of the request.
ReplyOrReadOn(t) ==
  /\ at[t] = "read"
  /\ Goto(t, "run")
  /\ \/ write' = [write EXCEPT ![conn[t]] = "pending"] /\ UNCHANGED read
     \/ read' = [read EXCEPT ![conn[t]] = "pending"] /\ UNCHANGED write
  /\ UNCHANGED <<server, next, context, newConn, accept, signal, conn, stopped, toStop>>

HandleWrite(t) == \* shutdown, and c is destroyed
  \E c \in Conns :
    /\ write[c] \in Finished /\ Takes(t, context[c])
    /\ write' = [write EXCEPT ![c] = "none"]
    /\ UNCHANGED <<server, next, context, newConn, accept, signal, read, at, conn,
                   stopped, toStop>>

-----------------------------------------------------------------------------
(* The operating system *)

\* bound: a connection is accepted while another object is free.
Connect ==
  /\ accept = "pending" /\ \E c \in Conns : Destroyed(c)
  /\ accept' \in Finished
  /\ UNCHANGED <<server, next, context, newConn, signal, ops, at, conn, stopped, toStop>>

Arrive(c) ==
  /\ read[c] = "pending"
  /\ \E r \in Finished : read' = [read EXCEPT ![c] = r]
  /\ UNCHANGED <<server, next, context, newConn, accept, signal, write, at, conn,
                 stopped, toStop>>

Depart(c) ==
  /\ write[c] = "pending"
  /\ \E r \in Finished : write' = [write EXCEPT ![c] = r]
  /\ UNCHANGED <<server, next, context, newConn, accept, signal, read, at, conn,
                 stopped, toStop>>

Interrupt ==
  /\ signal = "pending" /\ signal' = "ok"
  /\ UNCHANGED <<server, next, context, newConn, accept, ops, at, conn, stopped, toStop>>

Step(t) == \/ HandleAccept(t) \/ Start(t) \/ StartAccept(t)
           \/ HandleStop(t) \/ Stop(t) \/ Return(t)
           \/ HandleRead(t) \/ ReplyOrReadOn(t) \/ HandleWrite(t)

Next == \/ \E t \in Threads : Step(t)
        \/ Connect \/ Interrupt
        \/ \E c \in Conns : Arrive(c) \/ Depart(c)

Spec == Init /\ [][Next]_vars

\* Threads run; an io_context takes the handlers in the order in which their
\* operations finished, so that handle_stop() is not passed over for ever.
Fairness == /\ \A t \in Threads : WF_vars(Step(t))
            /\ SF_vars(\E t \in Threads : HandleStop(t))

-----------------------------------------------------------------------------
(* Properties *)

\* The variables keep their types.
TypeOK ==
  /\ next \in 0 .. NumContexts - 1
  /\ context \in [Conns -> 0 .. NumContexts - 1]
  /\ newConn \in Conns
  /\ read \in [Conns -> {"none", "pending", "ok", "error"}]
  /\ write \in [Conns -> {"none", "pending", "ok", "error"}]
  /\ at \in [Threads -> {"run", "start", "accept", "read", "stop", "end"}]
  /\ toStop \in 0 .. NumContexts /\ stopped = 0 .. toStop - 1

Handlers(c) == {t \in Threads : \/ at[t] = "start" /\ newConn = c
                                \/ at[t] = "read" /\ conn[t] = c}

\* A thread that works on a connection has it for itself: no other thread is
\* in one of its handlers and no operation is under way whose end could
\* start one, although start() is called on the thread of the acceptor and
\* strand_ (http_server3/connection.cpp:24) is never used.
OneThreadEach ==
  \A c \in Conns :
    LET underWay == {o \in {"read", "write"} :
                       (IF o = "read" THEN read[c] ELSE write[c]) # "none"}
    IN Cardinality(Handlers(c)) + Cardinality(underWay) <= 1

\* There is one accept, or one thread about to start it: new_connection_ and
\* next_io_context_ have no lock and never two users.
OneAcceptor ==
  LET accepting == {t \in Threads : at[t] \in {"start", "accept"}}
  IN IF accept = "none" THEN Cardinality(accepting) = 1 ELSE accepting = {}

\* After a signal all threads return from run(), whatever they are doing.
RunReturns == (signal = "ok") ~> \A t \in Threads : at[t] = "end"
==============================================================================
