----------------------------- MODULE HttpServer -----------------------------
(***************************************************************************)
(* http_server: server.cpp, connection.cpp and connection_manager.cpp.     *)
(* One thread runs the io_context.  An asynchronous operation is pending,  *)
(* then finished with a result while its handler waits to run, and close() *)
(* aborts what is pending but not what has finished: a handler may learn   *)
(* of a success when its socket is already closed.  An operation started   *)
(* on a closed socket fails, with an error other than operation_aborted.   *)
(*                                                                         *)
(* request_parser_ and request_handler_ are the choice of a result.        *)
(***************************************************************************)
EXTENDS Naturals, FiniteSets

CONSTANT Conns \* connection objects; one is used again when it is destroyed

ASSUME HttpAssumption == IsFiniteSet(Conns) /\ Conns # {}

Results == {"ok", "error", "aborted"}
Status == {"none", "pending"} \cup Results

VARIABLES connections, \* connections_
          newConn,     \* new_connection_
          acceptor,    \* whether acceptor_ is open
          accept,      \* the async_accept
          signal,      \* the async_wait of signals_
          open,        \* the connections whose socket is open
          read, write  \* the async_read_some and async_write of each connection

ops == <<read, write>>
vars == <<connections, newConn, acceptor, accept, signal, open, ops>>

Init == /\ connections = {} /\ open = {}
        /\ newConn \in Conns
        /\ acceptor = TRUE
        /\ accept = "pending"
        /\ signal = "pending"
        /\ read = [c \in Conns |-> "none"]
        /\ write = [c \in Conns |-> "none"]

\* Nothing refers to c: its destructor has run.
Destroyed(c) == /\ c \notin connections /\ c # newConn
                /\ read[c] = "none" /\ write[c] = "none"

-----------------------------------------------------------------------------
(* connection and connection_manager *)

Started(c) == IF c \in open THEN "pending" ELSE "error"

StartRead(c) == read' = [read EXCEPT ![c] = Started(c)]

ReplyAndRead(c) == \* mutant: the next read is started before the reply is sent
  /\ read' = [read EXCEPT ![c] = Started(c)]
  /\ write' = [write EXCEPT ![c] = Started(c)]

Reply(c) == /\ read' = [read EXCEPT ![c] = "none"]
            /\ write' = [write EXCEPT ![c] = Started(c)]

Abort(status) == IF status = "pending" THEN "aborted" ELSE status

\* Closes the sockets of cs; finished operations keep their results.
Close(cs, r, w) ==
  /\ open' = open \ cs
  /\ read' = [c \in Conns |-> IF c \in cs THEN Abort(r[c]) ELSE r[c]]
  /\ write' = [c \in Conns |-> IF c \in cs THEN Abort(w[c]) ELSE w[c]]

StopUnlisted(c) == \* mutant: connections_.erase(c) without c->stop()
  /\ connections' = connections \ {c}
  /\ read' = [read EXCEPT ![c] = "none"]
  /\ write' = [write EXCEPT ![c] = "none"]
  /\ UNCHANGED open

\* connection_manager::stop, at the end of a handler of c
Stop(c) ==
  /\ connections' = connections \ {c}
  /\ Close({c}, [read EXCEPT ![c] = "none"], [write EXCEPT ![c] = "none"])

HandleRead(c) ==
  /\ \/ /\ read[c] = "ok" \* the request is complete, or bad
        /\ Reply(c)
        /\ UNCHANGED <<connections, open>>
     \/ /\ read[c] = "ok" \* the parser needs more
        /\ StartRead(c)
        /\ UNCHANGED <<connections, open, write>>
     \/ /\ read[c] = "error"
        /\ Stop(c)
     \/ /\ read[c] = "aborted"
        /\ read' = [read EXCEPT ![c] = "none"]
        /\ UNCHANGED <<connections, open, write>>
  /\ UNCHANGED <<newConn, acceptor, accept, signal>>

HandleWrite(c) ==
  /\ write[c] \in Results
  /\ IF write[c] = "aborted"
     THEN write' = [write EXCEPT ![c] = "none"] /\ UNCHANGED <<connections, open, read>>
     ELSE Stop(c)
  /\ UNCHANGED <<newConn, acceptor, accept, signal>>

-----------------------------------------------------------------------------
(* server *)

\* bound: the listener accepts a connection while another object is free.
StartAccept == /\ accept' = "pending"
               /\ newConn' \in {c \in Conns \ {newConn} : Destroyed(c)}

HandleAcceptAnyway == \* mutant: acceptor_.is_open() is not tested
  /\ accept \in Results
  /\ StartAccept
  /\ IF accept = "ok"
     THEN /\ connections' = connections \cup {newConn} /\ StartRead(newConn)
     ELSE UNCHANGED <<connections, read>>
  /\ UNCHANGED <<acceptor, signal, open, write>>

HandleAcceptOnce == \* mutant: an error ends the loop of accepts
  /\ accept \in Results
  /\ IF accept = "ok" /\ acceptor
     THEN StartAccept /\ connections' = connections \cup {newConn} /\ StartRead(newConn)
     ELSE accept' = "none" /\ UNCHANGED <<connections, newConn, read>>
  /\ UNCHANGED <<acceptor, signal, open, write>>

HandleAccept ==
  /\ accept \in Results
  /\ IF ~acceptor
     THEN accept' = "none" /\ UNCHANGED <<connections, newConn, read>>
     ELSE /\ StartAccept
          /\ IF accept = "ok"
             THEN connections' = connections \cup {newConn} /\ StartRead(newConn)
             ELSE UNCHANGED <<connections, read>>
  /\ UNCHANGED <<acceptor, signal, open, write>>

HandleStopAcceptor == \* mutant: connection_manager_.stop_all() is missing
  /\ signal = "ok" /\ signal' = "none"
  /\ acceptor' = FALSE
  /\ accept' = Abort(accept)
  /\ UNCHANGED <<connections, newConn, open, ops>>

HandleStop ==
  /\ signal = "ok" /\ signal' = "none"
  /\ acceptor' = FALSE
  /\ accept' = Abort(accept)
  /\ connections' = {}
  /\ Close(connections, read, write)
  /\ UNCHANGED newConn

-----------------------------------------------------------------------------
(* The operating system *)

Connect ==
  /\ accept = "pending"
  /\ \E c \in Conns \ {newConn} : Destroyed(c)
  /\ \/ accept' = "ok" /\ open' = open \cup {newConn}
     \/ accept' = "error" /\ UNCHANGED open
  /\ UNCHANGED <<connections, newConn, acceptor, signal, ops>>

Arrive(c) ==
  /\ read[c] = "pending"
  /\ \E r \in {"ok", "error"} : read' = [read EXCEPT ![c] = r]
  /\ UNCHANGED <<connections, newConn, acceptor, accept, signal, open, write>>

Depart(c) ==
  /\ write[c] = "pending"
  /\ \E r \in {"ok", "error"} : write' = [write EXCEPT ![c] = r]
  /\ UNCHANGED <<connections, newConn, acceptor, accept, signal, open, read>>

Interrupt ==
  /\ signal = "pending" /\ signal' = "ok"
  /\ UNCHANGED <<connections, newConn, acceptor, accept, open, ops>>

Returned == \* io_context_.run() has returned: no operation is left
  /\ accept = "none" /\ signal = "none"
  /\ \A c \in Conns : read[c] = "none" /\ write[c] = "none"

Handler == \/ \E c \in Conns : HandleRead(c) \/ HandleWrite(c)
           \/ HandleAccept \/ HandleStop

Next == \/ Handler \/ Connect \/ Interrupt
        \/ \E c \in Conns : Arrive(c) \/ Depart(c)

Spec == Init /\ [][Next]_vars

\* The io_context runs the handlers in the order their operations finished;
\* a write finishes; nobody need connect, send or interrupt.
Fairness == /\ WF_vars(HandleAccept) /\ WF_vars(HandleStop)
            /\ \A c \in Conns : /\ WF_vars(HandleRead(c)) /\ WF_vars(HandleWrite(c))
                                /\ WF_vars(Depart(c))

-----------------------------------------------------------------------------
(* Properties *)

\* The variables keep their types, and open sockets belong to live objects.
TypeOK ==
  /\ connections \subseteq Conns /\ open \subseteq Conns
  /\ newConn \in Conns /\ acceptor \in BOOLEAN
  /\ accept \in Status /\ signal \in Status
  /\ read \in [Conns -> Status] /\ write \in [Conns -> Status]
  /\ \A c \in open : ~Destroyed(c)

\* The manager "owns all live connections" (server.hpp:56): a connection is
\* listed exactly while its socket is open, unless it is still the one to be
\* accepted, and while it is listed one operation is under way.
ManagerOwnsLiveConnections ==
  /\ connections = open \ {newConn}
  /\ \A c \in connections : read[c] # "none" \/ write[c] # "none"

\* A connection has one operation under way at a time, so that its handlers
\* share request_, reply_ and buffer_ without a lock.
OneOperationEach == \A c \in Conns : read[c] = "none" \/ write[c] = "none"

\* "While the server is running, there is always at least one asynchronous
\* operation outstanding: the asynchronous accept call" (server.cpp:52-54).
AcceptIsOutstanding == signal # "none" => accept # "none"

\* After handle_stop() no connection starts, also if it had been accepted
\* when the signal came (lines 69-74).
NothingStartsAfterStop == signal = "none" => ~acceptor /\ connections = {}

\* After a signal "the io_context::run() call will exit" (lines 86-88),
\* whatever operations are under way and however clients behave.
RunReturnsAfterSignal == (signal = "ok") ~> []Returned
==============================================================================
