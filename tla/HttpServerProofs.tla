--------------------------- MODULE HttpServerProofs ---------------------------
(***************************************************************************)
(* Safety of the HTTP servers for any number of connections and threads:   *)
(* first http_server alone (TypeInv to TypeCorrect), then http_server2 and *)
(* http_server3 (Pool), http_server4 (Coro), the executions of             *)
(* MCHttpServer, and the request handler for uris of any length (Files).   *)
(***************************************************************************)
EXTENDS MCHttpServer, Sequences, FiniteSetTheorems, WellFoundedInduction, TLAPS

-----------------------------------------------------------------------------
(* http_server *)

TypeInv ==
  /\ connections \subseteq Conns /\ open \subseteq Conns
  /\ newConn \in Conns /\ acceptor \in BOOLEAN
  /\ accept \in Status /\ signal \in {"pending", "ok", "none"}
  /\ read \in [Conns -> Status] /\ write \in [Conns -> Status]

\* The accept goes on while the acceptor is open, which is until the signal
\* is handled, and its socket is open once it has succeeded.
AcceptorInv ==
  /\ acceptor <=> signal # "none"
  /\ acceptor => accept \notin {"none", "aborted"}
  /\ acceptor => (accept = "ok" <=> newConn \in open)
  /\ read[newConn] = "none" /\ write[newConn] = "none"

\* What a connection's operation says of its place in the manager.
ConnInv(c) ==
  /\ c \in connections <=> c \in open /\ c # newConn
  /\ read[c] = "none" \/ write[c] = "none"
  /\ c \in connections => /\ read[c] # "none" \/ write[c] # "none"
                          /\ read[c] # "aborted" /\ write[c] # "aborted"
                          /\ acceptor
  /\ read[c] = "pending" \/ write[c] = "pending" => c \in open

\* The inductive invariant.
IInv == TypeInv /\ AcceptorInv /\ \A c \in Conns : ConnInv(c)

-----------------------------------------------------------------------------
\* The constructor establishes the invariant (server.cpp:35-46).
LEMMA InitIInv == Init => IInv
BY DEF Init, IInv, TypeInv, AcceptorInv, ConnInv, Status, Results

\* Stopping a connection in its own handler keeps the invariant.
LEMMA StopIInv ==
  ASSUME IInv, NEW c \in Conns, c # newConn, Stop(c),
         UNCHANGED <<newConn, acceptor, accept, signal>>
  PROVE  IInv'
<1>1. TypeInv'
  BY DEF IInv, TypeInv, Stop, Close, Abort, Status, Results
<1>2. AcceptorInv'
  BY DEF IInv, TypeInv, AcceptorInv, Stop, Close, Abort
<1>3. ASSUME NEW d \in Conns PROVE ConnInv(d)'
  <2>1. ConnInv(d) /\ ConnInv(c) BY DEF IInv
  <2>2. CASE d = c
    BY <2>1, <2>2 DEF IInv, TypeInv, ConnInv, Stop, Close, Abort, Status, Results
  <2>3. CASE d # c
    BY <2>1, <2>3 DEF IInv, TypeInv, ConnInv, Stop, Close, Abort, Status, Results
  <2> QED BY <2>2, <2>3
<1> QED BY <1>1, <1>2, <1>3 DEF IInv

\* connection::handle_read keeps the invariant (connection.cpp:46-81).
LEMMA HandleReadIInv ==
  ASSUME IInv, NEW c \in Conns, HandleRead(c) PROVE IInv'
<1>1. c # newConn
  BY DEF IInv, AcceptorInv, HandleRead
<1>2. UNCHANGED <<newConn, acceptor, accept, signal>>
  BY DEF HandleRead
<1>3. CASE read[c] = "error" /\ Stop(c)
  BY <1>1, <1>2, <1>3, StopIInv
<1>4. CASE ~(read[c] = "error" /\ Stop(c))
  <2>1. UNCHANGED <<connections, open>> BY <1>4 DEF HandleRead
  <2>2. ConnInv(c) BY DEF IInv
  <2>3. TypeInv'
    BY <1>4 DEF IInv, TypeInv, HandleRead, Reply, StartRead, Started, Status, Results
  <2>4. AcceptorInv'
    BY <1>1, <1>2, <1>4, <2>1
    DEF IInv, TypeInv, AcceptorInv, HandleRead, Reply, StartRead
  <2>5. ASSUME NEW d \in Conns PROVE ConnInv(d)'
    <3>1. CASE d = c
      BY <1>1, <1>4, <2>2, <3>1
      DEF IInv, TypeInv, ConnInv, HandleRead, Reply, StartRead, Started
    <3>2. CASE d # c
      <4>1. ConnInv(d) BY DEF IInv
      <4>2. read'[d] = read[d] /\ write'[d] = write[d]
        BY <1>4, <3>2 DEF IInv, TypeInv, HandleRead, Reply, StartRead
      <4> QED BY <1>2, <2>1, <4>1, <4>2 DEF ConnInv
    <3> QED BY <3>1, <3>2
  <2> QED BY <2>3, <2>4, <2>5 DEF IInv
<1> QED BY <1>3, <1>4

\* connection::handle_write keeps the invariant (connection.cpp:83-96).
LEMMA HandleWriteIInv ==
  ASSUME IInv, NEW c \in Conns, HandleWrite(c) PROVE IInv'
<1>1. c # newConn
  BY DEF IInv, AcceptorInv, HandleWrite, Results
<1>2. UNCHANGED <<newConn, acceptor, accept, signal>>
  BY DEF HandleWrite
<1>3. CASE write[c] # "aborted"
  BY <1>1, <1>2, <1>3, StopIInv DEF HandleWrite
<1>4. CASE write[c] = "aborted"
  <2>1. /\ write' = [write EXCEPT ![c] = "none"]
        /\ UNCHANGED <<connections, open, read>>
    BY <1>4 DEF HandleWrite
  <2>2. TypeInv' BY <1>2, <2>1 DEF IInv, TypeInv, Status
  <2>3. AcceptorInv' BY <1>1, <1>2, <2>1 DEF IInv, TypeInv, AcceptorInv
  <2>4. ASSUME NEW d \in Conns PROVE ConnInv(d)'
    BY <1>2, <1>4, <2>1 DEF IInv, TypeInv, ConnInv
  <2> QED BY <2>2, <2>3, <2>4 DEF IInv
<1> QED BY <1>3, <1>4

\* server::handle_accept keeps the invariant (server.cpp:67-82): what it
\* starts is open, and no connection starts on a closed acceptor.
LEMMA HandleAcceptIInv == IInv /\ HandleAccept => IInv'
<1> SUFFICES ASSUME IInv, HandleAccept PROVE IInv'
  OBVIOUS
<1>0. UNCHANGED <<acceptor, signal, open, write>>
  BY DEF HandleAccept
<1>1. CASE ~acceptor
  <2>1. accept' = "none" /\ UNCHANGED <<connections, newConn, read>>
    BY <1>1 DEF HandleAccept
  <2> QED BY <1>0, <1>1, <2>1 DEF IInv, TypeInv, AcceptorInv, ConnInv, Status
<1>2. CASE acceptor
  <2>1. /\ accept' = "pending"
        /\ newConn' \in Conns /\ newConn' # newConn /\ newConn' \notin connections
        /\ read[newConn'] = "none" /\ write[newConn'] = "none"
    BY <1>2 DEF HandleAccept, StartAccept, Destroyed
  <2>2. newConn' \notin open
    BY <2>1 DEF IInv, ConnInv
  <2>3. CASE accept = "ok"
    <3>1. newConn \in open /\ newConn \in Conns
      BY <1>2, <2>3 DEF IInv, TypeInv, AcceptorInv
    <3>2. /\ connections' = connections \cup {newConn}
          /\ read' = [read EXCEPT ![newConn] = "pending"]
      BY <1>2, <2>3, <3>1 DEF HandleAccept, StartRead, Started
    <3>3. TypeInv'
      BY <1>0, <2>1, <3>1, <3>2 DEF IInv, TypeInv, Status
    <3>4. AcceptorInv'
      BY <1>0, <1>2, <2>1, <2>2, <3>2 DEF IInv, TypeInv, AcceptorInv
    <3>5. ASSUME NEW d \in Conns PROVE ConnInv(d)'
      <4>1. ConnInv(d) BY DEF IInv
      <4>2. CASE d = newConn
        BY <1>0, <1>2, <2>1, <3>1, <3>2, <4>1, <4>2 DEF IInv, TypeInv, AcceptorInv, ConnInv
      <4>3. CASE d # newConn
        BY <1>0, <1>2, <2>1, <2>2, <3>2, <4>1, <4>3 DEF IInv, TypeInv, ConnInv
      <4> QED BY <4>2, <4>3
    <3> QED BY <3>3, <3>4, <3>5 DEF IInv
  <2>4. CASE accept # "ok"
    <3>1. newConn \notin open
      BY <1>2, <2>4 DEF IInv, AcceptorInv
    <3>2. UNCHANGED <<connections, read>>
      BY <1>2, <2>4 DEF HandleAccept
    <3>3. TypeInv'
      BY <1>0, <2>1, <3>2 DEF IInv, TypeInv, Status
    <3>4. AcceptorInv'
      BY <1>0, <1>2, <2>1, <2>2, <3>2 DEF IInv, TypeInv, AcceptorInv
    <3>5. ASSUME NEW d \in Conns PROVE ConnInv(d)'
      BY <1>0, <1>2, <2>1, <2>2, <3>1, <3>2 DEF IInv, ConnInv
    <3> QED BY <3>3, <3>4, <3>5 DEF IInv
  <2> QED BY <2>3, <2>4
<1> QED BY <1>1, <1>2 DEF IInv, TypeInv

\* server::handle_stop keeps the invariant (server.cpp:84-91): it closes the
\* acceptor and every socket that the manager lists.
LEMMA HandleStopIInv == IInv /\ HandleStop => IInv'
<1> SUFFICES ASSUME IInv, HandleStop PROVE IInv'
  OBVIOUS
<1>1. newConn \notin connections /\ newConn \in Conns
  BY DEF IInv, TypeInv, ConnInv
<1>2. TypeInv'
  BY DEF IInv, TypeInv, HandleStop, Close, Abort, Status, Results
<1>3. AcceptorInv'
  BY <1>1 DEF IInv, TypeInv, AcceptorInv, HandleStop, Close
<1>4. ASSUME NEW c \in Conns PROVE ConnInv(c)'
  <2>1. ConnInv(c) BY DEF IInv
  <2> QED BY <2>1 DEF IInv, TypeInv, ConnInv, HandleStop, Close, Abort
<1> QED BY <1>2, <1>3, <1>4 DEF IInv

\* Operations that finish keep the invariant.
LEMMA FinishIInv ==
  ASSUME IInv,
         Connect \/ Interrupt \/ \E c \in Conns : Arrive(c) \/ Depart(c)
  PROVE  IInv'
<1>1. CASE Connect
  BY <1>1 DEF IInv, TypeInv, AcceptorInv, ConnInv, Connect, Status, Results, ops
<1>2. CASE Interrupt
  BY <1>2 DEF IInv, TypeInv, AcceptorInv, ConnInv, Interrupt, ops
<1>3. ASSUME NEW c \in Conns, Arrive(c) PROVE IInv'
  <2>1. c # newConn
    BY <1>3 DEF IInv, AcceptorInv, Arrive
  <2>2. PICK r \in {"ok", "error"} : read' = [read EXCEPT ![c] = r]
    BY <1>3 DEF Arrive
  <2>3. TypeInv' BY <1>3, <2>2 DEF IInv, TypeInv, Arrive, Status, Results
  <2>4. AcceptorInv' BY <1>3, <2>1, <2>2 DEF IInv, TypeInv, AcceptorInv, Arrive
  <2>5. ASSUME NEW d \in Conns PROVE ConnInv(d)'
    BY <1>3, <2>2 DEF IInv, TypeInv, ConnInv, Arrive
  <2> QED BY <2>3, <2>4, <2>5 DEF IInv
<1>4. ASSUME NEW c \in Conns, Depart(c) PROVE IInv'
  <2>1. c # newConn
    BY <1>4 DEF IInv, AcceptorInv, Depart
  <2>2. PICK r \in {"ok", "error"} : write' = [write EXCEPT ![c] = r]
    BY <1>4 DEF Depart
  <2>3. TypeInv' BY <1>4, <2>2 DEF IInv, TypeInv, Depart, Status, Results
  <2>4. AcceptorInv' BY <1>4, <2>1, <2>2 DEF IInv, TypeInv, AcceptorInv, Depart
  <2>5. ASSUME NEW d \in Conns PROVE ConnInv(d)'
    BY <1>4, <2>2 DEF IInv, TypeInv, ConnInv, Depart
  <2> QED BY <2>3, <2>4, <2>5 DEF IInv
<1> QED BY <1>1, <1>2, <1>3, <1>4

\* Every step keeps the invariant.
LEMMA StepIInv == IInv /\ [Next]_vars => IInv'
<1> SUFFICES ASSUME IInv, [Next]_vars PROVE IInv'
  OBVIOUS
<1>1. CASE UNCHANGED vars
  BY <1>1 DEF vars, ops, IInv, TypeInv, AcceptorInv, ConnInv
<1>2. CASE Handler
  BY <1>2, HandleReadIInv, HandleWriteIInv, HandleAcceptIInv, HandleStopIInv DEF Handler
<1>3. CASE Next /\ ~Handler
  BY <1>3, FinishIInv DEF Next
<1> QED BY <1>1, <1>2, <1>3

\* The invariant holds in every reachable state.
LEMMA IInvInvariant == Spec => []IInv
BY InitIInv, StepIInv, PTL DEF Spec

-----------------------------------------------------------------------------
\* The manager "owns all live connections" (server.hpp:56), and each of them
\* has an operation under way whose handler will stop it or go on.
THEOREM LiveConnectionsAreOwned == Spec => []ManagerOwnsLiveConnections
<1>1. IInv => ManagerOwnsLiveConnections
  BY DEF IInv, TypeInv, ConnInv, ManagerOwnsLiveConnections
<1> QED BY <1>1, IInvInvariant, PTL

\* The handlers of a connection never overlap with an operation on the same
\* buffers: it has one operation under way (connection.cpp:46-96).
THEOREM NoOverlap == Spec => []OneOperationEach
<1>1. IInv => OneOperationEach
  BY DEF IInv, ConnInv, OneOperationEach
<1> QED BY <1>1, IInvInvariant, PTL

\* The server keeps accepting until it is told to stop (server.cpp:52-54),
\* and starts no connection after that (server.cpp:69-74).
THEOREM AcceptsUntilStopped ==
  Spec => [](AcceptIsOutstanding /\ NothingStartsAfterStop)
<1>1. IInv => AcceptIsOutstanding
  BY DEF IInv, AcceptorInv, AcceptIsOutstanding
<1>2. IInv => NothingStartsAfterStop
  <2>1. IInv => connections \subseteq Conns BY DEF IInv, TypeInv
  <2> QED BY <2>1 DEF IInv, AcceptorInv, ConnInv, NothingStartsAfterStop
<1> QED BY <1>1, <1>2, IInvInvariant, PTL

\* The variables keep their types and only live objects have open sockets.
THEOREM TypeCorrect == Spec => []TypeOK
<1>1. IInv => TypeOK
  BY DEF IInv, TypeInv, ConnInv, TypeOK, Destroyed, Status, Results
<1> QED BY <1>1, IInvInvariant, PTL

-----------------------------------------------------------------------------
(* http_server2 and http_server3 *)

PoolTyped ==
  /\ server \in {2, 3}
  /\ next \in 0 .. Pool!NumContexts - 1
  /\ context \in [PoolConns -> 0 .. Pool!NumContexts - 1]
  /\ poolConn \in PoolConns
  /\ poolAccept \in {"none", "pending", "ok", "error"}
  /\ poolSignal \in {"none", "pending", "ok"}
  /\ poolRead \in [PoolConns -> {"none", "pending", "ok", "error"}]
  /\ poolWrite \in [PoolConns -> {"none", "pending", "ok", "error"}]
  /\ at \in [Pool!Threads -> {"run", "start", "accept", "read", "stop", "end"}]
  /\ conn \in [Pool!Threads -> PoolConns]
  /\ toStop \in 0 .. Pool!NumContexts /\ stopped = 0 .. toStop - 1

\* Nothing is under way on c: no operation, no handler.
PoolIdle(c) == /\ poolRead[c] = "none" /\ poolWrite[c] = "none"
               /\ \A t \in Pool!Threads : at[t] = "read" => conn[t] # c

\* One thread at most is in handle_accept(), which the accept has left, and in
\* handle_stop(), which the signal has left; new_connection_ is idle until it
\* is started.
PoolServer ==
  /\ poolAccept = "none" <=> \E t \in Pool!Threads : at[t] \in {"start", "accept"}
  /\ \A t, u \in Pool!Threads :
       /\ at[t] \in {"start", "accept"} /\ at[u] \in {"start", "accept"} => t = u
       /\ at[t] = "stop" /\ at[u] = "stop" => t = u
  /\ \A t \in Pool!Threads :
       /\ at[t] = "stop" => poolSignal = "none" /\ toStop < Pool!NumContexts
       /\ at[t] = "start" => PoolIdle(poolConn)
  /\ poolAccept # "none" => PoolIdle(poolConn)
  /\ poolSignal # "none" => toStop = 0

\* A connection has one operation, or one handler.
PoolConn(c) ==
  /\ poolRead[c] = "none" \/ poolWrite[c] = "none"
  /\ \A t \in Pool!Threads : at[t] = "read" /\ conn[t] = c =>
       /\ poolRead[c] = "none" /\ poolWrite[c] = "none"
       /\ \A u \in Pool!Threads : at[u] = "read" /\ conn[u] = c => u = t

PoolInv == PoolTyped /\ PoolServer /\ \A c \in PoolConns : PoolConn(c)


\* The constructor keeps it: the first connection waits to be accepted.
LEMMA PoolInvInit == Pool!Init => PoolInv
<1> SUFFICES ASSUME Pool!Init PROVE PoolInv
  OBVIOUS
<1> USE DEF Pool!Init
<1>1. Pool!NumContexts \in Nat /\ Pool!NumContexts > 0
  BY PoolAssumption DEF Pool!NumContexts
<1>2. \A i \in 0 .. Pool!NumContexts - 1 : Pool!After(i) \in 0 .. Pool!NumContexts - 1
  BY <1>1 DEF Pool!After
<1>3. /\ 0 \in 0 .. Pool!NumContexts - 1
      /\ next \in 0 .. Pool!NumContexts - 1
      /\ Pool!After(Pool!After(0)) \in 0 .. Pool!NumContexts - 1
  BY <1>1, <1>2
<1>4. PoolTyped
  <2>1. 0 .. 0 - 1 = {}
    OBVIOUS
  <2>. QED
    BY <1>1, <1>3, <2>1 DEF PoolTyped
<1>5. PoolServer
  BY DEF PoolServer, PoolIdle
<1>6. \A c \in PoolConns : PoolConn(c)
  BY DEF PoolConn
<1>. QED
  BY <1>4, <1>5, <1>6 DEF PoolInv

\* A step of a thread, or of the operating system.
PoolStep(t) ==
  \/ Pool!HandleAccept(t) \/ Pool!Start(t) \/ Pool!StartAccept(t)
  \/ Pool!HandleStop(t) \/ Pool!Stop(t) \/ Pool!Return(t)
  \/ Pool!HandleRead(t) \/ Pool!ReplyOrReadOn(t) \/ Pool!HandleWrite(t)

PoolFinish == Pool!Connect \/ Pool!Interrupt \/ \E c \in PoolConns : Pool!Arrive(c) \/ Pool!Depart(c)

\* The contexts are used in turn, and stopped one after the other.
LEMMA PoolTypedStep ==
  ASSUME PoolInv, PoolFinish \/ \E t \in Pool!Threads : PoolStep(t)
  PROVE  PoolTyped'
<1> USE DEF Pool!Goto, Pool!ops, Pool!Finished, PoolTyped
<1>0. /\ PoolTyped /\ Pool!NumContexts \in Nat /\ Pool!NumContexts > 0
      /\ (server' = server => Pool!NumContexts' = Pool!NumContexts)
  BY PoolAssumption DEF PoolInv, Pool!NumContexts
<1>1. \A i \in 0 .. Pool!NumContexts - 1 : Pool!After(i) \in 0 .. Pool!NumContexts - 1
  BY <1>0 DEF Pool!After
<1>2. ASSUME NEW t \in Pool!Threads, Pool!HandleAccept(t) \/ Pool!Start(t) PROVE PoolTyped'
  BY <1>0, <1>2, ZenonT(30) DEF Pool!HandleAccept, Pool!Start
<1>3. ASSUME NEW t \in Pool!Threads, Pool!StartAccept(t) PROVE PoolTyped'
  BY <1>0, <1>1, <1>3 DEF Pool!StartAccept
<1>4. ASSUME NEW t \in Pool!Threads, Pool!HandleStop(t) \/ Pool!Return(t) PROVE PoolTyped'
  BY <1>0, <1>4 DEF Pool!HandleStop, Pool!Return
<1>5. ASSUME NEW t \in Pool!Threads, Pool!Stop(t) PROVE PoolTyped'
  <2>1. toStop < Pool!NumContexts /\ toStop \in Nat
    BY <1>0, <1>5 DEF PoolInv, PoolServer, Pool!Stop
  <2>2. toStop + 1 \in 0 .. Pool!NumContexts /\ (0 .. toStop - 1) \cup {toStop} = 0 .. (toStop + 1) - 1
    BY <1>0, <2>1
  <2>3. toStop' = toStop + 1 /\ stopped' = 0 .. toStop' - 1 /\ server' = server
    BY <1>0, <1>5, <2>2 DEF Pool!Stop
  <2>. QED
    BY <1>0, <1>5, <2>2, <2>3 DEF Pool!Stop
<1>6. ASSUME NEW t \in Pool!Threads, Pool!HandleRead(t) \/ Pool!HandleWrite(t) PROVE PoolTyped'
  <2>1. /\ UNCHANGED <<server, next, context, poolConn, poolAccept, poolSignal, stopped, toStop>>
        /\ \E c \in PoolConns : \/ poolRead' = [poolRead EXCEPT ![c] = "none"]
                                \/ poolRead' = poolRead
        /\ \E c \in PoolConns : \/ poolWrite' = [poolWrite EXCEPT ![c] = "none"]
                                \/ poolWrite' = poolWrite
        /\ at' = at \/ at' = [at EXCEPT ![t] = "read"]
        /\ conn' = conn \/ \E c \in PoolConns : conn' = [conn EXCEPT ![t] = c]
    BY <1>6 DEF Pool!HandleRead, Pool!HandleWrite
  <2>. QED
    BY <1>0, <2>1, SMTT(30)
<1>7. ASSUME NEW t \in Pool!Threads, Pool!ReplyOrReadOn(t) PROVE PoolTyped'
  BY <1>0, <1>7, ZenonT(30) DEF Pool!ReplyOrReadOn
<1>8. CASE PoolFinish
  <2>1. UNCHANGED <<server, next, context, poolConn, at, conn, stopped, toStop>>
    BY <1>8 DEF PoolFinish, Pool!Connect, Pool!Interrupt, Pool!Arrive, Pool!Depart
  <2>2. CASE Pool!Connect \/ Pool!Interrupt
    BY <1>0, <2>1, <2>2 DEF Pool!Connect, Pool!Interrupt
  <2>3. ASSUME NEW c \in PoolConns, Pool!Arrive(c) PROVE PoolTyped'
    BY <1>0, <2>1, <2>3 DEF Pool!Arrive
  <2>4. ASSUME NEW c \in PoolConns, Pool!Depart(c) PROVE PoolTyped'
    BY <1>0, <2>1, <2>4 DEF Pool!Depart
  <2>. QED
    BY <1>8, <2>2, <2>3, <2>4 DEF PoolFinish
<1>. QED
  BY <1>2, <1>3, <1>4, <1>5, <1>6, <1>7, <1>8 DEF PoolStep

\* A handler begins where an operation ends, and starts one where it ends.
LEMMA PoolConnStep ==
  ASSUME PoolInv, PoolFinish \/ \E t \in Pool!Threads : PoolStep(t), NEW c \in PoolConns
  PROVE  PoolConn(c)'
<1> USE DEF Pool!Goto, Pool!ops, Pool!Finished, PoolTyped
<1>0. PoolTyped /\ PoolServer /\ \A d \in PoolConns : PoolConn(d)
  BY DEF PoolInv
<1>1. ASSUME NEW t \in Pool!Threads,
             \/ Pool!HandleAccept(t) \/ Pool!StartAccept(t) \/ Pool!HandleStop(t)
             \/ Pool!Stop(t) \/ Pool!Return(t)
      PROVE  PoolConn(c)'
  <2>1. /\ poolRead' = poolRead /\ poolWrite' = poolWrite /\ conn' = conn
        /\ \A u \in Pool!Threads : at'[u] = "read" => at[u] = "read"
    BY <1>0, <1>1 DEF Pool!HandleAccept, Pool!StartAccept, Pool!HandleStop, Pool!Stop,
                      Pool!Return
  <2>. QED
    BY <1>0, <2>1 DEF PoolConn
<1>2. ASSUME NEW t \in Pool!Threads, Pool!Start(t) PROVE PoolConn(c)'
  <2>1. PoolIdle(poolConn)
    BY <1>0, <1>2 DEF PoolServer, Pool!Start
  <2>. QED
    BY <1>0, <1>2, <2>1 DEF PoolConn, PoolIdle, Pool!Start
<1>3. ASSUME NEW t \in Pool!Threads, Pool!HandleRead(t) PROVE PoolConn(c)'
  <2>1. PICK d \in PoolConns :
          /\ poolRead[d] \in {"ok", "error"} /\ at[t] = "run"
          /\ poolRead' = [poolRead EXCEPT ![d] = "none"] /\ poolWrite' = poolWrite
          /\ \/ at' = at /\ conn' = conn
             \/ at' = [at EXCEPT ![t] = "read"] /\ conn' = [conn EXCEPT ![t] = d]
    BY <1>3 DEF Pool!HandleRead, Pool!Takes
  <2>2. PoolConn(c) /\ PoolConn(d)
    BY <1>0
  <2>3. poolWrite[d] = "none" /\ \A u \in Pool!Threads : at[u] = "read" => conn[u] # d
    BY <2>1, <2>2 DEF PoolConn
  <2>. QED
    BY <1>0, <2>1, <2>2, <2>3, SMTT(30) DEF PoolConn
<1>4. ASSUME NEW t \in Pool!Threads, Pool!ReplyOrReadOn(t) PROVE PoolConn(c)'
  BY <1>0, <1>4 DEF PoolConn, Pool!ReplyOrReadOn
<1>5. ASSUME NEW t \in Pool!Threads, Pool!HandleWrite(t) PROVE PoolConn(c)'
  BY <1>0, <1>5 DEF PoolConn, Pool!HandleWrite
<1>6. CASE PoolFinish
  BY <1>0, <1>6 DEF PoolConn, PoolFinish, Pool!Connect, Pool!Interrupt, Pool!Arrive, Pool!Depart
<1>. QED
  BY <1>1, <1>2, <1>3, <1>4, <1>5, <1>6 DEF PoolStep

\* handle_accept() and handle_stop() have one thread; the next connection is one
\* that nothing refers to, and only start() begins to use it.
LEMMA PoolServerStep ==
  ASSUME PoolInv, PoolFinish \/ \E t \in Pool!Threads : PoolStep(t)
  PROVE  PoolServer'
<1> USE DEF Pool!Goto, Pool!ops, Pool!Finished, PoolTyped
<1>0. /\ PoolTyped /\ PoolServer /\ Pool!NumContexts \in Nat /\ Pool!NumContexts > 0
      /\ (server' = server => Pool!NumContexts' = Pool!NumContexts)
  BY PoolAssumption DEF PoolInv, Pool!NumContexts
<1>1. ASSUME NEW t \in Pool!Threads, Pool!HandleAccept(t) PROVE PoolServer'
  BY <1>0, <1>1 DEF PoolServer, PoolIdle, Pool!HandleAccept, Pool!Takes
<1>2. ASSUME NEW t \in Pool!Threads, Pool!Start(t) PROVE PoolServer'
  BY <1>0, <1>2 DEF PoolServer, PoolIdle, Pool!Start
<1>3. ASSUME NEW t \in Pool!Threads, Pool!StartAccept(t) PROVE PoolServer'
  BY <1>0, <1>3 DEF PoolServer, PoolIdle, Pool!StartAccept, Pool!Destroyed
<1>4. ASSUME NEW t \in Pool!Threads, Pool!HandleStop(t) PROVE PoolServer'
  BY <1>0, <1>4 DEF PoolServer, PoolIdle, Pool!HandleStop, Pool!Takes
<1>5. ASSUME NEW t \in Pool!Threads, Pool!Stop(t) PROVE PoolServer'
  BY <1>0, <1>5 DEF PoolServer, PoolIdle, Pool!Stop
<1>6. ASSUME NEW t \in Pool!Threads, Pool!Return(t) PROVE PoolServer'
  BY <1>0, <1>6 DEF PoolServer, PoolIdle, Pool!Return
<1>7. ASSUME NEW t \in Pool!Threads, Pool!HandleRead(t) PROVE PoolServer'
  <2>1. PICK d \in PoolConns :
          /\ poolRead[d] \in {"ok", "error"} /\ at[t] = "run"
          /\ poolRead' = [poolRead EXCEPT ![d] = "none"] /\ poolWrite' = poolWrite
          /\ \/ at' = at /\ conn' = conn
             \/ at' = [at EXCEPT ![t] = "read"] /\ conn' = [conn EXCEPT ![t] = d]
    BY <1>7 DEF Pool!HandleRead, Pool!Takes
  <2>2. UNCHANGED <<server, poolConn, poolAccept, poolSignal, toStop>>
    BY <1>7 DEF Pool!HandleRead
  <2>3. PoolIdle(poolConn) => PoolIdle(poolConn)'
    BY <1>0, <2>1, <2>2 DEF PoolIdle
  <2>4. \A u \in Pool!Threads : at'[u] = at[u] \/ (u = t /\ at[t] = "run" /\ at'[t] = "read")
    BY <1>0, <2>1
  <2>. QED
    BY <1>0, <2>2, <2>3, <2>4, ZenonT(30) DEF PoolServer
<1>8. ASSUME NEW t \in Pool!Threads, Pool!ReplyOrReadOn(t) PROVE PoolServer'
  BY <1>0, <1>8 DEF PoolServer, PoolIdle, Pool!ReplyOrReadOn
<1>9. ASSUME NEW t \in Pool!Threads, Pool!HandleWrite(t) PROVE PoolServer'
  BY <1>0, <1>9 DEF PoolServer, PoolIdle, Pool!HandleWrite
<1>10. CASE PoolFinish
  BY <1>0, <1>10 DEF PoolServer, PoolIdle, PoolFinish, Pool!Connect, Pool!Interrupt,
                     Pool!Arrive, Pool!Depart
<1>. QED
  BY <1>1, <1>2, <1>3, <1>4, <1>5, <1>6, <1>7, <1>8, <1>9, <1>10 DEF PoolStep

\* Every step keeps the invariant.
LEMMA PoolInvStep == PoolInv /\ [Pool!Next]_pool => PoolInv'
<1>1. ASSUME PoolInv, Pool!Next PROVE PoolInv'
  <2>1. PoolFinish \/ \E t \in Pool!Threads : PoolStep(t)
    BY <1>1 DEF Pool!Next, Pool!Step, PoolFinish, PoolStep
  <2>. QED
    BY <1>1, <2>1, PoolTypedStep, PoolConnStep, PoolServerStep DEF PoolInv
<1>2. ASSUME PoolInv, UNCHANGED pool PROVE PoolInv'
  BY <1>2 DEF pool, PoolInv, PoolTyped, PoolServer, PoolConn, PoolIdle, Pool!NumContexts
<1>. QED
  BY <1>1, <1>2

\* Cardinality is the same in the instances.
LEMMA SameCardinality ==
  \A S : Pool!Cardinality(S) = Cardinality(S) /\ Coro!Cardinality(S) = Cardinality(S)
BY DEF Pool!Cardinality, Coro!Cardinality, Cardinality

\* The types, one handler or operation for each connection, and one accept.
LEMMA PoolIsSafe == PoolInv => Pool!TypeOK /\ Pool!OneThreadEach /\ Pool!OneAcceptor
<1> SUFFICES ASSUME PoolInv PROVE Pool!TypeOK /\ Pool!OneThreadEach /\ Pool!OneAcceptor
  OBVIOUS
<1>0. PoolTyped /\ PoolServer
  BY DEF PoolInv
<1>1. Pool!TypeOK
  BY <1>0 DEF PoolTyped, Pool!TypeOK
<1>2. Pool!OneThreadEach
  <2>1. SUFFICES ASSUME NEW c \in PoolConns,
                        NEW O, O = {o \in {"read", "write"} :
                          (IF o = "read" THEN poolRead[c] ELSE poolWrite[c]) # "none"}
                 PROVE  Cardinality(Pool!Handlers(c)) + Cardinality(O) <= 1
    BY SameCardinality DEF Pool!OneThreadEach
  <2>2. PoolConn(c)
    BY DEF PoolInv
  <2>3. CASE \E t \in Pool!Threads : t \in Pool!Handlers(c)
    <3>1. PICK t \in Pool!Threads : t \in Pool!Handlers(c)
      BY <2>3
    <3>2. Pool!Handlers(c) = {t} /\ O = {}
      BY <1>0, <2>1, <2>2, <3>1 DEF Pool!Handlers, PoolConn, PoolServer, PoolIdle
    <3>3. Cardinality({t}) = 1 /\ Cardinality({}) = 0
      BY FS_Singleton, FS_EmptySet
    <3>. QED
      BY <3>2, <3>3
  <2>4. CASE ~ \E t \in Pool!Threads : t \in Pool!Handlers(c)
    <3>1. Pool!Handlers(c) = {}
      BY <2>4 DEF Pool!Handlers
    <3>2. O = {} \/ \E o \in {"read", "write"} : O = {o}
      BY <2>1, <2>2 DEF PoolConn
    <3>3. Cardinality({}) = 0 /\ \A o \in {"read", "write"} : Cardinality({o}) = 1
      BY FS_Singleton, FS_EmptySet
    <3>. QED
      BY <3>1, <3>2, <3>3
  <2>. QED
    BY <2>3, <2>4
<1>3. Pool!OneAcceptor
  <2>1. SUFFICES ASSUME NEW A, A = {t \in Pool!Threads : at[t] \in {"start", "accept"}}
                 PROVE  IF poolAccept = "none" THEN Cardinality(A) = 1 ELSE A = {}
    BY SameCardinality DEF Pool!OneAcceptor
  <2>2. CASE poolAccept = "none"
    <3>1. PICK t \in Pool!Threads : at[t] \in {"start", "accept"}
      BY <1>0, <2>2 DEF PoolServer
    <3>2. A = {t}
      BY <1>0, <2>1, <3>1 DEF PoolServer
    <3>. QED
      BY <2>2, <3>2, FS_Singleton
  <2>. QED
    BY <1>0, <2>1, <2>2 DEF PoolServer
<1>. QED
  BY <1>1, <1>2, <1>3

-----------------------------------------------------------------------------
(* http_server4 *)

CoroTyped ==
  /\ socket \subseteq PoolConns /\ forks \subseteq PoolConns
  /\ coAccept \in {"none", "pending", "ok", "error"}
  /\ coRead \in [PoolConns -> {"none", "pending", "ok", "error"}]
  /\ coWrite \in [PoolConns -> {"none", "pending", "ok", "error"}]
  /\ coSignal \in {"none", "pending", "ok"} /\ running \in BOOLEAN

\* The parent accepts on a socket that no child has; a child has one operation.
CoroInv ==
  /\ CoroTyped
  /\ (socket = {} /\ coAccept = "none") \/ (coAccept # "none" /\ \E c \in PoolConns : socket = {c})
  /\ socket \cap forks = {}
  /\ \A c \in PoolConns :
       /\ coRead[c] = "none" \/ coWrite[c] = "none"
       /\ (c \in forks) <=> (coRead[c] # "none" \/ coWrite[c] # "none")


\* The constructor and the first step of the coroutine keep it.
LEMMA CoroInvInit == Coro!Init => CoroInv
BY DEF Coro!Init, CoroInv, CoroTyped

\* Every step keeps the invariant: a fork leaves the socket to the child.
LEMMA CoroInvStep == CoroInv /\ [Coro!Next]_coro => CoroInv'
<1> SUFFICES ASSUME CoroInv, [Coro!Next]_coro PROVE CoroInv'
  OBVIOUS
<1> USE DEF CoroInv, CoroTyped, Coro!ops, Coro!Finished
<1>1. CASE Coro!Fork
  <2>1. PICK c \in PoolConns : socket = {c} /\ c \notin forks
    BY <1>1 DEF Coro!Fork
  <2>2. coRead[c] = "none" /\ coWrite[c] = "none"
    BY <2>1
  <2>3. /\ forks' = forks \cup {c} /\ coRead' = [coRead EXCEPT ![c] = "pending"]
        /\ coWrite' = coWrite /\ coAccept' = "pending"
        /\ \E d \in PoolConns \ forks' : socket' = {d}
    BY <1>1, <2>1 DEF Coro!Fork
  <2>4. coSignal' = coSignal /\ running' = running
    BY <1>1 DEF Coro!Fork
  <2>. QED
    BY <2>1, <2>2, <2>3, <2>4
<1>2. CASE Coro!AcceptFails \/ Coro!Stop \/ Coro!Connect \/ Coro!Interrupt
  BY <1>2 DEF Coro!AcceptFails, Coro!Stop, Coro!Connect, Coro!Interrupt
<1>3. ASSUME NEW c \in PoolConns, Coro!ReadMore(c) \/ Coro!Reply(c) PROVE CoroInv'
  BY <1>3 DEF Coro!ReadMore, Coro!Reply
<1>4. ASSUME NEW c \in PoolConns, Coro!ReadFails(c) \/ Coro!HandleWrite(c) PROVE CoroInv'
  BY <1>4 DEF Coro!ReadFails, Coro!HandleWrite, Coro!Drop
<1>5. ASSUME NEW c \in PoolConns, Coro!Arrive(c) \/ Coro!Depart(c) PROVE CoroInv'
  BY <1>5 DEF Coro!Arrive, Coro!Depart
<1>6. CASE UNCHANGED coro
  BY <1>6 DEF coro
<1>. QED
  BY <1>1, <1>2, <1>3, <1>4, <1>5, <1>6 DEF Coro!Next, Coro!Handle

\* The types, one operation for each copy, and one accept for the parent.
LEMMA CoroIsSafe == CoroInv => Coro!TypeOK /\ Coro!CopiesAreApart /\ Coro!ParentAccepts
<1> SUFFICES ASSUME CoroInv PROVE Coro!TypeOK /\ Coro!CopiesAreApart /\ Coro!ParentAccepts
  OBVIOUS
<1> USE DEF CoroInv, CoroTyped
<1>0. Cardinality({}) = 0 /\ \A x : Cardinality({x}) = 1
  BY FS_Singleton, FS_EmptySet
<1>1. Coro!TypeOK
  <2>1. Cardinality(socket) <= 1
    BY <1>0
  <2>. QED
    BY <2>1, SameCardinality DEF Coro!TypeOK
<1>2. Coro!CopiesAreApart
  <2>1. ASSUME NEW c \in PoolConns
        PROVE  Cardinality((IF coRead[c] # "none" THEN {"read"} ELSE {})
                 \cup (IF coWrite[c] # "none" THEN {"write"} ELSE {}))
                   = (IF c \in forks THEN 1 ELSE 0)
    <3>1. CASE c \notin forks
      <4>1. coRead[c] = "none" /\ coWrite[c] = "none"
        BY <3>1
      <4>. QED
        BY <1>0, <3>1, <4>1
    <3>2. CASE c \in forks /\ coRead[c] # "none"
      <4>1. coWrite[c] = "none" /\ ({"read"} \cup {} = {"read"})
        BY <3>2
      <4>. QED
        BY <1>0, <3>2, <4>1
    <3>3. CASE c \in forks /\ coRead[c] = "none"
      <4>1. coWrite[c] # "none" /\ ({} \cup {"write"} = {"write"})
        BY <3>3
      <4>. QED
        BY <1>0, <3>3, <4>1
    <3>. QED
      BY <3>1, <3>2, <3>3
  <2>. QED
    BY <2>1, SameCardinality DEF Coro!CopiesAreApart
<1>3. Coro!ParentAccepts
  BY DEF Coro!ParentAccepts
<1>. QED
  BY <1>1, <1>2, <1>3

-----------------------------------------------------------------------------
(* The composition: each execution is one of one of the programs *)

\* The invariants of the servers hold in every execution.
LEMMA ServersInvariant == FairServersSpec => [](IInv /\ PoolInv /\ CoroInv)
<1>1. ServersInit => IInv /\ PoolInv /\ CoroInv
  BY InitIInv, PoolInvInit, CoroInvInit DEF ServersInit
<1>2. [\/ OneThreadNext \/ PoolNext \/ CoroNext
       \/ ParserNext \/ Parser4Next \/ HandlerNext]_<<others, servers>>
        => [Next]_vars /\ [Pool!Next]_pool /\ [Coro!Next]_coro
  BY DEF OneThreadNext, PoolNext, CoroNext, ParserNext, Parser4Next, HandlerNext, servers
<1>. QED
  BY <1>1, <1>2, StepIInv, PoolInvStep, CoroInvStep, PTL DEF FairServersSpec

\* The variables of the servers keep their types; the pool's contexts are those
\* it has, and are stopped one after the other.
THEOREM ServersTypesOK == FairServersSpec => []ServerTypesOK
<1>1. IInv => TypeOK
  BY DEF IInv, TypeInv, ConnInv, TypeOK, Destroyed, Status, Results
<1>2. IInv /\ PoolInv /\ CoroInv => ServerTypesOK
  BY <1>1, PoolIsSafe, CoroIsSafe DEF ServerTypesOK
<1>. QED
  BY <1>2, ServersInvariant, PTL

\* request_, reply_ and buffer_ of a connection have no lock, and in http_server3
\* any thread may run any handler: a connection has one operation or one handler
\* at a time, and two copies of the coroutine have no socket in common.
THEOREM HandlersAreApart == FairServersSpec => []HandlersDoNotOverlap
<1>1. IInv => OneOperationEach
  BY DEF IInv, ConnInv, OneOperationEach
<1>2. IInv /\ PoolInv /\ CoroInv => HandlersDoNotOverlap
  BY <1>1, PoolIsSafe, CoroIsSafe DEF HandlersDoNotOverlap
<1>. QED
  BY <1>2, ServersInvariant, PTL

\* There is always an accept outstanding, or one thread that is about to start
\* the next one, until the signal is handled (http_server) or the accept of the
\* coroutine fails.
THEOREM AcceptsGoOn == FairServersSpec => []AcceptsContinue
<1>1. IInv => AcceptIsOutstanding
  BY DEF IInv, AcceptorInv, AcceptIsOutstanding
<1>2. IInv /\ PoolInv /\ CoroInv => AcceptsContinue
  BY <1>1, PoolIsSafe, CoroIsSafe DEF AcceptsContinue
<1>. QED
  BY <1>2, ServersInvariant, PTL

-----------------------------------------------------------------------------
(* The request handler.  First, numbers and lists: what would be an exception
   has a least one *)

Less == {p \in Nat \X Nat : p[1] < p[2]}

LEMMA LeastNumber ==
  ASSUME NEW S, S \subseteq Nat, S # {}
  PROVE  \E x \in S : \A y \in S : x <= y
<1>1. IsWellFoundedOn(Less, Nat)
  BY NatLessThanWellFounded DEF OpToRel, Less
<1>2. PICK x \in S : \A y \in S : ~ (<<y, x>> \in Less)
  BY <1>1, WFMin
<1>3. \A y \in S : ~ (y < x)
  BY <1>2 DEF Less
<1>. QED
  BY <1>2, <1>3

\* What the first number has, and each after the one before, they all have.
LEMMA NumbersUpTo ==
  ASSUME NEW n \in Nat, NEW S, 0 \in S, \A i \in 1 .. n : i - 1 \in S => i \in S
  PROVE  0 .. n \subseteq S
<1> DEFINE R == (0 .. n) \ S
<1>1. SUFFICES ASSUME R # {} PROVE FALSE
  OBVIOUS
<1>2. PICK x \in R : \A y \in R : x <= y
  <2>1. R \subseteq Nat
    OBVIOUS
  <2>. HIDE DEF R
  <2>. QED
    BY <1>1, <2>1, LeastNumber
<1>3. x \in 1 .. n /\ x \notin S
  BY <1>2
<1>4. x - 1 \in 0 .. n /\ x - 1 < x
  BY <1>3
<1>5. x - 1 \notin R
  <2>. HIDE DEF R
  <2>. QED
    BY <1>2, <1>3, <1>4
<1>. QED
  BY <1>3, <1>4, <1>5

\* The values of a function that has its first value and makes each from the
\* one before.
IsIteration(F, V, v, k, g) ==
  g \in [0 .. k -> V] /\ g[0] = v /\ \A i \in 1 .. k : g[i] = F[i][g[i - 1]]

LEMMA Iterates ==
  ASSUME NEW n \in Nat, NEW V, NEW v \in V, NEW F \in [1 .. n -> [V -> V]]
  PROVE  \E g : IsIteration(F, V, v, n, g)
<1> DEFINE S == {k \in 0 .. n : \E g : IsIteration(F, V, v, k, g)}
<1>1. 0 \in S
  <2> DEFINE g == [i \in 0 .. 0 |-> v]
  <2>1. IsIteration(F, V, v, 0, g)
    BY DEF IsIteration
  <2>. HIDE DEF g
  <2>. QED
    BY <2>1
<1>2. ASSUME NEW k \in 1 .. n, k - 1 \in S PROVE k \in S
  <2>1. PICK g : IsIteration(F, V, v, k - 1, g)
    BY <1>2
  <2> DEFINE h == [i \in 0 .. k |-> IF i = k THEN F[k][g[k - 1]] ELSE g[i]]
  <2>2. k - 1 \in 0 .. k - 1 /\ g[k - 1] \in V /\ F[k][g[k - 1]] \in V
    BY <2>1 DEF IsIteration
  <2>3. h \in [0 .. k -> V] /\ h[0] = v
    BY <2>1, <2>2 DEF IsIteration
  <2>4. ASSUME NEW i \in 1 .. k PROVE h[i] = F[i][h[i - 1]]
    <3>1. i - 1 \in 0 .. k /\ i - 1 # k /\ h[i - 1] = g[i - 1]
      OBVIOUS
    <3>2. CASE i = k
      BY <3>1, <3>2
    <3>3. CASE i # k
      <4>1. i \in 1 .. k - 1 /\ h[i] = g[i]
        BY <3>3
      <4>. HIDE DEF h
      <4>. QED
        BY <2>1, <3>1, <4>1 DEF IsIteration
    <3>. QED
      BY <3>2, <3>3
  <2>. HIDE DEF h
  <2>5. IsIteration(F, V, v, k, h)
    BY <2>3, <2>4 DEF IsIteration
  <2>. QED
    BY <2>5
<1>3. 0 .. n \subseteq S
  <2>. HIDE DEF S
  <2>. QED
    BY <1>1, <1>2, NumbersUpTo
<1>4. n \in 0 .. n
  OBVIOUS
<1>. QED
  BY <1>3, <1>4


-----------------------------------------------------------------------------
(* url_decode(): the loop, from the end of the text *)

Out == Files!Chars \cup {" ", "other"}
Decoding == [ok : BOOLEAN, out : Seq(Out)]
Over == [ok |-> TRUE, out |-> <<>>]
Refused == [ok |-> FALSE, out |-> <<>>]
Prepended(c, rest) == [rest EXCEPT !.out = <<c>> \o @]

LEMMA Prepends ==
  ASSUME NEW c \in Out, NEW rest \in Decoding
  PROVE  /\ Prepended(c, rest) \in Decoding /\ Prepended(c, rest).ok = rest.ok
         /\ Prepended(c, rest).out = <<c>> \o rest.out
<1>1. rest.out \in Seq(Out) /\ rest.ok \in BOOLEAN
  BY DEF Decoding
<1>2. <<c>> \o rest.out \in Seq(Out)
  BY <1>1
<1>. HIDE DEF Out
<1>3. Prepended(c, rest) = [ok |-> rest.ok, out |-> <<c>> \o rest.out]
  <2>1. ASSUME NEW w PROVE [rest EXCEPT !.out = w] = [ok |-> rest.ok, out |-> w]
    BY DEF Decoding
  <2> DEFINE w == <<c>> \o rest.out
  <2>2. Prepended(c, rest) = [rest EXCEPT !.out = w]
    BY Zenon DEF Prepended
  <2>. HIDE DEF w
  <2>3. Prepended(c, rest) = [ok |-> rest.ok, out |-> w]
    BY <2>1, <2>2
  <2>. QED
    BY <2>3 DEF w
<1>. QED
  BY <1>1, <1>2, <1>3 DEF Decoding

\* What a character stands for that begins no code
Plain(c) == IF c = "+" THEN " " ELSE c

\* One iteration, at i, of the text t, when d says what the following ones make.
Decoded(t, d, i) ==
  IF i > Len(t) THEN Over
  ELSE IF t[i] = "%"
  THEN IF i + 2 <= Len(t) /\ Files!Converts(t[i + 1], t[i + 2])
       THEN Prepended(Files!Byte(t[i + 1], t[i + 2]), d[i + 3])
       ELSE Refused
  ELSE Prepended(Plain(t[i]), d[i + 1])

\* d says of each place from k on what is made of the text from there.
DecodesFrom(t, d, k) == /\ d \in [k .. Len(t) + 3 -> Decoding]
                        /\ \A i \in k .. Len(t) + 3 : d[i] = Decoded(t, d, i)

LEMMA OverAndRefused == Over \in Decoding /\ Refused \in Decoding
  BY DEF Over, Refused, Decoding

LEMMA DecodedIsDecoding ==
  ASSUME NEW t \in Seq(Files!Chars), NEW i \in 1 .. Len(t) + 3, NEW d,
         i <= Len(t) => d[i + 1] \in Decoding /\ d[i + 3] \in Decoding
  PROVE  Decoded(t, d, i) \in Decoding
<1>1. CASE i > Len(t)
  BY <1>1, OverAndRefused DEF Decoded
<1>2. CASE i <= Len(t)
  <2>1. t[i] \in Files!Chars
    BY <1>2
  <2>2. Plain(t[i]) \in Out
    BY <2>1 DEF Out, Files!Chars, Plain
  <2>3. \A c, e : Files!Byte(c, e) \in Out
    BY DEF Files!Byte, Out, Files!Chars
  <2>4. \A c \in Out : Prepended(c, d[i + 1]) \in Decoding /\ Prepended(c, d[i + 3]) \in Decoding
    BY <1>2, Prepends
  <2>. HIDE DEF Out
  <2>. QED
    BY <1>2, <2>2, <2>3, <2>4, OverAndRefused DEF Decoded
<1>. QED
  BY <1>1, <1>2

LEMMA DecodeFromExists ==
  ASSUME NEW t \in Seq(Files!Chars)
  PROVE  \E d : DecodesFrom(t, d, 1)
<1> DEFINE n == Len(t)
           S == {k \in 0 .. n : \E d : DecodesFrom(t, d, n + 1 - k)}
<1>1. n \in Nat
  OBVIOUS
<1>2. 0 \in S
  <2> DEFINE d == [i \in n + 1 .. n + 3 |-> Over]
  <2>1. d \in [n + 1 .. n + 3 -> Decoding]
    BY OverAndRefused
  <2>2. \A i \in n + 1 .. n + 3 : d[i] = Decoded(t, d, i)
    <3> SUFFICES ASSUME NEW i \in n + 1 .. n + 3 PROVE d[i] = Decoded(t, d, i)
      OBVIOUS
    <3>1. i > Len(t) /\ d[i] = Over
      BY <1>1
    <3>. QED
      BY <3>1 DEF Decoded
  <2>. HIDE DEF d
  <2>3. DecodesFrom(t, d, n + 1)
    BY <2>1, <2>2 DEF DecodesFrom
  <2>. QED
    BY <1>1, <2>3
<1>3. ASSUME NEW k \in 1 .. n, k - 1 \in S PROVE k \in S
  <2> DEFINE j == n + 1 - k
  <2>1. j \in 1 .. n /\ j + 1 = n + 1 - (k - 1) /\ j + 3 <= n + 3
    BY <1>1
  <2>2. PICK d : DecodesFrom(t, d, j + 1)
    BY <1>3, <2>1
  <2> DEFINE e == [i \in j .. n + 3 |-> IF i = j THEN Decoded(t, d, j) ELSE d[i]]
  <2>. HIDE DEF j, n
  <2>3. d \in [j + 1 .. n + 3 -> Decoding] /\ \A i \in j + 1 .. n + 3 : d[i] = Decoded(t, d, i)
    BY <2>2 DEF DecodesFrom, n
  <2>4. Decoded(t, d, j) \in Decoding
    <3>1. j + 1 \in j + 1 .. n + 3 /\ j + 3 \in j + 1 .. n + 3
      BY <1>1, <2>1
    <3>2. d[j + 1] \in Decoding /\ d[j + 3] \in Decoding
      BY <2>3, <3>1
    <3>3. j \in 1 .. n + 3
      BY <1>1, <2>1
    <3>. QED
      BY <3>2, <3>3, DecodedIsDecoding DEF n
  <2>5. \A i \in j .. n + 3 : i = j \/ i \in j + 1 .. n + 3
    BY <1>1, <2>1
  <2>6. e \in [j .. n + 3 -> Decoding]
    BY <2>3, <2>4, <2>5
  <2>7. \A i \in j .. n + 3 : i > j => e[i] = d[i]
    BY <2>1
  <2>8. e[j] = Decoded(t, d, j)
    BY <1>1, <2>1
  <2>. HIDE DEF e
  <2>9. ASSUME NEW i \in j .. n + 3 PROVE Decoded(t, e, i) = Decoded(t, d, i)
    <3>1. CASE i > n
      BY <3>1 DEF Decoded, n
    <3>2. CASE i <= n
      <4>1. i + 1 \in j .. n + 3 /\ i + 1 > j /\ i + 3 \in j .. n + 3 /\ i + 3 > j
        BY <1>1, <2>1, <3>2
      <4>2. e[i + 1] = d[i + 1] /\ e[i + 3] = d[i + 3]
        BY <2>7, <4>1
      <4>. QED
        BY <4>2 DEF Decoded
    <3>. QED
      BY <1>1, <2>1, <3>1, <3>2
  <2>10. \A i \in j .. n + 3 : e[i] = Decoded(t, e, i)
    <3> SUFFICES ASSUME NEW i \in j .. n + 3 PROVE e[i] = Decoded(t, e, i)
      OBVIOUS
    <3>1. CASE i = j
      BY <2>8, <2>9, <3>1
    <3>2. CASE i # j
      <4>1. i \in j + 1 .. n + 3 /\ i > j
        BY <1>1, <2>1, <2>5, <3>2
      <4>. QED
        BY <2>3, <2>7, <2>9, <4>1
    <3>. QED
      BY <3>1, <3>2
  <2>11. DecodesFrom(t, e, j)
    BY <2>6, <2>10 DEF DecodesFrom, n
  <2>. QED
    BY <1>1, <2>11 DEF j, n
<1>4. 0 .. n \subseteq S
  <2>. HIDE DEF S, n
  <2>. QED
    BY <1>1, <1>2, <1>3, NumbersUpTo
<1>5. n \in S
  BY <1>1, <1>4
<1>6. n + 1 - n = 1
  BY <1>1
<1>. QED
  BY <1>5, <1>6

LEMMA UrlDecodes ==
  ASSUME NEW t \in Seq(Files!Chars)
  PROVE  \E d : DecodesFrom(t, d, 1) /\ Files!url_decode(t) = d[1]
<1> DEFINE IsDecode(d) == d = [i \in 1 .. Len(t) + 3 |-> Decoded(t, d, i)]
           d == CHOOSE d : IsDecode(d)
<1>1. \E e : IsDecode(e)
  <2>1. PICK e : DecodesFrom(t, e, 1)
    BY DecodeFromExists
  <2>. QED
    BY <2>1 DEF DecodesFrom
<1>2. IsDecode(d)
  BY <1>1
<1>3. Files!url_decode(t) = d[1]
  BY DEF Files!url_decode, Decoded, Plain, Over, Refused, Prepended
<1>4. DecodesFrom(t, d, 1)
  <2> DEFINE m == Len(t) + 2
             S == {k \in 0 .. m : \A i \in m + 1 - k .. m + 1 : d[i] \in Decoding}
  <2>. HIDE DEF d
  <2>1. m \in Nat /\ m + 1 = Len(t) + 3 /\ m \in 0 .. m
    OBVIOUS
  <2>2. ASSUME NEW i \in 1 .. m + 1, i <= Len(t) => d[i + 1] \in Decoding /\ d[i + 3] \in Decoding
        PROVE  d[i] \in Decoding
    BY <1>2, <2>1, <2>2, DecodedIsDecoding
  <2>3. 0 \in S
    <3>1. m + 1 \in 1 .. m + 1 /\ ~(m + 1 <= Len(t))
      BY <2>1
    <3>2. d[m + 1] \in Decoding
      BY <2>2, <3>1
    <3>. QED
      BY <2>1, <3>2
  <2>4. ASSUME NEW k \in 1 .. m, k - 1 \in S PROVE k \in S
    <3> DEFINE j == m + 1 - k
    <3>1. j \in 1 .. m + 1 /\ j + 1 = m + 1 - (k - 1) /\ k \in 0 .. m
      BY <2>1
    <3>. HIDE DEF j
    <3>2. \A i \in j + 1 .. m + 1 : d[i] \in Decoding
      BY <2>4, <3>1
    <3>3. j <= Len(t) => j + 1 \in j + 1 .. m + 1 /\ j + 3 \in j + 1 .. m + 1
      BY <2>1, <3>1
    <3>4. d[j] \in Decoding
      BY <2>2, <3>1, <3>2, <3>3
    <3>5. \A i \in j .. m + 1 : i = j \/ i \in j + 1 .. m + 1
      BY <2>1, <3>1
    <3>6. \A i \in j .. m + 1 : d[i] \in Decoding
      BY <3>2, <3>4, <3>5
    <3>. QED
      BY <3>1, <3>6 DEF j
  <2>5. 0 .. m \subseteq S
    <3>. HIDE DEF S, m
    <3>. QED
      BY <2>1, <2>3, <2>4, NumbersUpTo
  <2>6. m + 1 - m = 1
    BY <2>1
  <2>7. \A i \in 1 .. m + 1 : d[i] \in Decoding
    BY <2>1, <2>5, <2>6
  <2>. QED
    BY <1>2, <2>1, <2>7 DEF DecodesFrom
<1>. QED
  BY <1>3, <1>4

-----------------------------------------------------------------------------
(* A path that was spelt is read again *)

PathChars == {"/", ".", " ", "x"}

MoreTexts(X, c) == {u \o s : u \in X, s \in Files!Spellings(c)}

LEMMA TextIsLonger ==
  ASSUME NEW X, NEW c, NEW v \in MoreTexts(X, c)
  PROVE  \E u \in X, s \in Files!Spellings(c) : v = u \o s
  BY DEF MoreTexts

IsTexts(f, path) ==
  f = [n \in 0 .. Len(path) |-> IF n = 0 THEN {<<>>} ELSE MoreTexts(f[n - 1], path[n])]

LEMMA SpellingsAreTexts ==
  ASSUME NEW c \in PathChars, NEW s \in Files!Spellings(c)
  PROVE  /\ s \in Seq(Files!Chars)
         /\ \/ /\ Len(s) = 1 /\ s[1] # "%"
               /\ c = Plain(s[1])
            \/ /\ Len(s) = 3 /\ s[1] = "%" /\ Files!Converts(s[2], s[3])
               /\ c = Files!Byte(s[2], s[3])
<1>1. CASE c = "/"
  <2>1. s = <<"/">> \/ s = <<"%", "2", "F">>
    BY <1>1 DEF Files!Spellings
  <2>. QED
    BY <1>1, <2>1 DEF Files!Converts, Files!IsHex, Files!Byte, Files!Chars, Plain
<1>2. CASE c = "."
  <2>1. s = <<".">> \/ s = <<"%", "2", "E">>
    BY <1>2 DEF Files!Spellings
  <2>2. CASE s = <<".">>
    BY <1>2, <2>2 DEF Files!Chars, Plain
  <2>3. CASE s = <<"%", "2", "E">>
    <3>1. Files!Byte("2", "E") = "." /\ Files!Converts("2", "E")
      BY DEF Files!Byte, Files!Converts, Files!IsHex
    <3>. QED
      BY <1>2, <2>3, <3>1 DEF Files!Chars
  <2>. QED
    BY <2>1, <2>2, <2>3
<1>3. CASE c = " "
  <2>1. s = <<"+">>
    BY <1>3 DEF Files!Spellings
  <2>2. s \in Seq(Files!Chars) /\ Len(s) = 1 /\ s[1] = "+"
    BY <2>1 DEF Files!Chars
  <2>3. s[1] # "%" /\ c = Plain(s[1])
    BY <1>3, <2>2 DEF Plain
  <2>. QED
    BY <2>2, <2>3
<1>4. CASE c = "x"
  <2>1. s = <<"x">>
    BY <1>4 DEF Files!Spellings
  <2>. QED
    BY <1>4, <2>1 DEF Files!Chars, Plain
<1>. QED
  BY <1>1, <1>2, <1>3, <1>4 DEF PathChars

LEMMA TextsExist ==
  ASSUME NEW path \in Seq(PathChars)
  PROVE  \E f : /\ IsTexts(f, path)
                /\ \A n \in 0 .. Len(path) : f[n] \subseteq Seq(Files!Chars)
<1> DEFINE V == SUBSET Seq(Files!Chars)
           m == Len(path)
           More(n, X) == MoreTexts(X, path[n])
           F == [n \in 1 .. m |-> [X \in V |-> More(n, X)]]
<1>1. m \in Nat
  OBVIOUS
<1>2. {<<>>} \in V
  OBVIOUS
<1>3. ASSUME NEW n \in 1 .. m, NEW X \in V PROVE More(n, X) \in V
  <2>1. path[n] \in PathChars
    OBVIOUS
  <2>2. ASSUME NEW u \in X, NEW s \in Files!Spellings(path[n]) PROVE u \o s \in Seq(Files!Chars)
    <3>1. s \in Seq(Files!Chars)
      BY <2>1, SpellingsAreTexts
    <3>2. u \in Seq(Files!Chars)
      OBVIOUS
    <3>. QED
      BY <3>1, <3>2
  <2>3. ASSUME NEW v \in More(n, X) PROVE v \in Seq(Files!Chars)
    <3>1. PICK u \in X, s \in Files!Spellings(path[n]) : v = u \o s
      BY <2>3 DEF MoreTexts
    <3>. QED
      BY <2>2, <3>1
  <2>. QED
    BY <2>3
<1>. HIDE DEF V, m, More
<1>4. F \in [1 .. m -> [V -> V]] /\ \A n \in 1 .. m : \A X \in V : F[n][X] = More(n, X)
  BY <1>3
<1>. HIDE DEF F
<1>5. PICK g : IsIteration(F, V, {<<>>}, m, g)
  BY <1>1, <1>2, <1>4, Iterates
<1>6. g \in [0 .. m -> V] /\ g[0] = {<<>>} /\ \A n \in 1 .. m : g[n] = F[n][g[n - 1]]
  BY <1>5 DEF IsIteration
<1>7. ASSUME NEW n \in 1 .. m PROVE g[n] = More(n, g[n - 1])
  <2>1. n - 1 \in 0 .. m
    BY <1>1
  <2>2. g[n - 1] \in V
    BY <1>6, <2>1
  <2>. QED
    BY <1>4, <1>6, <2>2
<1>8. \A n \in 0 .. m : n # 0 => n \in 1 .. m
  BY <1>1
<1>9. g = [n \in 0 .. m |-> IF n = 0 THEN {<<>>} ELSE More(n, g[n - 1])]
  BY <1>6, <1>7, <1>8
<1>10. \A n \in 0 .. m : g[n] \subseteq Seq(Files!Chars)
  BY <1>6 DEF V
<1>. QED
  BY <1>9, <1>10 DEF IsTexts, m, More

LEMMA SpeltIsText ==
  ASSUME NEW path \in Seq(PathChars)
  PROVE  \E f : /\ IsTexts(f, path) /\ Files!Spelt(path) = f[Len(path)]
                /\ \A n \in 0 .. Len(path) : f[n] \subseteq Seq(Files!Chars)
<1> DEFINE f == CHOOSE f : IsTexts(f, path)
<1>1. PICK g : IsTexts(g, path) /\ \A n \in 0 .. Len(path) : g[n] \subseteq Seq(Files!Chars)
  BY TextsExist
<1>2. IsTexts(f, path)
  BY <1>1
<1>3. Files!Spelt(path) = f[Len(path)]
  BY DEF Files!Spelt, IsTexts, MoreTexts
<1>. HIDE DEF f
<1> DEFINE S == {n \in 0 .. Len(path) : f[n] = g[n]}
<1>4. 0 \in S
  BY <1>1, <1>2 DEF IsTexts
<1>5. ASSUME NEW n \in 1 .. Len(path), n - 1 \in S PROVE n \in S
  <2>1. n \in 0 .. Len(path) /\ n # 0 /\ f[n - 1] = g[n - 1]
    BY <1>5
  <2>2. f[n] = MoreTexts(f[n - 1], path[n]) /\ g[n] = MoreTexts(g[n - 1], path[n])
    BY <1>1, <1>2, <2>1 DEF IsTexts
  <2>. QED
    BY <2>1, <2>2
<1>6. 0 .. Len(path) \subseteq S
  <2>. HIDE DEF S
  <2>1. Len(path) \in Nat
    OBVIOUS
  <2>. QED
    BY <1>4, <1>5, <2>1, NumbersUpTo
<1>. QED
  BY <1>1, <1>2, <1>3, <1>6

\* u is the beginning of t.
Begins(u, t) == Len(u) <= Len(t) /\ \A i \in 1 .. Len(u) : t[i] = u[i]

\* What d makes of all is the first n characters of the path, and what it makes
\* of the rest after k characters of the text.
ReadUpto(d, path, n, k) ==
  /\ d[1].ok = d[k + 1].ok
  /\ d[1].out = SubSeq(path, 1, n) \o d[k + 1].out

LEMMA OneSpelling ==
  ASSUME NEW t \in Seq(Files!Chars), NEW d, DecodesFrom(t, d, 1),
         NEW c \in PathChars, NEW s \in Files!Spellings(c),
         NEW k \in Nat, k + Len(s) <= Len(t), \A i \in 1 .. Len(s) : t[k + i] = s[i]
  PROVE  d[k + 1] = Prepended(c, d[k + Len(s) + 1]) /\ d[k + Len(s) + 1] \in Decoding
<1>1. s \in Seq(Files!Chars) /\ Len(s) \in Nat
  <2>1. s \in Seq(Files!Chars)
    BY SpellingsAreTexts
  <2>. QED
    BY <2>1
<1>2. d \in [1 .. Len(t) + 3 -> Decoding] /\ \A i \in 1 .. Len(t) + 3 : d[i] = Decoded(t, d, i)
  BY DEF DecodesFrom
<1>3. Len(t) \in Nat
  OBVIOUS
<1>4. d[k + Len(s) + 1] \in Decoding
  <2>1. k + Len(s) + 1 \in 1 .. Len(t) + 3
    BY <1>1, <1>3
  <2>. QED
    BY <1>2, <2>1
<1>5. CASE Len(s) = 1 /\ s[1] # "%" /\ c = Plain(s[1])
  <2>1. /\ k + 1 \in 1 .. Len(t) + 3 /\ ~(k + 1 > Len(t)) /\ k + 1 + 1 = k + Len(s) + 1
        /\ t[k + 1] = s[1]
    <3>0. Len(s) = 1 /\ 1 \in 1 .. 1
      BY <1>5
    <3>1. 1 \in 1 .. Len(s)
      BY <3>0
    <3>2. t[k + 1] = s[1]
      BY <3>1
    <3>. QED
      BY <1>3, <3>0, <3>2
  <2>2. d[k + 1] = Prepended(Plain(s[1]), d[k + 1 + 1])
    BY <1>2, <1>5, <2>1 DEF Decoded
  <2>. QED
    BY <1>4, <1>5, <2>1, <2>2
<1>6. CASE /\ Len(s) = 3 /\ s[1] = "%" /\ Files!Converts(s[2], s[3])
           /\ c = Files!Byte(s[2], s[3])
  <2>1. /\ k + 1 \in 1 .. Len(t) + 3 /\ ~(k + 1 > Len(t)) /\ k + 1 + 3 = k + Len(s) + 1
        /\ k + 1 + 2 <= Len(t) /\ k + 1 + 1 = k + 2 /\ k + 1 + 2 = k + 3
        /\ t[k + 1] = s[1] /\ t[k + 2] = s[2] /\ t[k + 3] = s[3]
    BY <1>3, <1>6
  <2>2. d[k + 1] = Prepended(Files!Byte(s[2], s[3]), d[k + 1 + 3])
    BY <1>2, <1>6, <2>1 DEF Decoded
  <2>. QED
    BY <1>4, <1>6, <2>1, <2>2
<1>. QED
  BY <1>5, <1>6, SpellingsAreTexts

LEMMA OneMore ==
  ASSUME NEW path \in Seq(PathChars), NEW n \in 1 .. Len(path), NEW x \in Seq(Out)
  PROVE  SubSeq(path, 1, n - 1) \o (<<path[n]>> \o x) = SubSeq(path, 1, n) \o x
<1>1. PathChars \subseteq Out
  BY DEF PathChars, Out, Files!Chars
<1> DEFINE h == SubSeq(path, 1, n - 1)
           g == SubSeq(path, 1, n)
<1>2. path[n] \in Out /\ Len(path) \in Nat
  BY <1>1
<1>3. h \in Seq(Out) /\ Len(h) = n - 1 /\ \A i \in 1 .. n - 1 : h[i] = path[i]
  <2>1. h \in Seq(PathChars) /\ Len(h) = n - 1 /\ \A i \in 1 .. n - 1 : h[i] = path[i]
    OBVIOUS
  <2>. QED
    BY <1>1, <2>1
<1>4. g \in Seq(Out) /\ Len(g) = n /\ \A i \in 1 .. n : g[i] = path[i]
  <2>1. g \in Seq(PathChars) /\ Len(g) = n /\ \A i \in 1 .. n : g[i] = path[i]
    OBVIOUS
  <2>. QED
    BY <1>1, <2>1
<1>. HIDE DEF h, g, Out
<1>5. g = h \o <<path[n]>>
  <2> DEFINE e == h \o <<path[n]>>
  <2>1. e \in Seq(Out) /\ Len(e) = n /\ e[n] = path[n]
    BY <1>2, <1>3
  <2>2. \A i \in 1 .. n - 1 : e[i] = path[i]
    BY <1>2, <1>3
  <2>. HIDE DEF e
  <2>3. \A i \in 1 .. n : e[i] = g[i]
    BY <1>2, <1>4, <2>1, <2>2
  <2>4. e = g
    BY <1>4, <2>1, <2>3
  <2>. QED
    BY <2>4 DEF e
<1>6. h \o (<<path[n]>> \o x) = (h \o <<path[n]>>) \o x
  BY <1>2, <1>3
<1>. QED
  BY <1>5, <1>6 DEF h, g

LEMMA BeginningIsRead ==
  ASSUME NEW path \in Seq(PathChars), NEW f, IsTexts(f, path),
         \A n \in 0 .. Len(path) : f[n] \subseteq Seq(Files!Chars),
         NEW t \in Seq(Files!Chars), NEW d, DecodesFrom(t, d, 1)
  PROVE  \A n \in 0 .. Len(path) :
           \A u \in f[n] : Begins(u, t) => ReadUpto(d, path, n, Len(u))
<1> DEFINE S == {n \in 0 .. Len(path) :
                   \A u \in f[n] : Begins(u, t) => ReadUpto(d, path, n, Len(u))}
<1>1. Len(path) \in Nat /\ Len(t) \in Nat
  OBVIOUS
<1>2. \A k \in 1 .. Len(t) + 3 : d[k] \in Decoding
  BY DEF DecodesFrom
<1>3. 0 \in S
  <2>1. 0 \in 0 .. Len(path) /\ f[0] = {<<>>} /\ Len(<<>>) = 0 /\ 0 + 1 = 1
    BY <1>1 DEF IsTexts
  <2>2. d[1].out \in Seq(Out)
    BY <1>1, <1>2 DEF Decoding
  <2>3. SubSeq(path, 1, 0) \o d[1].out = d[1].out
    <3>1. SubSeq(path, 1, 0) = <<>>
      OBVIOUS
    <3>2. \A x \in Seq(Out) : <<>> \o x = x
      OBVIOUS
    <3>. QED
      BY <2>2, <3>1, <3>2
  <2>4. ReadUpto(d, path, 0, 0)
    BY <2>1, <2>3 DEF ReadUpto
  <2>. QED
    BY <2>1, <2>4
<1>4. ASSUME NEW n \in 1 .. Len(path), n - 1 \in S PROVE n \in S
  <2>1. n \in 0 .. Len(path) /\ n # 0 /\ n - 1 \in 0 .. Len(path)
    BY <1>1
  <2>2. f[n] = MoreTexts(f[n - 1], path[n])
    BY <2>1 DEF IsTexts
  <2>3. ASSUME NEW v \in f[n], Begins(v, t) PROVE ReadUpto(d, path, n, Len(v))
    <3>1. PICK u \in f[n - 1], s \in Files!Spellings(path[n]) : v = u \o s
      <4> DEFINE X == f[n - 1]
                 c == path[n]
      <4>1. v \in MoreTexts(X, c)
        BY <2>2, <2>3
      <4>. HIDE DEF X, c
      <4>2. \E u \in X, s \in Files!Spellings(c) : v = u \o s
        BY <4>1, TextIsLonger
      <4>. QED
        BY <4>2 DEF X, c
    <3>2. path[n] \in PathChars
      OBVIOUS
    <3>3. u \in Seq(Files!Chars) /\ s \in Seq(Files!Chars)
      BY <2>1, <3>2, SpellingsAreTexts
    <3>4. /\ Len(u) \in Nat /\ Len(s) \in Nat /\ Len(v) = Len(u) + Len(s)
          /\ \A i \in 1 .. Len(u) : v[i] = u[i]
          /\ \A i \in 1 .. Len(s) : v[Len(u) + i] = s[i]
      BY <3>1, <3>3
    <3>5. Begins(u, t)
      BY <1>1, <2>3, <3>4 DEF Begins
    <3>6. Len(u) + Len(s) <= Len(t) /\ \A i \in 1 .. Len(s) : t[Len(u) + i] = s[i]
      BY <1>1, <2>3, <3>4 DEF Begins
    <3>7. ReadUpto(d, path, n - 1, Len(u))
      BY <1>4, <3>5
    <3> DEFINE rest == d[Len(v) + 1]
               one == d[Len(u) + 1]
    <3>8. one = Prepended(path[n], rest) /\ rest \in Decoding
      <4>1. /\ d[Len(u) + 1] = Prepended(path[n], d[Len(u) + Len(s) + 1])
            /\ d[Len(u) + Len(s) + 1] \in Decoding
        BY <3>2, <3>4, <3>6, OneSpelling
      <4>. QED
        BY <3>4, <4>1
    <3>. HIDE DEF rest, one
    <3>9. one.ok = rest.ok /\ one.out = <<path[n]>> \o rest.out /\ rest.out \in Seq(Out)
      <4>1. path[n] \in Out
        BY <3>2 DEF PathChars, Out, Files!Chars
      <4>2. rest.out \in Seq(Out)
        BY <3>8 DEF Decoding
      <4>. QED
        BY <3>8, <4>1, <4>2, Prepends
    <3>10. d[1].ok = one.ok /\ d[1].out = SubSeq(path, 1, n - 1) \o one.out
      BY <3>7 DEF ReadUpto, one
    <3>11. SubSeq(path, 1, n - 1) \o (<<path[n]>> \o rest.out) = SubSeq(path, 1, n) \o rest.out
      BY <3>9, OneMore
    <3>12. d[1].ok = rest.ok /\ d[1].out = SubSeq(path, 1, n) \o rest.out
      BY <3>9, <3>10, <3>11
    <3>. QED
      BY <3>12 DEF ReadUpto, rest
  <2>. QED
    BY <2>1, <2>3
<1>5. 0 .. Len(path) \subseteq S
  <2>. HIDE DEF S
  <2>. QED
    BY <1>1, <1>3, <1>4, NumbersUpTo
<1>. QED
  BY <1>5

\* However a path is spelt, url_decode() makes it of the text.
LEMMA SpeltIsRead ==
  ASSUME NEW path \in Seq(PathChars), NEW t \in Files!Spelt(path)
  PROVE  t \in Seq(Files!Chars) /\ Files!url_decode(t) = [ok |-> TRUE, out |-> path]
<1>1. PICK f : /\ IsTexts(f, path) /\ Files!Spelt(path) = f[Len(path)]
               /\ \A n \in 0 .. Len(path) : f[n] \subseteq Seq(Files!Chars)
  BY SpeltIsText
<1>2. Len(path) \in 0 .. Len(path)
  OBVIOUS
<1>3. t \in f[Len(path)] /\ t \in Seq(Files!Chars)
  BY <1>1, <1>2
<1>4. PICK d : DecodesFrom(t, d, 1) /\ Files!url_decode(t) = d[1]
  BY <1>3, UrlDecodes
<1>5. Begins(t, t)
  BY <1>3 DEF Begins
<1>6. ReadUpto(d, path, Len(path), Len(t))
  BY <1>1, <1>2, <1>3, <1>4, <1>5, BeginningIsRead
<1>7. d[Len(t) + 1] = [ok |-> TRUE, out |-> <<>>]
  <2>1. Len(t) + 1 \in 1 .. Len(t) + 3 /\ Len(t) + 1 > Len(t)
    BY <1>3
  <2>. QED
    BY <1>4, <2>1 DEF DecodesFrom, Decoded, Over
<1>8. SubSeq(path, 1, Len(path)) = path
  OBVIOUS
<1>9. path \o <<>> = path
  OBVIOUS
<1>10. d[1].ok = TRUE /\ d[1].out = path
  BY <1>6, <1>7, <1>8, <1>9 DEF ReadUpto
<1>11. d[1] \in Decoding
  BY <1>3, <1>4 DEF DecodesFrom
<1>12. d[1] = [ok |-> d[1].ok, out |-> d[1].out]
  BY <1>11 DEF Decoding
<1>. QED
  BY <1>3, <1>4, <1>10, <1>12

-----------------------------------------------------------------------------
(* handle_request() *)

LEMMA GreatestNumber ==
  ASSUME NEW n \in Nat, NEW S, S \subseteq 1 .. n, S # {}
  PROVE  \E x \in S : \A y \in S : x >= y
<1> DEFINE T == {n - x : x \in S}
<1>1. T \subseteq Nat /\ T # {}
  <2>1. PICK x \in S : TRUE
    OBVIOUS
  <2>2. n - x \in T
    OBVIOUS
  <2>. QED
    BY <2>2
<1>. HIDE DEF T
<1>2. PICK z \in T : \A y \in T : z <= y
  BY <1>1, LeastNumber
<1>3. PICK x \in S : z = n - x
  BY <1>2 DEF T
<1>4. \A y \in S : n - x <= n - y
  BY <1>2, <1>3 DEF T
<1>5. \A y \in S : x >= y
  BY <1>4
<1>. QED
  BY <1>5

LEMMA FindsLast ==
  ASSUME NEW S, NEW l \in Seq(S), NEW c
  PROVE  /\ Files!FindLast(c, l) \in 0 .. Len(l)
         /\ \A i \in Files!FindLast(c, l) + 1 .. Len(l) : l[i] # c
<1> DEFINE I == {i \in 1 .. Len(l) : l[i] = c}
<1>1. Files!FindLast(c, l) = IF I # {} THEN Files!Max(I) ELSE 0
  BY DEF Files!FindLast, Files!SelectLastInSeq
<1>2. Len(l) \in Nat /\ I \subseteq 1 .. Len(l)
  OBVIOUS
<1>3. CASE I = {}
  <2>1. \A i \in 1 .. Len(l) : l[i] # c
    BY <1>3
  <2>2. Files!FindLast(c, l) = 0
    BY <1>1, <1>3
  <2>. QED
    BY <1>2, <2>1, <2>2
<1>4. CASE I # {}
  <2> DEFINE k == Files!Max(I)
  <2>1. \E x \in I : \A y \in I : x >= y
    <3>. HIDE DEF I
    <3>. QED
      BY <1>2, <1>4, GreatestNumber
  <2>2. k \in I /\ \A y \in I : k >= y
    BY <2>1 DEF Files!Max
  <2>3. Files!FindLast(c, l) = k
    BY <1>1, <1>4
  <2>. HIDE DEF k
  <2>4. k \in 0 .. Len(l)
    BY <1>2, <2>2
  <2>5. ASSUME NEW i \in k + 1 .. Len(l), l[i] = c PROVE FALSE
    <3>1. i \in 1 .. Len(l) /\ i > k
      BY <1>2, <2>4
    <3>2. i \in I
      BY <2>5, <3>1
    <3>. HIDE DEF I
    <3>3. k >= i
      BY <2>2, <3>2
    <3>. QED
      BY <1>2, <2>4, <3>1, <3>3
  <2>. QED
    BY <2>3, <2>4, <2>5
<1>. QED
  BY <1>3, <1>4

\* An extension is within the last part of the path.
LEMMA ExtensionIsRight ==
  ASSUME NEW S, NEW l \in Seq(S)
  PROVE  \A i \in DOMAIN Files!Extension(l) : Files!Extension(l)[i] \notin {"/", "."}
<1> DEFINE x == Files!Extension(l)
           dot == Files!FindLast(".", l)
           slash == Files!FindLast("/", l)
<1>1. /\ dot \in 0 .. Len(l) /\ \A i \in dot + 1 .. Len(l) : l[i] # "."
      /\ slash \in 0 .. Len(l) /\ \A i \in slash + 1 .. Len(l) : l[i] # "/"
  BY FindsLast
<1>2. x = <<"html">> \/ x = <<>> \/ (dot > slash /\ x = SubSeq(l, dot + 1, Len(l)))
  BY DEF Files!Extension
<1>. HIDE DEF x, dot, slash
<1>3. CASE x = <<"html">>
  <2>1. DOMAIN x = {1} /\ x[1] = "html"
    BY <1>3
  <2>. QED
    BY <2>1 DEF x
<1>4. CASE x = <<>>
  <2>1. DOMAIN x = {}
    BY <1>4
  <2>. QED
    BY <2>1 DEF x
<1>5. CASE dot > slash /\ x = SubSeq(l, dot + 1, Len(l))
  <2>1. Len(l) \in Nat
    OBVIOUS
  <2>2. DOMAIN x = 1 .. Len(l) - dot /\ \A i \in 1 .. Len(l) - dot : x[i] = l[dot + i]
    BY <1>1, <1>5, <2>1
  <2>3. ASSUME NEW i \in 1 .. Len(l) - dot PROVE x[i] # "/" /\ x[i] # "."
    <3>1. dot + i \in dot + 1 .. Len(l) /\ dot + i \in slash + 1 .. Len(l)
      BY <1>1, <1>5, <2>1
    <3>. QED
      BY <1>1, <2>2, <3>1
  <2>. QED
    BY <2>2, <2>3 DEF x
<1>. QED
  BY <1>2, <1>3, <1>4, <1>5

\* The reply to the text t, when the file exists or not.
IsRefused(o) == o = <<>> \/ o[1] # "/" \/ Files!FindTwoDots(o)
FileReply(l) == [status |-> "ok", path |-> l, extension |-> Files!Extension(l)]
Answer(decoding, found) ==
  IF ~decoding.ok \/ IsRefused(decoding.out) THEN Files!Stock("bad_request")
  ELSE IF ~found THEN Files!Stock("not_found")
  ELSE FileReply(Files!AddIndex(decoding.out))

FilesInv ==
  /\ uri \in Seq(Files!Chars)
  /\ meant = Files!Nothing \/ (meant \in Seq(PathChars) /\ uri \in Files!Spelt(meant))
  /\ reply = Files!NoReply \/ \E found : reply = Answer(Files!url_decode(uri), found)

LEMMA BoundedSeqIsSeq ==
  ASSUME NEW S, NEW n \in Nat, NEW x \in Files!BoundedSeq(S, n)
  PROVE  x \in Seq(S)
<1>1. PICK k \in 0 .. n : x \in [1 .. k -> S]
  BY DEF Files!BoundedSeq, Files!SeqOf
<1>. QED
  BY <1>1

LEMMA FilesInvInit == Files!Init => FilesInv
<1> SUFFICES ASSUME Files!Init PROVE FilesInv
  OBVIOUS
<1>1. reply = Files!NoReply
  BY DEF Files!Init
<1>2. CASE uri \in Files!BoundedSeq(Files!Chars, MaxUri) /\ meant = Files!Nothing
  BY <1>1, <1>2, BoundedSeqIsSeq, UriAssumption DEF FilesInv, UriAssumption
<1>3. CASE /\ meant \in Files!BoundedSeq({"/", ".", " ", "x"}, MaxUri)
           /\ uri \in Files!Spelt(meant)
  <2>1. meant \in Seq(PathChars)
    BY <1>3, BoundedSeqIsSeq, UriAssumption DEF PathChars, UriAssumption
  <2>2. uri \in Seq(Files!Chars)
    BY <1>3, <2>1, SpeltIsRead
  <2>. QED
    BY <1>1, <1>3, <2>1, <2>2 DEF FilesInv
<1>. QED
  BY <1>2, <1>3 DEF Files!Init

LEMMA FilesInvStep == FilesInv /\ [Files!Next]_handler => FilesInv'
<1> SUFFICES ASSUME FilesInv, [Files!Next]_handler PROVE FilesInv'
  OBVIOUS
<1>1. CASE UNCHANGED handler
  BY <1>1 DEF handler, FilesInv
<1>2. CASE Files!HandleRequest
  <2>1. uri' = uri /\ meant' = meant
    BY <1>2 DEF Files!HandleRequest
  <2>2. reply' = Answer(Files!url_decode(uri), exists)
    BY <1>2 DEF Files!HandleRequest, Answer, IsRefused, FileReply
  <2>. QED
    BY <2>1, <2>2 DEF FilesInv
<1>. QED
  BY <1>1, <1>2 DEF Files!Next

LEMMA FilesAreSafe == FilesInv => Files!ReplyIsRight
<1> SUFFICES ASSUME FilesInv PROVE Files!ReplyIsRight
  OBVIOUS
<1>1. /\ Files!NoReply.status = "none" /\ Files!NoReply.extension = <<>>
      /\ \A s : /\ Files!Stock(s).status = s /\ Files!Stock(s).extension = <<>>
      /\ \A l : /\ FileReply(l).status = "ok" /\ FileReply(l).path = l
                /\ FileReply(l).extension = Files!Extension(l)
  BY DEF Files!NoReply, Files!Stock, FileReply
<1>2. CASE reply = Files!NoReply
  BY <1>1, <1>2 DEF Files!ReplyIsRight
<1>3. ASSUME NEW found, reply = Answer(Files!url_decode(uri), found) PROVE Files!ReplyIsRight
  <2> DEFINE decoding == Files!url_decode(uri)
  <2>1. decoding \in Decoding
    <3>1. uri \in Seq(Files!Chars)
      BY DEF FilesInv
    <3>2. PICK d : DecodesFrom(uri, d, 1) /\ Files!url_decode(uri) = d[1]
      BY <3>1, UrlDecodes
    <3>3. 1 \in 1 .. Len(uri) + 3
      BY <3>1
    <3>. QED
      BY <3>2, <3>3 DEF DecodesFrom
  <2>. HIDE DEF decoding
  <2>2. decoding.out \in Seq(Out)
    BY <2>1 DEF Decoding
  <2>3. reply = Answer(decoding, found)
    BY <1>3 DEF decoding
  <2>4. \A i \in DOMAIN reply.extension : reply.extension[i] \notin {"/", "."}
    <3>1. CASE reply.extension = <<>>
      BY <3>1
    <3>2. CASE /\ reply = FileReply(Files!AddIndex(decoding.out))
      <4>1. Files!AddIndex(decoding.out) \in Seq(Out \cup {"index.html"})
        <5>1. decoding.out \in Seq(Out \cup {"index.html"})
          BY <2>2
        <5>2. <<"index.html">> \in Seq(Out \cup {"index.html"})
          OBVIOUS
        <5> DEFINE S == Out \cup {"index.html"}
                   one == <<"index.html">>
                   o == decoding.out
        <5>. HIDE DEF S, one, o
        <5>3. o \in Seq(S) /\ one \in Seq(S)
          BY <5>1, <5>2 DEF S, one, o
        <5>4. o \o one \in Seq(S)
          BY <5>3
        <5>5. Files!AddIndex(o) = o \/ Files!AddIndex(o) = o \o one
          BY DEF Files!AddIndex, one
        <5>6. Files!AddIndex(o) \in Seq(S)
          BY <5>3, <5>4, <5>5
        <5>. QED
          BY <5>6 DEF S, o
      <4>. QED
        BY <1>1, <3>2, <4>1, ExtensionIsRight
    <3>. QED
      BY <1>1, <2>3, <3>1, <3>2 DEF Answer
  <2>5. ASSUME meant # Files!Nothing
        PROVE  /\ (meant = <<>> \/ meant[1] # "/" \/ Files!FindTwoDots(meant))
                    <=> reply.status = "bad_request"
               /\ reply.status = "ok" =>
                    reply.path = meant \o (IF Files!Last(meant) = "/" THEN <<"index.html">> ELSE <<>>)
    <3>1. meant \in Seq(PathChars) /\ uri \in Files!Spelt(meant)
      BY <2>5 DEF FilesInv
    <3>2. decoding = [ok |-> TRUE, out |-> meant]
      BY <3>1, SpeltIsRead DEF decoding
    <3>3. IsRefused(meant) => reply.status = "bad_request"
      BY <1>1, <2>3, <3>2 DEF Answer
    <3>4. ~IsRefused(meant) => \/ reply = Files!Stock("not_found")
                               \/ reply = FileReply(Files!AddIndex(meant))
      BY <2>3, <3>2 DEF Answer
    <3>5. Files!AddIndex(meant) =
            meant \o (IF Files!Last(meant) = "/" THEN <<"index.html">> ELSE <<>>)
      <4>1. meant \o <<>> = meant
        BY <3>1
      <4>. QED
        BY <4>1 DEF Files!AddIndex
    <3>6. ~IsRefused(meant) => reply.status # "bad_request"
      BY <1>1, <3>4
    <3>7. reply.status = "ok" => reply.path = Files!AddIndex(meant)
      BY <1>1, <3>3, <3>4
    <3>. QED
      BY <3>3, <3>5, <3>6, <3>7 DEF IsRefused
  <2>. QED
    BY <2>4, <2>5 DEF Files!ReplyIsRight
<1>. QED
  BY <1>2, <1>3 DEF FilesInv

\* For every length of a uri: the handler opens the file that the uri names,
\* however it is spelt, and refuses what is not absolute or has two dots.
THEOREM FilesAreRight == FairServersSpec => [](program = 7 => VerdictsAreRight)
<1>1. ServersInit => FilesInv
  BY FilesInvInit DEF ServersInit
<1>2. [\/ OneThreadNext \/ PoolNext \/ CoroNext
       \/ ParserNext \/ Parser4Next \/ HandlerNext]_<<others, servers>>
        => [Files!Next]_handler
  BY DEF OneThreadNext, PoolNext, CoroNext, ParserNext, Parser4Next, HandlerNext, others
<1>3. FilesInv => (program = 7 => VerdictsAreRight)
  BY FilesAreSafe DEF VerdictsAreRight
<1>. QED
  BY <1>1, <1>2, <1>3, FilesInvStep, PTL DEF FairServersSpec
==============================================================================
