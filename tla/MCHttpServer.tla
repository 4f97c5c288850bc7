----------------------------- MODULE MCHttpServer -----------------------------
(***************************************************************************)
(* The HTTP servers, their request parsers and their request handler on    *)
(* small instances, each in executions of its own: `program` says which,   *)
(* and the variables of the others keep their first values.                *)
(***************************************************************************)
EXTENDS HttpServer

CONSTANTS c1, c2, c3, c4,
          PoolConns, NumThreads, \* of the servers with a pool
          SizeMax, MaxOdd, Garbage, \* of the parsers
          MaxUri                 \* of the request handler

ASSUME PoolAssumption == NumThreads \in Nat \ {0} /\ IsFiniteSet(PoolConns)
ASSUME UriAssumption == MaxUri \in Nat

TwoConns == {c1, c2}
ThreeConns == {c1, c2, c3}
FourConns == {c1, c2, c3, c4}

\* All but those that are in no other class than one of these
PlainBytes == {"H", "T", "P", "/", ".", "1", "SP", "HT", "CR", "LF", ":", "a", "high"}

VARIABLES program,
          server, next, context, poolConn, poolAccept, poolSignal, poolRead,
          poolWrite, at, conn, stopped, toStop,
          socket, coAccept, forks, coRead, coWrite, coSignal, running,
          state, request, input, odd,
          state4, request4, length4, input4, odd4,
          uri, meant, exists, reply

pool == <<server, next, context, poolConn, poolAccept, poolSignal, poolRead,
          poolWrite, at, conn, stopped, toStop>>

Pool == INSTANCE HttpServerPool WITH
  Conns <- PoolConns, newConn <- poolConn, accept <- poolAccept,
  signal <- poolSignal, read <- poolRead, write <- poolWrite

coro == <<socket, coAccept, forks, coRead, coWrite, coSignal, running>>

Coro == INSTANCE HttpServer4 WITH
  Conns <- PoolConns, accept <- coAccept, read <- coRead, write <- coWrite,
  signal <- coSignal

parser == <<state, request, input, odd>>

Parser == INSTANCE RequestParser WITH Bytes <- PlainBytes

parser4 == <<state4, request4, length4, input4, odd4>>

Parser4 == INSTANCE RequestParser4 WITH
  Bytes <- PlainBytes \cup {"L", "-"}, state <- state4, request <- request4,
  length <- length4, input <- input4, odd <- odd4

handler == <<uri, meant, exists, reply>>

Files == INSTANCE RequestHandler

others == <<program, parser, parser4, handler>>
servers == <<vars, pool, coro>>

OneThreadNext == program = 1 /\ Next /\ UNCHANGED <<others, pool, coro>>
PoolNext == program = server /\ Pool!Next /\ UNCHANGED <<others, vars, coro>>
CoroNext == program = 4 /\ Coro!Next /\ UNCHANGED <<others, vars, pool>>
ParserNext == program = 5 /\ Parser!Next /\ UNCHANGED <<program, servers, parser4, handler>>
Parser4Next == program = 6 /\ Parser4!Next /\ UNCHANGED <<program, servers, parser, handler>>
HandlerNext == program = 7 /\ Files!Next /\ UNCHANGED <<program, servers, parser, parser4>>

\* The connections are alike: which one comes first makes no difference.
ServersInit == /\ program \in 1 .. 7 /\ Init /\ Pool!Init /\ Coro!Init
               /\ Parser!Init /\ Parser4!Init
               /\ Files!Init /\ (program # 7 => uri = <<>> /\ meant = <<>> /\ exists)
               /\ newConn = c1 /\ poolConn = c1 /\ socket = {c1}
               /\ server = IF program = 3 THEN 3 ELSE 2

FairServersSpec ==
  /\ ServersInit /\ [][\/ OneThreadNext \/ PoolNext \/ CoroNext
                    \/ ParserNext \/ Parser4Next \/ HandlerNext]_<<others, servers>>
  /\ Fairness /\ Pool!Fairness /\ Coro!Fairness

-----------------------------------------------------------------------------
(* Properties of all *)

\* Each parser accepts the requests, with what they say, rejects what cannot
\* become one, and asks for more only of what can.  The handler opens the file
\* that the uri names.
VerdictsAreRight == /\ program = 5 => Parser!VerdictIsRight
                    /\ program = 6 => Parser4!VerdictIsRight
                    /\ program = 7 => Files!ReplyIsRight

\* The variables of each server keep their types.
ServerTypesOK == TypeOK /\ Pool!TypeOK /\ Coro!TypeOK

\* A connection has one operation under way or one handler running at a time,
\* so that handlers share request_, reply_ and buffer_ without a lock, with
\* one thread, with a thread for each io_context and with several for one; of
\* the coroutine's copies no two have a socket in common.
HandlersDoNotOverlap == OneOperationEach /\ Pool!OneThreadEach /\ Coro!CopiesAreApart

\* "While the server is running, there is always at least one asynchronous
\* operation outstanding: the asynchronous accept call" (server.cpp:52-54),
\* or the one thread that starts the next; in http_server4, until it fails.
AcceptsContinue == AcceptIsOutstanding /\ Pool!OneAcceptor /\ Coro!ParentAccepts

\* After a signal each server's run() returns, whatever is under way.
EveryRunReturns == RunReturnsAfterSignal /\ Pool!RunReturns /\ Coro!RunReturns
==============================================================================
