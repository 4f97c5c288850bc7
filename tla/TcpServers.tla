----------------------------- MODULE TcpServers -----------------------------
(***************************************************************************)
(* The small TCP servers: three echo what they read, async_tcp_echo_server *)
(* ("tcp"), ssl_server ("ssl") and allocation ("allocation"); two write    *)
(* the time, 2.Daytime.3 ("daytime", in 2.Daytime.7 again) and             *)
(* buffers/reference_counted.cpp ("buffers").                              *)
(*                                                                         *)
(* The sessions of "tcp" and "ssl" are raw pointers that their handlers    *)
(* delete; those of the others are destroyed with the last shared_ptr to   *)
(* them, which the handler of an operation holds.  One thread runs the     *)
(* io_context, a handler is one step.  A chunk of data is its number.      *)
(***************************************************************************)
EXTENDS Naturals, Sequences, FiniteSets

CONSTANTS Sessions, \* addresses of session objects; one is accepted only when
                    \* there is another to accept the next connection
          MaxChunks \* bound: the chunks a client sends

Servers == {"tcp", "ssl", "allocation", "daytime", "buffers"}
Operations == {"accept", "handshake", "read", "write"}
Finished == {"ok", "error"}

VARIABLES kind,   \* the server
          alive,  \* the sessions that exist
          status, \* each operation of each session
          data,   \* data_, _message
          got,    \* auxiliary: the number of chunks read
          sent,   \* auxiliary: the chunks written
          inUse,  \* in_use_ of the session's handler_memory
          place   \* auxiliary: where the handler of its operation is

memory == <<inUse, place>>
vars == <<kind, alive, status, data, got, sent, memory>>

RawPointers == {"tcp", "ssl"}
Idle == [o \in Operations |-> "none"]
Only(o) == [Idle EXCEPT ![o] = "pending"]

Init == /\ kind \in Servers
        /\ \E s \in Sessions :
             /\ alive = {s}
             /\ status = [x \in Sessions |-> IF x = s THEN Only("accept") ELSE Idle]
        /\ data = [s \in Sessions |-> 0] /\ got = [s \in Sessions |-> 0]
        /\ sent = [s \in Sessions |-> <<>>]
        /\ inUse = [s \in Sessions |-> FALSE]
        /\ place = [s \in Sessions |-> "none"]

-----------------------------------------------------------------------------
(* handler_memory: a block for one handler; the next goes to the heap *)

KeepInUse(s) == inUse[s] \* mutant: deallocate() leaves in_use_

\* The memory of a handler is given back before the handler runs.
Deallocate(s) == inUse[s] /\ place[s] # "block"

Allocate(s) == \* for the operation that a handler of s starts
  /\ place' = [place EXCEPT ![s] = IF Deallocate(s) THEN "heap" ELSE "block"]
  /\ inUse' = [inUse EXCEPT ![s] = TRUE]

Release(s) ==
  /\ inUse' = [inUse EXCEPT ![s] = Deallocate(s)]
  /\ place' = [place EXCEPT ![s] = "none"]

Memory(s, starts) ==
  IF kind # "allocation" THEN UNCHANGED memory
  ELSE IF starts THEN Allocate(s) ELSE Release(s)

-----------------------------------------------------------------------------
(* The handlers of a session *)

Start(s, o) ==
  /\ status' = [status EXCEPT ![s] = Only(o)]
  /\ Memory(s, TRUE)
  /\ UNCHANGED alive

Destroy(s) == \* delete this, or the last shared_ptr
  /\ status' = [status EXCEPT ![s] = Idle]
  /\ alive' = alive \ {s}
  /\ Memory(s, FALSE)

HandleHandshake(s) ==
  /\ kind = "ssl"
  /\ \/ status[s]["handshake"] = "ok" /\ Start(s, "read")
     \/ status[s]["handshake"] = "error" /\ Destroy(s)
  /\ UNCHANGED <<kind, data, got, sent>>

ReadOn(s) == \* mutant: the next read is started with the write
  /\ \/ status[s]["read"] = "ok"
        /\ status' = [status EXCEPT ![s] = [Only("read") EXCEPT !["write"] = "pending"]]
        /\ Memory(s, TRUE) /\ UNCHANGED alive
     \/ status[s]["read"] = "error" /\ Destroy(s)
  /\ UNCHANGED <<kind, data, got, sent>>

HandleRead(s) ==
  /\ \/ status[s]["read"] = "ok" /\ Start(s, "write")
     \/ status[s]["read"] = "error" /\ Destroy(s)
  /\ UNCHANGED <<kind, data, got, sent>>

HandleWriteLeaks(s) == \* mutant: no delete after a write that failed
  /\ \/ status[s]["write"] = "ok" /\ Start(s, "read")
     \/ /\ status[s]["write"] = "error"
        /\ status' = [status EXCEPT ![s] = Idle]
        /\ Memory(s, FALSE) /\ UNCHANGED alive
  /\ UNCHANGED <<kind, data, got, sent>>

HandleWrite(s) ==
  /\ \/ status[s]["write"] = "ok" /\ Start(s, "read")
     \/ status[s]["write"] = "error" /\ Destroy(s)
  /\ UNCHANGED <<kind, data, got, sent>>

HandleWritten(s) == \* of the time: nothing follows
  /\ status[s]["write"] \in Finished /\ Destroy(s)
  /\ UNCHANGED <<kind, data, got, sent>>

TcpSession(s) == kind = "tcp" /\ (HandleRead(s) \/ HandleWrite(s))
SslSession(s) == kind = "ssl" /\ (HandleHandshake(s) \/ HandleRead(s) \/ HandleWrite(s))
AllocationSession(s) == kind = "allocation" /\ (HandleRead(s) \/ HandleWrite(s))
DaytimeSession(s) == kind = "daytime" /\ HandleWritten(s)
BuffersSession(s) == kind = "buffers" /\ HandleWritten(s)

-----------------------------------------------------------------------------
(* The server *)

First == \* the operation that start() starts
  IF kind = "ssl" THEN "handshake"
  ELSE IF kind \in {"daytime", "buffers"} THEN "write" ELSE "read"

\* The session that was accepted starts, or is destroyed: a raw pointer before
\* the next session is made, the others after, when their handler is.
HandleAccept(s, n) ==
  /\ status[s]["accept"] \in Finished
  /\ LET ok == status[s]["accept"] = "ok"
     IN /\ n \notin IF ok \/ kind \notin RawPointers THEN alive ELSE alive \ {s}
        /\ alive' = (IF ok THEN alive ELSE alive \ {s}) \cup {n}
        /\ status' = [status EXCEPT ![s] = IF ok THEN Only(First) ELSE Idle,
                                    ![n] = Only("accept")]
        /\ data' = [data EXCEPT ![s] = IF ok /\ First = "write" THEN 1 ELSE 0, ![n] = 0]
        /\ IF ok THEN Memory(s, TRUE) ELSE UNCHANGED memory
  /\ got' = [got EXCEPT ![n] = 0]
  /\ sent' = [sent EXCEPT ![n] = <<>>]
  /\ UNCHANGED kind

-----------------------------------------------------------------------------
(* The network *)

Complete(s, o) ==
  /\ status[s][o] = "pending"
  /\ \E end \in Finished :
       /\ status' = [status EXCEPT ![s][o] = end]
       /\ IF o = "read" /\ end = "ok"
          THEN /\ got[s] < MaxChunks
               /\ got' = [got EXCEPT ![s] = @ + 1]
               /\ data' = [data EXCEPT ![s] = got[s] + 1]
          ELSE UNCHANGED <<got, data>>
       /\ sent' = IF o = "write" /\ end = "ok"
                  THEN [sent EXCEPT ![s] = Append(@, data[s])] ELSE sent
  /\ UNCHANGED <<kind, alive, memory>>

Next == \E s \in Sessions :
          \/ TcpSession(s) \/ SslSession(s) \/ AllocationSession(s)
          \/ DaytimeSession(s) \/ BuffersSession(s)
          \/ \E n \in Sessions : HandleAccept(s, n)
          \/ \E o \in Operations : Complete(s, o)

Spec == Init /\ [][Next]_vars

-----------------------------------------------------------------------------
(* Properties *)

TypeOK ==
  /\ kind \in Servers /\ alive \subseteq Sessions
  /\ status \in [Sessions -> [Operations -> {"none", "pending"} \cup Finished]]
  /\ data \in [Sessions -> 0 .. MaxChunks] /\ got \in [Sessions -> 0 .. MaxChunks]
  /\ sent \in [Sessions -> Seq(0 .. MaxChunks)]
  /\ inUse \in [Sessions -> BOOLEAN]
  /\ place \in [Sessions -> {"none", "block", "heap"}]

UnderWay(s) == {o \in Operations : status[s][o] # "none"}

\* Each session has one operation, whose handler is all that refers to it: none
\* is forgotten, and no handler runs on one that is destroyed.  Exactly one is
\* being accepted.  As there is one handler, the block is free for it whenever
\* it is asked for: no handler goes to the heap.
OneOperationEach ==
  /\ \A s \in Sessions : Cardinality(UnderWay(s)) = IF s \in alive THEN 1 ELSE 0
  /\ Cardinality({s \in Sessions : status[s]["accept"] # "none"}) = 1
  /\ kind = "allocation" =>
       \A s \in alive : /\ inUse[s] = ("accept" \notin UnderWay(s))
                        /\ place[s] = IF inUse[s] THEN "block" ELSE "none"

\* What a client gets back is what it sent, each chunk once and in order,
\* although one data_ serves the reads and the writes; or the time, once.
EchoIsFaithful ==
  \A s \in Sessions :
    /\ sent[s] = [k \in 1 .. Len(sent[s]) |-> k]
    /\ Len(sent[s]) <= IF kind \in {"daytime", "buffers"} THEN 1 ELSE got[s]
==============================================================================
