---------------------------- MODULE HandlerQueue ----------------------------
(***************************************************************************)
(* The program of invocation.cpp: the io_context does not run handlers but *)
(* adds them, through the executor they are bound to, to a queue, which    *)
(* main() empties in the order of the priorities when nothing else is      *)
(* ready.  A handler is its priority.                                      *)
(***************************************************************************)
EXTENDS Naturals, Sequences, FiniteSets, FiniteSetsExt

CONSTANTS Priorities \* of the handlers

VARIABLES pending,  \* the operations that have not completed
          ready,    \* the handlers the io_context can invoke
          handlers, \* handlers_
          main,     \* "run one", "poll one", "execute", "pop", "returned"
          handler,  \* handler, the local variable of execute_all()
          executed  \* auxiliary: what was executed, in this order

vars == <<pending, ready, handlers, main, handler, executed>>

NoHandler == 1000 \* no priority

\* What is posted is ready, the others are when the network and the timer are.
Init == /\ ready = {Min(Priorities)} /\ pending = Priorities \ ready
        /\ handlers = {} /\ main = "run one" /\ handler = NoHandler /\ executed = <<>>

Completes == \* external: the operation of a handler
  /\ \E h \in pending : pending' = pending \ {h} /\ ready' = ready \cup {h}
  /\ UNCHANGED <<handlers, main, handler, executed>>

\* executor::dispatch(): the handler is added to the queue.
Add(h) == ready' = ready \ {h} /\ handlers' = handlers \cup {h}

RunOne == \* waits until one is ready, or there is nothing left to wait for
  /\ main = "run one"
  /\ \/ \E h \in ready : Add(h) /\ main' = "poll one"
     \/ /\ ready \cup pending = {} /\ main' = "returned"
        /\ UNCHANGED <<ready, handlers>>
  /\ UNCHANGED <<pending, handler, executed>>

PollOne == \* the inner loop
  /\ main = "poll one"
  /\ \/ \E h \in ready : Add(h) /\ UNCHANGED main
     \/ ready = {} /\ main' = "execute" /\ UNCHANGED <<ready, handlers>>
  /\ UNCHANGED <<pending, handler, executed>>

Lowest(S) == Min(S) \* mutant: operator< the wrong way round

Highest(S) == Max(S)

Execute == \* top(), execute()
  /\ main = "execute" /\ handlers # {}
  /\ handler' = Highest(handlers) /\ executed' = Append(executed, handler')
  /\ main' = "pop"
  /\ UNCHANGED <<pending, ready, handlers>>

KeepTop == \* mutant: the handler is not taken off when another is there
  /\ main = "pop" /\ main' = "execute"
  /\ handlers' = IF Cardinality(handlers) > 1 THEN handlers ELSE {}
  /\ UNCHANGED <<pending, ready, handler, executed>>

Pop == \* takes off what is the first by now
  /\ main = "pop" /\ main' = "execute"
  /\ handlers' = handlers \ {Highest(handlers)} /\ handler' = NoHandler
  /\ UNCHANGED <<pending, ready, executed>>

AllExecuted ==
  /\ main = "execute" /\ handlers = {} /\ main' = "run one"
  /\ UNCHANGED <<pending, ready, handlers, handler, executed>>

Next == Completes \/ RunOne \/ PollOne \/ Execute \/ Pop \/ AllExecuted

Spec == Init /\ [][Next]_vars

-----------------------------------------------------------------------------
(* Properties *)

\* Each handler is executed once, when main() returns all are, and one that
\* waited in the queue is executed before those of lower priorities.
HandlersRunOnceByPriority ==
  LET ran == {executed[k] : k \in DOMAIN executed}
  IN /\ Cardinality(ran) = Len(executed)
     /\ main = "returned" => ran = Priorities
     /\ handler # NoHandler => handler \in handlers /\ \A h \in handlers : h <= handler
     /\ ran \cap (pending \cup ready) = {}
==============================================================================
