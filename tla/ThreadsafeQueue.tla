--------------------------- MODULE ThreadsafeQueue ---------------------------
(***************************************************************************)
(* class threadsafe_queue of 6.lock_based/threadsafe_queue.hpp: a linked   *)
(* list with a dummy tail node, one mutex for each end and a condition     *)
(* variable used with the head mutex.  A node is an address of the heap    *)
(* Nodes: `new node` takes any address that is free, so that the address   *)
(* of a popped node can come back, and `unique_ptr` frees it.              *)
(*                                                                         *)
(* The critical section of get_tail() is one read and is one step; the one *)
(* of push() is split where another thread could look.  A wait releases    *)
(* the head mutex and blocks in one step, as condition_variable::wait      *)
(* does, and may end without a notification.                               *)
(***************************************************************************)
EXTENDS Naturals, Sequences, FiniteSets

CONSTANTS Producers, \* threads that call push()
          Consumers, \* threads that call the pops; a thread may be both
          Values,
          Nodes,     \* the heap; push() is called only when it is not full
          NoThread,  \* owner of a free mutex
          Null       \* nullptr

Threads == Producers \cup Consumers

ASSUME QueueAssumption == /\ NoThread \notin Threads
                          /\ Null \notin Nodes \cup Values

VARIABLES head, tail,           \* _head, _tail
          next, data,           \* the fields of each node
          heap,                 \* the allocated nodes
          headMutex, tailMutex, \* the owners of _head_mutex, _tail_mutex
          waiting,              \* the threads blocked in _cond.wait
          pc,                   \* the next step of each thread
          method, byRef,        \* what it called: byRef is the T& overload
          node,                 \* its local `n` or `old`
          seen,                 \* what its get_tail() returned
          val,                  \* its argument or its result
          chain                 \* auxiliary: the nodes from head to tail

list == <<head, tail, next, data, heap, chain>>
locals == <<method, byRef, node, seen, val>>
vars == <<list, headMutex, tailMutex, waiting, pc, locals>>

Init ==
  \E dummy \in Nodes :
    /\ head = dummy /\ tail = dummy
    /\ chain = <<dummy>>
    /\ heap = {dummy}
    /\ next = [n \in Nodes |-> Null]
    /\ data = [n \in Nodes |-> Null]
    /\ headMutex = NoThread /\ tailMutex = NoThread
    /\ waiting = {}
    /\ pc = [t \in Threads |-> "idle"]
    /\ method = [t \in Threads |-> "push"]
    /\ byRef = [t \in Threads |-> FALSE]
    /\ node = [t \in Threads |-> Null]
    /\ seen = [t \in Threads |-> Null]
    /\ val = [t \in Threads |-> Null]

Goto(t, from, to) == pc[t] = from /\ pc' = [pc EXCEPT ![t] = to]

-----------------------------------------------------------------------------
(* push(value) *)

PushCall(t) == \* make_shared and new node, before the lock
  /\ t \in Producers
  /\ Goto(t, "idle", "lockTail")
  /\ \E v \in Values, n \in Nodes \ heap :
       /\ val' = [val EXCEPT ![t] = v]
       /\ node' = [node EXCEPT ![t] = n]
       /\ heap' = heap \cup {n}
       /\ next' = [next EXCEPT ![n] = Null]
       /\ data' = [data EXCEPT ![n] = Null]
  /\ method' = [method EXCEPT ![t] = "push"]
  /\ UNCHANGED <<head, tail, chain, headMutex, tailMutex, waiting, byRef, seen>>

LockTailAnyway(t) == \* mutant: push() without its lock_guard
  /\ Goto(t, "lockTail", "link")
  /\ tailMutex' = t
  /\ UNCHANGED <<list, headMutex, waiting, locals>>

LockTail(t) ==
  /\ Goto(t, "lockTail", "link")
  /\ tailMutex = NoThread
  /\ tailMutex' = t
  /\ UNCHANGED <<list, headMutex, waiting, locals>>

Link(t) == \* _tail->data = ptr; _tail->next = std::move(n)
  /\ Goto(t, "link", "setTail")
  /\ data' = [data EXCEPT ![tail] = val[t]]
  /\ next' = [next EXCEPT ![tail] = node[t]]
  /\ UNCHANGED <<head, tail, heap, chain, headMutex, tailMutex, waiting, locals>>

SetTail(t) == \* _tail = new_tail and the end of the lock_guard's block
  /\ Goto(t, "setTail", "notify")
  /\ tail' = node[t]
  /\ chain' = Append(chain, node[t])
  /\ tailMutex' = NoThread
  /\ UNCHANGED <<head, next, data, heap, headMutex, waiting, locals>>

Notify(t) == \* _cond.notify_one(), with no mutex held
  /\ Goto(t, "notify", "idle")
  /\ IF waiting = {} THEN waiting' = waiting
                     ELSE \E w \in waiting : waiting' = waiting \ {w}
  /\ val' = [val EXCEPT ![t] = Null]
  /\ node' = [node EXCEPT ![t] = Null]
  /\ UNCHANGED <<list, headMutex, tailMutex, method, byRef, seen>>

-----------------------------------------------------------------------------
(* wait_and_pop() and try_pop(), each in two overloads *)

PopCall(t) ==
  /\ t \in Consumers
  /\ Goto(t, "idle", "lockHead")
  /\ \E m \in {"wait_and_pop", "try_pop"} : method' = [method EXCEPT ![t] = m]
  /\ \E b \in BOOLEAN : byRef' = [byRef EXCEPT ![t] = b]
  /\ UNCHANGED <<list, headMutex, tailMutex, waiting, node, seen, val>>

LockHeadAnyway(t) == \* mutant: a pop without _head_mutex
  /\ Goto(t, "lockHead", "getTail")
  /\ headMutex' = t
  /\ UNCHANGED <<list, tailMutex, waiting, locals>>

LockHead(t) ==
  /\ Goto(t, "lockHead", "getTail")
  /\ headMutex = NoThread
  /\ headMutex' = t
  /\ UNCHANGED <<list, tailMutex, waiting, locals>>

GetTail(t) ==
  /\ Goto(t, "getTail", "test")
  /\ tailMutex = NoThread
  /\ seen' = [seen EXCEPT ![t] = tail]
  /\ UNCHANGED <<list, headMutex, tailMutex, waiting, method, byRef, node, val>>

NeverEmpty(t) == FALSE \* mutant: no comparison with the tail

NoSuccessor(t) == next[head] = Null \* mutant: test head->next, not the tail

Empty(t) == head = seen[t]

WaitInAnyPop(t) == \* mutant: try_pop() waits as well
  /\ Empty(t)
  /\ Goto(t, "test", "wait")
  /\ waiting' = waiting \cup {t}
  /\ headMutex' = NoThread
  /\ seen' = [seen EXCEPT ![t] = Null]
  /\ UNCHANGED <<list, tailMutex, method, byRef, node, val>>

Wait(t) == \* the predicate is false: release the mutex and block
  /\ Empty(t) /\ method[t] = "wait_and_pop"
  /\ Goto(t, "test", "wait")
  /\ waiting' = waiting \cup {t}
  /\ headMutex' = NoThread
  /\ seen' = [seen EXCEPT ![t] = Null]
  /\ UNCHANGED <<list, tailMutex, method, byRef, node, val>>

SpuriousWakeup(t) ==
  /\ t \in waiting
  /\ waiting' = waiting \ {t}
  /\ UNCHANGED <<list, headMutex, tailMutex, pc, locals>>

WakeupAndPop(t) == \* mutant: the predicate is not tested again
  /\ Goto(t, "wait", "test")
  /\ t \notin waiting
  /\ headMutex = NoThread
  /\ headMutex' = t
  /\ UNCHANGED <<list, tailMutex, waiting, locals>>

Wakeup(t) == \* notified or not, wait() takes the mutex and tests again
  /\ Goto(t, "wait", "getTail")
  /\ t \notin waiting
  /\ headMutex = NoThread
  /\ headMutex' = t
  /\ UNCHANGED <<list, tailMutex, waiting, locals>>

ReturnNothing(t) ==
  /\ Empty(t) /\ method[t] = "try_pop"
  /\ Goto(t, "test", "idle")
  /\ headMutex' = NoThread
  /\ seen' = [seen EXCEPT ![t] = Null]
  /\ UNCHANGED <<list, tailMutex, waiting, method, byRef, node, val>>

PopHead(t) == \* value = std::move(*_head->data), pop_head(), unlock
  /\ ~Empty(t)
  /\ Goto(t, "test", "return")
  /\ node' = [node EXCEPT ![t] = head]
  /\ IF byRef[t] THEN val' = [val EXCEPT ![t] = data[head]] ELSE val' = val
  /\ head' = next[head]
  /\ next' = [next EXCEPT ![head] = Null]
  /\ chain' = Tail(chain)
  /\ headMutex' = NoThread
  /\ seen' = [seen EXCEPT ![t] = Null]
  /\ UNCHANGED <<tail, data, heap, tailMutex, waiting, method, byRef>>

Return(t) == \* return old->data, ~old
  /\ Goto(t, "return", "idle")
  /\ heap' = heap \ {node[t]}
  /\ node' = [node EXCEPT ![t] = Null]
  /\ val' = [val EXCEPT ![t] = Null]
  /\ UNCHANGED <<head, tail, next, data, chain, headMutex, tailMutex, waiting,
                 method, byRef, seen>>

-----------------------------------------------------------------------------
Push(t) == LockTail(t) \/ Link(t) \/ SetTail(t) \/ Notify(t)

Pop(t) == \/ LockHead(t) \/ GetTail(t) \/ Wait(t) \/ Wakeup(t)
          \/ ReturnNothing(t) \/ PopHead(t) \/ Return(t)

Call(t) == PushCall(t) \/ PopCall(t)

Next == \E t \in Threads : Call(t) \/ Push(t) \/ Pop(t) \/ SpuriousWakeup(t)

Spec == Init /\ [][Next]_vars

(***************************************************************************)
(* A thread inside a call keeps running, and a mutex that keeps becoming   *)
(* free is eventually granted to each thread that waits for it.  Nobody    *)
(* has to make a further call, and no wakeup has to be spurious.           *)
(***************************************************************************)
Fairness == \A t \in Threads : SF_vars(Push(t)) /\ SF_vars(Pop(t))

FairSpec == Spec /\ Fairness

-----------------------------------------------------------------------------
(* Properties *)

Nullable(S) == S \cup {Null}

InList == {chain[i] : i \in 1 .. Len(chain)}

\* Each variable keeps its type.
TypeOK ==
  /\ head \in Nodes /\ tail \in Nodes
  /\ next \in [Nodes -> Nullable(Nodes)]
  /\ data \in [Nodes -> Nullable(Values)]
  /\ heap \subseteq Nodes
  /\ chain \in Seq(Nodes)
  /\ headMutex \in Threads \cup {NoThread}
  /\ tailMutex \in Threads \cup {NoThread}
  /\ waiting \subseteq Threads
  /\ pc \in [Threads -> {"idle", "lockTail", "link", "setTail", "notify",
                        "lockHead", "getTail", "test", "wait", "return"}]
  /\ method \in [Threads -> {"push", "wait_and_pop", "try_pop"}]
  /\ byRef \in [Threads -> BOOLEAN]
  /\ node \in [Threads -> Nullable(Nodes)]
  /\ seen \in [Threads -> Nullable(Nodes)]
  /\ val \in [Threads -> Nullable(Values)]

\* The linked list runs from _head to _tail through distinct nodes, and each
\* node before the dummy tail carries a value: the shape every pop relies on
\* while it holds only the head mutex (lines 284-289, 359-374).
ListIsWellFormed ==
  /\ Len(chain) >= 1
  /\ head = chain[1] /\ tail = chain[Len(chain)]
  /\ \A i, j \in 1 .. Len(chain) : chain[i] = chain[j] => i = j
  /\ \A i \in 1 .. Len(chain) - 1 :
       next[chain[i]] = chain[i + 1] /\ data[chain[i]] # Null

\* A pop that goes on to pop_head() never works on the node a push is
\* filling at the same time, although they hold different mutexes.
EndsAreDisjoint ==
  \A p, c \in Threads :
    (pc[p] \in {"link", "setTail"} /\ pc[c] = "test" /\ ~Empty(c))
      => head # tail /\ next[head] # Null /\ data[head] # Null

\* The tail that wait_for_data() or try_pop_head() compares with _head after
\* get_tail() has released the tail mutex is old but never freed: its address
\* cannot have come back as another node.
StaleTailIsLive == \A t \in Threads : pc[t] = "test" => seen[t] \in InList

\* A mutex is held exactly by the thread whose next step is inside its
\* critical section (lock_guard, unique_lock and the wait that releases it).
MutexesAreHeldByTheirSections ==
  \A t \in Threads :
    /\ (headMutex = t) <=> (pc[t] \in {"getTail", "test"})
    /\ (tailMutex = t) <=> (pc[t] \in {"link", "setTail"})

(***************************************************************************)
(* The queue implements WaitableQueue.  A push takes effect when it moves  *)
(* _tail, a pop when it moves _head, and a try_pop that finds nothing took *)
(* effect when it read the tail, not when it compared.                     *)
(***************************************************************************)
Effective(t) == \/ pc[t] \in {"notify", "return"}
                \/ pc[t] = "test" /\ method[t] = "try_pop" /\ Empty(t)

Result(t) == IF pc[t] = "return" /\ ~byRef[t] THEN data[node[t]] ELSE val[t]

Items == [i \in 1 .. Len(chain) - 1 |-> data[chain[i]]]

Phases == [t \in Threads |-> IF pc[t] = "idle" THEN "idle"
                             ELSE IF Effective(t) THEN "done" ELSE "called"]

Results == [t \in Threads |-> Result(t)]

Abstract == INSTANCE WaitableQueue WITH items <- Items, phase <- Phases, val <- Results

\* Every call behaves as if it happened at one instant on a FIFO queue.
ImplementsWaitableQueue == Abstract!Spec

\* A push always returns, and so does a try_pop: neither blocks on anything
\* but the short critical sections of the others.
CallsReturn ==
  \A t \in Threads :
    (pc[t] = "lockTail" \/ (pc[t] = "lockHead" /\ method[t] = "try_pop"))
      ~> (pc[t] = "idle")

\* What makes the queue "waitable" (line 258): a thread does not stay blocked
\* in wait_and_pop() for ever while there is a value in the queue.
WaitersAreServed ==
  \A c \in Consumers : (c \in waiting /\ Len(chain) > 1) ~>
                         (c \notin waiting \/ Len(chain) = 1)
==============================================================================
