---------------------------- MODULE LockFreeStack ----------------------------
(***************************************************************************)
(* class lock_free_stack of 7.lock_free/lock_free_stack.hpp.  Each access  *)
(* of an atomic is a step; so is the read of old_head->next in pop(),      *)
(* which another thread's chain_pending_nodes() may be writing.  Nodes are *)
(* the addresses of a heap: `new` takes any that is free, so the address   *)
(* of a deleted node comes back.  What a thread does to nodes that only it *)
(* can reach is part of the step before or after.                          *)
(*                                                                         *)
(* compare_exchange_weak may fail though nothing has changed.  The         *)
(* constructor leaves _head and _to_be_deleted to std::atomic's own, which *)
(* makes them null since C++20.                                            *)
(***************************************************************************)
EXTENDS Naturals, Sequences, FiniteSets

CONSTANTS Threads, Values,
          Nodes, \* the heap; push() is called only when it is not full
          Null   \* nullptr, and the null shared_ptr

ASSUME StackAssumption == /\ Null \notin Nodes \cup Values \cup Threads
                          /\ IsFiniteSet(Threads) /\ IsFiniteSet(Nodes)

VARIABLES head,         \* _head
          toBeDeleted,  \* _to_be_deleted
          threadsInPop, \* _threads_in_pop
          next, data,   \* the fields of each node
          heap,         \* the allocated nodes
          pc,           \* the next step of each thread
          node,         \* its new_node or old_head
          seen,         \* the old_head->next it read
          batch,        \* its nodes_to_delete
          last,         \* last, of chain_pending_nodes()
          res,          \* its result
          stack         \* auxiliary: the nodes on the stack, top first

shared == <<head, toBeDeleted, threadsInPop, next, data, heap, stack>>
locals == <<node, seen, batch, last, res>>
vars == <<shared, pc, locals>>

Init == /\ head = Null /\ toBeDeleted = Null /\ threadsInPop = 0
        /\ next = [n \in Nodes |-> Null]
        /\ data = [n \in Nodes |-> Null]
        /\ heap = {}
        /\ pc = [t \in Threads |-> "idle"]
        /\ node = [t \in Threads |-> Null]
        /\ seen = [t \in Threads |-> Null]
        /\ batch = [t \in Threads |-> Null]
        /\ last = [t \in Threads |-> Null]
        /\ res = [t \in Threads |-> Null]
        /\ stack = <<>>

Goto(t, from, to) == pc[t] = from /\ pc' = [pc EXCEPT ![t] = to]

\* The nodes linked from n, n first (cut off where a cycle begins).
List(n) ==
  LET from[k \in 0 .. Cardinality(Nodes)] ==
        [m \in Nodes \cup {Null} |->
           IF m = Null \/ k = 0 THEN <<>> ELSE <<m>> \o from[k - 1][next[m]]]
  IN from[Cardinality(Nodes)][n]

Members(n) == LET l == List(n) IN {l[i] : i \in 1 .. Len(l)}

-----------------------------------------------------------------------------
(* push(data) *)

PushCall(t) ==
  /\ Goto(t, "idle", "push")
  /\ \E n \in Nodes \ heap, v \in Values :
       /\ node' = [node EXCEPT ![t] = n]
       /\ heap' = heap \cup {n}
       /\ data' = [data EXCEPT ![n] = v]
       /\ next' = [next EXCEPT ![n] = head]
  /\ UNCHANGED <<head, toBeDeleted, threadsInPop, stack, seen, batch, last, res>>

PushFails(t) == \* the exchange fails and loads _head into new_node->next
  /\ Goto(t, "push", "push")
  /\ next' = [next EXCEPT ![node[t]] = head]
  /\ UNCHANGED <<head, toBeDeleted, threadsInPop, data, heap, stack, node, seen, batch,
                 last, res>>

PushAnyway(t) == \* mutant: a plain store to _head
  /\ Goto(t, "push", "pushed")
  /\ head' = node[t]
  /\ stack' = <<node[t]>> \o stack
  /\ UNCHANGED <<toBeDeleted, threadsInPop, next, data, heap, locals>>

Push(t) ==
  /\ Goto(t, "push", "pushed")
  /\ head = next[node[t]]
  /\ head' = node[t]
  /\ stack' = <<node[t]>> \o stack
  /\ UNCHANGED <<toBeDeleted, threadsInPop, next, data, heap, locals>>

PushReturn(t) ==
  /\ Goto(t, "pushed", "idle")
  /\ node' = [node EXCEPT ![t] = Null]
  /\ UNCHANGED <<shared, seen, batch, last, res>>

-----------------------------------------------------------------------------
(* pop() *)

EnterUncounted(t) == \* mutant: ++_threads_in_pop is lost
  /\ Goto(t, "idle", "load")
  /\ threadsInPop' = IF threadsInPop = 0 THEN 1 ELSE threadsInPop
  /\ UNCHANGED <<head, toBeDeleted, next, data, heap, stack, locals>>

Enter(t) ==
  /\ Goto(t, "idle", "load")
  /\ threadsInPop' = threadsInPop + 1
  /\ UNCHANGED <<head, toBeDeleted, next, data, heap, stack, locals>>

\* `node` becomes the current _head; the loop ends if that is null.
Observe(t) ==
  /\ node' = [node EXCEPT ![t] = head]
  /\ seen' = [seen EXCEPT ![t] = Null]
  /\ pc' = [pc EXCEPT ![t] = IF head = Null THEN "test" ELSE "next"]
  /\ UNCHANGED <<shared, batch, last, res>>

LoadHead(t) == pc[t] = "load" /\ Observe(t)

ReadNext(t) ==
  /\ Goto(t, "next", "pop")
  /\ seen' = [seen EXCEPT ![t] = next[node[t]]]
  /\ UNCHANGED <<shared, node, batch, last, res>>

PopRetries(t) == \* mutant: the failed exchange keeps the old _head
  /\ Goto(t, "pop", "next")
  /\ UNCHANGED <<shared, locals>>

PopFails(t) == pc[t] = "pop" /\ Observe(t)

Pop(t) ==
  /\ Goto(t, "pop", "swap")
  /\ head = node[t]
  /\ head' = seen[t]
  /\ seen' = [seen EXCEPT ![t] = Null]
  /\ stack' = Tail(stack)
  /\ UNCHANGED <<toBeDeleted, threadsInPop, next, data, heap, node, batch, last, res>>

Swap(t) ==
  /\ Goto(t, "swap", "test")
  /\ res' = [res EXCEPT ![t] = data[node[t]]]
  /\ data' = [data EXCEPT ![node[t]] = Null]
  /\ UNCHANGED <<head, toBeDeleted, threadsInPop, next, heap, stack, node, seen, batch,
                 last>>

-----------------------------------------------------------------------------
(* try_reclaim(old_head) *)

Test(t) == \* only thread?
  /\ pc[t] = "test"
  /\ pc' = [pc EXCEPT ![t] = IF threadsInPop = 1 THEN "take" ELSE "chain"]
  /\ UNCHANGED <<shared, locals>>

Take(t) ==
  /\ Goto(t, "take", "leave")
  /\ batch' = [batch EXCEPT ![t] = toBeDeleted]
  /\ toBeDeleted' = Null
  /\ UNCHANGED <<head, threadsInPop, next, data, heap, stack, node, seen, last, res>>

LeaveBlindly(t) == \* mutant: the pending nodes are deleted without a second look
  /\ Goto(t, "leave", "delete")
  /\ threadsInPop' = threadsInPop - 1
  /\ UNCHANGED <<head, toBeDeleted, next, data, heap, stack, locals>>

Leave(t) == \* still only thread?
  /\ pc[t] = "leave"
  /\ threadsInPop' = threadsInPop - 1
  /\ pc' = [pc EXCEPT ![t] = IF threadsInPop' = 0 \/ batch[t] = Null
                             THEN "delete" ELSE "chain"]
  /\ UNCHANGED <<head, toBeDeleted, next, data, heap, stack, locals>>

Delete(t) == \* delete_nodes(nodes_to_delete), and old_head
  /\ Goto(t, "delete", "return")
  /\ LET deleted == (Members(batch[t]) \cup {node[t]}) \ {Null}
     IN /\ heap' = heap \ deleted
        /\ next' = [n \in Nodes |-> IF n \in deleted THEN Null ELSE next[n]]
  /\ batch' = [batch EXCEPT ![t] = Null]
  /\ UNCHANGED <<head, toBeDeleted, threadsInPop, data, stack, node, seen, last, res>>

-----------------------------------------------------------------------------
(* chain_pending_nodes(nodes_to_delete), or (old_head, old_head)           *)

First(t) == IF batch[t] # Null THEN batch[t] ELSE node[t]

LastOfFirst(t) == IF batch[t] = Null THEN node[t]
                  ELSE LET l == List(batch[t]) IN l[Len(l)]

\* The members of l that come no later than n.
UpTo(l, n) == {l[i] : i \in {j \in 1 .. Len(l) : \A k \in 1 .. j - 1 : l[k] # n}}

\* What was taken goes back and old_head is deleted, or old_head is pending.
Chained(t) ==
  /\ IF batch[t] # Null
     THEN Goto(t, "exchange", "delete") /\ batch' = [batch EXCEPT ![t] = Null]
                                       /\ UNCHANGED node
     ELSE Goto(t, "exchange", "decrement") /\ node' = [node EXCEPT ![t] = Null]
                                          /\ UNCHANGED batch
  /\ last' = [last EXCEPT ![t] = Null]
  /\ UNCHANGED <<head, threadsInPop, next, data, heap, stack, seen, res>>

Chain(t) == \* last->next = _to_be_deleted
  /\ First(t) # Null
  /\ Goto(t, "chain", "exchange")
  /\ last' = [last EXCEPT ![t] = LastOfFirst(t)]
  /\ next' = [next EXCEPT ![last'[t]] = toBeDeleted]
  /\ UNCHANGED <<head, toBeDeleted, threadsInPop, data, heap, stack, node, seen, batch,
                 res>>

ChainNull(t) == \* pop() has found nothing: last->next of a null pointer
  /\ First(t) = Null
  /\ Goto(t, "chain", "crash")
  /\ UNCHANGED <<shared, locals>>

ExchangeFails(t) == \* _to_be_deleted is loaded into last->next
  /\ Goto(t, "exchange", "exchange")
  /\ next' = [next EXCEPT ![last[t]] = toBeDeleted]
  /\ UNCHANGED <<head, toBeDeleted, threadsInPop, data, heap, stack, locals>>

ExchangeAnyway(t) == \* mutant: a plain store to _to_be_deleted
  /\ pc[t] = "exchange"
  /\ toBeDeleted' = First(t)
  /\ Chained(t)

Exchange(t) ==
  /\ pc[t] = "exchange"
  /\ toBeDeleted = next[last[t]]
  /\ toBeDeleted' = First(t)
  /\ Chained(t)

Decrement(t) ==
  /\ Goto(t, "decrement", "return")
  /\ threadsInPop' = threadsInPop - 1
  /\ UNCHANGED <<head, toBeDeleted, next, data, heap, stack, locals>>

Return(t) ==
  /\ Goto(t, "return", "idle")
  /\ node' = [node EXCEPT ![t] = Null]
  /\ res' = [res EXCEPT ![t] = Null]
  /\ UNCHANGED <<shared, seen, batch, last>>

-----------------------------------------------------------------------------
Crashed == \E t \in Threads : pc[t] = "crash"

\* A step of t in which no exchange fails for no reason.
StrongStep(t) ==
  \/ PushCall(t) \/ Push(t) \/ PushReturn(t)
  \/ Enter(t) \/ LoadHead(t) \/ ReadNext(t) \/ Pop(t) \/ Swap(t)
  \/ Test(t) \/ Take(t) \/ Leave(t) \/ Delete(t)
  \/ Chain(t) \/ ChainNull(t) \/ Exchange(t) \/ Decrement(t) \/ Return(t)
  \/ PushFails(t) /\ head # next[node[t]]
  \/ PopFails(t) /\ head # node[t]
  \/ ExchangeFails(t) /\ toBeDeleted # next[last[t]]

Step(t) == StrongStep(t) \/ PushFails(t) \/ PopFails(t) \/ ExchangeFails(t)

Next == ~Crashed /\ \E t \in Threads : Step(t)

Spec == Init /\ [][Next]_vars

StrongNext == ~Crashed /\ \E t \in Threads : StrongStep(t)

\* Threads go on with the calls they have begun.
Fairness == \A t \in Threads : WF_vars(~Crashed /\ pc[t] # "idle" /\ StrongStep(t))

FairSpec == Init /\ [][StrongNext]_vars /\ Fairness

-----------------------------------------------------------------------------
(* Properties *)

\* The variables keep their types.
TypeOK ==
  /\ {head, toBeDeleted} \subseteq Nodes \cup {Null}
  /\ threadsInPop \in Nat
  /\ heap \subseteq Nodes
  /\ next \in [Nodes -> Nodes \cup {Null}]
  /\ data \in [Nodes -> Values \cup {Null}]
  /\ node \in [Threads -> Nodes \cup {Null}]
  /\ batch \in [Threads -> Nodes \cup {Null}]
  /\ res \in [Threads -> Values \cup {Null}]

\* A thread dereferences only nodes that no other thread has deleted: pop()
\* reads old_head->next of nodes it does not own (line 109).
DereferencesAreLive ==
  \A t \in Threads :
    /\ pc[t] \in {"push", "next", "swap"} => node[t] \in heap
    /\ pc[t] = "exchange" => last[t] \in heap
    /\ pc[t] \in {"delete", "chain"} => Members(batch[t]) \subseteq heap

\* The nodes a thread alone must free, hand on or link.
Owned(t) ==
  (IF pc[t] \in {"push", "swap", "test", "take", "leave", "delete", "chain", "exchange"}
   THEN {node[t]} \ {Null} ELSE {})
  \cup IF pc[t] = "exchange" /\ batch[t] # Null
       THEN UpTo(List(batch[t]), last[t]) ELSE Members(batch[t])

\* Each allocated node is on the stack, pending or owned by one thread, and
\* in one of these places only: no node leaks and none is deleted twice.
NodesAreOwnedOnce ==
  LET stacked == {stack[i] : i \in 1 .. Len(stack)}
      pending == Members(toBeDeleted)
  IN /\ heap = stacked \cup pending \cup UNION {Owned(t) : t \in Threads}
     /\ stacked \cap pending = {}
     /\ \A t \in Threads :
          /\ Owned(t) \cap (stacked \cup pending) = {}
          /\ \A u \in Threads \ {t} : Owned(t) \cap Owned(u) = {}

\* pop() handles an empty stack (line 112), also when another pop() runs.
\* The code breaks it: line 71 chains the node it did not get.
PopOfEmptyStackIsSafe == ~Crashed

\* As long as calls are under way, some call returns.
LockFree ==
  (~Crashed /\ \E t \in Threads : pc[t] # "idle")
    ~> (Crashed \/ \E t \in Threads : pc[t] \in {"pushed", "return"})

\* The calls of lock_free_stack are those of a stack, each at one instant.
Abstract == INSTANCE ConcurrentStack WITH
  Nothing <- Null,
  items <- [i \in 1 .. Len(stack) |-> data[stack[i]]],
  call  <- [t \in Threads |->
              CASE pc[t] = "idle" -> "none"
                [] pc[t] = "push" -> "push"
                [] pc[t] \in {"load", "next", "pop"} -> "pop"
                [] OTHER -> "done"],
  val   <- [t \in Threads |-> IF pc[t] \in {"push", "swap"} THEN data[node[t]]
                              ELSE res[t]]

ImplementsStack == Abstract!Spec
==============================================================================
