--------------------------- MODULE LockFreeStackRc ---------------------------
(***************************************************************************)
(* class lock_free_stack_with_rc of 7.lock_free/lock_free_stack_with_rc:   *)
(* a link is a pointer with an external count, which a pop() raises before *)
(* it looks at the node; the node keeps an internal count of those that    *)
(* have let go.  Whoever brings the two to the same sum deletes the node.  *)
(* Each access of an atomic is a step, as is the read of ptr->next.        *)
(***************************************************************************)
EXTENDS Integers, Sequences, FiniteSets

CONSTANTS Threads, Values,
          Nodes,    \* the heap; push() is called only when it is not full
          Null,     \* nullptr, and the null shared_ptr
          MaxCount  \* bound on the external counts, which are ints

Counted == [count : Nat, ptr : Nodes \cup {Null}] \* counted_node_ptr

Nowhere == [count |-> 0, ptr |-> Null]

VARIABLES head,           \* _head
          next, data,     \* the fields of each node
          internal,       \* its internal_count
          heap,           \* the allocated nodes
          pc,             \* the next step of each thread
          node,           \* its new_node.ptr or ptr
          old, seen,      \* its old_head, and the ptr->next it read
          res,            \* its result
          stack           \* auxiliary: the nodes on the stack, top first

list == <<head, next, data, internal, heap, stack>>
locals == <<node, old, seen, res>>
vars == <<list, pc, locals>>

Init == /\ head = Nowhere /\ stack = <<>> /\ heap = {}
        /\ next = [n \in Nodes |-> Nowhere]
        /\ data = [n \in Nodes |-> Null]
        /\ internal = [n \in Nodes |-> 0]
        /\ pc = [t \in Threads |-> "idle"]
        /\ node = [t \in Threads |-> Null]
        /\ old = [t \in Threads |-> Nowhere]
        /\ seen = [t \in Threads |-> Nowhere]
        /\ res = [t \in Threads |-> Null]

Goto(t, from, to) == pc[t] = from /\ pc' = [pc EXCEPT ![t] = to]

-----------------------------------------------------------------------------
(* push(data) *)

PushCall(t) ==
  /\ Goto(t, "idle", "push")
  /\ \E n \in Nodes \ heap, v \in Values :
       /\ node' = [node EXCEPT ![t] = n]
       /\ heap' = heap \cup {n}
       /\ data' = [data EXCEPT ![n] = v]
       /\ internal' = [internal EXCEPT ![n] = 0]
       /\ next' = [next EXCEPT ![n] = head]
  /\ UNCHANGED <<head, stack, old, seen, res>>

PushFails(t) == \* the exchange fails and loads _head into ptr->next
  /\ Goto(t, "push", "push")
  /\ next' = [next EXCEPT ![node[t]] = head]
  /\ UNCHANGED <<head, data, internal, heap, stack, locals>>

Push(t) ==
  /\ Goto(t, "push", "return")
  /\ head = next[node[t]]
  /\ head' = [count |-> 1, ptr |-> node[t]]
  /\ stack' = <<node[t]>> \o stack
  /\ node' = [node EXCEPT ![t] = Null]
  /\ UNCHANGED <<next, data, internal, heap, old, seen, res>>

-----------------------------------------------------------------------------
(* pop() *)

PopCall(t) ==
  /\ Goto(t, "idle", "increase")
  /\ old' = [old EXCEPT ![t] = head]
  /\ UNCHANGED <<list, node, seen, res>>

IncreaseFails(t) ==
  /\ Goto(t, "increase", "increase")
  /\ head # old[t]
  /\ old' = [old EXCEPT ![t] = head]
  /\ UNCHANGED <<list, node, seen, res>>

Increase(t) == \* increase_head_count(); a null head is counted as well
  /\ pc[t] = "increase"
  /\ head = old[t] /\ head.count < MaxCount
  /\ head' = [head EXCEPT !.count = @ + 1]
  /\ old' = [old EXCEPT ![t] = IF head.ptr = Null THEN Nowhere ELSE head']
  /\ node' = [node EXCEPT ![t] = head.ptr]
  /\ pc' = [pc EXCEPT ![t] = IF head.ptr = Null THEN "return" ELSE "next"]
  /\ UNCHANGED <<next, data, internal, heap, stack, seen, res>>

ReadNext(t) ==
  /\ Goto(t, "next", "pop")
  /\ seen' = [seen EXCEPT ![t] = next[node[t]]]
  /\ UNCHANGED <<list, node, old, res>>

PopSameNode(t) == \* mutant: the exchange compares the pointers only
  /\ Goto(t, "pop", "count")
  /\ head.ptr = old[t].ptr
  /\ head' = seen[t]
  /\ seen' = [seen EXCEPT ![t] = Nowhere]
  /\ stack' = Tail(stack)
  /\ UNCHANGED <<next, data, internal, heap, node, old, res>>

Pop(t) ==
  /\ Goto(t, "pop", "count")
  /\ head = old[t]
  /\ head' = seen[t]
  /\ seen' = [seen EXCEPT ![t] = Nowhere]
  /\ stack' = Tail(stack)
  /\ UNCHANGED <<next, data, internal, heap, node, old, res>>

PopFails(t) ==
  /\ Goto(t, "pop", "release")
  /\ head # old[t]
  /\ old' = [old EXCEPT ![t] = head]
  /\ seen' = [seen EXCEPT ![t] = Nowhere]
  /\ UNCHANGED <<list, node, res>>

\* fetch_add of d to the internal count, and delete if that makes it 0
Account(n, d) ==
  /\ internal' = [internal EXCEPT ![n] = @ + d]
  /\ IF internal'[n] = 0
     THEN heap' = heap \ {n} /\ next' = [next EXCEPT ![n] = Nowhere]
     ELSE UNCHANGED <<heap, next>>

CountAndDelete(t) == \* mutant: deletes ptr without a look at the counts
  /\ Goto(t, "count", "return")
  /\ heap' = heap \ {node[t]}
  /\ node' = [node EXCEPT ![t] = Null]
  /\ UNCHANGED <<head, next, data, internal, stack, old, seen, res>>

CountOne(t) == \* mutant: count_increase is external_count - 1
  /\ Goto(t, "count", "return")
  /\ res' = [res EXCEPT ![t] = data[node[t]]]
  /\ data' = [data EXCEPT ![node[t]] = Null]
  /\ Account(node[t], old[t].count - 1)
  /\ node' = [node EXCEPT ![t] = Null]
  /\ old' = [old EXCEPT ![t] = Nowhere]
  /\ UNCHANGED <<head, stack, seen>>

\* res.swap(ptr->data), then all references but its own and that of the list
Count(t) ==
  /\ Goto(t, "count", "return")
  /\ res' = [res EXCEPT ![t] = data[node[t]]]
  /\ data' = [data EXCEPT ![node[t]] = Null]
  /\ Account(node[t], old[t].count - 2)
  /\ node' = [node EXCEPT ![t] = Null]
  /\ old' = [old EXCEPT ![t] = Nowhere]
  /\ UNCHANGED <<head, stack, seen>>

Release(t) == \* the node is another thread's: let go of it and start over
  /\ Goto(t, "release", "increase")
  /\ Account(node[t], -1)
  /\ node' = [node EXCEPT ![t] = Null]
  /\ UNCHANGED <<head, data, stack, old, seen, res>>

Return(t) ==
  /\ Goto(t, "return", "idle")
  /\ res' = [res EXCEPT ![t] = Null]
  /\ UNCHANGED <<list, node, old, seen>>

-----------------------------------------------------------------------------
Next == \E t \in Threads :
          \/ PushCall(t) \/ PushFails(t) \/ Push(t)
          \/ PopCall(t) \/ IncreaseFails(t) \/ Increase(t) \/ ReadNext(t)
          \/ Pop(t) \/ PopFails(t) \/ Count(t) \/ Release(t) \/ Return(t)

Spec == Init /\ [][Next]_vars

-----------------------------------------------------------------------------
(* Properties *)

\* The variables keep their types.
TypeOK ==
  /\ head \in Counted /\ heap \subseteq Nodes
  /\ next \in [Nodes -> Counted]
  /\ data \in [Nodes -> Values \cup {Null}]
  /\ internal \in [Nodes -> Int]
  /\ node \in [Threads -> Nodes \cup {Null}]
  /\ old \in [Threads -> Counted]
  /\ res \in [Threads -> Values \cup {Null}]

\* A thread reads and counts only at a node that nobody has deleted
\* (lines 90, 97, 107), whoever pops it in between.
DereferencesAreLive ==
  \A t \in Threads :
    pc[t] \in {"push", "next", "count", "release"} => node[t] \in heap

\* The threads that have counted themselves at n and not let go.
Holders(n) == {t \in Threads : node[t] = n /\ pc[t] \in {"next", "pop", "release"}}

\* The link to the i-th node of the stack.
LinkTo(i) == IF i = 1 THEN head ELSE next[stack[i - 1]]

Counting(n) == {t \in Threads : node[t] = n /\ pc[t] = "count"}

\* The counts of a node, which are kept in two places and changed by
\* different threads, add up to the threads that refer to it; so the last
\* one to let go deletes it, and no earlier one.
CountsAddUp ==
  /\ \A i \in 1 .. Len(stack) :
       LET n == stack[i]
       IN /\ n \in heap /\ LinkTo(i).ptr = n
          /\ LinkTo(i).count - 1 + internal[n] = Cardinality(Holders(n))
  /\ \A n \in heap \ {stack[i] : i \in 1 .. Len(stack)} :
       \/ \E t \in Threads : pc[t] = "push" /\ node[t] = n /\ internal[n] = 0
       \/ \E t \in Counting(n) :
            old[t].count - 2 + internal[n] = Cardinality(Holders(n))
       \/ Counting(n) = {} /\ internal[n] = Cardinality(Holders(n)) /\ internal[n] > 0

\* The calls are those of a stack, each at one instant.
Abstract == INSTANCE ConcurrentStack WITH
  Nothing <- Null,
  items <- [i \in 1 .. Len(stack) |-> data[stack[i]]],
  call  <- [t \in Threads |->
              CASE pc[t] = "idle" -> "none"
                [] pc[t] = "push" -> "push"
                [] pc[t] \in {"increase", "next", "pop", "release"} -> "pop"
                [] OTHER -> "done"],
  val   <- [t \in Threads |->
              IF pc[t] \in {"push", "count"} THEN data[node[t]] ELSE res[t]]

ImplementsStack == Abstract!Spec
==============================================================================
