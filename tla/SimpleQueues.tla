---------------------------- MODULE SimpleQueues ----------------------------
(***************************************************************************)
(* The single-threaded queues of 6.lock_based/threadsafe_queue.hpp: class  *)
(* simple_queue, whose constructor leaves _tail uninitialized and whose    *)
(* try_pop() leaves it on a node that is freed when it was the last one,   *)
(* and simple_queue_dummy.  A node is an address that `new` can give out   *)
(* again.  A write through a pointer to no node may do anything: nothing   *)
(* is said of what follows.                                                *)
(***************************************************************************)
EXTENDS Naturals, Sequences

CONSTANTS Nodes, Values,
          Null,   \* nullptr
          Garbage \* what an uninitialized pointer may point at

VARIABLES dummy,              \* the class is simple_queue_dummy
          head, tail,         \* _head, _tail
          next, data, heap,   \* the nodes, those that are allocated
          undefined,          \* a write went through a pointer to no node
          result, due,        \* of the last try_pop(), and what was due
          pushed, emptied     \* auxiliary: the values inside; it was emptied

vars == <<dummy, head, tail, next, data, heap, undefined, result, due, pushed, emptied>>

Constructor == \* of the one and of the other
  \/ ~dummy /\ heap = {} /\ head = Null /\ tail \in {Null, Garbage}
  \/ dummy /\ \E n \in Nodes : heap = {n} /\ head = n /\ tail = n

Init == /\ dummy \in BOOLEAN
        /\ Constructor
        /\ next = [n \in Nodes |-> Null] /\ data = [n \in Nodes |-> Null]
        /\ undefined = FALSE /\ result = Null /\ due = Null
        /\ pushed = <<>> /\ emptied = FALSE

Pushed(v) == /\ pushed' = Append(pushed, v)
             /\ UNCHANGED <<dummy, result, due, emptied>>

Linked(v) == \* simple_queue::push
  \E n \in Nodes \ heap :
    /\ heap' = heap \cup {n} /\ data' = [data EXCEPT ![n] = v]
    /\ next' = IF tail = Null THEN [next EXCEPT ![n] = Null]
               ELSE [next EXCEPT ![n] = Null, ![tail] = n]
    /\ head' = IF tail = Null THEN n ELSE head
    /\ tail' = n

Push(v) ==
  /\ ~dummy /\ ~undefined /\ Nodes # heap
  /\ IF tail \in heap \cup {Null}
       THEN Linked(v) /\ UNCHANGED undefined
       ELSE undefined' = TRUE /\ UNCHANGED <<head, tail, next, data, heap>>
  /\ Pushed(v)

PushDummy(v) == \* simple_queue_dummy::push
  /\ dummy
  /\ \E n \in Nodes \ heap :
       /\ heap' = heap \cup {n}
       /\ data' = [data EXCEPT ![tail] = v, ![n] = Null]
       /\ next' = [next EXCEPT ![tail] = n, ![n] = Null]
       /\ tail' = n
  /\ UNCHANGED <<head, undefined>>
  /\ Pushed(v)

EmptyByHead == head = Null \* mutant: the dummy is taken for a value

Empty == IF dummy THEN head = tail ELSE head = Null

TryPop == \* of both classes
  /\ ~undefined
  /\ IF Empty
     THEN result' = Null /\ UNCHANGED <<head, heap>>
     ELSE /\ result' = data[head]
          /\ head' = next[head]
          /\ heap' = heap \ {head}
  /\ due' = IF pushed = <<>> THEN Null ELSE Head(pushed)
  /\ pushed' = IF pushed = <<>> THEN <<>> ELSE Tail(pushed)
  /\ emptied' = (emptied \/ Len(pushed) = 1)
  /\ UNCHANGED <<dummy, tail, next, data, undefined>>

Next == TryPop \/ \E v \in Values : Push(v) \/ PushDummy(v)

Spec == Init /\ [][Next]_vars

-----------------------------------------------------------------------------
(* Properties *)

\* The values come out in the order in which they went in, as long as what
\* happens is defined.
QueuesAreFifo == result = due

\* With a dummy node it always is; without, until the first push() when _tail
\* was not null by luck, or until a push() on a queue that a try_pop() emptied.
DummyKeepsTailValid == undefined => ~dummy /\ (emptied \/ tail = Garbage)
==============================================================================
