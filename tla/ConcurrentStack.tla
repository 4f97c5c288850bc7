--------------------------- MODULE ConcurrentStack ---------------------------
(***************************************************************************)
(* What a stack shared by threads promises, whatever its representation:   *)
(* a push() or pop() takes effect at one instant between its call and its  *)
(* return, and a pop() returns nothing only if the stack was empty then.   *)
(***************************************************************************)
EXTENDS Naturals, Sequences

CONSTANTS Threads, Values,
          Nothing \* the null shared_ptr

VARIABLES items, \* the values on the stack, top first
          call,  \* "none", "push" or "pop" under way, or "done"
          val    \* the argument, then the result, of each call

vars == <<items, call, val>>

Init == /\ items = <<>>
        /\ call = [t \in Threads |-> "none"]
        /\ val = [t \in Threads |-> Nothing]

CallPush(t) ==
  /\ call[t] = "none"
  /\ call' = [call EXCEPT ![t] = "push"]
  /\ \E v \in Values : val' = [val EXCEPT ![t] = v]
  /\ UNCHANGED items

CallPop(t) ==
  /\ call[t] = "none"
  /\ call' = [call EXCEPT ![t] = "pop"]
  /\ UNCHANGED <<items, val>>

Push(t) ==
  /\ call[t] = "push"
  /\ call' = [call EXCEPT ![t] = "done"]
  /\ items' = <<val[t]>> \o items
  /\ val' = [val EXCEPT ![t] = Nothing]

Pop(t) ==
  /\ call[t] = "pop" /\ items # <<>>
  /\ call' = [call EXCEPT ![t] = "done"]
  /\ items' = Tail(items)
  /\ val' = [val EXCEPT ![t] = Head(items)]

FindEmpty(t) ==
  /\ call[t] = "pop" /\ items = <<>>
  /\ call' = [call EXCEPT ![t] = "done"]
  /\ UNCHANGED <<items, val>>

Return(t) ==
  /\ call[t] = "done"
  /\ call' = [call EXCEPT ![t] = "none"]
  /\ val' = [val EXCEPT ![t] = Nothing]
  /\ UNCHANGED items

Next == \E t \in Threads : \/ CallPush(t) \/ CallPop(t) \/ Push(t) \/ Pop(t)
                           \/ FindEmpty(t) \/ Return(t)

Spec == Init /\ [][Next]_vars
==============================================================================
