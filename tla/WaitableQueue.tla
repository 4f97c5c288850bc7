---------------------------- MODULE WaitableQueue ----------------------------
(***************************************************************************)
(* What a waitable FIFO queue promises its callers, whatever its           *)
(* representation: a call begins, takes effect at one instant between its  *)
(* beginning and its end, and ends with what it got at that instant.  A    *)
(* wait_and_pop takes effect only on a non-empty queue; a try_pop returns  *)
(* nothing only if the queue was empty at the instant it took effect.      *)
(***************************************************************************)
EXTENDS Naturals, Sequences

CONSTANTS Threads, \* the callers
          Values,  \* what is queued
          Null     \* the null shared_ptr

Methods == {"push", "wait_and_pop", "try_pop"}

VARIABLES items,  \* the queued values, oldest first
          phase,  \* where a caller is in its call
          method, \* what it called
          val     \* its argument, then its result

vars == <<items, phase, method, val>>

Init == /\ items = <<>>
        /\ phase = [t \in Threads |-> "idle"]
        /\ method = [t \in Threads |-> "push"]
        /\ val = [t \in Threads |-> Null]

Begin(t) ==
  /\ phase[t] = "idle"
  /\ phase' = [phase EXCEPT ![t] = "called"]
  /\ \E m \in Methods :
       /\ method' = [method EXCEPT ![t] = m]
       /\ \E v \in IF m = "push" THEN Values ELSE {Null} :
            val' = [val EXCEPT ![t] = v]
  /\ UNCHANGED items

Enqueue(t) ==
  /\ phase[t] = "called" /\ method[t] = "push"
  /\ items' = Append(items, val[t])
  /\ phase' = [phase EXCEPT ![t] = "done"]
  /\ UNCHANGED <<method, val>>

Dequeue(t) ==
  /\ phase[t] = "called" /\ method[t] # "push"
  /\ items # <<>>
  /\ val' = [val EXCEPT ![t] = Head(items)]
  /\ items' = Tail(items)
  /\ phase' = [phase EXCEPT ![t] = "done"]
  /\ UNCHANGED method

FindEmpty(t) ==
  /\ phase[t] = "called" /\ method[t] = "try_pop"
  /\ items = <<>>
  /\ phase' = [phase EXCEPT ![t] = "done"]
  /\ UNCHANGED <<items, method, val>>

End(t) ==
  /\ phase[t] = "done"
  /\ phase' = [phase EXCEPT ![t] = "idle"]
  /\ val' = [val EXCEPT ![t] = Null]
  /\ UNCHANGED <<items, method>>

Next == \E t \in Threads :
          Begin(t) \/ Enqueue(t) \/ Dequeue(t) \/ FindEmpty(t) \/ End(t)

Spec == Init /\ [][Next]_vars
==============================================================================
