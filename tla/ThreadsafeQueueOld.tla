-------------------------- MODULE ThreadsafeQueueOld --------------------------
(***************************************************************************)
(* class threadsafe_queue_old of 6.lock_based/threadsafe_queue.hpp: a      *)
(* std::queue, one mutex and a condition variable that push() notifies     *)
(* before it unlocks.  Each critical section is one step, in which a wait  *)
(* releases the mutex and blocks.                                          *)
(***************************************************************************)
EXTENDS Naturals, Sequences, FiniteSets

CONSTANTS Threads, Values,
          Null,    \* the null shared_ptr
          MaxItems \* bound: of the queued values

Methods == {"push", "wait_and_pop", "try_pop"}

VARIABLES items,         \* _data
          waiting,       \* the threads blocked in _cond.wait
          phase,         \* of each thread: "idle", "called", "done"
          method, byRef, \* what it called: byRef is the T& overload
          val,           \* its argument, then its result
          told           \* what a try_pop(T&) returned

vars == <<items, waiting, phase, method, byRef, val, told>>

Init == /\ items = <<>> /\ waiting = {}
        /\ phase = [t \in Threads |-> "idle"]
        /\ method = [t \in Threads |-> "push"]
        /\ byRef = [t \in Threads |-> FALSE]
        /\ val = [t \in Threads |-> Null]
        /\ told = [t \in Threads |-> FALSE]

Finish(t) == phase' = [phase EXCEPT ![t] = "done"]

Call(t) ==
  /\ phase[t] = "idle"
  /\ phase' = [phase EXCEPT ![t] = "called"]
  /\ \E m \in Methods, ref \in BOOLEAN :
       /\ m = "push" => ~ref
       /\ method' = [method EXCEPT ![t] = m]
       /\ byRef' = [byRef EXCEPT ![t] = ref]
       /\ \E v \in IF m = "push" THEN Values ELSE {Null} :
            val' = [val EXCEPT ![t] = v]
  /\ UNCHANGED <<items, waiting, told>>

Enqueue(t) ==
  /\ phase[t] = "called" /\ method[t] = "push"
  /\ Len(items) < MaxItems
  /\ items' = Append(items, val[t])
  /\ Finish(t)

PushFirstOnly(t) == \* mutant: notify only when the queue was empty
  /\ Enqueue(t)
  /\ IF waiting = {} \/ items # <<>> THEN waiting' = waiting
     ELSE \E w \in waiting : waiting' = waiting \ {w}
  /\ UNCHANGED <<method, byRef, val, told>>

Push(t) == \* push() and notify_one(), which wakes any thread that waits
  /\ Enqueue(t)
  /\ IF waiting = {} THEN waiting' = waiting
                     ELSE \E w \in waiting : waiting' = waiting \ {w}
  /\ UNCHANGED <<method, byRef, val, told>>

Running(t) == phase[t] = "called" /\ method[t] # "push" /\ t \notin waiting

Pop(t) == \* try_pop(T&) returns nothing after a pop: its result is any bool
  /\ Running(t) /\ items # <<>>
  /\ val' = [val EXCEPT ![t] = Head(items)]
  /\ items' = Tail(items)
  /\ \E b \in BOOLEAN : told' = [told EXCEPT ![t] = method[t] = "try_pop" /\ byRef[t] /\ b]
  /\ Finish(t)
  /\ UNCHANGED <<waiting, method, byRef>>

Wait(t) ==
  /\ Running(t) /\ items = <<>> /\ method[t] = "wait_and_pop"
  /\ waiting' = waiting \cup {t}
  /\ UNCHANGED <<items, phase, method, byRef, val, told>>

ReturnNothing(t) ==
  /\ Running(t) /\ items = <<>> /\ method[t] = "try_pop"
  /\ Finish(t)
  /\ UNCHANGED <<items, waiting, method, byRef, val, told>>

SpuriousWakeup(t) ==
  /\ t \in waiting
  /\ waiting' = waiting \ {t}
  /\ UNCHANGED <<items, phase, method, byRef, val, told>>

Return(t) ==
  /\ phase[t] = "done"
  /\ phase' = [phase EXCEPT ![t] = "idle"]
  /\ val' = [val EXCEPT ![t] = Null]
  /\ told' = [told EXCEPT ![t] = FALSE]
  /\ UNCHANGED <<items, waiting, method, byRef>>

Next == \E t \in Threads :
          \/ Call(t) \/ Push(t) \/ Pop(t) \/ Wait(t) \/ ReturnNothing(t)
          \/ SpuriousWakeup(t) \/ Return(t)

Spec == Init /\ [][Next]_vars

-----------------------------------------------------------------------------
(* Properties *)

\* The threads that are in wait_and_pop() and not blocked.
Awake == {t \in Threads : Running(t) /\ method[t] = "wait_and_pop"}

\* No wakeup is lost, even when try_pop() or a late wait_and_pop() takes the
\* value that a notified thread was woken for: while a thread is blocked,
\* somebody who will pop is awake for each queued value.
NoWakeupIsLost == waiting # {} => Len(items) <= Cardinality(Awake)

\* Although a try_pop(T&) may say that there was nothing when it took a value,
\* it never says the opposite.
TruthIsNotOverstated == \A t \in Threads : told[t] => val[t] # Null

Abstract == INSTANCE WaitableQueue

\* Every call behaves as if it happened at one instant on a FIFO queue.
ImplementsWaitableQueue == Abstract!Spec
==============================================================================
