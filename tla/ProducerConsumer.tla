-------------------------- MODULE ProducerConsumer --------------------------
(***************************************************************************)
(* The program of 4.1 and of 4.5: a thread prepares data until TO_DO were  *)
(* processed, another one processes them; between them a std::queue with a *)
(* mutex and a condition variable, in 4.5 as a class threadsafe_queue.     *)
(* A datum is its number.  g_done is an int without a lock, written by one *)
(* thread and read by the other.                                           *)
(***************************************************************************)
EXTENDS Naturals, Sequences

CONSTANTS ToDo,   \* TO_DO
          Ahead   \* bound: the data prepared beyond those

VARIABLES g_i, g_done,
          data_queue, mutex,  \* who holds it, "none" if nobody does
          blocked,            \* the consumer is blocked in wait()
          producer, consumer, \* where they are
          data,               \* what the consumer has taken, 0 if nothing
          processed           \* auxiliary: what it has processed

shared == <<g_i, g_done, data_queue, mutex, blocked>>
vars == <<shared, producer, consumer, data, processed>>

Init == /\ g_i = 0 /\ g_done = 0 /\ data_queue = <<>>
        /\ mutex = "none" /\ blocked = FALSE
        /\ producer = "test" /\ consumer = "lock"
        /\ data = 0 /\ processed = <<>>

-----------------------------------------------------------------------------
(* data_preparation_thread() *)

More == \* more_data_to_prepare(), prepare_data()
  /\ producer = "test"
  /\ \/ g_done >= ToDo /\ producer' = "returned" /\ UNCHANGED g_i
     \/ /\ g_done < ToDo /\ g_i < ToDo + Ahead
        /\ producer' = "lock" /\ g_i' = g_i + 1
  /\ UNCHANGED <<g_done, data_queue, mutex, blocked, consumer, data, processed>>

LockToPush ==
  /\ producer = "lock" /\ mutex = "none"
  /\ producer' = "push" /\ mutex' = "producer"
  /\ UNCHANGED <<g_i, g_done, data_queue, blocked, consumer, data, processed>>

Push ==
  /\ producer = "push"
  /\ producer' = "notify" /\ data_queue' = Append(data_queue, g_i)
  /\ UNCHANGED <<g_i, g_done, mutex, blocked, consumer, data, processed>>

NotifyNobody == \* mutant: notify_one() is forgotten
  /\ producer = "notify"
  /\ producer' = "test" /\ mutex' = "none"
  /\ UNCHANGED <<g_i, g_done, data_queue, blocked, consumer, data, processed>>

Notify == \* notify_one(), ~lock_guard
  /\ producer = "notify"
  /\ producer' = "test" /\ mutex' = "none" /\ blocked' = FALSE
  /\ UNCHANGED <<g_i, g_done, data_queue, consumer, data, processed>>

Producer == More \/ LockToPush \/ Push \/ Notify

-----------------------------------------------------------------------------
(* data_processing_thread() *)

LockToPop ==
  /\ consumer = "lock" /\ mutex = "none"
  /\ consumer' = "test" /\ mutex' = "consumer"
  /\ UNCHANGED <<g_i, g_done, data_queue, blocked, producer, data, processed>>

Wait == \* wait(): test, and unlock and block at once
  /\ consumer = "test" /\ data_queue = <<>>
  /\ consumer' = "wait" /\ mutex' = "none" /\ blocked' = TRUE
  /\ UNCHANGED <<g_i, g_done, data_queue, producer, data, processed>>

SpuriousWakeup ==
  /\ consumer = "wait" /\ blocked' = FALSE
  /\ UNCHANGED <<g_i, g_done, data_queue, mutex, producer, consumer, data, processed>>

WakeupAndPop == \* mutant: wait() without its predicate
  /\ consumer = "wait" /\ ~blocked /\ mutex = "none"
  /\ consumer' = "pop" /\ mutex' = "consumer"
  /\ UNCHANGED <<g_i, g_done, data_queue, blocked, producer, data, processed>>

Wakeup ==
  /\ consumer = "wait" /\ ~blocked /\ mutex = "none"
  /\ consumer' = "test" /\ mutex' = "consumer"
  /\ UNCHANGED <<g_i, g_done, data_queue, blocked, producer, data, processed>>

Found ==
  /\ consumer = "test" /\ data_queue # <<>> /\ consumer' = "pop"
  /\ UNCHANGED <<shared, producer, data, processed>>

Pop == \* front(), pop(), unlock()
  /\ consumer = "pop" /\ data_queue # <<>>
  /\ data' = Head(data_queue) /\ data_queue' = Tail(data_queue)
  /\ consumer' = "process" /\ mutex' = "none"
  /\ UNCHANGED <<g_i, g_done, blocked, producer, processed>>

Process ==
  /\ consumer = "process"
  /\ g_done' = g_done + 1 /\ processed' = Append(processed, data) /\ data' = 0
  /\ consumer' = "last?"
  /\ UNCHANGED <<g_i, data_queue, mutex, blocked, producer>>

IsLast == \* is_last_chunk()
  /\ consumer = "last?"
  /\ consumer' = IF g_done >= ToDo THEN "returned" ELSE "lock"
  /\ UNCHANGED <<shared, producer, data, processed>>

Consumer == \/ LockToPop \/ Wait \/ Wakeup \/ Found \/ Pop \/ Process \/ IsLast

Next == Producer \/ Consumer \/ SpuriousWakeup

Spec == Init /\ [][Next]_vars

-----------------------------------------------------------------------------
(* Properties *)

\* Data are processed in the order of their preparation, none twice, and the
\* consumer stops after TO_DO although more may be prepared.  front() is never
\* called on an empty queue, whatever ended the wait.
DataAreHandledInOrder ==
  /\ processed = [k \in 1 .. Len(processed) |-> k] /\ Len(processed) = g_done
  /\ g_done <= ToDo /\ (consumer = "returned" => g_done = ToDo)
  /\ consumer = "pop" => data_queue # <<>>

\* No wakeup is lost: the consumer stays blocked beside a datum only while the
\* producer is about to notify it.
NoWakeupIsLost == blocked /\ data_queue # <<>> => producer = "notify"

\* Both threads return, so that main() does.
BothReturn == <>(producer = "returned" /\ consumer = "returned")
==============================================================================
