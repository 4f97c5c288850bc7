---------------------------- MODULE MCContainers ----------------------------
(***************************************************************************)
(* The containers with locks on small instances, and the program around a  *)
(* condition variable, each in executions of its own: `program` says which,*)
(* and the variables of the others keep their first values.                *)
(***************************************************************************)
EXTENDS ThreadsafeQueue

CONSTANTS p1, c1, c2, v1, k1, k2, n1, ToDo, Ahead, MaxItems, Garbage

\* A queued shared_ptr is not null.
ASSUME ContainersAssumption == v1 # Null /\ ToDo \in Nat \ {0}

TwoKeys == {k1, k2}

\* Both keys in one bucket, or each in its own.
SharedOrNot == {[k \in TwoKeys |-> 1], [k \in TwoKeys |-> IF k = k1 THEN 1 ELSE 2]}

VARIABLES program,
          g_i, g_done, data_queue, mutex, blocked, producer, consumer, datum, processed,
          hash, buckets, readers, writer, at, operation, key, value, found,
          items, blockedOld, phase, call, overload, argument, told,
          dummy, first, last, nextOf, dataOf, allocated, undefined, result, due,
          pushed, emptied

programVars == <<g_i, g_done, data_queue, mutex, blocked, producer, consumer,
                 datum, processed>>
TwoThreads == INSTANCE ProducerConsumer WITH data <- datum

tableVars == <<hash, buckets, readers, writer, at, operation, key, value, found>>
Table == INSTANCE LookupTable WITH
  Keys <- TwoKeys, Default <- Null, Hashes <- SharedOrNot,
  data <- buckets, Buckets <- {1, 2}, pc <- at, method <- operation, val <- value

\* Three threads, so that two can wait while the third one pushes.
oldVars == <<items, blockedOld, phase, call, overload, argument, told>>
Old == INSTANCE ThreadsafeQueueOld WITH
  Threads <- {p1, c1, c2}, Values <- {v1}, waiting <- blockedOld, method <- call,
  byRef <- overload, val <- argument

simpleVars == <<dummy, first, last, nextOf, dataOf, allocated, undefined, result,
                due, pushed, emptied>>
Simple == INSTANCE SimpleQueues WITH
  head <- first, tail <- last, next <- nextOf, data <- dataOf, heap <- allocated

theOldest == <<oldVars, simpleVars>>

QueueNext == program = "queue" /\ Next /\ UNCHANGED <<program, programVars, tableVars, theOldest>>
ProgramNext == /\ program = "producer and consumer" /\ TwoThreads!Next
               /\ UNCHANGED <<program, vars, tableVars, theOldest>>
TableNext == /\ program = "table" /\ Table!Next
             /\ UNCHANGED <<program, vars, programVars, theOldest>>
OldNext == /\ program = "old queue" /\ Old!Next
           /\ UNCHANGED <<program, vars, programVars, tableVars, simpleVars>>
SimpleNext == /\ program = "simple queues" /\ Simple!Next
              /\ UNCHANGED <<program, vars, programVars, tableVars, oldVars>>

\* What a program that does not run begins with makes no difference.
ContainersInit ==
  /\ program \in {"queue", "producer and consumer", "table", "old queue", "simple queues"}
  /\ Init /\ (program # "queue" => head = n1)
  /\ TwoThreads!Init
  /\ Table!Init /\ (program # "table" => hash[k2] = 1)
  /\ Old!Init
  /\ Simple!Init /\ (program # "simple queues" => last = Null)

\* Each of the two threads is scheduled and gets the mutex.
ProgramFairness == /\ SF_programVars(program = "producer and consumer" /\ TwoThreads!Producer)
                   /\ WF_programVars(program = "producer and consumer" /\ TwoThreads!Consumer)

FairContainersSpec ==
  /\ ContainersInit
  /\ [][QueueNext \/ ProgramNext \/ TableNext \/ OldNext \/ SimpleNext]_
       <<program, vars, programVars, tableVars, theOldest>>
  /\ Fairness /\ ProgramFairness

-----------------------------------------------------------------------------
(* Properties of several *)

\* Data go from one thread to the other in order; a key has one entry in the
\* table, which an iterator in use points at; the single-threaded queues are
\* FIFO as long as _tail points at their last node, which a dummy ensures.
ContentsAreRight == /\ TwoThreads!DataAreHandledInOrder /\ Table!EntriesAreUnique
                    /\ Old!TruthIsNotOverstated
                    /\ Simple!QueuesAreFifo /\ Simple!DummyKeepsTailValid

\* Where push() notifies before it unlocks and a wait tests under the same
\* mutex, as in 4.1, 4.5 and threadsafe_queue_old, no wakeup is lost.
WakeupsAreNotLost == TwoThreads!NoWakeupIsLost /\ Old!NoWakeupIsLost

\* A call of a queue or of the table takes effect at one instant.
CallsAreAtomic == ImplementsWaitableQueue /\ Old!ImplementsWaitableQueue /\ Table!ImplementsMap

\* A push and a try_pop return; the two threads of 4.1 and 4.5 end.
CallsEnd == /\ CallsReturn
            /\ program = "producer and consumer" => TwoThreads!BothReturn
==============================================================================
