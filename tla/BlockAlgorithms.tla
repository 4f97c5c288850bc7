--------------------------- MODULE BlockAlgorithms ---------------------------
(***************************************************************************)
(* The algorithms that cut a range into blocks, one for each thread and    *)
(* the last for the caller: parallel_accumulate of 2.8 and of 8.4, and     *)
(* parallel_for_each of 8.7.                                               *)
(*                                                                         *)
(* An element is its position.  What is done with it, an addition or a     *)
(* call of f, may throw, and so may the creation of a thread.  2.8 leaves  *)
(* its threads joinable then; in 8.4 and 8.7 the destructor of join_threads*)
(* joins them, and the futures bring their exceptions to the caller.       *)
(***************************************************************************)
EXTENDS Naturals, Sequences

CONSTANTS MaxLength,    \* bound: of the range
          MinPerThread, \* 25
          MaxHardware   \* bound: of hardware_concurrency()

VARIABLES algorithm,
          length, hardware,
          bad,     \* the element that throws, 0 if none does
          caller,  \* what the caller does next
          index,   \* i of its loops: the threads started, then those waited for
          thread,  \* each thread: where it is
          taken,   \* the elements each block's thread has worked on
          total,   \* those in the results the caller has added
          failed   \* auxiliary: a thread could not be created

input == <<algorithm, length, hardware, bad>>
vars == <<input, caller, index, thread, taken, total, failed>>

Least(a, b) == IF a < b THEN a ELSE b

max_threads == (length + MinPerThread - 1) \div MinPerThread
num_threads == Least(IF hardware # 0 THEN hardware ELSE 2, max_threads)
block_size == length \div num_threads

AllBlocks == 1 .. MaxHardware + 2
Own == num_threads \* the caller's block
Started == {b \in AllBlocks : thread[b] # "none"}

First(b) == (b - 1) * block_size + 1

LastOfBlock(b) == b * block_size \* mutant: the remainder is left to nobody

Last(b) == IF b = Own THEN length ELSE b * block_size

Init == /\ algorithm \in {"2.8", "8.4", "8.7"}
        /\ length \in 0 .. MaxLength /\ hardware \in 0 .. MaxHardware
        /\ bad \in 0 .. length
        /\ caller = IF length = 0 THEN "returned" ELSE "spawn"
        /\ index = 0
        /\ thread = [b \in AllBlocks |-> "none"]
        /\ taken = [b \in AllBlocks |-> <<>>]
        /\ total = <<>> /\ failed = FALSE

-----------------------------------------------------------------------------
(* The work on a block *)

Has(b) == First(b) + Len(taken[b]) <= Last(b) \* elements left
Current(b) == First(b) + Len(taken[b])

Take(b) ==
  /\ Has(b) /\ Current(b) # bad
  /\ taken' = [taken EXCEPT ![b] = Append(@, Current(b))]

WorkOn(b) ==
  /\ thread[b] = "run" /\ Take(b)
  /\ UNCHANGED <<input, caller, index, thread, total, failed>>

Finish(b) == \* the result is there, the thread about to end
  /\ thread[b] = "run" /\ ~Has(b)
  /\ thread' = [thread EXCEPT ![b] = "ready"]
  /\ UNCHANGED <<input, caller, index, taken, total, failed>>

Throw(b) == \* into the packaged_task, or out of the thread's function
  /\ thread[b] = "run" /\ Has(b) /\ Current(b) = bad
  /\ IF algorithm = "2.8"
     THEN caller' = "terminated" /\ UNCHANGED thread
     ELSE thread' = [thread EXCEPT ![b] = "broken"] /\ UNCHANGED caller
  /\ UNCHANGED <<input, index, taken, total, failed>>

End(b) ==
  /\ thread[b] \in {"ready", "broken"}
  /\ thread' = [thread EXCEPT ![b] = IF @ = "ready" THEN "ended" ELSE "ended broken"]
  /\ UNCHANGED <<input, caller, index, taken, total, failed>>

-----------------------------------------------------------------------------
(* The caller *)

Detach == caller' = "thrown" \* mutant: the threads are left to themselves

\* An exception leaves the function: 2.8 destroys its threads, which ends the
\* program if there are any; the others join them first.
Unwind == caller' = IF algorithm # "2.8" THEN "join"
                    ELSE IF Started = {} THEN "thrown" ELSE "terminated"

Spawn ==
  /\ caller = "spawn" /\ index < num_threads - 1
  /\ thread' = [thread EXCEPT ![index + 1] = "run"]
  /\ index' = index + 1
  /\ UNCHANGED <<input, caller, taken, total, failed>>

SpawnFails == \* std::thread throws
  /\ caller = "spawn" /\ index < num_threads - 1
  /\ failed' = TRUE
  /\ Unwind
  /\ UNCHANGED <<input, index, thread, taken, total>>

OwnBlock ==
  /\ caller = "spawn" /\ index = num_threads - 1
  /\ Take(Own)
  /\ UNCHANGED <<input, caller, index, thread, total, failed>>

OwnThrows ==
  /\ caller = "spawn" /\ index = num_threads - 1
  /\ Has(Own) /\ Current(Own) = bad
  /\ Unwind
  /\ UNCHANGED <<input, index, thread, taken, total, failed>>

OwnEnds ==
  /\ caller = "spawn" /\ index = num_threads - 1 /\ ~Has(Own)
  /\ caller' = "collect" /\ index' = 1
  /\ UNCHANGED <<input, thread, taken, total, failed>>

CollectAtOnce == \* mutant: the results are read without waiting
  /\ caller = "collect" /\ index < num_threads
  /\ total' = total \o taken[index] /\ index' = index + 1
  /\ UNCHANGED <<input, caller, thread, taken, failed>>

Collect == \* join() or get() of the next
  /\ caller = "collect" /\ index < num_threads
  /\ IF algorithm = "2.8" THEN thread[index] = "ended"
                          ELSE thread[index] \in {"ready", "ended"}
  /\ total' = total \o taken[index] /\ index' = index + 1
  /\ UNCHANGED <<input, caller, thread, taken, failed>>

GetThrows ==
  /\ caller = "collect" /\ index < num_threads
  /\ thread[index] \in {"broken", "ended broken"}
  /\ Unwind
  /\ UNCHANGED <<input, index, thread, taken, total, failed>>

AddOwn == \* the result of the caller's block is the last
  /\ caller = "collect" /\ index = num_threads
  /\ total' = total \o taken[Own] /\ index' = index + 1
  /\ UNCHANGED <<input, caller, thread, taken, failed>>

\* ~join_threads() on both ways out; with 2.8 all are joined by then.
Leave ==
  /\ \/ caller = "join" /\ caller' = "thrown"
     \/ caller = "collect" /\ index > num_threads /\ caller' = "returned"
  /\ \A b \in Started : thread[b] \in {"ended", "ended broken"}
  /\ UNCHANGED <<input, index, thread, taken, total, failed>>

Caller == \/ Spawn \/ SpawnFails \/ OwnBlock \/ OwnThrows \/ OwnEnds
          \/ Collect \/ GetThrows \/ AddOwn \/ Leave
Worker(b) == WorkOn(b) \/ Finish(b) \/ Throw(b) \/ End(b)

Next == caller # "terminated" /\ (Caller \/ \E b \in AllBlocks : Worker(b))

Spec == Init /\ [][Next]_vars

-----------------------------------------------------------------------------
(* Properties *)

TypeOK ==
  /\ caller \in {"spawn", "collect", "join", "returned", "thrown", "terminated"}
  /\ index \in 0 .. MaxHardware + 3
  /\ thread \in [AllBlocks -> {"none", "run", "ready", "broken", "ended", "ended broken"}]
  /\ \A b \in AllBlocks : taken[b] \in Seq(1 .. MaxLength)

\* A call that returns has worked on each element once and added the results of
\* the blocks in the order of the range, however it divides: the addition need
\* not commute.  A call throws only what was thrown, and no exception is lost.
\* Only 2.8 can end the program.
ResultIsRight ==
  /\ caller = "returned" =>
       /\ bad = 0 /\ ~failed
       /\ total = [k \in 1 .. length |-> k]
  /\ caller \in {"thrown", "terminated"} => bad # 0 \/ failed
  /\ caller = "terminated" => algorithm = "2.8" /\ Started # {}

\* When the call has ended no thread is left that works on the caller's range
\* or writes to a result that is gone.
NoThreadOutlivesTheCall ==
  caller \in {"returned", "thrown"} =>
    \A b \in Started : thread[b] \in {"ended", "ended broken"}

\* The call ends.
CallEnds == <>(caller \in {"returned", "thrown", "terminated"})
==============================================================================
