----------------------------- MODULE ThreadPool -----------------------------
(***************************************************************************)
(* thread_pool of 9.thread_pool/thread_pool.hpp with its client            *)
(* parallel_quick_sort_using_tp: every thread, the caller included, runs   *)
(* tasks, and a task that waits for the future of another runs others in   *)
(* the meantime, on top of its own stack.  The shared queue is the FIFO    *)
(* queue that threadsafe_queue implements; a failed try_pop yields.        *)
(*                                                                         *)
(* A frame is a call of do_sort.  Its task is the promise it fulfils, 0    *)
(* for a recursive call and for that of the caller's thread.               *)
(***************************************************************************)
EXTENDS Naturals, Sequences, SequencesExt

CONSTANTS Workers,  \* the threads of the pool
          Main,     \* the thread that sorts
          Inputs    \* the lists to sort, which are not empty

Threads == Workers \cup {Main}

ASSUME PoolAssumption == Main \notin Workers /\ Inputs \subseteq Seq(Nat) \ {<<>>}

VARIABLES input,
          useLocal,  \* _use_local, the constructor's argument
          queue,     \* _queue: the tasks submitted, with their chunks
          local,     \* _local_queue of each worker
          stack,     \* the calls of do_sort of each thread, the innermost last
          mode,      \* "check" the loop's condition, or "run" a pending task
          future,    \* the future of each task
          done,      \* _done
          running,   \* the workers in worker_thread()
          main       \* "sort", "destroy", "join", "return": where the caller is

vars == <<input, useLocal, queue, local, stack, mode, future, done, running, main>>

Promised == [ready |-> FALSE, value |-> <<>>]

Frame(task, chunk) ==
  [task |-> task, chunk |-> chunk, at |-> "start", lower |-> 0, high |-> <<>>]

Init == /\ input \in Inputs
        /\ useLocal \in BOOLEAN
        /\ queue = <<>>
        /\ local = [w \in Workers |-> <<>>]
        /\ stack = [t \in Threads |-> IF t = Main THEN <<Frame(0, input)>> ELSE <<>>]
        /\ mode = [t \in Threads |-> "check"]
        /\ future = <<>>
        /\ done = FALSE
        /\ running = Workers
        /\ main = "sort"

Top(t) == stack[t][Len(stack[t])]
Below(t) == SubSeq(stack[t], 1, Len(stack[t]) - 1)
In(t, at) == stack[t] # <<>> /\ Top(t).at = at

Ready(task) == future[task].ready

-----------------------------------------------------------------------------
(* thread_pool *)

SubmitNothing(t, chunk) == \* mutant: the task is not pushed
  /\ future' = Append(future, Promised)
  /\ UNCHANGED <<queue, local>>

SubmitShifted(t, chunk) == \* mutant: a task holds the promise of the next one
  LET task == [task |-> Len(future) + 2, chunk |-> chunk]
  IN future' = Append(future, Promised) /\ queue' = Append(queue, task) /\ UNCHANGED local

Submit(t, chunk) ==
  LET task == [task |-> Len(future) + 1, chunk |-> chunk]
  IN /\ future' = Append(future, Promised)
     /\ IF useLocal /\ t \in Workers
        THEN local' = [local EXCEPT ![t] = Append(@, task)] /\ UNCHANGED queue
        ELSE queue' = Append(queue, task) /\ UNCHANGED local

Run(t, task) ==
  /\ stack' = [stack EXCEPT ![t] = Append(@, Frame(task.task, task.chunk))]
  /\ mode' = [mode EXCEPT ![t] = "check"]
  /\ UNCHANGED <<input, useLocal, future, done, running, main>>

HasLocal(t) == t \in Workers /\ local[t] # <<>>

RunLocal(t) ==
  /\ mode[t] = "run" /\ HasLocal(t)
  /\ Run(t, Head(local[t]))
  /\ local' = [local EXCEPT ![t] = Tail(@)]
  /\ UNCHANGED queue

RunShared(t) ==
  /\ mode[t] = "run" /\ ~HasLocal(t) /\ queue # <<>>
  /\ Run(t, Head(queue))
  /\ queue' = Tail(queue)
  /\ UNCHANGED local

Yield(t) ==
  /\ mode[t] = "run" /\ ~HasLocal(t) /\ queue = <<>>
  /\ mode' = [mode EXCEPT ![t] = "check"]
  /\ UNCHANGED <<input, useLocal, queue, local, stack, future, done, running, main>>

CheckDone(w) == \* while (!_done) of worker_thread()
  /\ w \in running /\ stack[w] = <<>> /\ mode[w] = "check"
  /\ IF done
     THEN running' = running \ {w} /\ UNCHANGED mode
     ELSE mode' = [mode EXCEPT ![w] = "run"] /\ UNCHANGED running
  /\ UNCHANGED <<input, useLocal, queue, local, stack, future, done, main>>

Destroy == \* ~thread_pool(), when the sorter goes
  /\ main = "destroy" /\ main' = "join"
  /\ done' = TRUE
  /\ UNCHANGED <<input, useLocal, queue, local, stack, mode, future, running>>

JoinThreads ==
  /\ main = "join" /\ running = {}
  /\ main' = "return"
  /\ UNCHANGED <<input, useLocal, queue, local, stack, mode, future, done, running>>

-----------------------------------------------------------------------------
(* sorter_using_tp::do_sort *)

\* What is at these places of a list: std::partition keeps no order.
Selected(list, places) ==
  LET order == SetToSeq(places) IN [k \in DOMAIN order |-> list[order[k]]]

Lower(chunk) == Selected(chunk, {i \in 2 .. Len(chunk) : chunk[i] < Head(chunk)})
HigherOnly(chunk) == \* mutant: the elements equal to the pivot are lost
  Selected(chunk, {i \in 2 .. Len(chunk) : chunk[i] > Head(chunk)})
Higher(chunk) == Selected(chunk, {i \in 2 .. Len(chunk) : ~(chunk[i] < Head(chunk))})

\* The first element is the pivot; the lower ones go to a task, the others to
\* a recursive call.
Split(t) ==
  /\ In(t, "start") /\ Top(t).chunk # <<>>
  /\ Submit(t, Lower(Top(t).chunk))
  /\ stack' = [stack EXCEPT ![t] =
       Below(t) \o <<[Top(t) EXCEPT !.at = "sort", !.lower = Len(future) + 1],
                     Frame(0, Higher(Top(t).chunk))>>]
  /\ UNCHANGED <<input, useLocal, mode, done, running, main>>

\* A call returns v: to the call below it, or into its promise.
Return(t, v) ==
  /\ IF Top(t).task # 0
     THEN /\ future' = [future EXCEPT ![Top(t).task] = [ready |-> TRUE, value |-> v]]
          /\ stack' = [stack EXCEPT ![t] = Below(t)]
          /\ UNCHANGED main
     ELSE IF Below(t) # <<>>
     THEN /\ LET n == Len(Below(t))
             IN stack' = [stack EXCEPT ![t] =
                            [Below(t) EXCEPT ![n].at = "wait", ![n].high = v]]
          /\ UNCHANGED <<future, main>>
     ELSE /\ stack' = [stack EXCEPT ![t] = <<[Top(t) EXCEPT !.at = "end", !.high = v]>>]
          /\ main' = "destroy"
          /\ UNCHANGED future
  /\ UNCHANGED <<input, useLocal, queue, local, mode, done, running>>

ReturnEmpty(t) ==
  /\ In(t, "start") /\ Top(t).chunk = <<>>
  /\ Return(t, <<>>)

WaitIdly(t) == \* mutant: new_lower is awaited without running pending tasks
  /\ In(t, "wait") /\ ~Ready(Top(t).lower) /\ UNCHANGED vars

\* new_lower is not ready: the loop calls run_pending_task()
Wait(t) ==
  /\ In(t, "wait") /\ mode[t] = "check"
  /\ ~Ready(Top(t).lower)
  /\ mode' = [mode EXCEPT ![t] = "run"]
  /\ UNCHANGED <<input, useLocal, queue, local, stack, future, done, running, main>>

JoinEarly(t) == \* mutant: takes what the future holds, ready or not
  /\ In(t, "wait") /\ mode[t] = "check"
  /\ Return(t, future[Top(t).lower].value \o <<Head(Top(t).chunk)>> \o Top(t).high)

Join(t) ==
  /\ In(t, "wait") /\ mode[t] = "check"
  /\ Ready(Top(t).lower)
  /\ Return(t, future[Top(t).lower].value \o <<Head(Top(t).chunk)>> \o Top(t).high)

-----------------------------------------------------------------------------
Step(t) == \/ RunLocal(t) \/ RunShared(t) \/ Yield(t)
           \/ Split(t) \/ ReturnEmpty(t) \/ Wait(t) \/ Join(t)

Next == \/ \E t \in Threads : Step(t)
        \/ \E w \in Workers : CheckDone(w)
        \/ Destroy \/ JoinThreads

Spec == Init /\ [][Next]_vars

-----------------------------------------------------------------------------
(* Properties *)

\* The variables keep their types.
TypeOK ==
  /\ running \subseteq Workers /\ done \in BOOLEAN
  /\ mode \in [Threads -> {"check", "run"}]
  /\ main \in {"sort", "destroy", "join", "return"}
  /\ \A t \in Threads : \A i \in 1 .. Len(stack[t]) :
       /\ stack[t][i].at \in {"start", "sort", "wait", "end"}
       /\ stack[t][i].task \in 0 .. Len(future)

\* The lists are sorted: the result is the input in ascending order.
SortIsCorrect ==
  LET result == Top(Main).high
  IN main = "return" =>
       /\ \A i, j \in 1 .. Len(result) : i <= j => result[i] <= result[j]
       /\ ToBag(result) = ToBag(input)

\* ~thread_pool() lets the workers end with tasks still queued and so breaks
\* their promises; the sorter has waited for all its futures by then.
NothingIsDropped ==
  done => queue = <<>> /\ \A w \in Workers : local[w] = <<>> /\ stack[w] = <<>>

\* Until the sort ends some thread has something to do: the futures that the
\* threads wait for on their stacks are never each other's.
SomeoneHasWork ==
  main = "sort" =>
    \/ queue # <<>>
    \/ \E t \in Threads : \/ In(t, "start")
                          \/ In(t, "wait") /\ Ready(Top(t).lower)
                          \/ HasLocal(t)

\* The sort returns: no two calls wait for each other's tasks for ever.
SortReturns == <>(main = "return")
==============================================================================
