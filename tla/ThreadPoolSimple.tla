--------------------------- MODULE ThreadPoolSimple ---------------------------
(***************************************************************************)
(* thread_pool_simple of 9.thread_pool/thread_pool.hpp: tasks without      *)
(* futures.  The constructor starts the workers one by one and may fail at *)
(* any of them; either way, and in the destructor, the members go in the   *)
(* reverse order of their declaration: _joiner, _threads, _queue.          *)
(***************************************************************************)
EXTENDS Naturals, Sequences

CONSTANTS Hardware, \* hardware_concurrency()
          MaxTasks  \* bound: of the tasks submitted

VARIABLES threads,   \* _threads: where each worker is
          tasks,     \* _queue
          stop,      \* _done
          owner,     \* "construct", "use", "join", "free", "gone"
          submitted, \* auxiliary: tasks are numbered as they are submitted
          executed   \* auxiliary: the tasks in the order of their execution

vars == <<threads, tasks, stop, owner, submitted, executed>>

Init == /\ threads = <<>> /\ tasks = <<>> /\ stop = FALSE
        /\ owner = "construct" /\ submitted = 0 /\ executed = <<>>

-----------------------------------------------------------------------------
(* The thread that owns the pool *)

StartThread ==
  /\ owner = "construct" /\ Len(threads) < Hardware
  /\ threads' = Append(threads, [at |-> "check", task |-> 0])
  /\ UNCHANGED <<tasks, stop, owner, submitted, executed>>

FailToStart == \* catch (...): the members constructed so far are destroyed
  /\ owner = "construct" /\ Len(threads) < Hardware
  /\ stop' = TRUE /\ owner' = "join"
  /\ UNCHANGED <<threads, tasks, submitted, executed>>

Constructed ==
  /\ owner = "construct" /\ Len(threads) = Hardware
  /\ owner' = "use"
  /\ UNCHANGED <<threads, tasks, stop, submitted, executed>>

Submit ==
  /\ owner = "use" /\ submitted < MaxTasks
  /\ submitted' = submitted + 1
  /\ tasks' = Append(tasks, submitted + 1)
  /\ UNCHANGED <<threads, stop, owner, executed>>

Destroy ==
  /\ owner = "use"
  /\ stop' = TRUE /\ owner' = "join"
  /\ UNCHANGED <<threads, tasks, submitted, executed>>

JoinNobody == \* mutant: _joiner is declared, and destroyed, without its vector
  /\ owner = "join" /\ owner' = "free"
  /\ UNCHANGED <<threads, tasks, stop, submitted, executed>>

Join == \* ~join_threads()
  /\ owner = "join"
  /\ \A w \in DOMAIN threads : threads[w].at = "ended"
  /\ owner' = "free"
  /\ UNCHANGED <<threads, tasks, stop, submitted, executed>>

Free == \* ~threadsafe_queue(): the tasks left are dropped
  /\ owner = "free" /\ owner' = "gone"
  /\ tasks' = <<>>
  /\ UNCHANGED <<threads, stop, submitted, executed>>

Owner == \/ StartThread \/ FailToStart \/ Constructed \/ Submit \/ Destroy
         \/ Join \/ Free

-----------------------------------------------------------------------------
(* worker_thread() *)

Goto(w, from, to) ==
  /\ threads[w].at = from
  /\ threads' = [threads EXCEPT ![w].at = to]

CheckDone(w) ==
  /\ Goto(w, "check", IF stop THEN "ended" ELSE "pop")
  /\ UNCHANGED <<tasks, stop, owner, submitted, executed>>

TryPop(w) ==
  /\ threads[w].at = "pop" /\ tasks # <<>>
  /\ threads' = [threads EXCEPT ![w] = [at |-> "run", task |-> Head(tasks)]]
  /\ tasks' = Tail(tasks)
  /\ UNCHANGED <<stop, owner, submitted, executed>>

Yield(w) ==
  /\ tasks = <<>> /\ Goto(w, "pop", "check")
  /\ UNCHANGED <<tasks, stop, owner, submitted, executed>>

RunTask(w) ==
  /\ threads[w].at = "run"
  /\ executed' = Append(executed, threads[w].task)
  /\ threads' = [threads EXCEPT ![w] = [at |-> "check", task |-> 0]]
  /\ UNCHANGED <<tasks, stop, owner, submitted>>

Worker(w) == CheckDone(w) \/ TryPop(w) \/ Yield(w) \/ RunTask(w)

Next == Owner \/ \E w \in DOMAIN threads : Worker(w)

Spec == Init /\ [][Next]_vars

-----------------------------------------------------------------------------
(* Properties *)

InHand == {threads[w].task : w \in DOMAIN threads} \ {0}

Executed == {executed[i] : i \in DOMAIN executed}

\* A task is executed once; those that the destructor drops are the last ones.
TasksRunOnce ==
  /\ \A i, j \in DOMAIN executed : executed[i] = executed[j] => i = j
  /\ \A k \in 1 .. submitted :
       k \in Executed \cup InHand \/ owner = "gone" \/ \E i \in DOMAIN tasks : tasks[i] = k
  /\ owner = "gone" => \E k \in 0 .. submitted : Executed = 1 .. k

\* No worker is left to use the pool's members when they are destroyed, though
\* the constructor may have failed with some workers at work already.
WorkersEndBeforeTheQueue ==
  owner \in {"free", "gone"} => \A w \in DOMAIN threads : threads[w].at = "ended"

\* When the pool is to go, it goes.
PoolGoes == owner = "join" ~> owner = "gone"
==============================================================================
