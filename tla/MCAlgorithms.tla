---------------------------- MODULE MCAlgorithms ----------------------------
(***************************************************************************)
(* The parallel algorithms on small instances, each in executions of its   *)
(* own: `program` says which, and the variables of the others keep their   *)
(* first values.                                                           *)
(***************************************************************************)
EXTENDS ThreadPool

CONSTANTS m, w1, w2, Hardware, MaxTasks,
          MaxLength, MinPerThread, MaxHardware,  \* of the block algorithms
          MaxChunk, MaxRange                     \* of those with std::async

ASSUME BlockAssumption == /\ MaxLength \in Nat /\ MaxHardware \in Nat
                          /\ MinPerThread \in Nat \ {0}

ASSUME AsyncAssumption == MaxRange \in Nat

TwoWorkers == {w1, w2}

ListsOf(n, values) == [1 .. n -> values]
FourOfThree == ListsOf(4, 1 .. 3)
UpToFour == UNION {ListsOf(n, 1 .. 3) : n \in 0 .. 4}
Ranges == {[i \in 1 .. n |-> i] : n \in 0 .. MaxRange}

VARIABLES program,
          algorithm, length, hardware, bad, caller, index, thread, taken, total, failed,
          recursion, thrower, call,
          threads, tasks, stop, owner, submitted, executed

blockVars == <<algorithm, length, hardware, bad, caller, index, thread, taken, total, failed>>
Block == INSTANCE BlockAlgorithms

asyncVars == <<recursion, thrower, call>>
Async == INSTANCE AsyncAlgorithms WITH
  algorithm <- recursion, bad <- thrower, Lists <- UpToFour

simpleVars == <<threads, tasks, stop, owner, submitted, executed>>
Simple == INSTANCE ThreadPoolSimple

PoolNext == /\ program = "pool" /\ Next
            /\ UNCHANGED <<program, blockVars, asyncVars, simpleVars>>
BlockNext == /\ program = "block" /\ Block!Next
             /\ UNCHANGED <<program, vars, asyncVars, simpleVars>>
AsyncNext == /\ program = "async" /\ Async!Next
             /\ UNCHANGED <<program, vars, blockVars, simpleVars>>
SimpleNext == /\ program = "simple pool" /\ Simple!Next
              /\ UNCHANGED <<program, vars, blockVars, asyncVars>>

\* What a program that does not run begins with makes no difference.
AlgorithmsInit ==
  /\ program \in {"pool", "block", "async", "simple pool"}
  /\ Init /\ (program # "pool" => useLocal /\ input = <<1, 1, 1, 1>>)
  /\ Block!Init /\ (program # "block" => algorithm = "2.8" /\ length = 0 /\ hardware = 0)
  /\ Async!Init /\ (program # "async" => recursion = "sort" /\ call[<<>>].chunk = <<>>)
  /\ Simple!Init

\* Every thread is scheduled.  The algorithms come to an end when some thread
\* goes on, but the threads of the pool can look for a task for ever.
PoolFairness == /\ \A t \in Threads : WF_vars(program = "pool" /\ Step(t))
                /\ \A w \in Workers : WF_vars(program = "pool" /\ CheckDone(w))
                /\ WF_vars(program = "pool" /\ (Destroy \/ JoinThreads))
                /\ \A w \in 1 .. Hardware :
                     WF_simpleVars(program = "simple pool" /\ w \in DOMAIN threads /\ Simple!Worker(w))
                /\ WF_simpleVars(program = "simple pool" /\ (Simple!Join \/ Simple!Free))

FairAlgorithmsSpec ==
  /\ AlgorithmsInit
  /\ [][PoolNext \/ BlockNext \/ AsyncNext \/ SimpleNext]_
       <<program, vars, blockVars, asyncVars, simpleVars>>
  /\ PoolFairness /\ WF_blockVars(BlockNext) /\ WF_asyncVars(AsyncNext)

-----------------------------------------------------------------------------
(* Properties of several *)

\* The variables of each program keep their types.
TypesOK == /\ program = "pool" => TypeOK
           /\ program = "block" => Block!TypeOK
           /\ program = "async" => Async!TypeOK

\* Lists are sorted, sums have each element once; what is thrown is the
\* exception of an element or of a thread that could not be started.  A task
\* without a future is run once.
ResultsAreRight == /\ TypesOK /\ Simple!TasksRunOnce
                   /\ program = "pool" => SortIsCorrect
                   /\ program = "block" => Block!ResultIsRight
                   /\ program = "async" => Async!ResultIsRight /\ Async!SortsAgree

\* A call that ends leaves no task and no thread behind that would use what
\* goes with it, or whose future nobody fulfils.
NothingIsLeftBehind == /\ Simple!WorkersEndBeforeTheQueue
                       /\ program = "pool" => NothingIsDropped
                       /\ program = "block" => Block!NoThreadOutlivesTheCall
                       /\ program = "async" => Async!NoCallOutlivesItsCaller

\* Every call returns, throws, or (in 2.8) ends the program; so does the
\* destructor of the simple pool.
CallsReturn == /\ program = "pool" => SortReturns
               /\ program = "block" => Block!CallEnds
               /\ program = "async" => Async!CallEnds
               /\ Simple!PoolGoes
==============================================================================
