------------------------------- MODULE Timers -------------------------------
(***************************************************************************)
(* 1.Timer/1.Timer.cpp: a handler counts and starts its timer again, until *)
(* the count has reached a limit.  Timer3 passes the count to a function,  *)
(* Timer4 keeps it in a Printer; Timer5 has two timers and two threads     *)
(* that call run(), one handler for each timer and one count.  Its handlers*)
(* are not bound to its strand: _count is read and written by two threads  *)
(* at once, each read and each write on its own.                           *)
(***************************************************************************)
EXTENDS Naturals

CONSTANT CountMax \* 5 in Timer3 and Timer4, 10 in Timer5

Programs == {"Timer3", "Timer4", "Timer5"}

VARIABLES printer,  \* the program
          count,    \* *count, _count
          timer,    \* each timer: "none", "waiting" or "ready"
          at,       \* the next step of each thread in a handler
          handling, \* the timer whose handler it is
          local,    \* what it has read of the count
          printed   \* auxiliary: a line was printed for each number in it

Clocks == {1, 2}
Threads == {1, 2}

vars == <<printer, count, timer, at, handling, local, printed>>

Uses == IF printer = "Timer5" THEN {1, 2} ELSE {1} \* timers and threads

Init == /\ printer \in Programs
        /\ count = 0 /\ printed = {}
        /\ timer = [c \in Clocks |-> IF c \in Uses THEN "waiting" ELSE "none"]
        /\ at = [t \in Threads |-> IF t \in Uses THEN "run" ELSE "returned"]
        /\ handling = [t \in Threads |-> 1]
        /\ local = [t \in Threads |-> 0]

Goto(t, from, to) == at[t] = from /\ at' = [at EXCEPT ![t] = to]

Expire(c) ==
  /\ timer[c] = "waiting"
  /\ timer' = [timer EXCEPT ![c] = "ready"]
  /\ UNCHANGED <<printer, count, at, handling, local, printed>>

Call(t, c) == \* run() takes the handler of c
  /\ timer[c] = "ready"
  /\ Goto(t, "run", "test")
  /\ timer' = [timer EXCEPT ![c] = "none"]
  /\ handling' = [handling EXCEPT ![t] = c]
  /\ UNCHANGED <<printer, count, local, printed>>

TestTooLate(t) == \* mutant: count <= CountMax
  /\ IF count <= CountMax THEN Goto(t, "test", "print") ELSE Goto(t, "test", "run")
  /\ UNCHANGED <<printer, count, timer, handling, local, printed>>

Test(t) == \* if (_count < 10)
  /\ IF count < CountMax THEN Goto(t, "test", "print") ELSE Goto(t, "test", "run")
  /\ UNCHANGED <<printer, count, timer, handling, local, printed>>

PrintCount(t) ==
  /\ Goto(t, "print", "load")
  /\ printed' = printed \cup {count}
  /\ UNCHANGED <<printer, count, timer, handling, local>>

Load(t) == \* ++_count
  /\ Goto(t, "load", "store")
  /\ local' = [local EXCEPT ![t] = count]
  /\ UNCHANGED <<printer, count, timer, handling, printed>>

Store(t) ==
  /\ Goto(t, "store", "rearm")
  /\ count' = local[t] + 1
  /\ local' = [local EXCEPT ![t] = 0]
  /\ UNCHANGED <<printer, timer, handling, printed>>

NoRearm(t) == \* mutant: async_wait() is not called again
  /\ Goto(t, "rearm", "run")
  /\ UNCHANGED <<printer, count, timer, handling, local, printed>>

Rearm(t) == \* expires_at(), async_wait()
  /\ Goto(t, "rearm", "run")
  /\ timer' = [timer EXCEPT ![handling[t]] = "waiting"]
  /\ UNCHANGED <<printer, count, handling, local, printed>>

\* run() has no work left: no timer is waited for and no handler is running.
Return(t) ==
  /\ \A c \in Clocks : timer[c] = "none"
  /\ \A u \in Threads : at[u] \in {"run", "returned"}
  /\ Goto(t, "run", "returned")
  /\ UNCHANGED <<printer, count, timer, handling, local, printed>>

Step(t) == \/ Test(t) \/ PrintCount(t) \/ Load(t) \/ Store(t) \/ Rearm(t)
           \/ Return(t) \/ \E c \in Clocks : Call(t, c)

Next == (\E t \in Threads : Step(t)) \/ (\E c \in Clocks : Expire(c))

Spec == Init /\ [][Next]_vars

\* Threads run and timers expire.
Fairness == WF_vars(Next)

-----------------------------------------------------------------------------
(* Properties *)

TypeOK ==
  /\ printer \in Programs /\ count \in 0 .. CountMax + 1
  /\ timer \in [Clocks -> {"none", "waiting", "ready"}]
  /\ at \in [Threads -> {"run", "test", "print", "load", "store", "rearm", "returned"}]
  /\ handling \in [Threads -> Clocks] /\ local \in [Threads -> 0 .. CountMax]
  /\ printed \subseteq 0 .. CountMax

AllReturned == \A t \in Threads : at[t] = "returned"

\* When run() has returned to all, the count is what it was to reach and each
\* number was printed.  Without the strand the two handlers of Timer5 can both
\* pass the last test, so that it is one more, and can undo each other's counts
\* but not end below.
FinalCountIsRight ==
  AllReturned =>
    /\ count \in IF printer = "Timer5" THEN {CountMax, CountMax + 1} ELSE {CountMax}
    /\ printer # "Timer5" => printed = 0 .. CountMax - 1

\* The programs with one timer end.  The model of Timer5 need not: a thread may
\* be stopped between its read and its write for any time.
CountingEnds == printer # "Timer5" => <>AllReturned
==============================================================================
