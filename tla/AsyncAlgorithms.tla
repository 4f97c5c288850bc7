--------------------------- MODULE AsyncAlgorithms ---------------------------
(***************************************************************************)
(* The algorithms that recur with std::async: parallel_quick_sort of 4.x3  *)
(* ("sort"), which gives the lower part to a task and the other to a       *)
(* recursive call, and parallel_accumulate of 8.5 ("accumulate"), which    *)
(* gives the first half to a task and adds up the other itself.            *)
(*                                                                         *)
(* A call is named by its path: <<>> the first, p \o <<0>> the task of p,  *)
(* p \o <<1>> its recursive call.  std::async starts a thread or leaves the*)
(* call to get(), as the library likes.  The destructor of its future waits*)
(* for the thread.  A sum is the sequence of what was added, 0 is `init`.  *)
(***************************************************************************)
EXTENDS Naturals, Sequences, SequencesExt

CONSTANTS Lists,    \* to sort
          Ranges,   \* to add up: each element is its position
          MaxChunk  \* max_chunk_size

VARIABLES algorithm,
          bad,  \* the element whose addition throws, 0 if none does
          call  \* the calls made

vars == <<algorithm, bad, call>>

New(chunk, launch) ==
  [chunk |-> chunk, launch |-> launch, at |-> "start", result |-> <<>>, threw |-> FALSE]

Init == /\ algorithm \in {"sort", "accumulate"}
        /\ \E input \in IF algorithm = "sort" THEN Lists ELSE Ranges :
             /\ call = [p \in {<<>>} |-> New(input, "call")]
             /\ bad \in IF algorithm = "sort" THEN {0} ELSE 0 .. Len(input)

Task(p) == p \o <<0>>
Recursive(p) == p \o <<1>>

\* A deferred call is run by the get() of its caller.
Active(p) == call[p].launch = "deferred" => call[Front(p)].at = "get"

-----------------------------------------------------------------------------
(* What a call works on *)

Small(chunk) == IF algorithm = "sort" THEN chunk = <<>> ELSE Len(chunk) <= MaxChunk

half(chunk) == Len(chunk) \div 2

\* What is at these places of a list: std::partition keeps no order.
Selected(list, places) ==
  LET order == SetToSeq(places) IN [k \in DOMAIN order |-> list[order[k]]]

Below(list) == Selected(list, {i \in 2 .. Len(list) : list[i] < Head(list)})
NotBelow(list) == Selected(list, {i \in 2 .. Len(list) : ~(list[i] < Head(list))})

TaskPart(chunk) ==
  IF algorithm = "sort" THEN Below(chunk) ELSE SubSeq(chunk, 1, half(chunk))

AbovePivot(chunk) == \* mutant: what equals the pivot is lost
  IF algorithm = "sort"
  THEN Selected(chunk, {i \in 2 .. Len(chunk) : chunk[i] > Head(chunk)})
  ELSE SubSeq(chunk, half(chunk) + 1, Len(chunk))

OwnPart(chunk) ==
  IF algorithm = "sort" THEN NotBelow(chunk)
                        ELSE SubSeq(chunk, half(chunk) + 1, Len(chunk))

\* What a small chunk comes to: `init` is added where the halving ends.
Whole(chunk) == IF algorithm = "sort" THEN chunk ELSE <<0>> \o chunk

Combine(p) == \* from the result of p's task and its own part's
  IF algorithm = "sort"
  THEN call[Task(p)].result \o <<Head(call[p].chunk)>> \o call[Recursive(p)].result
  ELSE call[Task(p)].result \o OwnPart(call[p].chunk)

-----------------------------------------------------------------------------
(* The steps of a call *)

Becomes(p, c) == call' = [call EXCEPT ![p] = c] /\ UNCHANGED <<algorithm, bad>>
Goes(p, at) == Becomes(p, [call[p] EXCEPT !.at = at])
Returns(p, value) == Becomes(p, [call[p] EXCEPT !.at = "ended", !.result = value])
EndsBadly(p) == Becomes(p, [call[p] EXCEPT !.at = "ended", !.threw = TRUE])

Throws(chunk) == bad # 0 /\ Contains(chunk, bad)

Sequential(p) ==
  /\ call[p].at = "start" /\ Active(p) /\ Small(call[p].chunk)
  /\ IF Throws(call[p].chunk) THEN EndsBadly(p) ELSE Returns(p, Whole(call[p].chunk))

Split(p) ==
  LET chunk == call[p].chunk
      recursive == IF algorithm = "sort" THEN {Recursive(p)} ELSE {}
  IN /\ call[p].at = "start" /\ Active(p) /\ ~Small(chunk)
     /\ \E launch \in {"thread", "deferred"} :
          call' = [q \in DOMAIN call \cup {Task(p)} \cup recursive |->
                     IF q = Task(p) THEN New(TaskPart(chunk), launch)
                     ELSE IF q \in recursive THEN New(OwnPart(chunk), "call")
                     ELSE IF q = p THEN [call[p] EXCEPT !.at = "own"]
                     ELSE call[q]]
     /\ UNCHANGED <<algorithm, bad>>

Own(p) == \* the part that is not given to the task
  /\ call[p].at = "own"
  /\ IF algorithm = "sort"
     THEN call[Recursive(p)].at = "ended" /\ Goes(p, "get")
     ELSE Goes(p, IF Throws(OwnPart(call[p].chunk)) THEN "unwind" ELSE "get")

GetAtOnce(p) == \* mutant: get() does not wait
  call[p].at = "get" /\ Returns(p, Combine(p))

Get(p) ==
  /\ call[p].at = "get" /\ call[Task(p)].at = "ended"
  /\ IF call[Task(p)].threw THEN EndsBadly(p) ELSE Returns(p, Combine(p))

UnwindAtOnce(p) == \* mutant: the future is one of a std::packaged_task
  call[p].at = "unwind" /\ EndsBadly(p)

Unwind(p) == \* ~future(): a deferred task is never run
  /\ call[p].at = "unwind"
  /\ call[Task(p)].launch = "thread" => call[Task(p)].at = "ended"
  /\ EndsBadly(p)

Next == \E p \in DOMAIN call : Sequential(p) \/ Split(p) \/ Own(p) \/ Get(p) \/ Unwind(p)

Spec == Init /\ [][Next]_vars

-----------------------------------------------------------------------------
(* sequential_quick_sort of 4.x3 *)

sequential_quick_sort[list \in Seq(Nat)] ==
  IF list = <<>> THEN <<>>
  ELSE sequential_quick_sort[Below(list)] \o <<Head(list)>>
         \o sequential_quick_sort[NotBelow(list)]

-----------------------------------------------------------------------------
(* Properties *)

Points == {"start", "own", "get", "unwind", "ended"}

TypeOK ==
  \A p \in DOMAIN call : /\ call[p].launch \in {"call", "thread", "deferred"}
                         /\ call[p].at \in Points /\ call[p].threw \in BOOLEAN

InOrder(list) == \A i, j \in 1 .. Len(list) : i <= j => list[i] <= list[j]

\* The sort returns the list in order, whatever ran where; a sum of 8.5 has
\* `init` and each element once.  A sum with an element that throws does.
ResultIsRight ==
  LET first == call[<<>>]
  IN first.at = "ended" =>
       /\ first.threw <=> bad # 0
       /\ ~first.threw => IF algorithm = "sort"
            THEN InOrder(first.result) /\ ToBag(first.result) = ToBag(first.chunk)
            ELSE first.result = <<0>> \o first.chunk

\* The sequential sort of 4.x3 gives what the parallel one does.
SortsAgree ==
  LET first == call[<<>>]
  IN algorithm = "sort" /\ first.at = "ended" =>
       sequential_quick_sort[first.chunk] = first.result

\* A call that has ended left no task that still works on its part.
NoCallOutlivesItsCaller ==
  \A p \in DOMAIN call :
    call[p].at = "ended" /\ Task(p) \in DOMAIN call =>
      \/ call[Task(p)].at = "ended"
      \/ call[Task(p)].launch = "deferred" /\ call[Task(p)].at = "start"

\* The first call ends.
CallEnds == <>(call[<<>>].at = "ended")
==============================================================================
