-------------------------- MODULE HierarchicalMutex --------------------------
(***************************************************************************)
(* class hierarchical_mutex of 3.8.hierarchical_mutex.cpp.  Every mutex    *)
(* has a fixed level; a thread may lock only below the level it is at, a   *)
(* thread-local variable that lock() lowers and unlock() restores from     *)
(* the value the mutex remembers.  lock() may block between its check and  *)
(* its update, and unlock() restores before it releases: these are steps.  *)
(***************************************************************************)
EXTENDS Naturals, Sequences, WellFoundedInduction, TLAPS

CONSTANTS Threads, Mutexes,
          Level,        \* _hierarchy_value of each mutex
          InitialValue, \* _this_thread_hierarchy_value of a new thread: the
                        \* code declares the variable and never defines it
          NoThread

ASSUME HierarchyAssumption == /\ Level \in [Mutexes -> Nat]
                              /\ InitialValue \in Nat
                              /\ NoThread \notin Threads

VARIABLES owner,    \* who owns each _mutex
          previous, \* _previous_hierarchy_value of each mutex
          value,    \* _this_thread_hierarchy_value of each thread
          pc, want, \* the next step of a thread and the mutex it works on
          held      \* auxiliary: what a thread has locked, oldest first

vars == <<owner, previous, value, pc, want, held>>

InitIndeterminate == \* mutant: the constructor leaves the member as it is
  /\ owner = [m \in Mutexes |-> NoThread]
  /\ previous = [m \in Mutexes |-> NoThread]
  /\ value = [t \in Threads |-> InitialValue]
  /\ pc = [t \in Threads |-> "run"]
  /\ want \in [Threads -> Mutexes]
  /\ held = [t \in Threads |-> <<>>]

Init == /\ owner = [m \in Mutexes |-> NoThread]
        /\ previous = [m \in Mutexes |-> 0]
        /\ value = [t \in Threads |-> InitialValue]
        /\ pc = [t \in Threads |-> "run"]
        /\ want \in [Threads -> Mutexes]
        /\ held = [t \in Threads |-> <<>>]

Goto(t, from, to) == pc[t] = from /\ pc' = [pc EXCEPT ![t] = to]

ViolatesBelow(t, m) == value[t] < Level[m] \* mutant: allows the same level

Violates(t, m) == value[t] <= Level[m] \* check_for_hierarchy_violation throws

Lock(t, m) ==
  /\ ~Violates(t, m)
  /\ Goto(t, "run", "block")
  /\ want' = [want EXCEPT ![t] = m]
  /\ UNCHANGED <<owner, previous, value, held>>

Acquire(t) == \* _mutex.lock() returns
  /\ Goto(t, "block", "update")
  /\ owner[want[t]] = NoThread
  /\ owner' = [owner EXCEPT ![want[t]] = t]
  /\ UNCHANGED <<previous, value, want, held>>

TryLock(t, m) == \* when try_lock() succeeds; otherwise nothing changes
  /\ ~Violates(t, m)
  /\ owner[m] = NoThread
  /\ Goto(t, "run", "update")
  /\ want' = [want EXCEPT ![t] = m]
  /\ owner' = [owner EXCEPT ![m] = t]
  /\ UNCHANGED <<previous, value, held>>

UpdateMutexOnly(t) == \* mutant: the thread keeps its level
  /\ Goto(t, "update", "run")
  /\ previous' = [previous EXCEPT ![want[t]] = value[t]]
  /\ held' = [held EXCEPT ![t] = Append(@, want[t])]
  /\ UNCHANGED <<owner, value, want>>

Update(t) == \* update_hierarchy_value()
  /\ Goto(t, "update", "run")
  /\ previous' = [previous EXCEPT ![want[t]] = value[t]]
  /\ value' = [value EXCEPT ![t] = Level[want[t]]]
  /\ held' = [held EXCEPT ![t] = Append(@, want[t])]
  /\ UNCHANGED <<owner, want>>

Restore(t, i) == \* the first line of unlock(), on the i-th mutex t holds
  /\ i \in 1 .. Len(held[t])
  /\ Goto(t, "run", "release")
  /\ value' = [value EXCEPT ![t] = previous[held[t][i]]]
  /\ want' = [want EXCEPT ![t] = held[t][i]]
  /\ held' = [held EXCEPT ![t] = SubSeq(@, 1, i - 1) \o SubSeq(@, i + 1, Len(@))]
  /\ UNCHANGED <<owner, previous>>

ReleaseNothing(t) == \* mutant: unlock() without _mutex.unlock()
  /\ Goto(t, "release", "run")
  /\ UNCHANGED <<owner, previous, value, want, held>>

Release(t) == \* _mutex.unlock()
  /\ Goto(t, "release", "run")
  /\ owner' = [owner EXCEPT ![want[t]] = NoThread]
  /\ UNCHANGED <<previous, value, want, held>>

Step(t) == \/ \E m \in Mutexes : Lock(t, m) \/ TryLock(t, m)
           \/ Acquire(t) \/ Update(t) \/ Release(t)

UnlockLast(t) == Restore(t, Len(held[t]))

\* Callers that unlock in the reverse order, as nested lock_guards do ...
Next == \E t \in Threads : Step(t) \/ UnlockLast(t)

Spec == Init /\ [][Next]_vars

\* ... and callers that call unlock() in any order.
NextAnyOrder == \E t \in Threads :
                  Step(t) \/ \E i \in 1 .. Len(held[t]) : Restore(t, i)

AnyOrderSpec == Init /\ [][NextAnyOrder]_vars

\* A thread finishes the call it is in, gives back each mutex it holds in the
\* end, and a mutex that keeps becoming free is granted to each thread in turn.
Fairness == \A t \in Threads :
  /\ SF_vars(Acquire(t))
  /\ WF_vars(Update(t)) /\ WF_vars(Release(t))
  /\ \A m \in Mutexes : SF_vars(UnlockLast(t) /\ want'[t] = m)

FairSpec == Spec /\ Fairness

-----------------------------------------------------------------------------
(* The instances that TLC checks: mutex 1 is below the others. *)

TwoLevels == [m \in Mutexes |-> IF m = 1 THEN 1 ELSE 2]

-----------------------------------------------------------------------------
(* Properties *)

\* Each variable keeps its type.
TypeOK ==
  /\ owner \in [Mutexes -> Threads \cup {NoThread}]
  /\ previous \in [Mutexes -> Nat]
  /\ value \in [Threads -> Nat]
  /\ pc \in [Threads -> {"run", "block", "update", "release"}]
  /\ want \in [Threads -> Mutexes]
  /\ held \in [Threads -> Seq(Mutexes)]

\* What "mutex hierarchy violated" (line 28) refuses: a thread never waits
\* for, or has just taken, a mutex that is not below all those it holds.
HierarchyIsKept ==
  \A t \in Threads : pc[t] \in {"block", "update"} =>
    \A i \in 1 .. Len(held[t]) : Level[want[t]] < Level[held[t][i]]

\* No set of threads waits for each other: lock() cannot deadlock.
NoWaitCycle ==
  \A S \in (SUBSET Threads) \ {{}} :
    ~ \A t \in S : pc[t] = "block" /\ owner[want[t]] \in S

\* A thread outside lock() and unlock() is at the level of the last mutex it
\* locked and still holds, whatever it locked and unlocked before: unlock()
\* gives back what lock() took, and a thread that holds nothing starts over.
LevelIsThatOfTheLastLock ==
  \A t \in Threads : pc[t] = "run" =>
    value[t] = IF held[t] = <<>> THEN InitialValue
                                 ELSE Level[held[t][Len(held[t])]]

\* A thread that blocks in lock() gets the mutex in the end.
LocksAreGranted == \A t \in Threads : (pc[t] = "block") ~> (pc[t] = "update")

-----------------------------------------------------------------------------
(***************************************************************************)
(* Proofs: with callers that unlock in reverse order, hierarchical_mutex   *)
(* excludes deadlock for any set of threads, any mutexes and any levels.   *)
(***************************************************************************)

Mine(t) == {held[t][i] : i \in 1 .. Len(held[t])}

Working(t) == pc[t] \in {"update", "release"}

\* A mutex is owned by the one thread that has locked it, or that is between
\* _mutex.lock() and the update or between the restore and _mutex.unlock().
OwnersHold ==
  \A t \in Threads :
    /\ \A m \in Mutexes :
         owner[m] = t <=> m \in Mine(t) \/ (Working(t) /\ want[t] = m)
    /\ Working(t) => want[t] \notin Mine(t)

\* A thread is at the level of its last mutex, each mutex it holds remembers
\* the level of the one before, and what it waits for is below.
LevelsDescend ==
  \A t \in Threads :
    LET h == held[t]
        n == Len(h)
    IN /\ value[t] = IF n = 0 THEN InitialValue ELSE Level[h[n]]
       /\ \A i \in 1 .. n :
            previous[h[i]] = IF i = 1 THEN InitialValue ELSE Level[h[i - 1]]
       /\ \A i, j \in 1 .. n : i < j => Level[h[j]] < Level[h[i]]
       /\ pc[t] \in {"block", "update"} => Level[want[t]] < value[t]

IInv == TypeOK /\ OwnersHold /\ LevelsDescend

-----------------------------------------------------------------------------
\* Taking the last element out, as UnlockLast does to `held`.
LEMMA RemoveLast ==
  ASSUME NEW h \in Seq(Mutexes), NEW n \in Nat, n = Len(h), n >= 1,
         NEW r, r = SubSeq(h, 1, n - 1) \o SubSeq(h, n + 1, n)
  PROVE  /\ r \in Seq(Mutexes) /\ Len(r) = n - 1
         /\ \A i \in 1 .. n - 1 : r[i] = h[i]
<1>1. /\ SubSeq(h, 1, n - 1) \in Seq(Mutexes)
      /\ Len(SubSeq(h, 1, n - 1)) = n - 1
      /\ \A i \in 1 .. n - 1 : SubSeq(h, 1, n - 1)[i] = h[i]
  OBVIOUS
<1>2. SubSeq(h, n + 1, n) = <<>>
  OBVIOUS
<1>. QED
  BY <1>1, <1>2

\* What a thread holds after it has locked one more mutex.
LEMMA AddLast ==
  ASSUME NEW h \in Seq(Mutexes), NEW m \in Mutexes
  PROVE  /\ Append(h, m) \in Seq(Mutexes)
         /\ Len(Append(h, m)) = Len(h) + 1
         /\ \A i \in 1 .. Len(h) : Append(h, m)[i] = h[i]
         /\ Append(h, m)[Len(h) + 1] = m
OBVIOUS

Below == {ss \in Nat \X Nat : ss[1] < ss[2]}

\* Levels do not descend for ever.
LEMMA NatWellFounded == IsWellFoundedOn(Below, Nat)
BY NatLessThanWellFounded DEF OpToRel, Below

\* Nobody holds anything at first.
LEMMA InitIInv == Init => IInv
<1> SUFFICES ASSUME Init PROVE IInv
  OBVIOUS
<1>1. TypeOK
  BY HierarchyAssumption DEF Init, TypeOK
<1>2. ASSUME NEW t \in Threads
      PROVE  /\ held[t] = <<>> /\ Len(held[t]) = 0 /\ Mine(t) = {}
             /\ value[t] = InitialValue /\ pc[t] = "run" /\ ~Working(t)
             /\ \A m \in Mutexes : owner[m] # t
  BY HierarchyAssumption DEF Init, Mine, Working
<1>3. OwnersHold
  BY <1>2 DEF OwnersHold
<1>4. LevelsDescend
  <2> SUFFICES ASSUME NEW t \in Threads
               PROVE  LevelsDescend!(t)
    BY DEF LevelsDescend
  <2>. QED
    BY <1>2
<1>. QED
  BY <1>1, <1>3, <1>4 DEF IInv

\* One step of any thread keeps the levels descending.
LEMMA StepIInv == IInv /\ [Next]_vars => IInv'
<1> SUFFICES ASSUME TypeOK, OwnersHold, LevelsDescend, [Next]_vars PROVE IInv'
  BY DEF IInv
<1> USE DEF Goto, Working
<1>c. /\ InitialValue \in Nat /\ \A m \in Mutexes : Level[m] \in Nat
      /\ NoThread \notin Threads
  BY HierarchyAssumption
<1>a. \A t \in Threads : held[t] \in Seq(Mutexes)
  BY DEF TypeOK
<1>b. held' = held => \A t \in Threads : Mine(t)' = Mine(t)
  BY DEF Mine
<1>1. ASSUME NEW t \in Threads, NEW m \in Mutexes, Lock(t, m) PROVE IInv'
  <2>1. TypeOK'
    BY <1>1 DEF Lock, TypeOK
  <2>2. OwnersHold'
    BY <1>1, <1>b, <1>c DEF Lock, TypeOK, OwnersHold
  <2>3. LevelsDescend'
    BY <1>1, <1>c DEF Lock, TypeOK, LevelsDescend, Violates
  <2>. QED
    BY <2>1, <2>2, <2>3 DEF IInv
<1>2. ASSUME NEW t \in Threads, NEW m \in Mutexes, TryLock(t, m) PROVE IInv'
  <2>1. TypeOK'
    BY <1>2 DEF TryLock, TypeOK
  <2>2. OwnersHold'
    BY <1>2, <1>b, <1>c DEF TryLock, TypeOK, OwnersHold
  <2>3. LevelsDescend'
    BY <1>2, <1>c DEF TryLock, TypeOK, LevelsDescend, Violates
  <2>. QED
    BY <2>1, <2>2, <2>3 DEF IInv
<1>3. ASSUME NEW t \in Threads, Acquire(t) PROVE IInv'
  <2>1. TypeOK'
    BY <1>3 DEF Acquire, TypeOK
  <2>2. OwnersHold'
    BY <1>3, <1>b, <1>c DEF Acquire, TypeOK, OwnersHold
  <2>3. LevelsDescend'
    BY <1>3 DEF Acquire, TypeOK, LevelsDescend
  <2>. QED
    BY <2>1, <2>2, <2>3 DEF IInv
<1>4. ASSUME NEW t \in Threads, Update(t) PROVE IInv'
  <2>p. PICK h \in Seq(Mutexes), n \in Nat : h = held[t] /\ n = Len(h)
    BY <1>a
  <2>0. /\ h = held[t] /\ n = Len(h) /\ want[t] \in Mutexes
        /\ held'[t] = Append(h, want[t]) /\ want' = want /\ owner' = owner
        /\ \A u \in Threads \ {t} : held'[u] = held[u] /\ pc'[u] = pc[u]
        /\ pc[t] = "update" /\ pc'[t] = "run"
    BY <1>4, <2>p DEF Update, TypeOK
  <2>a. /\ value[t] = IF n = 0 THEN InitialValue ELSE Level[h[n]]
        /\ \A i \in 1 .. n :
             previous[h[i]] = IF i = 1 THEN InitialValue ELSE Level[h[i - 1]]
        /\ \A i, j \in 1 .. n : i < j => Level[h[j]] < Level[h[i]]
        /\ pc[t] \in {"block", "update"} => Level[want[t]] < value[t]
    BY <2>0 DEF LevelsDescend
  <2>b. \A i \in 1 .. n : h[i] \in Mutexes /\ Level[h[i]] \in Nat
    BY <1>c, <2>0
  <2>1. /\ held'[t] \in Seq(Mutexes) /\ Len(held'[t]) = n + 1
        /\ \A i \in 1 .. n : held'[t][i] = h[i]
        /\ held'[t][n + 1] = want[t]
    BY <2>0, AddLast
  <2>2. Mine(t)' = Mine(t) \cup {want[t]}
    BY <2>0, <2>1 DEF Mine
  <2>3. \A u \in Threads \ {t} : Mine(u)' = Mine(u)
    BY <2>0 DEF Mine
  <2>4. TypeOK'
    BY <1>4, <1>c, <2>0, <2>1 DEF Update, TypeOK
  <2>5. OwnersHold'
    BY <2>0, <2>2, <2>3 DEF OwnersHold
  <2>6. /\ want[t] \notin Mine(t) /\ \A u \in Threads \ {t} : want[t] \notin Mine(u)
        /\ value[t] \in Nat
    BY <2>0 DEF OwnersHold, TypeOK, Working
  <2>7. /\ value' = [value EXCEPT ![t] = Level[want[t]]]
        /\ previous' = [previous EXCEPT ![want[t]] = value[t]]
        /\ value \in [Threads -> Nat] /\ previous \in [Mutexes -> Nat]
    BY <1>4 DEF Update, TypeOK
  <2>8. LevelsDescend!(t)'
    <3>1. value'[t] = Level[held'[t][n + 1]] /\ n + 1 # 0
      BY <2>0, <2>1, <2>7
    <3>2. ASSUME NEW i \in 1 .. n + 1
          PROVE  previous'[held'[t][i]] = IF i = 1 THEN InitialValue
                                          ELSE Level[held'[t][i - 1]]
      <4>1. CASE i = n + 1
        BY <2>0, <2>1, <2>7, <4>1 DEF LevelsDescend
      <4>2. CASE i \in 1 .. n
        <5>1. /\ held'[t][i] = h[i] /\ h[i] \in Mine(t) /\ h[i] \in Mutexes
              /\ i # 1 => i - 1 \in 1 .. n
          BY <2>0, <2>1, <4>2 DEF Mine
        <5>2. previous'[h[i]] = previous[h[i]]
          BY <2>6, <2>7, <5>1
        <5>. QED
          BY <2>a, <2>1, <4>2, <5>1, <5>2
      <4>. QED
        BY <2>0, <4>1, <4>2
    <3>3. ASSUME NEW i \in 1 .. n + 1, NEW j \in 1 .. n + 1, i < j
          PROVE  Level[held'[t][j]] < Level[held'[t][i]]
      <4>1. CASE j \in 1 .. n
        BY <2>0, <2>1, <3>3, <4>1 DEF LevelsDescend
      <4>2. CASE j = n + 1
        <5>1. /\ i \in 1 .. n /\ n \in 1 .. n /\ held'[t][i] = h[i]
              /\ held'[t][j] = want[t]
          BY <2>0, <2>1, <3>3, <4>2
        <5>2. /\ Level[want[t]] < Level[h[n]]
              /\ i < n => Level[h[n]] < Level[h[i]]
          BY <2>a, <2>0, <5>1
        <5>3. /\ Level[want[t]] \in Nat /\ Level[h[n]] \in Nat
              /\ Level[h[i]] \in Nat
          BY <1>c, <2>0, <2>b, <5>1
        <5>. QED
          BY <5>1, <5>2, <5>3
      <4>. QED
        BY <2>0, <3>3, <4>1, <4>2
    <3>. QED
      BY <2>0, <2>1, <3>1, <3>2, <3>3
  <2>9. ASSUME NEW u \in Threads \ {t}
        PROVE  LevelsDescend!(u)'
    <3>1. /\ held'[u] = held[u] /\ pc'[u] = pc[u] /\ want' = want
          /\ value'[u] = value[u] /\ held[u] \in Seq(Mutexes)
      BY <1>a, <2>0, <2>7
    <3>2. \A i \in 1 .. Len(held[u]) : previous'[held[u][i]] = previous[held[u][i]]
      BY <2>6, <2>7, <3>1 DEF Mine
    <3>. QED
      BY <3>1, <3>2 DEF LevelsDescend
  <2>10. LevelsDescend'
    BY <2>8, <2>9 DEF LevelsDescend
  <2>. QED
    BY <2>4, <2>5, <2>10 DEF IInv
<1>5. ASSUME NEW t \in Threads, UnlockLast(t) PROVE IInv'
  <2>0. PICK h \in Seq(Mutexes), n \in Nat :
        /\ h = held[t] /\ n = Len(h) /\ n >= 1 /\ h[n] \in Mutexes
        /\ h[n] \in Mine(t)
    BY <1>5, <1>a DEF UnlockLast, Restore, Mine
  <2>a. /\ value[t] = IF n = 0 THEN InitialValue ELSE Level[h[n]]
        /\ \A i \in 1 .. n :
             previous[h[i]] = IF i = 1 THEN InitialValue ELSE Level[h[i - 1]]
        /\ \A i, j \in 1 .. n : i < j => Level[h[j]] < Level[h[i]]
        /\ pc[t] \in {"block", "update"} => Level[want[t]] < value[t]
    BY <2>0 DEF LevelsDescend
  <2>b. \A i \in 1 .. n : h[i] \in Mutexes /\ Level[h[i]] \in Nat
    BY <1>c, <2>0
  <2>1. /\ want' = [want EXCEPT ![t] = h[n]] /\ owner' = owner
        /\ held' = [held EXCEPT ![t] = SubSeq(h, 1, n - 1) \o SubSeq(h, n + 1, n)]
        /\ value' = [value EXCEPT ![t] = previous[h[n]]]
        /\ previous' = previous
        /\ pc[t] = "run" /\ pc' = [pc EXCEPT ![t] = "release"]
    BY <1>5, <2>0 DEF UnlockLast, Restore
  <2>2. /\ held'[t] \in Seq(Mutexes) /\ Len(held'[t]) = n - 1
        /\ \A i \in 1 .. n - 1 : held'[t][i] = h[i]
    <3>1. held \in [Threads -> Seq(Mutexes)]
      BY DEF TypeOK
    <3>2. held'[t] = SubSeq(h, 1, n - 1) \o SubSeq(h, n + 1, n)
      BY <2>1, <3>1
    <3>3. n = Len(h) /\ n >= 1
      BY <2>0
    <3>. QED
      BY <3>2, <3>3, RemoveLast
  <2>3. \A u \in Threads \ {t} : /\ held'[u] = held[u] /\ Mine(u)' = Mine(u)
                               /\ want'[u] = want[u] /\ pc'[u] = pc[u]
                               /\ value'[u] = value[u]
    BY <2>1 DEF TypeOK, Mine
  <2>4. \A i \in 1 .. n - 1 : h[i] # h[n]
    <3>1. ASSUME NEW i \in 1 .. n - 1
          PROVE  Level[h[n]] < Level[h[i]] /\ Level[h[n]] \in Nat
      <4>1. n \in 1 .. n /\ i \in 1 .. n /\ i < n
        BY <2>0
      <4>. QED
        BY <2>a, <2>b, <4>1
    <3>. QED
      BY <3>1
  <2>5. Mine(t)' = Mine(t) \ {h[n]}
    <3>1. Mine(t)' = {h[i] : i \in 1 .. n - 1}
      BY <2>2 DEF Mine
    <3>2. \A i \in 1 .. n : i = n \/ i \in 1 .. n - 1
      BY <2>0
    <3>. QED
      <4>1. Mine(t) = {h[i] : i \in 1 .. n}
        BY <2>0 DEF Mine
      <4>2. \A i \in 1 .. n - 1 : i \in 1 .. n
        OBVIOUS
      <4>. QED
        BY <2>4, <3>1, <3>2, <4>1, <4>2
  <2>6. want'[t] = h[n] /\ pc'[t] = "release" /\ value'[t] = previous[h[n]]
    BY <2>1 DEF TypeOK
  <2>7. TypeOK'
    BY <2>0, <2>1, <2>2 DEF TypeOK
  <2>8. OwnersHold'
    BY <2>0, <2>1, <2>3, <2>5, <2>6 DEF OwnersHold
  <2>9. LevelsDescend!(t)'
    <3>1. previous[h[n]] = IF n = 1 THEN InitialValue ELSE Level[h[n - 1]]
      <4>1. n \in 1 .. n
        BY <2>0
      <4>. QED
        BY <2>a, <4>1
    <3>2. value'[t] = IF n - 1 = 0 THEN InitialValue ELSE Level[held'[t][n - 1]]
      <4>1. n >= 1
        BY <2>0
      <4>2. n # 1 => n - 1 \in 1 .. n - 1
        BY <4>1
      <4>. QED
        BY <2>2, <2>6, <3>1, <4>1, <4>2
    <3>3. ASSUME NEW i \in 1 .. n - 1
          PROVE  previous'[held'[t][i]] = IF i = 1 THEN InitialValue
                                          ELSE Level[held'[t][i - 1]]
      BY <2>0, <2>1, <2>2 DEF LevelsDescend
    <3>4. \A i, j \in 1 .. n - 1 : i < j => Level[held'[t][j]] < Level[held'[t][i]]
      <4>1. \A i \in 1 .. n - 1 : i \in 1 .. n
        OBVIOUS
      <4>. QED
        BY <2>a, <2>2, <4>1
    <3>. QED
      BY <2>2, <2>6, <3>2, <3>3, <3>4
  <2>10. ASSUME NEW u \in Threads \ {t}
         PROVE  LevelsDescend!(u)'
    BY <2>1, <2>3 DEF LevelsDescend
  <2>11. LevelsDescend'
    BY <2>9, <2>10 DEF LevelsDescend
  <2>. QED
    BY <2>7, <2>8, <2>11 DEF IInv
<1>6. ASSUME NEW t \in Threads, Release(t) PROVE IInv'
  <2>1. TypeOK'
    BY <1>6 DEF Release, TypeOK
  <2>2. OwnersHold'
    BY <1>6, <1>b, <1>c DEF Release, TypeOK, OwnersHold
  <2>3. LevelsDescend'
    BY <1>6 DEF Release, TypeOK, LevelsDescend
  <2>. QED
    BY <2>1, <2>2, <2>3 DEF IInv
<1>7. CASE UNCHANGED vars
  BY <1>7 DEF vars, IInv, TypeOK, OwnersHold, LevelsDescend, Mine
<1>. QED
  BY <1>1, <1>2, <1>3, <1>4, <1>5, <1>6, <1>7 DEF Next, Step

-----------------------------------------------------------------------------
(* What holds of every reachable state *)

\* The invariant holds throughout.
LEMMA IInvInvariant == Spec => []IInv
BY InitIInv, StepIInv, PTL DEF Spec

\* Every call of lock(), try_lock() and unlock() keeps the types, and a step
\* that a thread is at has its mutex.
THEOREM TypeCorrect == Spec => []TypeOK
<1>1. IInv => TypeOK
  BY DEF IInv
<1>. QED
  BY IInvInvariant, <1>1, PTL

\* lock() cannot deadlock: among threads that wait for each other, the one
\* that waits for the lowest mutex waits for a thread that waits for a lower
\* one (the check of line 26 and the values of lines 34, 35 and 51).
THEOREM DeadlockFree == Spec => []NoWaitCycle
<1>1. ASSUME IInv PROVE NoWaitCycle
  <2>0. ASSUME NEW S \in (SUBSET Threads) \ {{}}
        PROVE  ~ \A t \in S : pc[t] = "block" /\ owner[want[t]] \in S
    <3>1. SUFFICES ASSUME \A t \in S : pc[t] = "block" /\ owner[want[t]] \in S
                   PROVE  FALSE
      OBVIOUS
    <3> DEFINE Lev(t) == Level[want[t]]
               L == {Lev(t) : t \in S}
    <3>2. \A t \in S : Lev(t) \in Nat
      BY <1>1, HierarchyAssumption DEF IInv, TypeOK
    <3>3. \A t \in S : Lev(owner[want[t]]) < Lev(t)
      <4>1. TAKE t \in S
      <4> DEFINE u == owner[want[t]]
                 n == Len(held[u])
      <4>2. u \in S /\ want[t] \in Mine(u)
        BY <1>1, <3>1 DEF IInv, TypeOK, OwnersHold, Working
      <4>3. PICK i \in 1 .. n : want[t] = held[u][i]
        BY <4>2 DEF Mine
      <4>4. /\ held[u] \in Seq(Mutexes) /\ n \in Nat /\ pc[u] = "block"
            /\ value[u] = Level[held[u][n]]
        <5>1. u \in Threads /\ held[u] \in Seq(Mutexes) /\ pc[u] = "block"
          BY <1>1, <3>1, <4>2 DEF IInv, TypeOK
        <5>2. n \in Nat /\ n # 0
          BY <4>3, <5>1
        <5>. QED
          BY <1>1, <5>1, <5>2 DEF IInv, LevelsDescend
      <4>5. /\ Level[held[u][n]] \in Nat /\ Level[held[u][i]] \in Nat
            /\ Lev(u) \in Nat
        BY <3>2, <4>2, <4>3, <4>4, HierarchyAssumption
      <4>6. i < n => Level[held[u][n]] < Level[held[u][i]]
        BY <1>1, <4>2, <4>3, <4>4 DEF IInv, LevelsDescend
      <4>7. Lev(u) < value[u]
        BY <1>1, <4>2, <4>4 DEF IInv, LevelsDescend
      <4>. QED
        BY <4>3, <4>4, <4>5, <4>6, <4>7
    <3>4. \E x \in L : \A y \in L : ~ (<<y, x>> \in Below)
      <4>1. L \subseteq Nat /\ L # {}
        BY <3>1, <3>2
      <4>. QED
        BY <4>1, NatWellFounded, WFMin
    <3>5. PICK t \in S : \A u \in S : ~ (Lev(u) < Lev(t))
      BY <3>2, <3>4 DEF Below
    <3>. QED
      BY <3>1, <3>3, <3>5
  <2>. QED
    BY <2>0 DEF NoWaitCycle
<1>. QED
  BY IInvInvariant, <1>1, PTL

\* No thread waits for or takes a mutex against the hierarchy (line 28).
THEOREM Hierarchy == Spec => []HierarchyIsKept
<1>1. ASSUME IInv PROVE HierarchyIsKept
  <2>1. SUFFICES ASSUME NEW t \in Threads, pc[t] \in {"block", "update"},
                        NEW i \in 1 .. Len(held[t])
                 PROVE  Level[want[t]] < Level[held[t][i]]
    BY DEF HierarchyIsKept
  <2> DEFINE n == Len(held[t])
  <2>2. held[t] \in Seq(Mutexes) /\ n \in Nat /\ n >= 1 /\ want[t] \in Mutexes
    BY <1>1, <2>1 DEF IInv, TypeOK
  <2>3. /\ Level[held[t][n]] \in Nat /\ Level[held[t][i]] \in Nat
        /\ Level[want[t]] \in Nat
    BY <2>2, HierarchyAssumption
  <2>4. Level[want[t]] < Level[held[t][n]]
    BY <1>1, <2>1, <2>2 DEF IInv, LevelsDescend
  <2>5. i < n => Level[held[t][n]] < Level[held[t][i]]
    BY <1>1, <2>2 DEF IInv, LevelsDescend
  <2>. QED
    BY <2>2, <2>3, <2>4, <2>5
<1>. QED
  BY IInvInvariant, <1>1, PTL

\* unlock() gives back the level that lock() took (lines 34 and 51).
THEOREM LevelRestored == Spec => []LevelIsThatOfTheLastLock
<1>1. ASSUME IInv PROVE LevelIsThatOfTheLastLock
  BY <1>1 DEF IInv, TypeOK, LevelsDescend, LevelIsThatOfTheLastLock
<1>. QED
  BY IInvInvariant, <1>1, PTL
==============================================================================
