------------------------------- MODULE MCStacks -------------------------------
(***************************************************************************)
(* The three lock-free stacks on small instances, each in executions of    *)
(* its own: `program` says which one an execution is about, and the        *)
(* variables of the others keep their first values.                        *)
(***************************************************************************)
EXTENDS LockFreeStack, TLC

CONSTANTS t1, t2, t3, v1, v2, n1, n2, n3,
          OtherNodes, NumSlots, MaxCount \* of the second and the third

ASSUME StacksAssumption == /\ OtherNodes \subseteq Nodes
                           /\ {NumSlots, MaxCount} \subseteq Nat

TwoThreads == {t1, t2}
ThreeThreads == {t1, t2, t3}
OneValue == {v1}
TwoValues == {v1, v2}
TwoNodes == {n1, n2}
ThreeNodes == {n1, n2, n3}

Symmetry == Permutations(Threads) \cup Permutations(Values)
            \cup Permutations(OtherNodes) \* a subset of Nodes

VARIABLES program, \* "pending nodes", "hazard pointers", "reference counts"
          hpHead, hpNext, hpData, hpHeap, hpHazard, hpOwner, hpSlot, hpReclaim,
          hpPc, hpNode, hpSeen, hpBatch, hpScan, hpRes, hpStack,
          rcHead, rcNext, rcData, rcInternal, rcHeap, rcPc, rcNode, rcOld,
          rcSeen, rcRes, rcStack

pnVars == vars
hpVars == <<hpHead, hpNext, hpData, hpHeap, hpHazard, hpOwner, hpSlot, hpReclaim,
            hpPc, hpNode, hpSeen, hpBatch, hpScan, hpRes, hpStack>>
rcVars == <<rcHead, rcNext, rcData, rcInternal, rcHeap, rcPc, rcNode, rcOld,
            rcSeen, rcRes, rcStack>>

Hp == INSTANCE LockFreeStackHp WITH
  Nodes <- OtherNodes, head <- hpHead, next <- hpNext, data <- hpData,
  heap <- hpHeap, hazard <- hpHazard, owner <- hpOwner, slot <- hpSlot,
  reclaim <- hpReclaim, pc <- hpPc, node <- hpNode, seen <- hpSeen, batch <- hpBatch, scan <- hpScan,
  res <- hpRes, stack <- hpStack

Rc == INSTANCE LockFreeStackRc WITH
  Nodes <- OtherNodes, head <- rcHead, next <- rcNext, data <- rcData,
  internal <- rcInternal, heap <- rcHeap, pc <- rcPc, node <- rcNode,
  old <- rcOld, seen <- rcSeen, res <- rcRes, stack <- rcStack

PendingStays == UNCHANGED <<program, pnVars>>
HpStays == UNCHANGED hpVars
RcStays == UNCHANGED rcVars

Pending == /\ program = "pending nodes" /\ program' = program
           /\ HpStays /\ RcStays

HazardPointers == program = "hazard pointers" /\ PendingStays /\ RcStays

ReferenceCounts == program = "reference counts" /\ PendingStays /\ HpStays

PendingNext == Next /\ Pending
HpNext == Hp!Next /\ HazardPointers
RcNext == Rc!Next /\ ReferenceCounts

PendingStrongNext == StrongNext /\ Pending
HpStrongNext == Hp!StrongNext /\ HazardPointers

all == <<program, pnVars, hpVars, rcVars>>

StacksInit ==
  /\ program \in {"pending nodes", "hazard pointers", "reference counts"}
  /\ Init /\ Hp!Init /\ Rc!Init

StacksSpec == StacksInit /\ [][PendingNext \/ HpNext \/ RcNext]_all

PendingSpec == StacksInit /\ program = "pending nodes" /\ [][PendingNext]_all

FairStacksSpec ==
  /\ StacksInit /\ [][PendingStrongNext \/ HpStrongNext \/ RcNext]_all
  /\ Fairness /\ Hp!Fairness

-----------------------------------------------------------------------------
(* Properties of all three *)

\* The variables of each stack keep their types.
TypesOK == TypeOK /\ Hp!TypeOK /\ Rc!TypeOK

\* In each of the stacks a thread dereferences only nodes that nobody has
\* deleted, though other threads pop and delete them at any time; no thread
\* overwrites the hazard pointer of another.
AllDereferencesAreLive ==
  /\ DereferencesAreLive /\ Hp!DereferencesAreLive /\ Rc!DereferencesAreLive
  /\ Hp!PointersHold

\* In each of the stacks a popped node is deleted, once: it has one owner, or
\* as many as its counts say.
NoNodeIsLost == NodesAreOwnedOnce /\ Hp!NodesAreOwnedOnce /\ Rc!CountsAddUp

\* The three classes implement the same abstract stack.
AllImplementStack ==
  ImplementsStack /\ Hp!ImplementsStack /\ Rc!ImplementsStack

\* With pending nodes and with hazard pointers, some call always returns.
SomeCallReturns == LockFree /\ Hp!LockFree
==============================================================================
