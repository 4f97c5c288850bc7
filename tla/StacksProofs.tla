-------------------------------- MODULE StacksProofs --------------------------------
(***************************************************************************)
(* The three lock-free stacks, for every number of threads, nodes, values  *)
(* and hazard pointers: nodes are dereferenced only while allocated, each  *)
(* is deleted once, and each class implements the abstract stack.          *)
(*                                                                         *)
(* First the lists that the links make; then each class, its inductive     *)
(* invariant, its steps and its refinement (Hp: lock_free_stack_with_hp,   *)
(* Rc: lock_free_stack_with_rc, Pn: lock_free_stack, with pending nodes);  *)
(* at the end the theorems on the composition.                             *)
(***************************************************************************)
EXTENDS MCStacks, FiniteSetTheorems, SequenceTheorems, WellFoundedInduction, TLAPS

-----------------------------------------------------------------------------
(* Sequences of nodes, and lists *)

\* What a sequence holds, and that it holds nothing twice.
Elems(s) == {s[i] : i \in 1 .. Len(s)}
Once(s) == \A i, j \in 1 .. Len(s) : s[i] = s[j] => i = j

\* s is the list that begins with h, f being the next node of each.
Follows(h, s, f) ==
  /\ h = IF s = <<>> THEN Null ELSE s[1]
  /\ \A i \in 1 .. Len(s) : f[s[i]] = IF i < Len(s) THEN s[i + 1] ELSE Null

\* The values of the nodes of s.
Items(s, d) == [i \in 1 .. Len(s) |-> d[s[i]]]

\* The empty sequence, and the list that nullptr begins.
LEMMA EmptyList ==
  /\ Elems(<<>>) = {} /\ Once(<<>>)
  /\ \A f : Follows(Null, <<>>, f)
BY DEF Elems, Once, Follows

\* What is put in front.
LEMMA Pushed ==
  ASSUME NEW S, NEW s \in Seq(S), NEW x \in S
  PROVE  /\ <<x>> \o s \in Seq(S) /\ <<x>> \o s # <<>>
         /\ Elems(<<x>> \o s) = Elems(s) \cup {x}
         /\ x \notin Elems(s) /\ Once(s) => Once(<<x>> \o s)
         /\ \A f : x \notin Elems(s) /\ Follows(f[x], s, f) => Follows(x, <<x>> \o s, f)
<1> DEFINE r == <<x>> \o s
<1>1. /\ r \in Seq(S) /\ r # <<>> /\ Len(r) = Len(s) + 1 /\ Len(s) \in Nat
      /\ r[1] = x /\ \A i \in 1 .. Len(s) : r[i + 1] = s[i]
      /\ s = <<>> <=> Len(s) = 0
  OBVIOUS
<1> HIDE DEF r
<1>2. ASSUME NEW i \in 1 .. Len(r), i # 1
      PROVE  i - 1 \in 1 .. Len(s) /\ r[i] = s[i - 1]
  <2>1. i - 1 \in 1 .. Len(s) /\ (i - 1) + 1 = i
    BY <1>1, <1>2
  <2>. QED
    BY <1>1, <2>1
<1>3. Elems(r) = Elems(s) \cup {x}
  <2>1. ASSUME NEW y \in Elems(r) PROVE y \in Elems(s) \cup {x}
    BY <1>1, <1>2 DEF Elems
  <2>2. ASSUME NEW y \in Elems(s) PROVE y \in Elems(r)
    <3>1. PICK i \in 1 .. Len(s) : y = s[i]
      BY DEF Elems
    <3>2. i + 1 \in 1 .. Len(r) /\ r[i + 1] = y
      BY <1>1, <3>1
    <3>. QED
      BY <3>2 DEF Elems
  <2>3. x \in Elems(r)
    BY <1>1 DEF Elems
  <2>. QED
    BY <2>1, <2>2, <2>3
<1>4. ASSUME x \notin Elems(s), Once(s) PROVE Once(r)
  <2>1. \A i \in 1 .. Len(s) : s[i] # x
    BY <1>4 DEF Elems
  <2>2. ASSUME NEW i \in 1 .. Len(r), NEW j \in 1 .. Len(r), r[i] = r[j] PROVE i = j
    <3>1. CASE i = 1
      BY <1>1, <1>2, <2>1, <2>2, <3>1
    <3>2. CASE j = 1
      BY <1>1, <1>2, <2>1, <2>2, <3>2
    <3>3. CASE i # 1 /\ j # 1
      <4>1. s[i - 1] = s[j - 1] /\ i - 1 \in 1 .. Len(s) /\ j - 1 \in 1 .. Len(s)
        BY <1>2, <2>2, <3>3
      <4>. QED
        BY <4>1, <1>4 DEF Once
    <3>. QED
      BY <3>1, <3>2, <3>3
  <2>. QED
    BY <2>2 DEF Once
<1>5. ASSUME NEW f, x \notin Elems(s), Follows(f[x], s, f) PROVE Follows(x, r, f)
  <2>1. f[r[1]] = IF 1 < Len(r) THEN r[2] ELSE Null
    BY <1>1, <1>5 DEF Follows
  <2>2. ASSUME NEW i \in 1 .. Len(s)
        PROVE  f[r[i + 1]] = IF i + 1 < Len(r) THEN r[i + 2] ELSE Null
    BY <1>1, <1>5 DEF Follows
  <2>3. ASSUME NEW i \in 1 .. Len(r)
        PROVE  f[r[i]] = IF i < Len(r) THEN r[i + 1] ELSE Null
    <3>1. CASE i = 1
      BY <2>1, <3>1
    <3>2. CASE i # 1
      <4>1. i - 1 \in 1 .. Len(s) /\ (i - 1) + 1 = i /\ (i - 1) + 2 = i + 1
        BY <1>2, <3>2
      <4>. QED
        BY <2>2, <4>1
    <3>. QED
      BY <3>1, <3>2
  <2>. QED
    BY <1>1, <2>3 DEF Follows
<1>. QED
  BY <1>1, <1>3, <1>4, <1>5 DEF r

\* The values of a stack with one more node on top.
LEMMA PushedItems ==
  ASSUME NEW S, NEW s \in Seq(S), NEW x \in S, NEW d
  PROVE  Items(<<x>> \o s, d) = <<d[x]>> \o Items(s, d)
<1> DEFINE r == <<x>> \o s
           T == {d[y] : y \in S}
           a == Items(r, d)
           b == Items(s, d)
           c == <<d[x]>> \o b
<1>1. /\ r \in Seq(S) /\ Len(r) = Len(s) + 1 /\ Len(s) \in Nat
      /\ r[1] = x /\ \A i \in 1 .. Len(s) : r[i + 1] = s[i]
  OBVIOUS
<1> HIDE DEF r
<1>2. a \in Seq(T) /\ Len(a) = Len(r) /\ \A i \in 1 .. Len(r) : a[i] = d[r[i]]
  BY <1>1 DEF Items
<1>3. b \in Seq(T) /\ Len(b) = Len(s) /\ \A i \in 1 .. Len(s) : b[i] = d[s[i]]
  BY <1>1 DEF Items
<1>4. d[x] \in T
  OBVIOUS
<1> HIDE DEF T, a, b
<1>5. /\ c \in Seq(T) /\ Len(c) = Len(b) + 1 /\ c[1] = d[x]
      /\ \A i \in 1 .. Len(b) : c[i + 1] = b[i]
  BY <1>3, <1>4
<1> HIDE DEF c
<1>6. Len(a) = Len(c)
  BY <1>1, <1>2, <1>3, <1>5
<1>7. ASSUME NEW i \in 1 .. Len(a) PROVE a[i] = c[i]
  <2>1. CASE i = 1
    BY <1>1, <1>2, <1>5, <2>1
  <2>2. CASE i # 1
    <3>1. i - 1 \in 1 .. Len(s) /\ (i - 1) + 1 = i
      BY <1>1, <1>2, <2>2
    <3>2. a[i] = d[s[i - 1]]
      BY <1>1, <1>2, <3>1
    <3>3. c[i] = b[i - 1]
      BY <1>3, <1>5, <3>1
    <3>. QED
      BY <1>3, <3>1, <3>2, <3>3
  <2>. QED
    BY <2>1, <2>2
<1>8. a = c
  BY <1>2, <1>5, <1>6, <1>7, SeqEqual
<1>. QED
  BY <1>8 DEF a, b, c, r

\* What is left without the first.
LEMMA Popped ==
  ASSUME NEW S, NEW s \in Seq(S), s # <<>>
  PROVE  /\ Head(s) = s[1] /\ s[1] \in S /\ Tail(s) \in Seq(S)
         /\ s[1] \in Elems(s)
         /\ Once(s) => Once(Tail(s)) /\ Elems(Tail(s)) = Elems(s) \ {s[1]}
         /\ \A h, f : Follows(h, s, f) => h = s[1] /\ Follows(f[h], Tail(s), f)
         /\ \A d : /\ Items(s, d) # <<>> /\ Head(Items(s, d)) = d[s[1]]
                   /\ Items(Tail(s), d) = Tail(Items(s, d))
<1> DEFINE r == Tail(s)
<1>0. Len(s) \in Nat /\ Len(s) >= 1 /\ Head(s) = s[1] /\ s[1] \in S
  OBVIOUS
<1>1. /\ r \in Seq(S) /\ Len(r) = Len(s) - 1 /\ Len(s) \in Nat /\ Len(s) >= 1
      /\ \A i \in 1 .. Len(r) : r[i] = s[i + 1]
      /\ r = <<>> <=> Len(r) = 0
  <2>1. r \in Seq(S) /\ Len(r) = Len(s) - 1 /\ \A i \in 1 .. Len(r) : r[i] = s[i + 1]
    BY HeadTailProperties
  <2>. QED
    BY <1>0, <2>1, EmptySeq
<1> HIDE DEF r
<1>2. s[1] \in Elems(s)
  BY <1>1 DEF Elems
<1>3. ASSUME Once(s) PROVE Once(r)
  <2>1. ASSUME NEW i \in 1 .. Len(r), NEW j \in 1 .. Len(r), r[i] = r[j] PROVE i = j
    <3>1. /\ i + 1 \in 1 .. Len(s) /\ j + 1 \in 1 .. Len(s)
          /\ s[i + 1] = s[j + 1]
      BY <1>1, <2>1
    <3>2. i + 1 = j + 1
      BY <1>3, <3>1 DEF Once
    <3>. QED
      BY <3>2
  <2>. QED
    BY <2>1 DEF Once
<1>4. ASSUME Once(s) PROVE Elems(r) = Elems(s) \ {s[1]}
  <2>1. ASSUME NEW y \in Elems(r) PROVE y \in Elems(s) /\ y # s[1]
    <3>1. PICK i \in 1 .. Len(r) : y = r[i]
      BY DEF Elems
    <3>2. i + 1 \in 1 .. Len(s) /\ s[i + 1] = y
      BY <1>1, <3>1
    <3>. QED
      BY <1>1, <1>4, <3>2 DEF Elems, Once
  <2>2. ASSUME NEW y \in Elems(s), y # s[1] PROVE y \in Elems(r)
    <3>1. PICK i \in 1 .. Len(s) : y = s[i]
      BY DEF Elems
    <3>2. i - 1 \in 1 .. Len(r) /\ r[i - 1] = y
      BY <1>1, <2>2, <3>1
    <3>. QED
      BY <3>2 DEF Elems
  <2>. QED
    BY <2>1, <2>2
<1>5. ASSUME NEW h, NEW f, Follows(h, s, f) PROVE h = s[1] /\ Follows(f[h], r, f)
  <2>1. h = s[1] /\ f[h] = IF r = <<>> THEN Null ELSE r[1]
    BY <1>1, <1>5 DEF Follows
  <2>2. ASSUME NEW i \in 1 .. Len(r)
        PROVE  f[r[i]] = IF i < Len(r) THEN r[i + 1] ELSE Null
    BY <1>1, <1>5 DEF Follows
  <2>. QED
    BY <2>1, <2>2 DEF Follows
<1>6. ASSUME NEW d PROVE /\ Items(s, d) # <<>> /\ Head(Items(s, d)) = d[s[1]]
                         /\ Items(r, d) = Tail(Items(s, d))
  BY <1>0, <1>1 DEF Items
<1>. QED
  BY <1>0, <1>1, <1>2, <1>3, <1>4, <1>5, <1>6 DEF r

\* A list stays one when the links of its nodes stay, and so do its values.
LEMMA ListStays ==
  ASSUME NEW s, NEW f, NEW g, \A n \in Elems(s) : f[n] = g[n]
  PROVE  /\ \A h : Follows(h, s, f) => Follows(h, s, g)
         /\ Items(s, f) = Items(s, g)
BY DEF Follows, Elems, Items

\* A list is empty when it begins with null, and only then.
LEMMA ListHead ==
  ASSUME NEW S, Null \notin S, NEW s \in Seq(S), NEW h, NEW f, Follows(h, s, f)
  PROVE  /\ h = Null <=> s = <<>>
         /\ h # Null => h = s[1] /\ h \in Elems(s)
         /\ Elems(s) \subseteq S
<1>1. s # <<>> => s[1] \in S /\ s[1] \in Elems(s)
  BY DEF Elems
<1>2. Elems(s) \subseteq S
  BY DEF Elems
<1>. QED
  BY <1>1, <1>2 DEF Follows

-----------------------------------------------------------------------------
(* Who has a node *)

\* The allocated nodes H are those on the stack, S, the pending ones, K, and
\* those each thread t owns, O[t], and each is in one of these places only.
Parted(H, S, K, O) ==
  /\ H = S \cup K \cup UNION {O[t] : t \in Threads}
  /\ S \cap K = {}
  /\ \A t \in Threads : /\ O[t] \cap (S \cup K) = {}
                        /\ \A u \in Threads \ {t} : O[t] \cap O[u] = {}

\* A thread that moves nodes between these places, allocates or deletes, and
\* leaves alone what the other threads own.
LEMMA PartsMove ==
  ASSUME NEW H, NEW S, NEW K, NEW O, Parted(H, S, K, O),
         NEW G, NEW R, NEW J, NEW P, NEW t \in Threads,
         \A u \in Threads \ {t} : P[u] = O[u],
         R \cap J = {}, P[t] \cap (R \cup J) = {},
         G = (H \ (S \cup K \cup O[t])) \cup R \cup J \cup P[t],
         (R \cup J \cup P[t]) \cap (H \ (S \cup K \cup O[t])) = {}
  PROVE  Parted(G, R, J, P)
<1>1. H \ (S \cup K \cup O[t]) = UNION {O[u] : u \in Threads \ {t}}
  BY DEF Parted
<1>2. \A u \in Threads \ {t} : P[u] \subseteq H \ (S \cup K \cup O[t])
  BY <1>1
<1>3. G = R \cup J \cup UNION {P[u] : u \in Threads}
  <2>1. UNION {P[u] : u \in Threads} = P[t] \cup UNION {O[u] : u \in Threads \ {t}}
    OBVIOUS
  <2>. QED
    BY <1>1, <2>1
<1>4. \A u \in Threads \ {t} : P[u] \cap (R \cup J \cup P[t]) = {}
  BY <1>2
<1>5. \A u, w \in Threads \ {t} : u # w => P[u] \cap P[w] = {}
  BY DEF Parted
<1>. QED
  BY <1>3, <1>4, <1>5 DEF Parted

-----------------------------------------------------------------------------
(* lock_free_stack_with_hp: the inductive invariant *)

HpSteps == {"idle", "push", "load", "protect", "check", "next", "pop", "clear", "scan",
            "keep", "sweep", "return", "claim", "end"}

HpTyped ==
  /\ Hp!TypeOK
  /\ hpPc \in [Threads -> HpSteps]
  /\ hpSeen \in [Threads -> OtherNodes \cup {Null}]
  /\ hpBatch \in [Threads -> Seq(OtherNodes)]
  /\ hpScan \in [Threads -> 1 .. NumSlots + 1]
  /\ hpStack \in Seq(OtherNodes) /\ hpReclaim \in Seq(OtherNodes)

\* What each thread has while it is somewhere in push() or pop().
HpInStep ==
  \A t \in Threads :
    /\ hpPc[t] \in {"load", "protect", "check", "next", "pop", "clear"} => hpSlot[t] # 0
    /\ hpPc[t] \in {"check", "next", "pop"} => hpHazard[hpSlot[t]] = hpNode[t]
    /\ hpPc[t] \in {"push", "next", "pop"} => hpNode[t] # Null
    /\ hpPc[t] \in {"scan", "keep"} <=> hpBatch[t] # <<>>
    /\ hpPc[t] \notin {"scan", "keep", "claim"} => hpScan[t] = 1
    /\ hpPc[t] \notin {"scan", "keep", "sweep", "return"} => hpRes[t] = Null
    /\ hpPc[t] = "claim" => hpSlot[t] = 0
    /\ hpPc[t] = "end" => hpSlot[t] # 0

\* The slot a thread works with is the one that has its id.
HpSlotted == \A t \in Threads, s \in Hp!Slots : hpSlot[t] = s <=> hpOwner[s] = t

HpOwners == [t \in Threads |-> Hp!Owned(t)]

\* Each node is in one place, and only once.
HpPlaced ==
  /\ Parted(hpHeap, Elems(hpStack), Elems(hpReclaim), HpOwners)
  /\ Once(hpStack) /\ Once(hpReclaim)
  /\ \A t \in Threads : Once(hpBatch[t])

\* The nodes on the stack are linked from _head.
HpLinked == Follows(hpHead, hpStack, hpNext)

\* The node a thread reads is allocated and will not be deleted: who looks at
\* the hazard pointers has not come to that of the thread.
HpProtected ==
  \A t \in Threads :
    hpPc[t] \in {"next", "pop"} =>
      /\ hpNode[t] \in hpHeap
      /\ \A u \in Threads :
           /\ hpPc[u] = "push" => hpNode[u] # hpNode[t]
           /\ hpPc[u] = "scan" /\ Head(hpBatch[u]) = hpNode[t] => hpScan[u] <= hpSlot[t]
      /\ hpPc[t] = "pop" => hpSeen[t] = hpNext[hpNode[t]]

HpInv == HpTyped /\ HpInStep /\ HpSlotted /\ HpPlaced /\ HpLinked /\ HpProtected

\* The invariant holds when the constructor is done.
LEMMA HpInvInit == Hp!Init => HpInv
<1> SUFFICES ASSUME Hp!Init PROVE HpInv
  OBVIOUS
<1> USE DEF Hp!Init, Hp!Slots
<1>0. NumSlots \in Nat
  BY StacksAssumption
<1>1. HpTyped
  BY <1>0 DEF HpTyped, Hp!TypeOK, HpSteps
<1>2. HpInStep
  BY DEF HpInStep
<1>3. HpPlaced
  <2>1. \A t \in Threads : HpOwners[t] = {}
    BY DEF HpOwners, Hp!Owned
  <2>2. Parted({}, {}, {}, HpOwners)
    BY <2>1 DEF Parted
  <2>. QED
    BY <2>2, EmptyList DEF HpPlaced
<1>4. HpLinked
  BY EmptyList DEF HpLinked
<1>5. HpProtected
  BY DEF HpProtected
<1>6. HpSlotted
  BY StackAssumption DEF HpSlotted
<1>. QED
  BY <1>1, <1>2, <1>3, <1>4, <1>5, <1>6 DEF HpInv

\* The stack is empty when _head is null, and only then.
LEMMA HpTop ==
  ASSUME HpInv
  PROVE  /\ Null \notin OtherNodes \cup Values
         /\ NumSlots \in Nat
         /\ hpHead = Null <=> hpStack = <<>>
         /\ hpHead # Null => hpHead = hpStack[1] /\ hpHead \in Elems(hpStack)
         /\ Elems(hpStack) \subseteq hpHeap
         /\ \A t \in Threads : Hp!Owned(t) \subseteq hpHeap
         /\ \A t \in Threads : Hp!Owned(t) \cap Elems(hpStack) = {}
         /\ \A t, u \in Threads : t # u => Hp!Owned(t) \cap Hp!Owned(u) = {}
<1>1. Null \notin OtherNodes \cup Values /\ NumSlots \in Nat
  BY StackAssumption, StacksAssumption
<1>2. /\ hpHead = Null <=> hpStack = <<>>
      /\ hpHead # Null => hpHead = hpStack[1] /\ hpHead \in Elems(hpStack)
  BY <1>1, ListHead DEF HpInv, HpLinked, HpTyped
<1>3. /\ Elems(hpStack) \subseteq hpHeap
      /\ \A t \in Threads : HpOwners[t] \subseteq hpHeap
      /\ \A t \in Threads : HpOwners[t] \cap Elems(hpStack) = {}
      /\ \A t, u \in Threads : t # u => HpOwners[t] \cap HpOwners[u] = {}
  BY DEF HpInv, HpPlaced, Parted
<1>. QED
  BY <1>1, <1>2, <1>3 DEF HpOwners

\* What a thread owns: the node it links or has popped, or a batch.
LEMMA HpOwn ==
  ASSUME HpInv, NEW t \in Threads
  PROVE  /\ hpPc[t] = "push" => Hp!Owned(t) = {hpNode[t]}
         /\ Hp!Popped(t) => Hp!Owned(t) = {hpNode[t]}
         /\ hpPc[t] \in {"scan", "keep"} =>
              /\ hpBatch[t] \in Seq(OtherNodes) /\ hpBatch[t] # <<>>
              /\ Hp!Owned(t) = Elems(hpBatch[t])
              /\ Head(hpBatch[t]) \in Hp!Owned(t)
         /\ hpPc[t] \notin {"push", "scan", "keep"} /\ ~Hp!Popped(t) => Hp!Owned(t) = {}
<1>1. Hp!Owned(t) = (IF hpPc[t] \in {"push", "clear"} THEN {hpNode[t]} \ {Null} ELSE {})
                    \cup Elems(hpBatch[t])
  BY DEF Hp!Owned, Elems
<1>2. /\ hpPc[t] \in {"scan", "keep"} <=> hpBatch[t] # <<>>
      /\ hpPc[t] = "push" => hpNode[t] # Null
      /\ hpBatch[t] \in Seq(OtherNodes)
  BY DEF HpInv, HpInStep, HpTyped
<1>3. hpBatch[t] # <<>> => Head(hpBatch[t]) \in Elems(hpBatch[t])
  BY <1>2, Popped
<1>. QED
  BY <1>1, <1>2, <1>3, EmptyList DEF Hp!Popped

\* The steps of a thread.
HpStep(t) ==
  \/ Hp!PushCall(t) \/ Hp!PushFails(t) \/ Hp!Push(t)
  \/ Hp!FirstPop(t) \/ Hp!TakeSlot(t) \/ Hp!NextSlot(t) \/ Hp!NoSlot(t)
  \/ Hp!ThreadEnds(t) \/ Hp!GiveBack(t) \/ Hp!PopCall(t) \/ Hp!LoadHead(t)
  \/ Hp!Protect(t) \/ Hp!Check(t) \/ Hp!ReadNext(t) \/ Hp!PopFails(t) \/ Hp!Pop(t)
  \/ Hp!Clear(t) \/ Hp!Look(t) \/ Hp!Delete(t) \/ Hp!Keep(t) \/ Hp!Sweep(t)
  \/ Hp!Return(t)

\* A step of the class is a step of some thread.
LEMMA HpSteppers == Hp!Next <=> \E t \in Threads : HpStep(t)
BY DEF Hp!Next, Hp!StrongStep, HpStep

\* Each operation keeps the types.
LEMMA HpTypedStep ==
  ASSUME HpInv, NEW t \in Threads, HpStep(t)
  PROVE  HpTyped'
<1> USE DEF HpTyped, Hp!TypeOK, Hp!Goto, Hp!list, Hp!hazards, Hp!locals, Hp!Slots, HpSteps
<1>0. HpTyped /\ NumSlots \in Nat
  BY HpTop DEF HpInv
<1>1. CASE Hp!PushCall(t)
  BY <1>0, <1>1 DEF Hp!PushCall
<1>2. CASE Hp!PushFails(t)
  BY <1>0, <1>2 DEF Hp!PushFails
<1>3. CASE Hp!Push(t)
  <2>1. hpNode[t] \in OtherNodes
    BY <1>0, <1>3 DEF Hp!Push, HpInv, HpInStep
  <2>2. hpStack' \in Seq(OtherNodes)
    BY <1>0, <1>3, <2>1, Pushed DEF Hp!Push
  <2>. QED
    BY <1>0, <1>3, <2>1, <2>2 DEF Hp!Push
<1>4. CASE Hp!TakeSlot(t)
  <2>1. hpScan[t] \in Hp!Slots /\ \A u \in Threads : hpSlot[u] # hpScan[t]
    BY <1>4, StackAssumption DEF Hp!TakeSlot, HpInv, HpSlotted
  <2>2. /\ hpOwner' \in [Hp!Slots -> Threads \cup {Null}]
        /\ hpSlot' = [hpSlot EXCEPT ![t] = hpScan[t]] /\ hpScan' \in [Threads -> 1 .. NumSlots + 1]
    BY <1>0, <1>4, <2>1 DEF Hp!TakeSlot
  <2>3. /\ hpSlot' \in [Threads -> 0 .. NumSlots]
        /\ \A u, v \in Threads : hpSlot'[u] = hpSlot'[v] => u = v \/ hpSlot'[u] = 0
    BY <1>0, <2>1, <2>2
  <2>. QED
    BY <1>0, <1>4, <2>2, <2>3 DEF Hp!TakeSlot
<1>5. CASE Hp!FirstPop(t) \/ Hp!NextSlot(t) \/ Hp!NoSlot(t) \/ Hp!ThreadEnds(t)
  <2>1. CASE Hp!FirstPop(t)
    BY <1>0, <2>1 DEF Hp!FirstPop
  <2>2. CASE Hp!NextSlot(t)
    <3>1. hpScan' \in [Threads -> 1 .. NumSlots + 1]
      BY <1>0, <2>2 DEF Hp!NextSlot
    <3>. QED
      BY <1>0, <2>2, <3>1 DEF Hp!NextSlot
  <2>3. CASE Hp!NoSlot(t)
    BY <1>0, <2>3 DEF Hp!NoSlot
  <2>4. CASE Hp!ThreadEnds(t)
    BY <1>0, <2>4 DEF Hp!ThreadEnds
  <2>. QED
    BY <1>5, <2>1, <2>2, <2>3, <2>4
<1>6. CASE Hp!GiveBack(t) \/ Hp!PopCall(t)
  <2>1. CASE Hp!GiveBack(t)
    <3>1. hpSlot' = [hpSlot EXCEPT ![t] = 0]
      BY <2>1 DEF Hp!GiveBack
    <3>2. /\ hpSlot' \in [Threads -> 0 .. NumSlots]
          /\ \A u, v \in Threads : hpSlot'[u] = hpSlot'[v] => u = v \/ hpSlot'[u] = 0
      BY <1>0, <3>1
    <3>3. hpOwner' \in [Hp!Slots -> Threads \cup {Null}]
      BY <1>0, <2>1 DEF Hp!GiveBack
    <3>. QED
      BY <1>0, <2>1, <3>2, <3>3 DEF Hp!GiveBack
  <2>2. CASE Hp!PopCall(t)
    BY <1>0, <2>2 DEF Hp!PopCall
  <2>. QED
    BY <1>6, <2>1, <2>2
<1>7. CASE Hp!LoadHead(t)
  BY <1>0, <1>7 DEF Hp!LoadHead
<1>8. CASE Hp!Protect(t)
  BY <1>0, <1>8 DEF Hp!Protect
<1>9. CASE Hp!Check(t)
  BY <1>0, <1>9 DEF Hp!Check
<1>10. CASE Hp!ReadNext(t)
  <2>1. hpNode[t] \in OtherNodes
    BY <1>0, <1>10 DEF Hp!ReadNext, HpInv, HpInStep
  <2>. QED
    BY <1>0, <1>10, <2>1 DEF Hp!ReadNext
<1>11. CASE Hp!PopFails(t)
  BY <1>0, <1>11 DEF Hp!PopFails
<1>12. CASE Hp!Pop(t)
  <2>1. hpStack # <<>>
    BY <1>12, HpTop DEF Hp!Pop, HpInv, HpInStep
  <2>2. hpStack' \in Seq(OtherNodes)
    BY <1>0, <1>12, <2>1, Popped DEF Hp!Pop
  <2>. QED
    BY <1>0, <1>12, <2>2 DEF Hp!Pop
<1>13. CASE Hp!Clear(t)
  <2>1. CASE hpNode[t] = Null
    BY <1>0, <1>13, <2>1 DEF Hp!Clear
  <2>2. CASE hpNode[t] # Null
    <3>1. <<hpNode[t]>> \in Seq(OtherNodes) /\ hpNode[t] \in OtherNodes
      BY <1>0, <2>2
    <3>2. hpBatch' \in [Threads -> Seq(OtherNodes)] /\ hpPc' \in [Threads -> HpSteps]
      BY <1>0, <1>13, <2>2, <3>1 DEF Hp!Clear
    <3>3. hpData' \in [OtherNodes -> Values \cup {Null}]
      BY <1>0, <1>13, <2>2 DEF Hp!Clear
    <3>5. hpRes' \in [Threads -> Values \cup {Null}]
      <4>1. hpData[hpNode[t]] \in Values \cup {Null}
        BY <1>0, <3>1
      <4>2. hpRes' = [hpRes EXCEPT ![t] = hpData[hpNode[t]]]
        BY <1>13, <2>2 DEF Hp!Clear
      <4>. QED
        BY <1>0, <4>1, <4>2
    <3>4. hpHazard' \in [1 .. NumSlots -> OtherNodes \cup {Null}]
      BY <1>0, <1>13 DEF Hp!Clear
    <3>. QED
      BY <1>0, <1>13, <3>2, <3>3, <3>4, <3>5 DEF Hp!Clear
  <2>. QED
    BY <2>1, <2>2
<1>14. CASE Hp!Look(t)
  <2>1. hpPc' \in [Threads -> HpSteps]
    BY <1>0, <1>14 DEF Hp!Look
  <2>2. hpScan' \in [Threads -> 1 .. NumSlots + 1]
    <3>1. hpScan[t] \in 1 .. NumSlots /\ hpScan[t] + 1 \in 1 .. NumSlots + 1
      BY <1>0, <1>14 DEF Hp!Look
    <3>2. hpScan' = hpScan \/ hpScan' = [hpScan EXCEPT ![t] = hpScan[t] + 1]
      BY <1>14 DEF Hp!Look
    <3>. QED
      BY <1>0, <3>1, <3>2
  <2>. QED
    BY <1>0, <1>14, <2>1, <2>2 DEF Hp!Look
<1>. DEFINE rest == Tail(hpBatch[t])
<1>15. hpPc[t] \in {"scan", "keep"} => Head(hpBatch[t]) \in OtherNodes /\ rest \in Seq(OtherNodes)
  BY HpOwn, Popped
<1>16. CASE Hp!Delete(t)
  <2>. HIDE DEF rest
  <2>1. hpBatch' = [hpBatch EXCEPT ![t] = rest]
    BY <1>16 DEF Hp!Delete, Hp!Done, rest
  <2>2. hpBatch' \in [Threads -> Seq(OtherNodes)]
    BY <1>0, <1>15, <1>16, <2>1 DEF Hp!Delete
  <2>. QED
    BY <1>0, <1>15, <1>16, <2>2 DEF Hp!Delete, Hp!Done
<1>17. CASE Hp!Keep(t)
  <2>. HIDE DEF rest
  <2>1. hpBatch' = [hpBatch EXCEPT ![t] = rest]
    BY <1>17 DEF Hp!Keep, Hp!Done, rest
  <2>2. hpBatch' \in [Threads -> Seq(OtherNodes)]
    BY <1>0, <1>15, <1>17, <2>1 DEF Hp!Keep
  <2>3. hpReclaim' \in Seq(OtherNodes)
    BY <1>0, <1>15, <1>17, Pushed DEF Hp!Keep
  <2>. QED
    BY <1>0, <1>17, <2>2, <2>3 DEF Hp!Keep, Hp!Done
<1>18. CASE Hp!Sweep(t)
  BY <1>0, <1>18 DEF Hp!Sweep
<1>19. CASE Hp!Return(t)
  BY <1>0, <1>19 DEF Hp!Return
<1>. QED
  BY <1>1, <1>2, <1>3, <1>4, <1>5, <1>6, <1>7, <1>8, <1>9, <1>10, <1>11, <1>12, <1>13,
     <1>14, <1>16, <1>17, <1>18, <1>19 DEF HpStep

\* Each operation leaves its thread with what the next one needs.
LEMMA HpInStepStep ==
  ASSUME HpInv, NEW t \in Threads, HpStep(t)
  PROVE  HpInStep'
<1> SUFFICES ASSUME NEW u \in Threads
             PROVE  /\ hpPc[u]' \in {"load", "protect", "check", "next", "pop", "clear"}
                      => hpSlot[u]' # 0
                    /\ hpPc[u]' \in {"check", "next", "pop"} => hpHazard'[hpSlot[u]'] = hpNode[u]'
                    /\ hpPc[u]' \in {"push", "next", "pop"} => hpNode[u]' # Null
                    /\ hpPc[u]' \in {"scan", "keep"} <=> hpBatch[u]' # <<>>
                    /\ hpPc[u]' \notin {"scan", "keep", "claim"} => hpScan[u]' = 1
                    /\ hpPc[u]' \notin {"scan", "keep", "sweep", "return"} => hpRes[u]' = Null
                    /\ hpPc[u]' = "claim" => hpSlot[u]' = 0
                    /\ hpPc[u]' = "end" => hpSlot[u]' # 0
  BY DEF HpInStep
<1> USE DEF HpTyped, Hp!TypeOK, Hp!Goto, Hp!list, Hp!hazards, Hp!locals, Hp!Slots, HpInStep
<1>0. HpTyped /\ HpInStep /\ NumSlots \in Nat /\ Null \notin OtherNodes
  BY HpTop DEF HpInv
<1>1. CASE Hp!PushCall(t)
  BY <1>0, <1>1 DEF Hp!PushCall
<1>2. CASE Hp!PushFails(t)
  BY <1>0, <1>2 DEF Hp!PushFails
<1>3. CASE Hp!Push(t)
  BY <1>0, <1>3 DEF Hp!Push
<1>4. CASE Hp!FirstPop(t) \/ Hp!TakeSlot(t) \/ Hp!NextSlot(t) \/ Hp!NoSlot(t)
  <2>1. CASE Hp!FirstPop(t)
    BY <1>0, <2>1 DEF Hp!FirstPop
  <2>2. CASE Hp!TakeSlot(t)
    BY <1>0, <2>2 DEF Hp!TakeSlot
  <2>3. CASE Hp!NextSlot(t)
    BY <1>0, <2>3 DEF Hp!NextSlot
  <2>4. CASE Hp!NoSlot(t)
    BY <1>0, <2>4 DEF Hp!NoSlot
  <2>. QED
    BY <1>4, <2>1, <2>2, <2>3, <2>4
<1>5. CASE Hp!ThreadEnds(t)
  BY <1>0, <1>5 DEF Hp!ThreadEnds
<1>6. CASE Hp!GiveBack(t) \/ Hp!PopCall(t)
  BY <1>0, <1>6 DEF Hp!GiveBack, Hp!PopCall
<1>7. CASE Hp!LoadHead(t)
  BY <1>0, <1>7 DEF Hp!LoadHead
<1>8. CASE Hp!Protect(t)
  BY <1>0, <1>8 DEF Hp!Protect
<1>9. CASE Hp!Check(t)
  BY <1>0, <1>9 DEF Hp!Check
<1>10. CASE Hp!ReadNext(t)
  BY <1>0, <1>10 DEF Hp!ReadNext
<1>11. CASE Hp!PopFails(t)
  BY <1>0, <1>11 DEF Hp!PopFails
<1>12. CASE Hp!Pop(t)
  BY <1>0, <1>12 DEF Hp!Pop
<1>13. CASE Hp!Clear(t)
  <2>1. CASE u # t
    <3>1. hpSlot[t] # 0 /\ (hpSlot[u] # 0 => hpSlot[u] # hpSlot[t])
      BY <1>0, <1>13, <2>1 DEF Hp!Clear
    <3>2. /\ hpPc'[u] = hpPc[u] /\ hpBatch'[u] = hpBatch[u] /\ hpRes'[u] = hpRes[u]
          /\ hpSlot' = hpSlot /\ hpNode' = hpNode /\ hpScan' = hpScan
          /\ hpHazard'[hpSlot[u]] = hpHazard[hpSlot[u]] \/ hpSlot[u] = 0
      BY <1>0, <1>13, <2>1, <3>1 DEF Hp!Clear
    <3>. QED
      BY <1>0, <3>2
  <2>2. CASE u = t /\ hpNode[t] = Null
    BY <1>0, <1>13, <2>2 DEF Hp!Clear
  <2>3. CASE u = t /\ hpNode[t] # Null
    <3>1. hpPc'[u] = "scan" /\ hpBatch'[u] = <<hpNode[t]>>
      BY <1>0, <1>13, <2>3 DEF Hp!Clear
    <3>. QED
      BY <3>1
  <2>. QED
    BY <2>1, <2>2, <2>3
<1>14. CASE Hp!Look(t)
  BY <1>0, <1>14 DEF Hp!Look
<1>15. CASE Hp!Delete(t)
  BY <1>0, <1>15 DEF Hp!Delete, Hp!Done
<1>16. CASE Hp!Keep(t)
  BY <1>0, <1>16 DEF Hp!Keep, Hp!Done
<1>17. CASE Hp!Sweep(t)
  BY <1>0, <1>17 DEF Hp!Sweep
<1>18. CASE Hp!Return(t)
  BY <1>0, <1>18 DEF Hp!Return
<1>. QED
  BY <1>1, <1>2, <1>3, <1>4, <1>5, <1>6, <1>7, <1>8, <1>9, <1>10, <1>11, <1>12, <1>13,
     <1>14, <1>15, <1>16, <1>17, <1>18 DEF HpStep

\* A slot gets the id of a thread that has none, and loses that of its own.
LEMMA HpSlottedStep ==
  ASSUME HpInv, NEW t \in Threads, HpStep(t)
  PROVE  HpSlotted'
<1> SUFFICES ASSUME NEW u \in Threads, NEW s \in Hp!Slots
             PROVE  hpSlot'[u] = s <=> hpOwner'[s] = u
  BY DEF HpSlotted, Hp!Slots
<1>0. /\ hpSlot[u] = s <=> hpOwner[s] = u
      /\ hpSlot[t] = s <=> hpOwner[s] = t
      /\ hpSlot \in [Threads -> 0 .. NumSlots] /\ hpOwner \in [Hp!Slots -> Threads \cup {Null}]
      /\ hpPc[t] = "claim" => hpSlot[t] = 0
      /\ 0 \notin Hp!Slots /\ Null \notin Threads
  BY StackAssumption DEF HpInv, HpSlotted, HpTyped, Hp!TypeOK, HpInStep, Hp!Slots
<1> USE DEF Hp!hazards, Hp!locals
<1>1. CASE Hp!TakeSlot(t)
  <2>1. /\ hpScan[t] \in Hp!Slots /\ hpOwner[hpScan[t]] = Null /\ hpPc[t] = "claim"
        /\ hpOwner' = [hpOwner EXCEPT ![hpScan[t]] = t]
        /\ hpSlot' = [hpSlot EXCEPT ![t] = hpScan[t]]
    BY <1>1 DEF Hp!TakeSlot, Hp!Goto
  <2>. QED
    BY <1>0, <2>1
<1>2. CASE Hp!GiveBack(t)
  <2>1. /\ hpOwner' = [hpOwner EXCEPT ![hpSlot[t]] = Null]
        /\ hpSlot' = [hpSlot EXCEPT ![t] = 0]
    BY <1>2 DEF Hp!GiveBack
  <2>. QED
    BY <1>0, <2>1
<1>3. CASE hpOwner' = hpOwner /\ hpSlot' = hpSlot
  BY <1>0, <1>3
<1>4. \/ Hp!TakeSlot(t) \/ Hp!GiveBack(t)
      \/ hpOwner' = hpOwner /\ hpSlot' = hpSlot
  BY DEF HpStep, Hp!PushCall, Hp!PushFails, Hp!Push, Hp!FirstPop, Hp!NextSlot, Hp!NoSlot,
         Hp!ThreadEnds, Hp!PopCall, Hp!LoadHead, Hp!Protect, Hp!Check, Hp!ReadNext,
         Hp!PopFails, Hp!Pop, Hp!Clear, Hp!Look, Hp!Delete, Hp!Keep, Hp!Sweep, Hp!Return
<1>. QED
  BY <1>1, <1>2, <1>3, <1>4

\* A step of t leaves the locals of the other threads, and their slots.
LEMMA HpAlone ==
  ASSUME HpInv, NEW t \in Threads, HpStep(t), NEW u \in Threads, u # t
  PROVE  /\ hpPc'[u] = hpPc[u] /\ hpNode'[u] = hpNode[u] /\ hpSeen'[u] = hpSeen[u]
         /\ hpBatch'[u] = hpBatch[u] /\ hpScan'[u] = hpScan[u] /\ hpRes'[u] = hpRes[u]
         /\ hpSlot'[u] = hpSlot[u]
         /\ Hp!Owned(u)' = Hp!Owned(u)
<1> USE DEF HpTyped, Hp!TypeOK, Hp!Goto, Hp!list, Hp!hazards, Hp!locals
<1>0. HpTyped
  BY DEF HpInv
<1>1. /\ hpPc'[u] = hpPc[u] /\ hpNode'[u] = hpNode[u] /\ hpSeen'[u] = hpSeen[u]
      /\ hpBatch'[u] = hpBatch[u] /\ hpScan'[u] = hpScan[u] /\ hpRes'[u] = hpRes[u]
      /\ hpSlot'[u] = hpSlot[u]
  <2>1. CASE \/ Hp!PushCall(t) \/ Hp!PushFails(t) \/ Hp!Push(t) \/ Hp!ThreadEnds(t)
             \/ Hp!PopCall(t) \/ Hp!LoadHead(t) \/ Hp!Protect(t)
    BY <1>0, <2>1 DEF Hp!PushCall, Hp!PushFails, Hp!Push, Hp!ThreadEnds, Hp!PopCall,
                      Hp!LoadHead, Hp!Protect
  <2>5. CASE \/ Hp!FirstPop(t) \/ Hp!TakeSlot(t) \/ Hp!NextSlot(t) \/ Hp!NoSlot(t)
             \/ Hp!GiveBack(t)
    BY <1>0, <2>5 DEF Hp!FirstPop, Hp!TakeSlot, Hp!NextSlot, Hp!NoSlot, Hp!GiveBack
  <2>2. CASE \/ Hp!Check(t) \/ Hp!ReadNext(t) \/ Hp!PopFails(t) \/ Hp!Pop(t) \/ Hp!Look(t)
             \/ Hp!Sweep(t) \/ Hp!Return(t)
    BY <1>0, <2>2 DEF Hp!Check, Hp!ReadNext, Hp!PopFails, Hp!Pop, Hp!Look, Hp!Sweep,
                      Hp!Return
  <2>3. CASE Hp!Clear(t)
    BY <1>0, <2>3 DEF Hp!Clear
  <2>4. CASE Hp!Delete(t) \/ Hp!Keep(t)
    BY <1>0, <2>4 DEF Hp!Delete, Hp!Keep, Hp!Done
  <2>. QED
    BY <2>1, <2>2, <2>3, <2>4, <2>5 DEF HpStep
<1>. QED
  BY <1>1 DEF Hp!Owned

\* Only these steps change the places where nodes are.
LEMMA HpMoves ==
  ASSUME HpInv, NEW t \in Threads, HpStep(t),
         NEW R, NEW J, NEW P, R = Elems(hpStack'), J = Elems(hpReclaim'), P = Hp!Owned(t)',
         R \cap J = {}, P \cap (R \cup J) = {},
         hpHeap' = (hpHeap \ (Elems(hpStack) \cup Elems(hpReclaim) \cup Hp!Owned(t)))
                   \cup R \cup J \cup P,
         (R \cup J \cup P)
           \cap (hpHeap \ (Elems(hpStack) \cup Elems(hpReclaim) \cup Hp!Owned(t))) = {}
  PROVE  Parted(hpHeap', Elems(hpStack'), Elems(hpReclaim'), HpOwners')
<1>1. Parted(hpHeap, Elems(hpStack), Elems(hpReclaim), HpOwners)
  BY DEF HpInv, HpPlaced
<1>2. HpOwners[t] = Hp!Owned(t) /\ HpOwners'[t] = P
  BY DEF HpOwners
<1>3. \A u \in Threads \ {t} : HpOwners'[u] = HpOwners[u]
  BY HpAlone DEF HpOwners
<1> HIDE DEF HpOwners
<1>. QED
  BY <1>1, <1>2, <1>3, PartsMove

\* Each operation moves nodes between the places, or allocates or deletes
\* them, and every node is still in one place.
LEMMA HpPlacedStep ==
  ASSUME HpInv, NEW t \in Threads, HpStep(t)
  PROVE  HpPlaced'
<1> DEFINE S == Elems(hpStack)
           K == Elems(hpReclaim)
           O == Hp!Owned(t)
<1>0. HpTyped /\ HpInStep /\ HpPlaced
  BY DEF HpInv
<1>1. /\ hpHeap = (hpHeap \ (S \cup K \cup O)) \cup S \cup K \cup O
      /\ S \cap K = {} /\ O \cap (S \cup K) = {}
  BY <1>0 DEF HpPlaced, Parted, HpOwners
<1>2. \A u \in Threads : u # t => Once(hpBatch'[u])
  BY <1>0, HpAlone DEF HpPlaced
<1>3. Null \notin OtherNodes
  BY HpTop
<1>4. O' = (IF hpPc'[t] \in {"push", "clear"} THEN {hpNode'[t]} \ {Null} ELSE {})
           \cup Elems(hpBatch'[t])
  BY DEF Hp!Owned, Elems
<1> USE DEF HpTyped, Hp!TypeOK, Hp!Goto, Hp!list, Hp!hazards, Hp!locals
<1>5. ASSUME hpHeap' = hpHeap, hpStack' = hpStack, hpReclaim' = hpReclaim, O' = O,
             Once(hpBatch'[t])
      PROVE  HpPlaced'
  <2>1. Parted(hpHeap', Elems(hpStack'), Elems(hpReclaim'), HpOwners')
    BY <1>1, <1>5, HpMoves
  <2>. QED
    BY <1>0, <1>2, <1>5, <2>1 DEF HpPlaced
<1>6. CASE Hp!PushCall(t)
  <2>1. PICK n \in OtherNodes \ hpHeap :
          hpNode' = [hpNode EXCEPT ![t] = n] /\ hpHeap' = hpHeap \cup {n}
    BY <1>6 DEF Hp!PushCall
  <2>2. O = {} /\ hpBatch[t] = <<>>
    BY <1>0, <1>6, HpOwn DEF Hp!PushCall, HpInStep, Hp!Popped
  <2>3. O' = {n} /\ hpBatch' = hpBatch /\ hpStack' = hpStack /\ hpReclaim' = hpReclaim
    BY <1>0, <1>3, <1>4, <1>6, <2>1, <2>2, EmptyList DEF Hp!PushCall
  <2>4. Elems(hpStack') = S /\ Elems(hpReclaim') = K
    BY <2>3
  <2>5. /\ n \notin S \cup K /\ n \notin hpHeap \ (S \cup K \cup O)
        /\ hpHeap' = (hpHeap \ (S \cup K \cup O)) \cup S \cup K \cup {n}
    BY <1>1, <2>1, <2>2
  <2>6. Parted(hpHeap', Elems(hpStack'), Elems(hpReclaim'), HpOwners')
    <3>. HIDE DEF S, K, O
    <3>1. /\ S \cap K = {} /\ {n} \cap (S \cup K) = {}
          /\ (S \cup K \cup {n}) \cap (hpHeap \ (S \cup K \cup O)) = {}
      BY <1>1, <2>5
    <3>. QED
      BY <2>3, <2>4, <2>5, <3>1, HpMoves DEF S, K, O
  <2>. QED
    BY <1>0, <2>3, <2>6 DEF HpPlaced
<1>7. CASE Hp!Push(t)
  <2>1. O = {hpNode[t]} /\ hpBatch[t] = <<>> /\ hpNode[t] \in OtherNodes
    <3>1. hpPc[t] = "push" /\ hpNode[t] # Null
      BY <1>0, <1>7 DEF Hp!Push, HpInStep
    <3>2. hpNode[t] \in OtherNodes
      BY <1>0, <3>1
    <3>3. hpBatch[t] = <<>>
      BY <1>0, <3>1 DEF HpInStep
    <3>. QED
      BY <3>1, <3>2, <3>3, HpOwn
  <2>2. /\ hpBatch' = hpBatch /\ hpReclaim' = hpReclaim /\ hpHeap' = hpHeap
        /\ hpStack' = <<hpNode[t]>> \o hpStack /\ hpPc'[t] = "return"
    BY <1>0, <1>7 DEF Hp!Push
  <2>5. O' = {}
    BY <1>4, <2>1, <2>2, EmptyList
  <2>3. Elems(hpStack') = S \cup {hpNode[t]} /\ Once(hpStack')
    <3>1. hpNode[t] \notin S
      BY <1>1, <2>1
    <3>2. hpStack \in Seq(OtherNodes) /\ Once(hpStack)
      BY <1>0 DEF HpPlaced
    <3>. QED
      BY <2>1, <2>2, <3>1, <3>2, Pushed
  <2>4. Parted(hpHeap', Elems(hpStack'), Elems(hpReclaim'), HpOwners')
    BY <1>1, <2>1, <2>2, <2>3, <2>5, HpMoves
  <2>. QED
    BY <1>0, <2>2, <2>3, <2>4 DEF HpPlaced
<1>8. CASE Hp!Pop(t)
  <2>1. /\ O = {} /\ hpBatch[t] = <<>> /\ hpStack # <<>>
        /\ hpNode[t] = hpStack[1] /\ hpNode[t] # Null
    BY <1>0, <1>8, HpOwn, HpTop DEF Hp!Pop, HpInStep, Hp!Popped
  <2>2. /\ O' = {hpNode[t]} /\ hpBatch' = hpBatch /\ hpReclaim' = hpReclaim
        /\ hpHeap' = hpHeap /\ hpStack' = Tail(hpStack)
    BY <1>0, <1>3, <1>4, <1>8, <2>1, EmptyList DEF Hp!Pop
  <2>3. Elems(hpStack') = S \ {hpNode[t]} /\ Once(hpStack') /\ hpNode[t] \in S
    BY <1>0, <2>1, <2>2, Popped DEF HpPlaced
  <2>4. Parted(hpHeap', Elems(hpStack'), Elems(hpReclaim'), HpOwners')
    BY <1>1, <2>1, <2>2, <2>3, HpMoves
  <2>. QED
    BY <1>0, <2>2, <2>3, <2>4 DEF HpPlaced
<1>9. CASE Hp!Clear(t)
  <2>1. CASE hpNode[t] = Null
    <3>1. O = {} /\ hpBatch[t] = <<>> /\ hpBatch' = hpBatch /\ O' = {}
      BY <1>0, <1>3, <1>4, <1>9, <2>1, HpOwn, EmptyList DEF Hp!Clear, HpInStep, Hp!Popped
    <3>. QED
      BY <1>0, <1>5, <1>9, <3>1, EmptyList DEF Hp!Clear
  <2>2. CASE hpNode[t] # Null
    <3>1. /\ O = {hpNode[t]} /\ hpBatch'[t] = <<hpNode[t]>> /\ hpPc'[t] = "scan"
          /\ hpNode[t] \in OtherNodes
      BY <1>0, <1>9, <2>2, HpOwn DEF Hp!Clear, Hp!Popped
    <3>2. Elems(<<hpNode[t]>>) = {hpNode[t]} /\ Once(<<hpNode[t]>>)
      BY DEF Elems, Once
    <3>. QED
      BY <1>4, <1>5, <1>9, <3>1, <3>2 DEF Hp!Clear
  <2>. QED
    BY <2>1, <2>2
<1>10. ASSUME hpPc[t] \in {"scan", "keep"}, Hp!Done(t),
              NEW n, n = Head(hpBatch[t])
       PROVE  O' = O \ {n} /\ n \in O /\ Once(hpBatch'[t])
  <2>1. O = Elems(hpBatch[t]) /\ hpBatch[t] # <<>> /\ hpBatch[t] \in Seq(OtherNodes)
    BY <1>10, HpOwn
  <2>2. hpBatch'[t] = Tail(hpBatch[t]) /\ hpPc'[t] \in {"scan", "sweep", "return"}
    BY <1>0, <1>10 DEF Hp!Done
  <2>3. O' = Elems(hpBatch'[t])
    BY <1>4, <2>2
  <2>. QED
    BY <1>0, <1>10, <2>1, <2>2, <2>3, Popped DEF HpPlaced
<1>11. CASE Hp!Delete(t)
  <2>1. PICK n : n = Head(hpBatch[t])
    OBVIOUS
  <2>2. O' = O \ {n} /\ n \in O /\ Once(hpBatch'[t])
    BY <1>10, <1>11, <2>1 DEF Hp!Delete
  <2>3. hpStack' = hpStack /\ hpReclaim' = hpReclaim /\ hpHeap' = hpHeap \ {n}
    BY <1>11, <2>1 DEF Hp!Delete
  <2>4. Parted(hpHeap', Elems(hpStack'), Elems(hpReclaim'), HpOwners')
    BY <1>1, <2>2, <2>3, HpMoves
  <2>. QED
    BY <1>0, <1>2, <2>2, <2>3, <2>4 DEF HpPlaced
<1>12. CASE Hp!Keep(t)
  <2>1. PICK n : n = Head(hpBatch[t])
    OBVIOUS
  <2>2. O' = O \ {n} /\ n \in O /\ Once(hpBatch'[t]) /\ n \in OtherNodes
    BY <1>10, <1>12, <2>1, HpOwn, Popped DEF Hp!Keep
  <2>3. hpStack' = hpStack /\ hpReclaim' = <<n>> \o hpReclaim /\ hpHeap' = hpHeap
    BY <1>12, <2>1 DEF Hp!Keep
  <2>4. Elems(hpReclaim') = K \cup {n} /\ Once(hpReclaim')
    <3>1. n \notin K
      BY <1>1, <2>2
    <3>2. hpReclaim \in Seq(OtherNodes) /\ Once(hpReclaim)
      BY <1>0 DEF HpPlaced
    <3>. QED
      BY <2>2, <2>3, <3>1, <3>2, Pushed
  <2>5. Parted(hpHeap', Elems(hpStack'), Elems(hpReclaim'), HpOwners')
    BY <1>1, <2>2, <2>3, <2>4, HpMoves
  <2>. QED
    BY <1>0, <1>2, <2>2, <2>3, <2>4, <2>5 DEF HpPlaced
<1>13. CASE Hp!Sweep(t)
  <2>1. O = {}
    BY <1>13, HpOwn DEF Hp!Sweep, Hp!Popped
  <2>2. /\ hpBatch'[t] = hpReclaim /\ hpReclaim' = <<>> /\ hpStack' = hpStack
        /\ hpHeap' = hpHeap /\ O' = K
    BY <1>0, <1>4, <1>13 DEF Hp!Sweep
  <2>3. Elems(hpReclaim') = {} /\ Once(hpReclaim')
    BY <2>2, EmptyList
  <2>4. Parted(hpHeap', Elems(hpStack'), Elems(hpReclaim'), HpOwners')
    BY <1>1, <2>1, <2>2, <2>3, HpMoves
  <2>. QED
    BY <1>0, <1>2, <2>2, <2>3, <2>4 DEF HpPlaced
<1>14. CASE \/ Hp!PushFails(t) \/ Hp!FirstPop(t) \/ Hp!TakeSlot(t) \/ Hp!NextSlot(t)
            \/ Hp!NoSlot(t) \/ Hp!ThreadEnds(t) \/ Hp!GiveBack(t) \/ Hp!PopCall(t)
            \/ Hp!LoadHead(t) \/ Hp!Protect(t) \/ Hp!Check(t) \/ Hp!ReadNext(t)
            \/ Hp!PopFails(t) \/ Hp!Look(t) \/ Hp!Return(t)
  <2>1. /\ hpHeap' = hpHeap /\ hpStack' = hpStack /\ hpReclaim' = hpReclaim
        /\ hpBatch' = hpBatch
    BY <1>14 DEF Hp!PushFails, Hp!FirstPop, Hp!TakeSlot, Hp!NextSlot, Hp!NoSlot,
                 Hp!ThreadEnds, Hp!GiveBack, Hp!PopCall, Hp!LoadHead, Hp!Protect, Hp!Check, Hp!ReadNext, Hp!PopFails, Hp!Look, Hp!Return
  <2>2. O' = O
    <3>1. CASE Hp!PushFails(t)
      BY <1>0, <1>4, <3>1 DEF Hp!PushFails, Hp!Owned, Elems
    <3>2. CASE Hp!ThreadEnds(t) \/ Hp!PopCall(t) \/ Hp!LoadHead(t) \/ Hp!Protect(t)
      BY <1>0, <1>4, <3>2 DEF Hp!ThreadEnds, Hp!PopCall, Hp!LoadHead, Hp!Protect,
                              Hp!Owned, Elems
    <3>5. CASE \/ Hp!FirstPop(t) \/ Hp!TakeSlot(t) \/ Hp!NextSlot(t) \/ Hp!NoSlot(t)
               \/ Hp!GiveBack(t)
      BY <1>0, <1>4, <3>5 DEF Hp!FirstPop, Hp!TakeSlot, Hp!NextSlot, Hp!NoSlot,
                              Hp!GiveBack, Hp!Owned, Elems
    <3>3. CASE Hp!Check(t)
      BY <1>0, <1>4, <3>3 DEF Hp!Check, Hp!Owned, Elems
    <3>4. CASE Hp!ReadNext(t) \/ Hp!PopFails(t) \/ Hp!Look(t) \/ Hp!Return(t)
      BY <1>0, <1>4, <3>4 DEF Hp!ReadNext, Hp!PopFails, Hp!Look, Hp!Return, Hp!Owned, Elems
    <3>. QED
      BY <1>14, <3>1, <3>2, <3>3, <3>4, <3>5
  <2>. QED
    BY <1>0, <1>5, <2>1, <2>2 DEF HpPlaced
<1>. QED
  BY <1>6, <1>7, <1>8, <1>9, <1>11, <1>12, <1>13, <1>14 DEF HpStep

\* Each operation keeps the stack and the list of nodes to delete linked.
LEMMA HpLinkedStep ==
  ASSUME HpInv, NEW t \in Threads, HpStep(t)
  PROVE  HpLinked'
<1> DEFINE S == Elems(hpStack)
<1>0. HpTyped /\ HpInStep /\ HpLinked
  BY DEF HpInv
<1>1. S \subseteq hpHeap /\ Hp!Owned(t) \cap S = {}
  BY HpTop
<1> USE DEF HpTyped, Hp!TypeOK, Hp!Goto, Hp!list, Hp!hazards, Hp!locals
<1>2. ASSUME hpHead' = hpHead, hpStack' = hpStack, NEW n, n \notin S,
             \A m \in OtherNodes : m # n => hpNext'[m] = hpNext[m]
      PROVE  HpLinked'
  <2>1. S \subseteq OtherNodes
    BY <1>0 DEF Elems
  <2>2. \A m \in S : hpNext'[m] = hpNext[m]
    BY <1>2, <2>1
  <2>. QED
    BY <1>0, <1>2, <2>2, ListStays DEF HpLinked
<1>3. CASE Hp!PushCall(t)
  <2>1. PICK n \in OtherNodes \ hpHeap : hpNext' = [hpNext EXCEPT ![n] = hpHead]
    BY <1>3 DEF Hp!PushCall
  <2>2. \A m \in OtherNodes : m # n => hpNext'[m] = hpNext[m]
    BY <1>0, <2>1
  <2>. QED
    BY <1>1, <1>2, <1>3, <2>1, <2>2 DEF Hp!PushCall
<1>4. CASE Hp!PushFails(t)
  <2>1. hpNode[t] \in Hp!Owned(t)
    BY <1>4, HpOwn DEF Hp!PushFails
  <2>2. \A m \in OtherNodes : m # hpNode[t] => hpNext'[m] = hpNext[m]
    BY <1>0, <1>4 DEF Hp!PushFails
  <2>. QED
    BY <1>1, <1>2, <1>4, <2>1, <2>2 DEF Hp!PushFails
<1>5. CASE Hp!Push(t)
  <2>1. hpNode[t] \in Hp!Owned(t)
    BY <1>5, HpOwn DEF Hp!Push
  <2>2. hpNode[t] \in OtherNodes
    <3>1. hpPc[t] = "push"
      BY <1>5 DEF Hp!Push
    <3>. QED
      BY <1>0, <3>1 DEF HpInStep
  <2>3. /\ hpHead' = hpNode[t] /\ hpNext' = hpNext /\ hpNext[hpNode[t]] = hpHead
        /\ hpStack' = <<hpNode[t]>> \o hpStack
    BY <1>5 DEF Hp!Push
  <2>4. hpStack \in Seq(OtherNodes)
    BY <1>0
  <2>. QED
    BY <1>0, <1>1, <2>1, <2>2, <2>3, <2>4, Pushed DEF HpLinked
<1>6. CASE Hp!Pop(t)
  <2>1. hpStack # <<>> /\ hpStack \in Seq(OtherNodes)
    BY <1>0, <1>6, HpTop DEF Hp!Pop, HpInStep
  <2>2. /\ hpNext' = hpNext /\ hpHead' = hpSeen[t] /\ hpStack' = Tail(hpStack)
        /\ hpHead = hpNode[t]
    BY <1>6 DEF Hp!Pop
  <2>3. hpSeen[t] = hpNext[hpHead]
    BY <1>6, <2>2 DEF Hp!Pop, HpInv, HpProtected
  <2>. QED
    BY <1>0, <2>1, <2>2, <2>3, Popped DEF HpLinked
<1>7. CASE Hp!Delete(t)
  <2>1. PICK n : n = Head(hpBatch[t])
    OBVIOUS
  <2>2. n \in Hp!Owned(t)
    BY <1>7, <2>1, HpOwn DEF Hp!Delete
  <2>3. \A m \in OtherNodes : m # n => hpNext'[m] = hpNext[m]
    BY <1>0, <1>7, <2>1 DEF Hp!Delete
  <2>. QED
    BY <1>1, <1>2, <1>7, <2>2, <2>3 DEF Hp!Delete
<1>8. CASE \/ Hp!FirstPop(t) \/ Hp!TakeSlot(t) \/ Hp!NextSlot(t) \/ Hp!NoSlot(t)
           \/ Hp!ThreadEnds(t) \/ Hp!GiveBack(t) \/ Hp!PopCall(t) \/ Hp!LoadHead(t)
           \/ Hp!Protect(t) \/ Hp!Check(t) \/ Hp!ReadNext(t) \/ Hp!PopFails(t)
           \/ Hp!Clear(t) \/ Hp!Look(t) \/ Hp!Keep(t) \/ Hp!Sweep(t) \/ Hp!Return(t)
  <2>1. hpHead' = hpHead /\ hpStack' = hpStack /\ hpNext' = hpNext
    BY <1>8 DEF Hp!FirstPop, Hp!TakeSlot, Hp!NextSlot, Hp!NoSlot, Hp!ThreadEnds,
                Hp!GiveBack, Hp!PopCall, Hp!LoadHead, Hp!Protect, Hp!Check,
                Hp!ReadNext, Hp!PopFails, Hp!Clear, Hp!Look, Hp!Keep, Hp!Sweep, Hp!Return
  <2>. QED
    BY <1>0, <2>1 DEF HpLinked
<1>. QED
  BY <1>3, <1>4, <1>5, <1>6, <1>7, <1>8 DEF HpStep

\* Why the hazard pointers work.  A thread comes to read a node when it has
\* announced it and found it on the stack after that; whoever pops it later
\* looks at all hazard pointers before deleting it.
LEMMA HpProtectedStep ==
  ASSUME HpInv, NEW t \in Threads, HpStep(t)
  PROVE  HpProtected'
<1>0. HpTyped /\ HpInStep /\ HpProtected /\ HpPlaced /\ NumSlots \in Nat
  BY HpTop DEF HpInv
<1> SUFFICES ASSUME NEW r \in Threads, hpPc'[r] \in {"next", "pop"}
             PROVE  /\ hpNode'[r] \in hpHeap'
                    /\ \A u \in Threads :
                         /\ hpPc'[u] = "push" => hpNode'[u] # hpNode'[r]
                         /\ hpPc'[u] = "scan" /\ Head(hpBatch'[u]) = hpNode'[r]
                              => hpScan'[u] <= hpSlot'[r]
                    /\ hpPc'[r] = "pop" => hpSeen'[r] = hpNext'[hpNode'[r]]
  BY DEF HpProtected
<1> USE DEF HpTyped, Hp!TypeOK, Hp!Goto, Hp!list, Hp!hazards, Hp!locals, Hp!Slots
<1>1. CASE r # t
  <2>0. /\ hpPc'[r] = hpPc[r] /\ hpNode'[r] = hpNode[r] /\ hpSeen'[r] = hpSeen[r]
        /\ hpSlot'[r] = hpSlot[r]
    BY <1>1, HpAlone
  <2>1. /\ hpNode[r] \in hpHeap /\ hpNode[r] \in OtherNodes
        /\ \A u \in Threads :
             /\ hpPc[u] = "push" => hpNode[u] # hpNode[r]
             /\ hpPc[u] = "scan" /\ Head(hpBatch[u]) = hpNode[r] => hpScan[u] <= hpSlot[r]
        /\ hpPc[r] = "pop" => hpSeen[r] = hpNext[hpNode[r]]
        /\ hpHazard[hpSlot[r]] = hpNode[r]
        /\ hpSlot[r] \in 1 .. NumSlots
    BY <1>0, <2>0 DEF HpProtected, HpInStep
  <2>2. \A u \in Threads : u # t => /\ hpPc'[u] = hpPc[u] /\ hpNode'[u] = hpNode[u]
                                    /\ hpBatch'[u] = hpBatch[u] /\ hpScan'[u] = hpScan[u]
    BY HpAlone
  <2>3. ASSUME hpNode[r] \in hpHeap', hpNext'[hpNode[r]] = hpNext[hpNode[r]],
               hpPc'[t] = "push" => hpNode'[t] # hpNode[r],
               hpPc'[t] = "scan" /\ Head(hpBatch'[t]) = hpNode[r] => hpScan'[t] <= hpSlot[r]
        PROVE  /\ hpNode'[r] \in hpHeap'
               /\ \A u \in Threads :
                    /\ hpPc'[u] = "push" => hpNode'[u] # hpNode'[r]
                    /\ hpPc'[u] = "scan" /\ Head(hpBatch'[u]) = hpNode'[r]
                         => hpScan'[u] <= hpSlot'[r]
               /\ hpPc'[r] = "pop" => hpSeen'[r] = hpNext'[hpNode'[r]]
    BY <2>0, <2>1, <2>2, <2>3
  <2>4. CASE Hp!PushCall(t)
    <3>1. PICK n \in OtherNodes \ hpHeap :
            /\ hpNode' = [hpNode EXCEPT ![t] = n] /\ hpHeap' = hpHeap \cup {n}
            /\ hpNext' = [hpNext EXCEPT ![n] = hpHead]
      BY <2>4 DEF Hp!PushCall
    <3>2. hpPc'[t] = "push" /\ hpNode'[t] = n
      BY <1>0, <2>4, <3>1 DEF Hp!PushCall
    <3>. QED
      BY <1>0, <2>1, <2>3, <3>1, <3>2
  <2>5. CASE Hp!PushFails(t)
    <3>1. hpNode[t] # hpNode[r] /\ hpPc'[t] = "push" /\ hpNode' = hpNode /\ hpHeap' = hpHeap
          /\ hpNext' = [hpNext EXCEPT ![hpNode[t]] = hpHead]
      BY <1>0, <2>1, <2>5 DEF Hp!PushFails
    <3>. QED
      BY <1>0, <2>1, <2>3, <3>1
  <2>6. CASE Hp!Clear(t)
    <3>1. hpHeap' = hpHeap /\ hpNext' = hpNext /\ hpPc'[t] \in {"return", "scan"} /\ hpScan'[t] = 1
      BY <1>0, <2>6 DEF Hp!Clear, HpInStep
    <3>. QED
      BY <2>1, <2>3, <3>1
  <2>7. CASE Hp!Look(t)
    <3>1. hpHeap' = hpHeap /\ hpNext' = hpNext /\ hpBatch' = hpBatch
          /\ hpScan[t] \in 1 .. NumSlots /\ hpPc[t] = "scan"
          /\ (hpHazard[hpScan[t]] = Head(hpBatch[t]) => hpPc'[t] = "keep")
          /\ (hpHazard[hpScan[t]] # Head(hpBatch[t]) => hpPc'[t] = "scan"
                /\ hpScan'[t] = hpScan[t] + 1)
      BY <1>0, <2>7 DEF Hp!Look
    <3>2. CASE Head(hpBatch[t]) = hpNode[r] /\ hpPc'[t] = "scan"
      <4>1. hpScan[t] <= hpSlot[r] /\ hpScan[t] # hpSlot[r]
        BY <2>1, <3>1, <3>2
      <4>. QED
        BY <2>1, <2>3, <3>1, <3>2, <4>1
    <3>3. CASE ~(Head(hpBatch[t]) = hpNode[r] /\ hpPc'[t] = "scan")
      <4>1. hpPc'[t] \in {"keep", "scan"}
        BY <3>1
      <4>. QED
        BY <2>1, <2>3, <3>1, <3>3, <4>1
    <3>. QED
      BY <3>2, <3>3
  <2>8. CASE Hp!Delete(t)
    <3>1. PICK n : n = Head(hpBatch[t])
      OBVIOUS
    <3>2. n # hpNode[r]
      BY <1>0, <2>1, <2>8, <3>1 DEF Hp!Delete
    <3>3. /\ hpHeap' = hpHeap \ {n} /\ hpNext' = [hpNext EXCEPT ![n] = Null]
          /\ hpPc'[t] \in {"scan", "sweep", "return"} /\ hpScan'[t] = 1
      BY <1>0, <2>8, <3>1 DEF Hp!Delete, Hp!Done
    <3>. QED
      BY <1>0, <2>1, <2>3, <3>2, <3>3
  <2>9. CASE Hp!Keep(t)
    <3>1. /\ hpHeap' = hpHeap /\ hpNext' = hpNext
          /\ hpPc'[t] \in {"scan", "sweep", "return"} /\ hpScan'[t] = 1
      BY <1>0, <2>9 DEF Hp!Keep, Hp!Done
    <3>. QED
      BY <2>1, <2>3, <3>1
  <2>10. CASE Hp!Sweep(t)
    <3>1. /\ hpHeap' = hpHeap /\ hpNext' = hpNext
          /\ hpPc'[t] \in {"scan", "return"} /\ hpScan'[t] = 1
      BY <1>0, <2>10 DEF Hp!Sweep, HpInStep
    <3>. QED
      BY <2>1, <2>3, <3>1
  <2>11. CASE \/ Hp!Push(t) \/ Hp!FirstPop(t) \/ Hp!TakeSlot(t) \/ Hp!NextSlot(t)
              \/ Hp!NoSlot(t) \/ Hp!ThreadEnds(t) \/ Hp!GiveBack(t) \/ Hp!PopCall(t)
              \/ Hp!LoadHead(t) \/ Hp!Protect(t) \/ Hp!Check(t) \/ Hp!ReadNext(t)
              \/ Hp!PopFails(t) \/ Hp!Pop(t) \/ Hp!Return(t)
    <3>1. hpHeap' = hpHeap /\ hpNext' = hpNext /\ hpPc'[t] \notin {"push", "scan"}
      BY <1>0, <2>11 DEF Hp!Push, Hp!FirstPop, Hp!TakeSlot, Hp!NextSlot, Hp!NoSlot,
                  Hp!ThreadEnds, Hp!GiveBack, Hp!PopCall, Hp!LoadHead, Hp!Protect,
                  Hp!Check, Hp!ReadNext, Hp!PopFails, Hp!Pop, Hp!Return
    <3>. QED
      BY <2>1, <2>3, <3>1
  <2>. QED
    BY <2>4, <2>5, <2>6, <2>7, <2>8, <2>9, <2>10, <2>11 DEF HpStep
<1>2. CASE r = t
  <2>1. CASE Hp!Check(t)
    <3>1. /\ hpHead # Null /\ hpNode'[t] = hpHead /\ hpHeap' = hpHeap /\ hpPc'[t] = "next"
          /\ hpBatch' = hpBatch /\ hpScan' = hpScan /\ hpSlot' = hpSlot
      BY <1>0, <1>2, <2>1 DEF Hp!Check
    <3>2. hpHead \in Elems(hpStack) /\ hpHead \in hpHeap
      BY <3>1, HpTop
    <3>3. ASSUME NEW u \in Threads
          PROVE  /\ hpPc'[u] = "push" => hpNode'[u] # hpHead
                 /\ hpPc'[u] = "scan" => Head(hpBatch'[u]) # hpHead
      <4>1. CASE u = t
        BY <3>1, <4>1
      <4>2. CASE u # t
        <5>1. hpPc'[u] = hpPc[u] /\ hpNode'[u] = hpNode[u] /\ hpBatch'[u] = hpBatch[u]
          BY <4>2, HpAlone
        <5>2. hpHead \notin Hp!Owned(u)
          BY <3>2, HpTop
        <5>. QED
          BY <5>1, <5>2, HpOwn
      <4>. QED
        BY <4>1, <4>2
    <3>. QED
      BY <1>2, <3>1, <3>2, <3>3
  <2>2. CASE Hp!ReadNext(t)
    <3>1. /\ hpPc[t] = "next" /\ hpNode' = hpNode /\ hpHeap' = hpHeap /\ hpNext' = hpNext
          /\ hpBatch' = hpBatch /\ hpScan' = hpScan /\ hpSlot' = hpSlot
          /\ hpSeen'[t] = hpNext[hpNode[t]] /\ hpPc' = [hpPc EXCEPT ![t] = "pop"]
      BY <1>0, <2>2 DEF Hp!ReadNext
    <3>2. \A u \in Threads : /\ hpPc'[u] = "push" => hpPc[u] = "push"
                             /\ hpPc'[u] = "scan" => hpPc[u] = "scan"
      BY <1>0, <3>1
    <3>. QED
      BY <1>0, <1>2, <3>1, <3>2 DEF HpProtected
  <2>3. CASE ~Hp!Check(t) /\ ~Hp!ReadNext(t)
    <3>1. CASE \/ Hp!PushCall(t) \/ Hp!PushFails(t) \/ Hp!Push(t) \/ Hp!ThreadEnds(t)
               \/ Hp!PopCall(t) \/ Hp!LoadHead(t) \/ Hp!Protect(t)
               \/ Hp!PopFails(t) \/ Hp!Pop(t) \/ Hp!Return(t)
      BY <1>0, <1>2, <3>1 DEF Hp!PushCall, Hp!PushFails, Hp!Push, Hp!ThreadEnds,
                    Hp!PopCall, Hp!LoadHead, Hp!Protect, Hp!PopFails, Hp!Pop, Hp!Return
    <3>4. CASE \/ Hp!FirstPop(t) \/ Hp!TakeSlot(t) \/ Hp!NextSlot(t) \/ Hp!NoSlot(t)
               \/ Hp!GiveBack(t)
      BY <1>0, <1>2, <3>4 DEF Hp!FirstPop, Hp!TakeSlot, Hp!NextSlot, Hp!NoSlot, Hp!GiveBack
    <3>2. CASE Hp!Clear(t) \/ Hp!Look(t) \/ Hp!Sweep(t)
      BY <1>0, <1>2, <3>2 DEF Hp!Clear, Hp!Look, Hp!Sweep
    <3>3. CASE Hp!Delete(t) \/ Hp!Keep(t)
      BY <1>0, <1>2, <3>3 DEF Hp!Delete, Hp!Keep, Hp!Done
    <3>. QED
      BY <2>3, <3>1, <3>2, <3>3, <3>4 DEF HpStep
  <2>. QED
    BY <2>1, <2>2, <2>3
<1>. QED
  BY <1>1, <1>2

\* Every step keeps the invariant.
LEMMA HpInvStep == HpInv /\ [Hp!Next]_hpVars => HpInv'
<1>1. ASSUME HpInv, Hp!Next PROVE HpInv'
  BY <1>1, HpSteppers, HpTypedStep, HpInStepStep, HpSlottedStep, HpPlacedStep, HpLinkedStep,
     HpProtectedStep DEF HpInv
<1>2. ASSUME HpInv, UNCHANGED hpVars PROVE HpInv'
  <2>1. HpTyped' /\ HpInStep' /\ HpSlotted'
    BY <1>2 DEF HpInv, hpVars, HpTyped, Hp!TypeOK, HpInStep, HpSlotted, Hp!Slots
  <2>2. HpOwners' = HpOwners
    BY <1>2 DEF hpVars, HpOwners, Hp!Owned
  <2>3. HpPlaced'
    BY <1>2, <2>2 DEF HpInv, hpVars, HpPlaced
  <2>4. HpLinked' /\ HpProtected'
    BY <1>2 DEF HpInv, hpVars, HpLinked, HpProtected
  <2>. QED
    BY <2>1, <2>3, <2>4 DEF HpInv
<1>. QED
  BY <1>1, <1>2

\* What the invariant says of the properties that the runs check.
LEMMA HpIsSafe ==
  HpInv => /\ Hp!TypeOK /\ Hp!DereferencesAreLive /\ Hp!PointersHold
           /\ Hp!NodesAreOwnedOnce
<1> SUFFICES ASSUME HpInv
             PROVE  /\ Hp!TypeOK /\ Hp!DereferencesAreLive /\ Hp!PointersHold
                    /\ Hp!NodesAreOwnedOnce
  OBVIOUS
<1>1. Hp!TypeOK
  BY DEF HpInv, HpTyped
<1>2. Hp!DereferencesAreLive
  <2>1. \A t \in Threads : hpPc[t] = "push" \/ Hp!Popped(t) => hpNode[t] \in hpHeap
    BY HpTop, HpOwn
  <2>. QED
    BY <2>1 DEF HpInv, HpProtected, Hp!DereferencesAreLive
<1>3. Hp!NodesAreOwnedOnce
  <2>1. Parted(hpHeap, Elems(hpStack), Elems(hpReclaim), HpOwners)
    BY DEF HpInv, HpPlaced
  <2>2. {HpOwners[t] : t \in Threads} = {Hp!Owned(t) : t \in Threads}
    BY DEF HpOwners
  <2>3. \A t \in Threads : HpOwners[t] = Hp!Owned(t)
    BY DEF HpOwners
  <2> HIDE DEF HpOwners
  <2>. QED
    BY <2>1, <2>2, <2>3 DEF Parted, Elems, Hp!NodesAreOwnedOnce
<1>4. Hp!PointersHold
  <2>1. \A t \in Threads : hpPc[t] \in {"check", "next", "pop"} =>
          /\ hpSlot[t] \in Hp!Slots /\ hpOwner[hpSlot[t]] = t
          /\ hpHazard[hpSlot[t]] = hpNode[t]
    BY StacksAssumption DEF HpInv, HpTyped, Hp!TypeOK, HpInStep, HpSlotted, Hp!Slots
  <2>. QED
    BY <2>1 DEF Hp!PointersHold
<1>. QED
  BY <1>1, <1>2, <1>3, <1>4

-----------------------------------------------------------------------------
(* lock_free_stack_with_hp implements the abstract stack *)

\* The abstract variables.
HpItems == Items(hpStack, hpData)
HpCall == [t \in Threads |->
             CASE hpPc[t] \in {"idle", "claim", "end"} -> "none"
               [] hpPc[t] = "push" -> "push"
               [] hpPc[t] \in {"load", "protect", "check", "next", "pop"} -> "pop"
               [] OTHER -> "done"]
HpVal == [t \in Threads |->
            IF hpPc[t] = "push" \/ Hp!Popped(t) THEN hpData[hpNode[t]] ELSE hpRes[t]]

\* The call of t: its place in the abstract stack.
LEMMA HpMapping ==
  \A t \in Threads :
    /\ hpPc[t] \in {"idle", "claim", "end"} => HpCall[t] = "none"
    /\ hpPc[t] = "push" => HpCall[t] = "push" /\ HpVal[t] = hpData[hpNode[t]]
    /\ hpPc[t] \in {"load", "protect", "check", "next", "pop"} => HpCall[t] = "pop"
    /\ hpPc[t] \in {"clear", "scan", "keep", "sweep", "return"} => HpCall[t] = "done"
    /\ hpPc[t] # "push" /\ (hpPc[t] # "clear" \/ hpNode[t] = Null) => HpVal[t] = hpRes[t]
    /\ hpPc[t] = "clear" /\ hpNode[t] # Null => HpVal[t] = hpData[hpNode[t]]
BY DEF HpCall, HpVal, Hp!Popped

\* The call of t after a step: its place in the abstract stack.
LEMMA HpMapped ==
  ASSUME NEW t \in Threads
  PROVE  /\ hpPc'[t] \in {"idle", "claim", "end"} => HpCall'[t] = "none"
         /\ hpPc'[t] = "push" => HpCall'[t] = "push" /\ HpVal'[t] = hpData'[hpNode'[t]]
         /\ hpPc'[t] \in {"load", "protect", "check", "next", "pop"} => HpCall'[t] = "pop"
         /\ hpPc'[t] \in {"clear", "scan", "keep", "sweep", "return"} => HpCall'[t] = "done"
         /\ hpPc'[t] # "push" /\ (hpPc'[t] # "clear" \/ hpNode'[t] = Null)
              => HpVal'[t] = hpRes'[t]
         /\ hpPc'[t] = "clear" /\ hpNode'[t] # Null => HpVal'[t] = hpData'[hpNode'[t]]
BY DEF HpCall, HpVal, Hp!Popped

\* The other calls are as they were, and the stack unless the step is its own.
LEMMA HpOthersStay ==
  ASSUME HpInv, NEW t \in Threads, HpStep(t)
  PROVE  /\ HpCall' = [HpCall EXCEPT ![t] = HpCall'[t]]
         /\ HpVal' = [HpVal EXCEPT ![t] = HpVal'[t]]
         /\ HpCall'[t] = HpCall[t] => HpCall' = HpCall
         /\ HpVal'[t] = HpVal[t] => HpVal' = HpVal
         /\ hpStack' = hpStack => HpItems' = HpItems
         /\ ~Hp!PushCall(t) /\ ~Hp!Clear(t) => hpData' = hpData
<1> USE DEF HpTyped, Hp!TypeOK, Hp!Goto, Hp!list, Hp!hazards, Hp!locals
<1>0. HpTyped
  BY DEF HpInv
<1>1. /\ \/ Hp!PushCall(t) \/ Hp!Clear(t) \/ hpData' = hpData
  BY DEF HpStep, Hp!PushFails, Hp!Push, Hp!FirstPop, Hp!TakeSlot, Hp!NextSlot, Hp!NoSlot,
         Hp!ThreadEnds, Hp!GiveBack, Hp!PopCall, Hp!LoadHead,
         Hp!Protect, Hp!Check, Hp!ReadNext, Hp!PopFails, Hp!Pop, Hp!Look, Hp!Delete,
         Hp!Keep, Hp!Sweep, Hp!Return
<1>2. ASSUME NEW n \in OtherNodes,
             n \in Elems(hpStack) \/ \E u \in Threads \ {t} : n \in Hp!Owned(u)
      PROVE  hpData'[n] = hpData[n]
  <2>1. n \in hpHeap /\ n \notin Hp!Owned(t)
    BY <1>2, HpTop
  <2>2. CASE Hp!PushCall(t)
    BY <1>0, <2>1, <2>2 DEF Hp!PushCall
  <2>3. CASE Hp!Clear(t)
    <3>1. hpNode[t] # Null => hpNode[t] \in Hp!Owned(t)
      BY <2>3, HpOwn DEF Hp!Clear, Hp!Popped
    <3>. QED
      BY <1>0, <2>1, <2>3, <3>1 DEF Hp!Clear
  <2>. QED
    BY <1>1, <2>2, <2>3
<1>3. \A u \in Threads \ {t} : HpCall'[u] = HpCall[u] /\ HpVal'[u] = HpVal[u]
  <2>1. SUFFICES ASSUME NEW u \in Threads \ {t}
                 PROVE  HpCall'[u] = HpCall[u] /\ HpVal'[u] = HpVal[u]
    OBVIOUS
  <2>2. hpPc'[u] = hpPc[u] /\ hpNode'[u] = hpNode[u] /\ hpRes'[u] = hpRes[u]
    BY HpAlone
  <2>3. hpPc[u] = "push" \/ Hp!Popped(u) => hpNode[u] \in Hp!Owned(u) /\ hpNode[u] \in OtherNodes
    <3>1. Hp!Owned(u) \subseteq OtherNodes
      BY <1>0, HpTop
    <3>. QED
      BY <3>1, HpOwn
  <2>4. hpPc[u] = "push" \/ Hp!Popped(u) => hpData'[hpNode[u]] = hpData[hpNode[u]]
    BY <1>2, <2>3
  <2>. QED
    BY <2>2, <2>4 DEF HpCall, HpVal, Hp!Popped
<1>4. /\ HpCall' = [HpCall EXCEPT ![t] = HpCall'[t]]
      /\ HpVal' = [HpVal EXCEPT ![t] = HpVal'[t]]
  <2>1. /\ HpCall = [u \in Threads |-> HpCall[u]] /\ HpCall' = [u \in Threads |-> HpCall'[u]]
        /\ HpVal = [u \in Threads |-> HpVal[u]] /\ HpVal' = [u \in Threads |-> HpVal'[u]]
    BY DEF HpCall, HpVal
  <2> HIDE DEF HpCall, HpVal
  <2>. QED
    BY <1>3, <2>1
<1>5. hpStack' = hpStack => HpItems' = HpItems
  <2>1. Elems(hpStack) \subseteq OtherNodes
    BY <1>0 DEF Elems
  <2>2. \A n \in Elems(hpStack) : hpData[n] = hpData'[n]
    BY <1>2, <2>1
  <2>. QED
    BY <2>2, ListStays DEF HpItems
<1>6. /\ HpCall'[t] = HpCall[t] => HpCall' = HpCall
      /\ HpVal'[t] = HpVal[t] => HpVal' = HpVal
  <2>1. HpCall = [u \in Threads |-> HpCall[u]] /\ HpVal = [u \in Threads |-> HpVal[u]]
    BY DEF HpCall, HpVal
  <2> HIDE DEF HpCall, HpVal
  <2>. QED
    BY <1>4, <2>1
<1>. QED
  BY <1>1, <1>4, <1>5, <1>6

\* Each step is one of the abstract stack, or none: push() takes effect at the
\* exchange of _head, and so does pop(); a pop() that finds nothing takes
\* effect when it reads _head again.
LEMMA HpStepRefines ==
  ASSUME HpInv, NEW t \in Threads, HpStep(t)
  PROVE  [Hp!Abstract!Next]_(Hp!Abstract!vars)
<1> DEFINE call == HpCall
           val == HpVal
           items == HpItems
<1>0. /\ HpTyped /\ HpInStep
      /\ call' = [call EXCEPT ![t] = call'[t]] /\ val' = [val EXCEPT ![t] = val'[t]]
      /\ call'[t] = call[t] => call' = call
      /\ val'[t] = val[t] => val' = val
      /\ hpStack' = hpStack => items' = items
      /\ ~Hp!PushCall(t) /\ ~Hp!Clear(t) => hpData' = hpData
  BY HpOthersStay DEF HpInv
<1> USE DEF HpTyped, Hp!TypeOK, Hp!Goto, Hp!list, Hp!hazards, Hp!locals
<1>1. ASSUME items' = items, call'[t] = call[t], val'[t] = val[t]
      PROVE  UNCHANGED Hp!Abstract!vars
  <2>1. call' = call /\ val' = val
    BY <1>0, <1>1
  <2>. QED
    BY <1>1, <2>1 DEF Hp!Abstract!vars, HpCall, HpVal, HpItems, Items
<1>2. CASE Hp!PushCall(t)
  <2>1. PICK n \in OtherNodes, v \in Values :
          hpNode' = [hpNode EXCEPT ![t] = n] /\ hpData' = [hpData EXCEPT ![n] = v]
    BY <1>2 DEF Hp!PushCall
  <2>2. hpPc[t] = "idle" /\ hpPc'[t] = "push" /\ hpStack' = hpStack
    BY <1>0, <1>2 DEF Hp!PushCall
  <2>3. val'[t] = v /\ call[t] = "none" /\ call'[t] = "push" /\ items' = items
    BY <1>0, <2>1, <2>2, HpMapping, HpMapped
  <2>4. Hp!Abstract!CallPush(t)
    BY <1>0, <2>3 DEF Hp!Abstract!CallPush, HpCall, HpVal, HpItems, Items
  <2>. QED
    BY <2>4 DEF Hp!Abstract!Next
<1>3. CASE Hp!Push(t)
  <2>1. /\ hpPc[t] = "push" /\ hpPc'[t] = "return" /\ hpData' = hpData
        /\ hpStack' = <<hpNode[t]>> \o hpStack /\ hpRes'[t] = Null
        /\ hpNode[t] # Null
    BY <1>0, <1>3 DEF Hp!Push, HpInStep
  <2>2. /\ call[t] = "push" /\ call'[t] = "done" /\ val'[t] = Null
        /\ val[t] = hpData[hpNode[t]]
    BY <2>1, HpMapping, HpMapped
  <2>3. items' = <<val[t]>> \o items
    <3>1. hpStack \in Seq(OtherNodes) /\ hpNode[t] \in OtherNodes
      BY <1>0, <2>1
    <3>3. Items(<<hpNode[t]>> \o hpStack, hpData)
            = <<hpData[hpNode[t]]>> \o Items(hpStack, hpData)
      BY <3>1, PushedItems
    <3>. QED
      BY <2>1, <2>2, <3>3 DEF HpItems
  <2>4. Hp!Abstract!Push(t)
    BY <1>0, <2>2, <2>3 DEF Hp!Abstract!Push, HpCall, HpVal, HpItems, Items
  <2>. QED
    BY <2>4 DEF Hp!Abstract!Next
<1>4. CASE Hp!TakeSlot(t) \/ Hp!PopCall(t)
  <2>1. /\ hpPc[t] \in {"idle", "claim"} /\ hpPc'[t] = "load"
        /\ hpStack' = hpStack /\ hpRes' = hpRes
    BY <1>0, <1>4 DEF Hp!TakeSlot, Hp!PopCall
  <2>2. call[t] = "none" /\ call'[t] = "pop" /\ val'[t] = val[t] /\ items' = items
    BY <1>0, <2>1, HpMapping, HpMapped
  <2>3. val' = val
    BY <1>0, <2>2
  <2>4. Hp!Abstract!CallPop(t)
    BY <1>0, <2>2, <2>3 DEF Hp!Abstract!CallPop, HpCall, HpVal, HpItems, Items
  <2>. QED
    BY <2>4 DEF Hp!Abstract!Next
<1>5. CASE Hp!Pop(t)
  <2>1. /\ hpPc[t] = "pop" /\ hpPc'[t] = "clear" /\ hpData' = hpData
        /\ hpStack' = Tail(hpStack) /\ hpStack # <<>> /\ hpNode[t] = hpStack[1]
        /\ hpNode'[t] = hpNode[t] /\ hpNode[t] # Null
    BY <1>0, <1>5, HpTop DEF Hp!Pop, HpInStep
  <2>2. call[t] = "pop" /\ call'[t] = "done" /\ val'[t] = hpData[hpStack[1]]
    BY <2>1, HpMapping, HpMapped
  <2>3. items # <<>> /\ items' = Tail(items) /\ val'[t] = Head(items)
    <3>1. hpStack \in Seq(OtherNodes)
      BY <1>0
    <3>. QED
      BY <2>1, <2>2, <3>1, Popped DEF HpItems
  <2>4. Hp!Abstract!Pop(t)
    BY <1>0, <2>2, <2>3 DEF Hp!Abstract!Pop, HpCall, HpVal, HpItems, Items
  <2>. QED
    BY <2>4 DEF Hp!Abstract!Next
<1>6. CASE Hp!Check(t)
  <2>1. /\ hpPc[t] = "check" /\ hpPc'[t] \in {"protect", "next", "clear"}
        /\ hpPc'[t] = "clear" => hpHead = Null /\ hpNode'[t] = Null
        /\ hpStack' = hpStack /\ hpRes' = hpRes
    BY <1>0, <1>6 DEF Hp!Check
  <2>2. call[t] = "pop" /\ val'[t] = val[t] /\ items' = items
    BY <1>0, <2>1, HpMapping, HpMapped
  <2>3. CASE hpPc'[t] = "clear"
    <3>1. hpStack = <<>>
      BY <2>1, <2>3, HpTop
    <3>2. items = <<>>
      BY <3>1 DEF HpItems, Items
    <3>3. call'[t] = "done" /\ val' = val
      BY <1>0, <2>2, <2>3, HpMapped
    <3>4. Hp!Abstract!FindEmpty(t)
      BY <1>0, <2>2, <3>2, <3>3 DEF Hp!Abstract!FindEmpty, HpCall, HpVal, HpItems, Items
    <3>. QED
      BY <3>4 DEF Hp!Abstract!Next
  <2>4. CASE hpPc'[t] # "clear"
    <3>1. call'[t] = "pop"
      BY <2>1, <2>4, HpMapped
    <3>. QED
      BY <1>1, <2>2, <3>1
  <2>. QED
    BY <2>3, <2>4
<1>7. CASE Hp!Return(t)
  <2>1. hpPc[t] = "return" /\ hpPc'[t] = "idle" /\ hpStack' = hpStack /\ hpRes'[t] = Null
    BY <1>0, <1>7 DEF Hp!Return
  <2>2. call[t] = "done" /\ call'[t] = "none" /\ val'[t] = Null /\ items' = items
    BY <1>0, <2>1, HpMapping, HpMapped
  <2>3. Hp!Abstract!Return(t)
    BY <1>0, <2>2 DEF Hp!Abstract!Return, HpCall, HpVal, HpItems, Items
  <2>. QED
    BY <2>3 DEF Hp!Abstract!Next
<1>8. CASE Hp!Clear(t)
  <2>1. hpStack' = hpStack /\ hpPc[t] = "clear" /\ hpNode' = hpNode
    BY <1>8 DEF Hp!Clear
  <2>2. CASE hpNode[t] = Null
    <3>1. hpPc'[t] = "return" /\ hpRes'[t] = hpRes[t]
      BY <1>0, <1>8, <2>2 DEF Hp!Clear
    <3>. QED
      BY <1>0, <1>1, <2>1, <2>2, <3>1, HpMapping, HpMapped
  <2>3. CASE hpNode[t] # Null
    <3>1. hpPc'[t] = "scan" /\ hpRes'[t] = hpData[hpNode[t]]
      BY <1>0, <1>8, <2>3 DEF Hp!Clear
    <3>. QED
      BY <1>0, <1>1, <2>1, <2>3, <3>1, HpMapping, HpMapped
  <2>. QED
    BY <2>2, <2>3
<1>9. CASE Hp!PushFails(t)
  <2>1. /\ hpPc[t] = "push" /\ hpPc'[t] = "push" /\ hpNode' = hpNode /\ hpData' = hpData
        /\ hpStack' = hpStack
    BY <1>0, <1>9 DEF Hp!PushFails
  <2>. QED
    BY <1>0, <1>1, <2>1, HpMapping, HpMapped
<1>10. CASE Hp!LoadHead(t) \/ Hp!Protect(t) \/ Hp!ReadNext(t) \/ Hp!PopFails(t)
  <2>1. /\ hpPc[t] \in {"load", "protect", "next", "pop"}
        /\ hpPc'[t] \in {"protect", "check", "pop"}
        /\ hpRes' = hpRes /\ hpStack' = hpStack
    BY <1>0, <1>10 DEF Hp!LoadHead, Hp!Protect, Hp!ReadNext, Hp!PopFails
  <2>. QED
    BY <1>0, <1>1, <2>1, HpMapping, HpMapped
<1>11. CASE Hp!Look(t) \/ Hp!Delete(t) \/ Hp!Keep(t) \/ Hp!Sweep(t)
  <2>1. /\ hpPc[t] \in {"scan", "keep", "sweep"}
        /\ hpPc'[t] \in {"scan", "keep", "sweep", "return"}
        /\ hpRes' = hpRes /\ hpStack' = hpStack
    BY <1>0, <1>11 DEF Hp!Look, Hp!Delete, Hp!Keep, Hp!Sweep, Hp!Done
  <2>. QED
    BY <1>0, <1>1, <2>1, HpMapping, HpMapped
<1>12. CASE \/ Hp!FirstPop(t) \/ Hp!NextSlot(t) \/ Hp!NoSlot(t) \/ Hp!ThreadEnds(t)
            \/ Hp!GiveBack(t)
  <2>1. /\ hpPc[t] \in {"idle", "claim", "end"} /\ hpPc'[t] \in {"idle", "claim", "end"}
        /\ hpRes' = hpRes /\ hpStack' = hpStack
    BY <1>0, <1>12 DEF Hp!FirstPop, Hp!NextSlot, Hp!NoSlot, Hp!ThreadEnds, Hp!GiveBack
  <2>. QED
    BY <1>0, <1>1, <2>1, HpMapping, HpMapped
<1>. QED
  BY <1>2, <1>3, <1>4, <1>5, <1>6, <1>7, <1>8, <1>9, <1>10, <1>11, <1>12 DEF HpStep

\* The first states and each step map to the abstract stack's.
LEMMA HpRefines ==
  /\ Hp!Init => Hp!Abstract!Init
  /\ HpInv /\ [Hp!Next]_hpVars => [Hp!Abstract!Next]_(Hp!Abstract!vars)
<1>1. ASSUME Hp!Init PROVE Hp!Abstract!Init
  BY <1>1 DEF Hp!Init, Hp!Abstract!Init, Hp!Popped
<1>2. ASSUME HpInv, Hp!Next PROVE [Hp!Abstract!Next]_(Hp!Abstract!vars)
  BY <1>2, HpSteppers, HpStepRefines
<1>3. ASSUME UNCHANGED hpVars PROVE UNCHANGED Hp!Abstract!vars
  BY <1>3 DEF hpVars, Hp!Abstract!vars, Hp!Popped
<1>. QED
  BY <1>1, <1>2, <1>3

-----------------------------------------------------------------------------
(* lock_free_stack_with_rc: the inductive invariant *)

RcSteps == {"idle", "push", "increase", "next", "pop", "count", "release", "return"}

RcTyped ==
  /\ Rc!TypeOK
  /\ rcPc \in [Threads -> RcSteps]
  /\ rcSeen \in [Threads -> Rc!Counted]
  /\ rcStack \in Seq(OtherNodes)

\* What each thread has while it is somewhere in push() or pop().
RcInStep ==
  \A t \in Threads :
    /\ rcPc[t] \in {"push", "next", "pop", "count", "release"} <=> rcNode[t] # Null
    /\ rcPc[t] \in {"next", "pop", "count"} => rcOld[t].ptr = rcNode[t]
    /\ rcPc[t] # "return" => rcRes[t] = Null

\* The node that a thread alone links or counts is not on the stack, and
\* whoever counts at a node keeps it allocated.
RcPlaced ==
  /\ Once(rcStack) /\ Elems(rcStack) \subseteq rcHeap
  /\ \A t \in Threads :
       /\ rcNode[t] # Null => rcNode[t] \in rcHeap
       /\ rcPc[t] \in {"push", "count"} =>
            /\ rcNode[t] \notin Elems(rcStack)
            /\ \A u \in Threads : rcPc[u] \in {"push", "count"} /\ rcNode[u] = rcNode[t] => u = t
       /\ rcPc[t] = "push" => rcInternal[rcNode[t]] = 0 /\ Rc!Holders(rcNode[t]) = {}

\* The nodes on the stack are linked from _head, and the link that a holder
\* has read is still that of its node.
RcLinked ==
  /\ Follows(rcHead.ptr, rcStack, [n \in OtherNodes |-> rcNext[n].ptr])
  /\ \A t \in Threads : rcPc[t] = "pop" => rcSeen[t] = rcNext[rcNode[t]]

\* n is nobody's but its holders': popped, and its external count added.
RcLeft(n) ==
  n \in rcHeap \ Elems(rcStack)
    /\ \A t \in Threads : rcPc[t] \in {"push", "count"} => rcNode[t] # n

\* The two counts of a node add up to its holders.  Until the external count
\* is added, those that let go have made the internal count negative at most.
RcCounts ==
  /\ \A i \in 1 .. Len(rcStack) :
       /\ Rc!LinkTo(i).count - 1 + rcInternal[rcStack[i]] = Cardinality(Rc!Holders(rcStack[i]))
       /\ rcInternal[rcStack[i]] <= 0
  /\ \A t \in Threads : rcPc[t] = "count" =>
       /\ rcOld[t].count - 2 + rcInternal[rcNode[t]] = Cardinality(Rc!Holders(rcNode[t]))
       /\ rcInternal[rcNode[t]] <= 0
  /\ \A n \in OtherNodes : RcLeft(n) =>
       rcInternal[n] = Cardinality(Rc!Holders(n)) /\ rcInternal[n] > 0

RcInv == RcTyped /\ RcInStep /\ RcPlaced /\ RcLinked /\ RcCounts

\* The invariant holds when the constructor is done.
LEMMA RcInvInit == Rc!Init => RcInv
<1> SUFFICES ASSUME Rc!Init PROVE RcInv
  OBVIOUS
<1> USE DEF Rc!Init, Rc!Nowhere
<1>0. Null \notin OtherNodes \cup Values
  BY StackAssumption, StacksAssumption
<1>1. RcTyped
  BY <1>0 DEF RcTyped, Rc!TypeOK, Rc!Counted, RcSteps
<1>2. RcInStep
  BY DEF RcInStep
<1>3. RcPlaced
  BY EmptyList DEF RcPlaced
<1>4. RcLinked
  BY EmptyList DEF RcLinked
<1>5. RcCounts
  BY DEF RcCounts, RcLeft
<1>. QED
  BY <1>1, <1>2, <1>3, <1>4, <1>5 DEF RcInv

\* The stack is empty when the pointer of _head is null, and only then; and
\* what a thread refers to is allocated.
LEMMA RcTop ==
  ASSUME RcInv
  PROVE  /\ Null \notin OtherNodes \cup Values
         /\ rcHead.ptr = Null <=> rcStack = <<>>
         /\ rcHead.ptr # Null =>
              /\ rcHead.ptr = rcStack[1] /\ rcHead.ptr \in Elems(rcStack)
              /\ 1 \in 1 .. Len(rcStack)
         /\ Elems(rcStack) \subseteq rcHeap
         /\ rcHead.count \in Nat /\ rcHead.ptr \in OtherNodes \cup {Null}
         /\ \A t \in Threads :
              rcPc[t] \in {"push", "next", "pop", "count", "release"} =>
                rcNode[t] \in OtherNodes /\ rcNode[t] \in rcHeap
<1>1. Null \notin OtherNodes \cup Values
  BY StackAssumption, StacksAssumption
<1>2. /\ rcHead.ptr = Null <=> rcStack = <<>>
      /\ rcHead.ptr # Null => rcHead.ptr = rcStack[1] /\ rcHead.ptr \in Elems(rcStack)
  BY <1>1, ListHead DEF RcInv, RcLinked, RcTyped
<1>3. rcStack # <<>> => 1 \in 1 .. Len(rcStack)
  BY DEF RcInv, RcTyped
<1>4. \A t \in Threads :
        rcPc[t] \in {"push", "next", "pop", "count", "release"} =>
          rcNode[t] \in OtherNodes /\ rcNode[t] \in rcHeap
  BY DEF RcInv, RcInStep, RcPlaced, RcTyped, Rc!TypeOK
<1>5. rcHead.count \in Nat /\ rcHead.ptr \in OtherNodes \cup {Null}
  BY DEF RcInv, RcTyped, Rc!TypeOK, Rc!Counted
<1>. QED
  BY <1>1, <1>2, <1>3, <1>4, <1>5 DEF RcInv, RcPlaced

\* The steps of a thread.
RcStep(t) ==
  \/ Rc!PushCall(t) \/ Rc!PushFails(t) \/ Rc!Push(t)
  \/ Rc!PopCall(t) \/ Rc!IncreaseFails(t) \/ Rc!Increase(t) \/ Rc!ReadNext(t)
  \/ Rc!Pop(t) \/ Rc!PopFails(t) \/ Rc!Count(t) \/ Rc!Release(t) \/ Rc!Return(t)

\* A step of the class is a step of some thread.
LEMMA RcSteppers == Rc!Next <=> \E t \in Threads : RcStep(t)
BY DEF Rc!Next, RcStep

\* What an access of the internal count does.
LEMMA RcAccount ==
  ASSUME RcTyped, NEW n \in OtherNodes, NEW d \in Int, Rc!Account(n, d)
  PROVE  /\ rcInternal' = [rcInternal EXCEPT ![n] = rcInternal[n] + d]
         /\ rcInternal' \in [OtherNodes -> Int]
         /\ rcNext' \in [OtherNodes -> Rc!Counted]
         /\ rcHeap' \subseteq OtherNodes
         /\ \A m \in OtherNodes \ {n} : rcNext'[m] = rcNext[m]
         /\ \/ rcInternal[n] + d = 0 /\ rcHeap' = rcHeap \ {n}
            \/ rcInternal[n] + d # 0 /\ rcHeap' = rcHeap /\ rcNext' = rcNext
<1>1. /\ rcInternal' = [rcInternal EXCEPT ![n] = rcInternal[n] + d]
      /\ rcInternal \in [OtherNodes -> Int] /\ rcNext \in [OtherNodes -> Rc!Counted]
      /\ rcHeap \subseteq OtherNodes
  BY DEF RcTyped, Rc!TypeOK, Rc!Account
<1>2. rcInternal' \in [OtherNodes -> Int] /\ rcInternal'[n] = rcInternal[n] + d
  BY <1>1
<1>3. \/ /\ rcInternal[n] + d = 0 /\ rcHeap' = rcHeap \ {n}
         /\ rcNext' = [rcNext EXCEPT ![n] = Rc!Nowhere]
      \/ rcInternal[n] + d # 0 /\ rcHeap' = rcHeap /\ rcNext' = rcNext
  BY <1>2 DEF Rc!Account
<1>4. Rc!Nowhere \in Rc!Counted
  BY DEF Rc!Nowhere, Rc!Counted
<1>5. rcNext' \in [OtherNodes -> Rc!Counted] /\ \A m \in OtherNodes \ {n} : rcNext'[m] = rcNext[m]
  BY <1>1, <1>3, <1>4
<1>. QED
  BY <1>1, <1>2, <1>3, <1>5

\* increase_head_count() changes the count only.
LEMMA RcRaise ==
  ASSUME RcInv, NEW t \in Threads, Rc!Increase(t)
  PROVE  rcHead' = [count |-> rcHead.count + 1, ptr |-> rcHead.ptr]
<1>1. rcHead \in [count : Nat, ptr : OtherNodes \cup {Null}]
  BY DEF RcInv, RcTyped, Rc!TypeOK, Rc!Counted
<1>2. rcHead' = [rcHead EXCEPT !.count = rcHead.count + 1]
  BY DEF Rc!Increase
<1>. QED
  BY <1>1, <1>2

\* Each operation keeps the types.
LEMMA RcTypedStep ==
  ASSUME RcInv, NEW t \in Threads, RcStep(t)
  PROVE  RcTyped'
<1> USE DEF RcTyped, Rc!TypeOK, Rc!Goto, Rc!list, Rc!locals, RcSteps
<1>0. RcTyped /\ MaxCount \in Nat /\ Rc!Nowhere \in Rc!Counted
  BY StacksAssumption DEF RcInv, Rc!Nowhere, Rc!Counted
<1>1. CASE Rc!PushCall(t)
  BY <1>0, <1>1 DEF Rc!PushCall
<1>2. CASE Rc!PushFails(t)
  BY <1>0, <1>2 DEF Rc!PushFails
<1>3. CASE Rc!Push(t)
  <2>1. rcNode[t] \in OtherNodes
    BY <1>3, RcTop DEF Rc!Push
  <2>2. rcStack' \in Seq(OtherNodes)
    BY <1>0, <1>3, <2>1, Pushed DEF Rc!Push
  <2>3. rcHead' \in Rc!Counted
    BY <1>3, <2>1 DEF Rc!Push, Rc!Counted
  <2>. QED
    BY <1>0, <1>3, <2>2, <2>3 DEF Rc!Push
<1>4. CASE Rc!PopCall(t)
  BY <1>0, <1>4 DEF Rc!PopCall
<1>5. CASE Rc!IncreaseFails(t)
  BY <1>0, <1>5 DEF Rc!IncreaseFails
<1>6. CASE Rc!Increase(t)
  <2>1. rcHead' = [count |-> rcHead.count + 1, ptr |-> rcHead.ptr]
    BY <1>6, RcRaise
  <2>2. rcHead' \in Rc!Counted /\ rcHead.ptr \in OtherNodes \cup {Null}
    BY <2>1, RcTop DEF Rc!Counted
  <2>3. rcOld' \in [Threads -> Rc!Counted]
    BY <1>0, <1>6, <2>2 DEF Rc!Increase
  <2>4. rcNode' \in [Threads -> OtherNodes \cup {Null}] /\ rcPc' \in [Threads -> RcSteps]
    BY <1>0, <1>6, <2>2 DEF Rc!Increase
  <2>. QED
    BY <1>0, <1>6, <2>2, <2>3, <2>4 DEF Rc!Increase
<1>7. CASE Rc!ReadNext(t)
  <2>1. rcNext[rcNode[t]] \in Rc!Counted
    BY <1>0, <1>7, RcTop DEF Rc!ReadNext
  <2>. QED
    BY <1>0, <1>7, <2>1 DEF Rc!ReadNext
<1>8. CASE Rc!Pop(t)
  <2>1. rcStack # <<>>
    BY <1>8, RcTop DEF Rc!Pop, RcInv, RcInStep
  <2>2. rcStack' \in Seq(OtherNodes)
    BY <1>0, <1>8, <2>1, Popped DEF Rc!Pop
  <2>. QED
    BY <1>0, <1>8, <2>2 DEF Rc!Pop
<1>9. CASE Rc!PopFails(t)
  BY <1>0, <1>9 DEF Rc!PopFails
<1>10. CASE Rc!Count(t)
  <2>1. rcNode[t] \in OtherNodes /\ rcOld[t].count - 2 \in Int
    BY <1>0, <1>10, RcTop DEF Rc!Count, Rc!Counted
  <2>2. /\ rcInternal' \in [OtherNodes -> Int] /\ rcNext' \in [OtherNodes -> Rc!Counted]
        /\ rcHeap' \subseteq OtherNodes
    BY <1>0, <1>10, <2>1, RcAccount DEF Rc!Count
  <2>3. /\ rcData' \in [OtherNodes -> Values \cup {Null}]
        /\ rcRes' \in [Threads -> Values \cup {Null}]
    BY <1>0, <1>10, <2>1 DEF Rc!Count
  <2>. QED
    BY <1>0, <1>10, <2>2, <2>3 DEF Rc!Count
<1>11. CASE Rc!Release(t)
  <2>1. rcNode[t] \in OtherNodes /\ -1 \in Int
    BY <1>11, RcTop DEF Rc!Release
  <2>2. /\ rcInternal' \in [OtherNodes -> Int] /\ rcNext' \in [OtherNodes -> Rc!Counted]
        /\ rcHeap' \subseteq OtherNodes
    BY <1>0, <1>11, <2>1, RcAccount DEF Rc!Release
  <2>. QED
    BY <1>0, <1>11, <2>2 DEF Rc!Release
<1>12. CASE Rc!Return(t)
  BY <1>0, <1>12 DEF Rc!Return
<1>. QED
  BY <1>1, <1>2, <1>3, <1>4, <1>5, <1>6, <1>7, <1>8, <1>9, <1>10, <1>11, <1>12 DEF RcStep

\* Each operation leaves its thread with what the next one needs.
LEMMA RcInStepStep ==
  ASSUME RcInv, NEW t \in Threads, RcStep(t)
  PROVE  RcInStep'
<1> SUFFICES ASSUME NEW u \in Threads
             PROVE  /\ rcPc[u]' \in {"push", "next", "pop", "count", "release"}
                      <=> rcNode[u]' # Null
                    /\ rcPc[u]' \in {"next", "pop", "count"} => rcOld[u]'.ptr = rcNode[u]'
                    /\ rcPc[u]' # "return" => rcRes[u]' = Null
  BY DEF RcInStep
<1> USE DEF RcTyped, Rc!TypeOK, Rc!Goto, Rc!list, Rc!locals, RcInStep
<1>0. RcTyped /\ RcInStep /\ Null \notin OtherNodes
  BY RcTop DEF RcInv
<1>1. CASE Rc!PushCall(t)
  BY <1>0, <1>1 DEF Rc!PushCall
<1>2. CASE Rc!PushFails(t)
  BY <1>0, <1>2 DEF Rc!PushFails
<1>3. CASE Rc!Push(t)
  BY <1>0, <1>3 DEF Rc!Push
<1>4. CASE Rc!PopCall(t)
  BY <1>0, <1>4 DEF Rc!PopCall
<1>5. CASE Rc!IncreaseFails(t)
  BY <1>0, <1>5 DEF Rc!IncreaseFails
<1>6. CASE Rc!Increase(t)
  <2>2. rcHead'.ptr = rcHead.ptr
    BY <1>6, RcRaise
  <2>3. CASE u # t
    BY <1>0, <1>6, <2>3 DEF Rc!Increase
  <2>4. CASE u = t /\ rcHead.ptr = Null
    BY <1>0, <1>6, <2>4 DEF Rc!Increase
  <2>5. CASE u = t /\ rcHead.ptr # Null
    <3>1. rcPc'[u] = "next" /\ rcNode'[u] = rcHead.ptr /\ rcOld'[u] = rcHead' /\ rcRes'[u] = Null
      BY <1>0, <1>6, <2>5 DEF Rc!Increase
    <3>. QED
      BY <2>2, <2>5, <3>1
  <2>. QED
    BY <2>3, <2>4, <2>5
<1>7. CASE Rc!ReadNext(t)
  BY <1>0, <1>7 DEF Rc!ReadNext
<1>8. CASE Rc!Pop(t)
  BY <1>0, <1>8 DEF Rc!Pop
<1>9. CASE Rc!PopFails(t)
  BY <1>0, <1>9 DEF Rc!PopFails
<1>10. CASE Rc!Count(t)
  BY <1>0, <1>10 DEF Rc!Count
<1>11. CASE Rc!Release(t)
  BY <1>0, <1>11 DEF Rc!Release
<1>12. CASE Rc!Return(t)
  BY <1>0, <1>12 DEF Rc!Return
<1>. QED
  BY <1>1, <1>2, <1>3, <1>4, <1>5, <1>6, <1>7, <1>8, <1>9, <1>10, <1>11, <1>12 DEF RcStep

\* A step of t leaves the locals of the other threads.
LEMMA RcAlone ==
  ASSUME RcInv, NEW t \in Threads, RcStep(t), NEW u \in Threads, u # t
  PROVE  /\ rcPc'[u] = rcPc[u] /\ rcNode'[u] = rcNode[u] /\ rcOld'[u] = rcOld[u]
         /\ rcSeen'[u] = rcSeen[u] /\ rcRes'[u] = rcRes[u]
<1> USE DEF RcTyped, Rc!TypeOK, Rc!Goto, Rc!list, Rc!locals
<1>0. RcTyped
  BY DEF RcInv
<1>1. CASE \/ Rc!PushCall(t) \/ Rc!PushFails(t) \/ Rc!Push(t) \/ Rc!PopCall(t)
           \/ Rc!IncreaseFails(t) \/ Rc!ReadNext(t)
  BY <1>0, <1>1 DEF Rc!PushCall, Rc!PushFails, Rc!Push, Rc!PopCall, Rc!IncreaseFails,
                    Rc!ReadNext
<1>2. CASE Rc!Increase(t)
  BY <1>0, <1>2 DEF Rc!Increase
<1>3. CASE Rc!Pop(t) \/ Rc!PopFails(t) \/ Rc!Return(t)
  BY <1>0, <1>3 DEF Rc!Pop, Rc!PopFails, Rc!Return
<1>4. CASE Rc!Count(t) \/ Rc!Release(t)
  BY <1>0, <1>4 DEF Rc!Count, Rc!Release
<1>. QED
  BY <1>1, <1>2, <1>3, <1>4 DEF RcStep

\* The holders of a node, and how a step of t changes their number.
LEMMA RcHolders ==
  ASSUME RcInv, NEW t \in Threads, RcStep(t), NEW n
  PROVE  /\ Cardinality(Rc!Holders(n)) \in Nat
         /\ t \in Rc!Holders(n) <=> rcNode[t] = n /\ rcPc[t] \in {"next", "pop", "release"}
         /\ t \in Rc!Holders(n)' <=> rcNode'[t] = n /\ rcPc'[t] \in {"next", "pop", "release"}
         /\ (t \in Rc!Holders(n)' <=> t \in Rc!Holders(n)) => Rc!Holders(n)' = Rc!Holders(n)
         /\ t \in Rc!Holders(n) /\ t \notin Rc!Holders(n)' =>
              Cardinality(Rc!Holders(n)') = Cardinality(Rc!Holders(n)) - 1
         /\ t \notin Rc!Holders(n) /\ t \in Rc!Holders(n)' =>
              Cardinality(Rc!Holders(n)') = Cardinality(Rc!Holders(n)) + 1
<1> DEFINE H == Rc!Holders(n)
<1>1. IsFiniteSet(H) /\ Cardinality(H) \in Nat
  <2>1. H \subseteq Threads
    BY DEF Rc!Holders
  <2>. QED
    BY <2>1, StackAssumption, FS_Subset, FS_CardinalityType
<1>2. \A u \in Threads \ {t} : u \in H' <=> u \in H
  BY RcAlone DEF Rc!Holders
<1>3. H \subseteq Threads /\ H' \subseteq Threads
  BY DEF Rc!Holders
<1>4. /\ t \in H <=> rcNode[t] = n /\ rcPc[t] \in {"next", "pop", "release"}
      /\ t \in H' <=> rcNode'[t] = n /\ rcPc'[t] \in {"next", "pop", "release"}
  BY DEF Rc!Holders
<1> HIDE DEF H
<1>5. (t \in H' <=> t \in H) => H' = H
  BY <1>2, <1>3
<1>6. ASSUME t \in H, t \notin H' PROVE Cardinality(H') = Cardinality(H) - 1
  <2>1. H' = H \ {t}
    BY <1>2, <1>3, <1>6
  <2>. QED
    BY <1>1, <1>6, <2>1, FS_RemoveElement
<1>7. ASSUME t \notin H, t \in H' PROVE Cardinality(H') = Cardinality(H) + 1
  <2>1. H' = H \cup {t}
    BY <1>2, <1>3, <1>7
  <2>. QED
    BY <1>1, <1>7, <2>1, FS_AddElement
<1>. QED
  BY <1>1, <1>4, <1>5, <1>6, <1>7 DEF H

\* A thread begins to hold a node by counting itself at the top of the stack.
LEMMA RcHolds ==
  ASSUME RcInv, NEW t \in Threads, RcStep(t), NEW n \in OtherNodes
  PROVE  /\ t \notin Rc!Holders(n) /\ t \in Rc!Holders(n)' =>
              rcPc[t] = "increase" /\ n = rcHead.ptr /\ n \in Elems(rcStack)
         /\ t \in Rc!Holders(n) /\ t \notin Rc!Holders(n)' =>
              (rcPc[t] = "release" \/ rcPc'[t] = "count") /\ n = rcNode[t]
<1> USE DEF RcTyped, Rc!TypeOK, Rc!Goto, Rc!list, Rc!locals, RcInStep
<1>0. RcTyped /\ RcInStep /\ Null \notin OtherNodes
  BY RcTop DEF RcInv
<1>1. CASE Rc!Increase(t)
  BY <1>0, <1>1, RcTop, RcHolders DEF Rc!Increase
<1>2. CASE Rc!ReadNext(t) \/ Rc!PopFails(t)
  BY <1>0, <1>2, RcHolders DEF Rc!ReadNext, Rc!PopFails
<1>3. CASE Rc!Pop(t) \/ Rc!Release(t)
  <2>1. /\ rcPc[t] \in {"pop", "release"}
        /\ rcPc[t] = "release" \/ rcPc'[t] = "count"
        /\ rcPc'[t] \in {"count", "increase"}
    BY <1>0, <1>3 DEF Rc!Pop, Rc!Release
  <2>. QED
    BY <2>1, RcHolders
<1>4. CASE \/ Rc!PushCall(t) \/ Rc!PushFails(t) \/ Rc!Push(t) \/ Rc!PopCall(t)
           \/ Rc!IncreaseFails(t) \/ Rc!Count(t) \/ Rc!Return(t)
  <2>1. /\ rcPc[t] \notin {"next", "pop", "release"}
        /\ rcPc'[t] \notin {"next", "pop", "release"}
    BY <1>0, <1>4
     DEF Rc!PushCall, Rc!PushFails, Rc!Push, Rc!PopCall, Rc!IncreaseFails, Rc!Count, Rc!Return
  <2>. QED
    BY <2>1, RcHolders
<1>. QED
  BY <1>1, <1>2, <1>3, <1>4 DEF RcStep

\* Nobody else refers to a node when a step of t deletes it.
LEMMA RcDeletion ==
  ASSUME RcInv, NEW t \in Threads, RcStep(t), NEW n \in rcHeap, n \notin rcHeap'
  PROVE  /\ n = rcNode[t] /\ n \notin Elems(rcStack)
         /\ \A u \in Threads \ {t} : rcNode[u] # n
         /\ Rc!Holders(n)' = {}
<1> DEFINE H == Rc!Holders(n)
<1> USE DEF RcTyped, Rc!TypeOK, Rc!Goto, Rc!list, Rc!locals
<1>0. RcTyped /\ RcInStep /\ RcPlaced /\ RcCounts /\ n \in OtherNodes
  BY DEF RcInv
<1>1. /\ Rc!Count(t) \/ Rc!Release(t)
  BY DEF RcStep, Rc!PushCall, Rc!PushFails, Rc!Push, Rc!PopCall, Rc!IncreaseFails,
         Rc!Increase, Rc!ReadNext, Rc!Pop, Rc!PopFails, Rc!Return
<1>2. rcNode[t] \in OtherNodes /\ rcOld[t].count \in Nat
  BY <1>0, <1>1, RcTop DEF Rc!Count, Rc!Release, Rc!Counted
<1>3. IsFiniteSet(H')
  <2>1. H' \subseteq Threads
    BY DEF Rc!Holders
  <2>. QED
    BY <2>1, StackAssumption, FS_Subset
<1>4. n # Null /\ \A u \in Threads : rcNode[u] = n /\ u \notin H => rcPc[u] \in {"push", "count"}
  <2>1. n # Null
    BY <1>0, RcTop
  <2>2. ASSUME NEW u \in Threads, rcNode[u] = n, u \notin H
        PROVE  rcPc[u] \in {"push", "count"}
    <3>1. rcPc[u] \notin {"next", "pop", "release"}
      BY <2>2 DEF Rc!Holders
    <3>. QED
      BY <1>0, <2>1, <2>2, <3>1 DEF RcInStep
  <2>. QED
    BY <2>1, <2>2
<1>5. CASE Rc!Count(t)
  <2>1. n = rcNode[t] /\ rcInternal[n] + (rcOld[t].count - 2) = 0
    <3>1. rcOld[t].count - 2 \in Int /\ Rc!Account(rcNode[t], rcOld[t].count - 2)
      BY <1>2, <1>5 DEF Rc!Count
    <3>2. \/ rcInternal[rcNode[t]] + (rcOld[t].count - 2) = 0 /\ rcHeap' = rcHeap \ {rcNode[t]}
          \/ rcHeap' = rcHeap
      BY <1>0, <1>2, <3>1, RcAccount
    <3>. QED
      BY <3>2
  <2>2. rcPc[t] = "count"
    BY <1>5 DEF Rc!Count
  <2>3. Cardinality(H) = 0
    <3>1. rcOld[t].count - 2 + rcInternal[n] = Cardinality(H)
      BY <1>0, <2>1, <2>2 DEF RcCounts
    <3>. QED
      BY <1>0, <1>2, <2>1, <3>1
  <2>4. H' = H
    BY <1>0, <1>5, <2>2, RcHolds, RcHolders DEF Rc!Count
  <2>5. H = {}
    BY <1>3, <2>3, <2>4, FS_EmptySet
  <2>6. \A u \in Threads \ {t} : rcNode[u] # n
    BY <1>0, <1>4, <2>1, <2>2, <2>5 DEF RcPlaced
  <2>7. n \notin Elems(rcStack)
    BY <1>0, <2>1, <2>2 DEF RcPlaced
  <2>. QED
    BY <2>1, <2>4, <2>5, <2>6, <2>7
<1>6. CASE Rc!Release(t)
  <2>1. n = rcNode[t] /\ rcInternal[n] + -1 = 0 /\ rcPc[t] = "release" /\ rcPc'[t] = "increase"
    BY <1>0, <1>2, <1>6, RcAccount DEF Rc!Release
  <2>2. rcInternal[n] = 1
    BY <1>0, <2>1
  <2>3. n \notin Elems(rcStack)
    BY <1>0, <2>2 DEF RcCounts, Elems
  <2>4. \A u \in Threads : rcPc[u] \in {"push", "count"} => rcNode[u] # n
    BY <1>0, <2>2 DEF RcCounts, RcPlaced
  <2>5. Cardinality(H) = 1
    BY <1>0, <2>2, <2>3, <2>4 DEF RcCounts, RcLeft
  <2>6. t \in H /\ t \notin H'
    BY <2>1, RcHolders
  <2>7. Cardinality(H') = 0
    BY <2>5, <2>6, RcHolders
  <2>8. H' = {}
    BY <1>3, <2>7, FS_EmptySet
  <2>9. \A u \in Threads \ {t} : u \notin H
    BY <2>8, RcAlone DEF Rc!Holders
  <2>. QED
    BY <1>4, <2>1, <2>3, <2>4, <2>8, <2>9
<1>. QED
  BY <1>1, <1>5, <1>6

\* What a step of t changes in the nodes.
LEMMA RcChanges ==
  ASSUME RcInv, NEW t \in Threads, RcStep(t), NEW n \in rcHeap
  PROVE  /\ n \in rcHeap' =>
              rcNext'[n] = rcNext[n] \/ (rcPc[t] = "push" /\ rcNode[t] = n)
         /\ \/ rcInternal'[n] = rcInternal[n]
            \/ rcNode[t] = n /\ rcPc[t] \in {"count", "release"}
         /\ rcData'[n] = rcData[n] \/ (rcPc[t] = "count" /\ rcNode[t] = n)
<1> USE DEF RcTyped, Rc!TypeOK, Rc!Goto, Rc!list, Rc!locals
<1>0. RcTyped /\ n \in OtherNodes
  BY DEF RcInv
<1>1. CASE Rc!PushCall(t)
  BY <1>0, <1>1 DEF Rc!PushCall
<1>2. CASE Rc!PushFails(t)
  BY <1>0, <1>2 DEF Rc!PushFails
<1>3. CASE \/ Rc!Push(t) \/ Rc!PopCall(t) \/ Rc!IncreaseFails(t) \/ Rc!Increase(t)
           \/ Rc!ReadNext(t) \/ Rc!Pop(t) \/ Rc!PopFails(t) \/ Rc!Return(t)
  BY <1>3 DEF Rc!Push, Rc!PopCall, Rc!IncreaseFails, Rc!Increase, Rc!ReadNext, Rc!Pop,
              Rc!PopFails, Rc!Return
<1>4. CASE Rc!Count(t)
  <2>1. rcNode[t] \in OtherNodes /\ rcOld[t].count - 2 \in Int
    BY <1>0, <1>4, RcTop DEF Rc!Count, Rc!Counted
  <2>. QED
    BY <1>0, <1>4, <2>1, RcAccount DEF Rc!Count
<1>5. CASE Rc!Release(t)
  <2>1. rcNode[t] \in OtherNodes /\ -1 \in Int
    BY <1>5, RcTop DEF Rc!Release
  <2>. QED
    BY <1>0, <1>5, <2>1, RcAccount DEF Rc!Release
<1>. QED
  BY <1>1, <1>2, <1>3, <1>4, <1>5 DEF RcStep

\* The stack after a step of t: what push() puts and pop() takes.
LEMMA RcStackStep ==
  ASSUME RcInv, NEW t \in Threads, RcStep(t)
  PROVE  /\ Rc!Push(t) => /\ rcStack' = <<rcNode[t]>> \o rcStack
                          /\ Elems(rcStack') = Elems(rcStack) \cup {rcNode[t]}
         /\ Rc!Pop(t) => /\ rcStack # <<>> /\ rcStack' = Tail(rcStack)
                         /\ rcNode[t] = rcStack[1] /\ rcNode[t] \in Elems(rcStack)
                         /\ Elems(rcStack') = Elems(rcStack) \ {rcNode[t]}
         /\ ~Rc!Push(t) /\ ~Rc!Pop(t) => rcStack' = rcStack
         /\ Once(rcStack')
         /\ Elems(rcStack') \subseteq rcHeap'
<1> USE DEF RcTyped, Rc!TypeOK, Rc!Goto, Rc!list, Rc!locals, RcInStep
<1>0. RcTyped /\ RcInStep /\ RcPlaced
  BY DEF RcInv
<1>1. CASE Rc!Push(t)
  <2>1. /\ rcNode[t] \in OtherNodes /\ rcNode[t] \in rcHeap /\ rcNode[t] \notin Elems(rcStack)
    BY <1>0, <1>1, RcTop DEF Rc!Push, RcPlaced
  <2>2. rcStack' = <<rcNode[t]>> \o rcStack /\ rcHeap' = rcHeap /\ ~Rc!Pop(t)
    BY <1>1 DEF Rc!Push, Rc!Pop
  <2>3. rcStack \in Seq(OtherNodes) /\ Once(rcStack) /\ Elems(rcStack) \subseteq rcHeap
    BY <1>0 DEF RcPlaced
  <2>4. Elems(rcStack') = Elems(rcStack) \cup {rcNode[t]} /\ Once(rcStack')
    BY <2>1, <2>2, <2>3, Pushed
  <2>. QED
    BY <1>1, <2>1, <2>2, <2>3, <2>4
<1>2. CASE Rc!Pop(t)
  <2>1. rcPc[t] = "pop" /\ rcHead = rcOld[t] /\ rcStack' = Tail(rcStack) /\ rcHeap' = rcHeap
    BY <1>2 DEF Rc!Pop
  <2>2. rcNode[t] # Null /\ rcHead.ptr = rcNode[t]
    BY <1>0, <2>1
  <2>3. /\ rcStack # <<>> /\ rcNode[t] = rcStack[1] /\ rcNode[t] \in Elems(rcStack)
    BY <2>2, RcTop
  <2>4. rcStack \in Seq(OtherNodes) /\ Once(rcStack) /\ Elems(rcStack) \subseteq rcHeap
    BY <1>0 DEF RcPlaced
  <2>5. Elems(rcStack') = Elems(rcStack) \ {rcNode[t]} /\ Once(rcStack')
    BY <2>1, <2>3, <2>4, Popped
  <2>6. ~Rc!Push(t)
    BY <2>1 DEF Rc!Push
  <2>. QED
    BY <1>2, <2>1, <2>3, <2>4, <2>5, <2>6
<1>3. CASE ~Rc!Push(t) /\ ~Rc!Pop(t)
  <2>1. rcStack' = rcStack
    BY <1>3 DEF RcStep, Rc!PushCall, Rc!PushFails, Rc!PopCall, Rc!IncreaseFails,
                Rc!Increase, Rc!ReadNext, Rc!PopFails, Rc!Count, Rc!Release, Rc!Return
  <2>2. \A n \in rcHeap : n \in Elems(rcStack) => n \in rcHeap'
    BY RcDeletion
  <2>. QED
    BY <1>0, <1>3, <2>1, <2>2 DEF RcPlaced
<1>. QED
  BY <1>1, <1>2, <1>3

\* What t itself may come to own.
LEMMA RcOwns ==
  ASSUME RcInv, NEW t \in Threads, RcStep(t)
  PROVE  /\ rcNode'[t] # Null => rcNode'[t] \in rcHeap'
         /\ rcPc'[t] \in {"push", "count"} =>
              \/ rcPc'[t] = "push" /\ rcNode'[t] \notin rcHeap /\ rcInternal'[rcNode'[t]] = 0
              \/ rcPc'[t] = "push" /\ rcPc[t] = "push" /\ rcNode' = rcNode
                                   /\ rcInternal' = rcInternal
              \/ rcPc'[t] = "count" /\ Rc!Pop(t) /\ rcNode'[t] = rcNode[t]
<1> USE DEF RcTyped, Rc!TypeOK, Rc!Goto, Rc!list, Rc!locals, RcInStep
<1>0. RcTyped /\ RcInStep /\ RcPlaced
  BY DEF RcInv
<1>1. CASE Rc!PushCall(t)
  BY <1>0, <1>1 DEF Rc!PushCall
<1>2. CASE Rc!PushFails(t)
  BY <1>0, <1>2, RcTop DEF Rc!PushFails
<1>3. CASE Rc!Push(t)
  BY <1>0, <1>3 DEF Rc!Push
<1>4. CASE Rc!PopCall(t) \/ Rc!IncreaseFails(t) \/ Rc!Return(t)
  BY <1>0, <1>4 DEF Rc!PopCall, Rc!IncreaseFails, Rc!Return, RcPlaced
<1>5. CASE Rc!Increase(t)
  BY <1>0, <1>5, RcTop DEF Rc!Increase
<1>6. CASE Rc!ReadNext(t) \/ Rc!PopFails(t)
  BY <1>0, <1>6 DEF Rc!ReadNext, Rc!PopFails, RcPlaced
<1>7. CASE Rc!Pop(t)
  <2>1. rcPc'[t] = "count" /\ rcNode' = rcNode /\ rcHeap' = rcHeap
    BY <1>0, <1>7 DEF Rc!Pop
  <2>. QED
    BY <1>0, <1>7, <2>1 DEF RcPlaced
<1>8. CASE Rc!Count(t) \/ Rc!Release(t)
  BY <1>0, <1>8 DEF Rc!Count, Rc!Release
<1>. QED
  BY <1>1, <1>2, <1>3, <1>4, <1>5, <1>6, <1>7, <1>8 DEF RcStep

\* Each operation moves nodes between the places, or allocates or deletes
\* them, and every node is still in one place.
LEMMA RcPlacedStep ==
  ASSUME RcInv, NEW t \in Threads, RcStep(t)
  PROVE  RcPlaced'
<1>0. RcTyped /\ RcInStep /\ RcPlaced
  BY DEF RcInv
<1>1. Once(rcStack') /\ Elems(rcStack') \subseteq rcHeap'
  BY RcStackStep
<1>2. ASSUME NEW u \in Threads PROVE rcNode'[u] # Null => rcNode'[u] \in rcHeap'
  <2>1. CASE u = t
    BY <2>1, RcOwns
  <2>2. CASE u # t
    BY <1>0, <2>2, RcAlone, RcDeletion DEF RcPlaced
  <2>. QED
    BY <2>1, <2>2
<1>3. \A u \in Threads : rcPc[u] \in {"push", "count"} =>
        rcNode[u] \in rcHeap /\ rcNode[u] \notin Elems(rcStack)
  BY <1>0, RcTop DEF RcPlaced
<1>4. ASSUME NEW u \in Threads, rcPc'[u] \in {"push", "count"}
      PROVE  rcNode'[u] \notin Elems(rcStack')
  <2>1. CASE u = t
    <3>1. CASE Rc!Pop(t)
      <4>1. rcPc'[t] = "count" /\ rcNode'[t] = rcNode[t]
        BY <1>0, <3>1 DEF Rc!Pop, Rc!Goto, RcTyped
      <4>. QED
        BY <2>1, <3>1, <4>1, RcStackStep
    <3>2. CASE ~Rc!Pop(t)
      <4>1. rcPc'[t] = "push"
        BY <1>4, <2>1, <3>2, RcOwns
      <4>2. ~Rc!Push(t)
        BY <1>0, <4>1 DEF Rc!Push, Rc!Goto, RcTyped
      <4>3. rcStack' = rcStack
        BY <3>2, <4>2, RcStackStep
      <4>4. rcNode'[t] \notin rcHeap \/ (rcPc[t] = "push" /\ rcNode'[t] = rcNode[t])
        BY <1>4, <2>1, <3>2, RcOwns
      <4>. QED
        BY <1>0, <1>3, <2>1, <4>3, <4>4 DEF RcPlaced
    <3>. QED
      BY <3>1, <3>2
  <2>2. CASE u # t
    <3>1. rcPc[u] \in {"push", "count"} /\ rcNode'[u] = rcNode[u]
      BY <1>4, <2>2, RcAlone
    <3>2. CASE Rc!Push(t)
      <4>1. rcPc[t] = "push"
        BY <3>2 DEF Rc!Push, Rc!Goto
      <4>2. rcNode[u] # rcNode[t]
        BY <1>0, <2>2, <3>1, <4>1 DEF RcPlaced
      <4>. QED
        BY <1>3, <3>1, <3>2, <4>2, RcStackStep
    <3>3. CASE Rc!Pop(t)
      BY <1>3, <3>1, <3>3, RcStackStep
    <3>4. CASE ~Rc!Push(t) /\ ~Rc!Pop(t)
      BY <1>3, <3>1, <3>4, RcStackStep
    <3>. QED
      BY <3>2, <3>3, <3>4
  <2>. QED
    BY <2>1, <2>2
<1>5. ASSUME NEW w \in Threads, w # t, rcPc'[t] \in {"push", "count"},
             rcPc'[w] \in {"push", "count"}
      PROVE  rcNode'[w] # rcNode'[t]
  <2>1. rcPc[w] \in {"push", "count"} /\ rcNode'[w] = rcNode[w]
    BY <1>5, RcAlone
  <2>2. \/ rcNode'[t] \notin rcHeap
        \/ rcPc[t] = "push" /\ rcNode' = rcNode
        \/ Rc!Pop(t) /\ rcNode'[t] = rcNode[t]
    BY <1>5, RcOwns
  <2>3. CASE rcPc[t] = "push" /\ rcNode' = rcNode
    BY <1>0, <1>5, <2>1, <2>3 DEF RcPlaced
  <2>4. CASE Rc!Pop(t) /\ rcNode'[t] = rcNode[t]
    BY <1>3, <2>1, <2>4, RcStackStep
  <2>. QED
    BY <1>3, <2>1, <2>2, <2>3, <2>4
<1>6. ASSUME NEW u \in Threads, NEW w \in Threads, rcPc'[u] \in {"push", "count"},
             rcPc'[w] \in {"push", "count"}, rcNode'[w] = rcNode'[u]
      PROVE  w = u
  <2>1. CASE u = t \/ w = t
    BY <1>5, <1>6, <2>1
  <2>2. CASE u # t /\ w # t
    <3>1. /\ rcPc[u] \in {"push", "count"} /\ rcPc[w] \in {"push", "count"}
          /\ rcNode[w] = rcNode[u]
      BY <1>6, <2>2, RcAlone
    <3>. QED
      BY <1>0, <3>1 DEF RcPlaced
  <2>. QED
    BY <2>1, <2>2
<1>7. ASSUME NEW u \in Threads, rcPc'[u] = "push"
      PROVE  rcInternal'[rcNode'[u]] = 0 /\ Rc!Holders(rcNode[u])' = {}
  <2>1. PICK n \in OtherNodes : n = rcNode'[u] /\ n # Null
    BY <1>7, RcInStepStep, RcTypedStep DEF RcInStep, RcTyped, Rc!TypeOK
  <2>2. ASSUME n \notin rcHeap PROVE Rc!Holders(n) = {}
    <3>1. \A w \in Threads : rcPc[w] \in {"next", "pop", "release"} => rcNode[w] \in rcHeap
      BY RcTop
    <3>. QED
      BY <2>2, <3>1 DEF Rc!Holders
  <2>3. /\ rcPc'[u] = "push"
        /\ \/ n \notin rcHeap
           \/ rcPc[u] = "push" /\ n = rcNode[u]
    BY <1>7, <2>1, RcOwns, RcAlone
  <2>4. Rc!Holders(n) = {} /\ n \notin Elems(rcStack)
    BY <1>0, <2>2, <2>3 DEF RcPlaced
  <2>5. Rc!Holders(n)' = {}
    <3>1. t \notin Rc!Holders(n)'
      BY <2>1, <2>4, RcHolds
    <3>. QED
      BY <2>4, <3>1, RcHolders
  <2>6. rcInternal'[n] = 0
    <3>1. CASE u = t
      <4>1. rcInternal'[n] = 0 \/ (rcPc[t] = "push" /\ n = rcNode[t] /\ rcInternal' = rcInternal)
        BY <1>7, <2>1, <3>1, RcOwns
      <4>. QED
        BY <1>0, <4>1 DEF RcPlaced
    <3>2. CASE u # t
      <4>1. rcPc[u] = "push" /\ n = rcNode[u] /\ n \in rcHeap
        BY <1>7, <2>1, <3>2, RcAlone, RcTop
      <4>2. ~(rcNode[t] = n /\ rcPc[t] = "count")
        BY <1>0, <3>2, <4>1 DEF RcPlaced
      <4>3. ~(rcNode[t] = n /\ rcPc[t] = "release")
        BY <2>4 DEF Rc!Holders
      <4>4. rcInternal'[n] = rcInternal[n]
        BY <4>1, <4>2, <4>3, RcChanges
      <4>. QED
        BY <1>0, <4>1, <4>4 DEF RcPlaced
    <3>. QED
      BY <3>1, <3>2
  <2>. QED
    BY <2>1, <2>5, <2>6 DEF Rc!Holders
<1>. QED
  BY <1>1, <1>2, <1>4, <1>6, <1>7 DEF RcPlaced

\* The links of the nodes that stay on the stack stay, and so does what a
\* holder has read.
LEMMA RcNextStays ==
  ASSUME RcInv, NEW t \in Threads, RcStep(t), NEW n \in rcHeap,
         \/ n \in Elems(rcStack)
         \/ \E u \in Threads \ {t} : rcPc[u] = "pop" /\ rcNode[u] = n
  PROVE  rcNext'[n] = rcNext[n]
<1>0. RcTyped /\ RcInStep /\ RcPlaced
  BY DEF RcInv
<1>1. n \in rcHeap'
  BY RcDeletion
<1>2. ~(rcPc[t] = "push" /\ rcNode[t] = n)
  <2>1. SUFFICES ASSUME rcPc[t] = "push", rcNode[t] = n PROVE FALSE
    OBVIOUS
  <2>2. n \notin Elems(rcStack) /\ Rc!Holders(n) = {}
    BY <1>0, <2>1 DEF RcPlaced
  <2>. QED
    BY <2>2 DEF Rc!Holders
<1>. QED
  BY <1>1, <1>2, RcChanges

\* Each operation keeps the stack linked.
LEMMA RcLinkedStep ==
  ASSUME RcInv, NEW t \in Threads, RcStep(t)
  PROVE  RcLinked'
<1> DEFINE f == [n \in OtherNodes |-> rcNext[n].ptr]
<1> USE DEF RcTyped, Rc!TypeOK, Rc!Goto, Rc!list, Rc!locals, RcInStep
<1>0. RcTyped /\ RcInStep /\ RcPlaced /\ RcLinked
  BY DEF RcInv
<1>1. Follows(rcHead.ptr, rcStack, f)
  BY <1>0 DEF RcLinked
<1>2. Follows(rcHead'.ptr, rcStack', f')
  <2>1. CASE Rc!Push(t)
    <3>1. /\ rcHead = rcNext[rcNode[t]] /\ rcHead'.ptr = rcNode[t] /\ rcNext' = rcNext
          /\ rcStack' = <<rcNode[t]>> \o rcStack
      BY <2>1 DEF Rc!Push
    <3>2. rcNode[t] \in OtherNodes /\ rcNode[t] \notin Elems(rcStack)
      BY <1>0, <2>1, RcTop DEF Rc!Push, RcPlaced
    <3>3. f' = f /\ f[rcNode[t]] = rcHead.ptr
      BY <3>1, <3>2
    <3>4. rcStack \in Seq(OtherNodes)
      BY <1>0
    <3> HIDE DEF f
    <3>. QED
      BY <1>1, <3>1, <3>2, <3>3, <3>4, Pushed
  <2>2. CASE Rc!Pop(t)
    <3>1. /\ rcPc[t] = "pop" /\ rcHead' = rcSeen[t] /\ rcNext' = rcNext
      BY <2>2 DEF Rc!Pop
    <3>2. rcHead' = rcNext[rcNode[t]]
      BY <1>0, <3>1 DEF RcLinked
    <3>3. rcStack # <<>> /\ rcStack' = Tail(rcStack) /\ rcNode[t] = rcStack[1]
      BY <2>2, RcStackStep
    <3>4. rcStack \in Seq(OtherNodes) /\ rcStack[1] \in OtherNodes
      BY <1>0, <3>3
    <3>5. f' = f /\ f[rcNode[t]] = rcHead'.ptr
      BY <3>1, <3>2, <3>3, <3>4
    <3> HIDE DEF f
    <3>6. rcHead.ptr = rcStack[1] /\ Follows(f[rcHead.ptr], Tail(rcStack), f)
      BY <1>1, <3>3, <3>4, Popped
    <3>. QED
      BY <3>3, <3>5, <3>6
  <2>3. CASE ~Rc!Push(t) /\ ~Rc!Pop(t)
    <3>1. rcStack' = rcStack
      BY <2>3, RcStackStep
    <3>2. rcHead'.ptr = rcHead.ptr
      <4>1. CASE Rc!Increase(t)
        BY <4>1, RcRaise
      <4>2. CASE ~Rc!Increase(t)
        <5>1. rcHead' = rcHead
          BY <2>3, <4>2 DEF RcStep, Rc!PushCall, Rc!PushFails, Rc!PopCall, Rc!IncreaseFails,
                            Rc!ReadNext, Rc!PopFails, Rc!Count, Rc!Release, Rc!Return
        <5>. QED
          BY <5>1
      <4>. QED
        BY <4>1, <4>2
    <3>3. \A n \in Elems(rcStack) : n \in OtherNodes /\ n \in rcHeap
      BY <1>0, RcTop
    <3>4. \A n \in Elems(rcStack) : f[n] = f'[n]
      BY <3>3, RcNextStays
    <3> HIDE DEF f
    <3>. QED
      BY <1>1, <3>1, <3>2, <3>4, ListStays
  <2>. QED
    BY <2>1, <2>2, <2>3
<1>3. ASSUME NEW u \in Threads, rcPc'[u] = "pop" PROVE rcSeen'[u] = rcNext'[rcNode'[u]]
  <2>1. CASE u = t
    <3>1. CASE Rc!ReadNext(t)
      BY <1>0, <2>1, <3>1 DEF Rc!ReadNext
    <3>2. CASE ~Rc!ReadNext(t)
      BY <1>0, <1>3, <2>1, <3>2
         DEF RcStep, Rc!PushCall, Rc!PushFails, Rc!Push, Rc!PopCall, Rc!IncreaseFails,
             Rc!Increase, Rc!Pop, Rc!PopFails, Rc!Count, Rc!Release, Rc!Return
    <3>. QED
      BY <3>1, <3>2
  <2>2. CASE u # t
    <3>1. rcPc[u] = "pop" /\ rcNode'[u] = rcNode[u] /\ rcSeen'[u] = rcSeen[u]
      BY <1>3, <2>2, RcAlone
    <3>2. PICK n : n = rcNode[u]
      OBVIOUS
    <3>3. n \in rcHeap
      BY <3>1, <3>2, RcTop
    <3>4. rcNext'[n] = rcNext[n]
      BY <2>2, <3>1, <3>2, <3>3, RcNextStays
    <3>. QED
      BY <1>0, <3>1, <3>2, <3>4 DEF RcLinked
  <2>. QED
    BY <2>1, <2>2
<1>. QED
  BY <1>2, <1>3 DEF RcLinked

\* The counts of a node change only when a thread begins or ceases to hold it.
LEMMA RcQuiet ==
  ASSUME RcInv, NEW t \in Threads, RcStep(t), NEW n \in rcHeap,
         rcPc[t] = "increase" => n # rcHead.ptr,
         rcPc[t] \in {"count", "release"} \/ rcPc'[t] = "count" => n # rcNode[t]
  PROVE  rcInternal'[n] = rcInternal[n] /\ Rc!Holders(n)' = Rc!Holders(n)
<1>1. n \in OtherNodes
  BY DEF RcInv, RcTyped, Rc!TypeOK
<1>2. t \in Rc!Holders(n) <=> t \in Rc!Holders(n)'
  BY <1>1, RcHolds
<1>. QED
  BY <1>2, RcChanges, RcHolders

\* Letting go of a node, as one of its holders or as the one who popped it.
LEMMA RcLetGo ==
  ASSUME RcInv, NEW t \in Threads, RcStep(t), NEW n \in OtherNodes, rcNode[t] = n
  PROVE  /\ Rc!Release(t) =>
              /\ rcInternal'[n] = rcInternal[n] - 1
              /\ Cardinality(Rc!Holders(n)') = Cardinality(Rc!Holders(n)) - 1
              /\ n \in rcHeap' => rcInternal'[n] # 0
         /\ Rc!Pop(t) =>
              /\ rcInternal'[n] = rcInternal[n]
              /\ Cardinality(Rc!Holders(n)') = Cardinality(Rc!Holders(n)) - 1
         /\ Rc!Count(t) =>
              /\ rcInternal'[n] = rcInternal[n] + (rcOld[t].count - 2)
              /\ Rc!Holders(n)' = Rc!Holders(n)
              /\ n \in rcHeap' => rcInternal'[n] # 0
<1> USE DEF RcTyped, Rc!TypeOK, Rc!Goto, Rc!list, Rc!locals
<1>0. RcTyped /\ Null \notin OtherNodes
  BY RcTop DEF RcInv
<1>1. ASSUME Rc!Release(t)
      PROVE  /\ rcInternal'[n] = rcInternal[n] - 1
             /\ Cardinality(Rc!Holders(n)') = Cardinality(Rc!Holders(n)) - 1
             /\ n \in rcHeap' => rcInternal'[n] # 0
  <2>1. Rc!Account(n, -1) /\ rcPc[t] = "release" /\ rcPc'[t] = "increase" /\ -1 \in Int
    BY <1>0, <1>1 DEF Rc!Release
  <2>2. /\ rcInternal' = [rcInternal EXCEPT ![n] = rcInternal[n] + -1]
        /\ \/ rcHeap' = rcHeap \ {n}
           \/ rcInternal[n] + -1 # 0
    BY <1>0, <2>1, RcAccount
  <2>3. rcInternal[n] \in Int /\ rcInternal'[n] = rcInternal[n] - 1
    BY <1>0, <2>2
  <2>4. Cardinality(Rc!Holders(n)') = Cardinality(Rc!Holders(n)) - 1
    BY <2>1, RcHolders
  <2>. QED
    BY <2>2, <2>3, <2>4
<1>2. ASSUME Rc!Pop(t)
      PROVE  /\ rcInternal'[n] = rcInternal[n]
             /\ Cardinality(Rc!Holders(n)') = Cardinality(Rc!Holders(n)) - 1
  <2>1. rcPc[t] = "pop" /\ rcPc'[t] = "count" /\ rcInternal' = rcInternal
    BY <1>0, <1>2 DEF Rc!Pop
  <2>. QED
    BY <2>1, RcHolders
<1>3. ASSUME Rc!Count(t)
      PROVE  /\ rcInternal'[n] = rcInternal[n] + (rcOld[t].count - 2)
             /\ Rc!Holders(n)' = Rc!Holders(n)
             /\ n \in rcHeap' => rcInternal'[n] # 0
  <2>1. /\ Rc!Account(n, rcOld[t].count - 2) /\ rcPc[t] = "count" /\ rcPc'[t] = "return"
        /\ rcOld[t].count - 2 \in Int
    BY <1>0, <1>3 DEF Rc!Count, Rc!Counted
  <2>2. /\ rcInternal' = [rcInternal EXCEPT ![n] = rcInternal[n] + (rcOld[t].count - 2)]
        /\ \/ rcHeap' = rcHeap \ {n}
           \/ rcInternal[n] + (rcOld[t].count - 2) # 0
    BY <1>0, <2>1, RcAccount
  <2>3. rcInternal'[n] = rcInternal[n] + (rcOld[t].count - 2)
    BY <1>0, <2>2
  <2>4. Rc!Holders(n)' = Rc!Holders(n)
    BY <2>1, RcHolders
  <2>. QED
    BY <2>2, <2>3, <2>4
<1>. QED
  BY <1>1, <1>2, <1>3

\* The links of the stack after a step, those of _head and of its nodes.
LEMMA RcLinkStep ==
  ASSUME RcInv, NEW t \in Threads, RcStep(t)
  PROVE  /\ Rc!Push(t) =>
              /\ Rc!LinkTo(1)' = [count |-> 1, ptr |-> rcNode[t]]
              /\ \A i \in 1 .. Len(rcStack) : Rc!LinkTo(i + 1)' = Rc!LinkTo(i)
         /\ Rc!Pop(t) =>
              \A i \in 1 .. Len(rcStack) - 1 : Rc!LinkTo(i)' = Rc!LinkTo(i + 1)
         /\ ~Rc!Push(t) /\ ~Rc!Pop(t) =>
              /\ Rc!LinkTo(1)' = rcHead'
              /\ \A i \in 2 .. Len(rcStack) : Rc!LinkTo(i)' = Rc!LinkTo(i)
<1> USE DEF RcTyped, Rc!TypeOK, Rc!Goto, Rc!list, Rc!locals
<1>0. RcTyped /\ RcInStep /\ RcPlaced /\ RcLinked /\ Len(rcStack) \in Nat
  BY DEF RcInv
<1>1. ASSUME Rc!Push(t)
      PROVE  /\ Rc!LinkTo(1)' = [count |-> 1, ptr |-> rcNode[t]]
             /\ \A i \in 1 .. Len(rcStack) : Rc!LinkTo(i + 1)' = Rc!LinkTo(i)
  <2>1. /\ rcHead' = [count |-> 1, ptr |-> rcNode[t]] /\ rcHead = rcNext[rcNode[t]]
        /\ rcNext' = rcNext /\ rcStack' = <<rcNode[t]>> \o rcStack
    BY <1>1 DEF Rc!Push
  <2>2. rcNode[t] \in OtherNodes
    BY <1>1, RcTop DEF Rc!Push
  <2>3. rcStack'[1] = rcNode[t] /\ \A j \in 1 .. Len(rcStack) : rcStack'[j + 1] = rcStack[j]
    BY <1>0, <2>1, <2>2
  <2>4. ASSUME NEW i \in 1 .. Len(rcStack) PROVE Rc!LinkTo(i + 1)' = Rc!LinkTo(i)
    <3>1. Rc!LinkTo(i + 1)' = rcNext'[rcStack'[i]]
      BY DEF Rc!LinkTo
    <3>2. CASE i = 1
      BY <2>1, <2>3, <3>1, <3>2 DEF Rc!LinkTo
    <3>3. CASE i # 1
      <4>1. i - 1 \in 1 .. Len(rcStack) /\ (i - 1) + 1 = i
        BY <1>0, <3>3
      <4>2. rcStack'[i] = rcStack[i - 1]
        BY <2>3, <4>1
      <4>. QED
        BY <2>1, <3>1, <3>3, <4>2 DEF Rc!LinkTo
    <3>. QED
      BY <3>2, <3>3
  <2>. QED
    BY <2>1, <2>4 DEF Rc!LinkTo
<1>2. ASSUME Rc!Pop(t), NEW i \in 1 .. Len(rcStack) - 1
      PROVE  Rc!LinkTo(i)' = Rc!LinkTo(i + 1)
  <2>1. rcHead' = rcNext[rcNode[t]] /\ rcNext' = rcNext
    BY <1>0, <1>2 DEF Rc!Pop, RcLinked
  <2>2. /\ rcStack # <<>> /\ rcStack' = Tail(rcStack) /\ rcNode[t] = rcStack[1]
    BY <1>2, RcStackStep
  <2>3. \A j \in 1 .. Len(rcStack) - 1 : rcStack'[j] = rcStack[j + 1]
    <3>1. rcStack \in Seq(OtherNodes)
      BY <1>0
    <3>. QED
      BY <2>2, <3>1, HeadTailProperties
  <2>4. Rc!LinkTo(i + 1) = rcNext[rcStack[i]]
    BY DEF Rc!LinkTo
  <2>5. CASE i = 1
    BY <2>1, <2>2, <2>4, <2>5 DEF Rc!LinkTo
  <2>6. CASE i # 1
    <3>1. i - 1 \in 1 .. Len(rcStack) - 1 /\ (i - 1) + 1 = i
      BY <1>0, <2>6
    <3>2. rcStack'[i - 1] = rcStack[i]
      BY <2>3, <3>1
    <3>. QED
      BY <2>1, <2>4, <2>6, <3>2 DEF Rc!LinkTo
  <2>. QED
    BY <2>5, <2>6
<1>3. ASSUME ~Rc!Push(t), ~Rc!Pop(t)
      PROVE  /\ Rc!LinkTo(1)' = rcHead'
             /\ \A i \in 2 .. Len(rcStack) : Rc!LinkTo(i)' = Rc!LinkTo(i)
  <2>1. rcStack' = rcStack
    BY <1>3, RcStackStep
  <2>2. ASSUME NEW i \in 2 .. Len(rcStack) PROVE Rc!LinkTo(i)' = Rc!LinkTo(i)
    <3>1. PICK n : n = rcStack[i - 1]
      OBVIOUS
    <3>2. i - 1 \in 1 .. Len(rcStack)
      BY <1>0
    <3>3. n \in Elems(rcStack) /\ n \in rcHeap
      BY <3>1, <3>2, RcTop DEF Elems
    <3>4. rcNext'[n] = rcNext[n]
      BY <3>3, RcNextStays
    <3>. QED
      BY <2>1, <3>1, <3>4 DEF Rc!LinkTo
  <2>. QED
    BY <2>2 DEF Rc!LinkTo
<1>. QED
  BY <1>1, <1>2, <1>3


\* The counts of the nodes on the stack add up after each operation.
LEMMA RcStackCounts ==
  ASSUME RcInv, NEW t \in Threads, RcStep(t), NEW i \in 1 .. Len(rcStack')
  PROVE  /\ Rc!LinkTo(i)'.count - 1 + rcInternal'[rcStack'[i]]
              = Cardinality(Rc!Holders(rcStack[i])')
         /\ rcInternal'[rcStack'[i]] <= 0
<1> USE DEF RcTyped, Rc!TypeOK, Rc!Goto, Rc!list, Rc!locals
<1>0. RcTyped /\ RcInStep /\ RcPlaced /\ RcCounts /\ Len(rcStack) \in Nat
  BY DEF RcInv
<1>1. PICK n : n = rcStack'[i]
  OBVIOUS
<1>2. PICK H : H = Rc!Holders(n)'
  OBVIOUS
<1>3. H = Rc!Holders(rcStack[i])'
  BY <1>1, <1>2 DEF Rc!Holders
<1>4. SUFFICES /\ Rc!LinkTo(i)'.count - 1 + rcInternal'[n] = Cardinality(H)
               /\ rcInternal'[n] <= 0
  BY <1>1, <1>3
<1>5. \A j \in 1 .. Len(rcStack) :
        /\ rcStack[j] \in OtherNodes /\ rcStack[j] \in rcHeap
        /\ rcStack[j] \in Elems(rcStack)
        /\ Rc!LinkTo(j).count - 1 + rcInternal[rcStack[j]] = Cardinality(Rc!Holders(rcStack[j]))
        /\ rcInternal[rcStack[j]] <= 0
  BY <1>0, RcTop DEF RcCounts, Elems
<1>6. CASE Rc!Push(t)
  <2>1. /\ rcPc[t] = "push" /\ rcPc'[t] = "return" /\ rcNode[t] \in OtherNodes
        /\ rcInternal' = rcInternal
    BY <1>0, <1>6, RcTop DEF Rc!Push
  <2>2. rcStack' = <<rcNode[t]>> \o rcStack
    BY <1>6, RcStackStep
  <2>3. /\ rcStack'[1] = rcNode[t] /\ Len(rcStack') = Len(rcStack) + 1
        /\ \A j \in 1 .. Len(rcStack) : rcStack'[j + 1] = rcStack[j]
    BY <1>0, <2>1, <2>2
  <2>4. \A m \in rcHeap : Rc!Holders(m)' = Rc!Holders(m)
    BY <2>1, RcQuiet
  <2>5. CASE i = 1
    <3>1. n = rcNode[t] /\ n \in rcHeap /\ rcInternal[n] = 0 /\ Rc!Holders(n) = {}
      BY <1>0, <1>1, <2>1, <2>3, <2>5, RcTop DEF RcPlaced
    <3>2. Rc!LinkTo(i)' = [count |-> 1, ptr |-> rcNode[t]]
      BY <1>6, <2>5, RcLinkStep
    <3>3. Cardinality(H) = 0
      BY <1>2, <2>4, <3>1, FS_EmptySet
    <3>. QED
      BY <2>1, <3>1, <3>2, <3>3
  <2>6. CASE i # 1
    <3>1. PICK j \in 1 .. Len(rcStack) : i = j + 1
      <4>1. i - 1 \in 1 .. Len(rcStack) /\ i = (i - 1) + 1
        BY <1>0, <2>3, <2>6
      <4>. QED
        BY <4>1
    <3>2. n = rcStack[j] /\ Rc!LinkTo(i)' = Rc!LinkTo(j)
      BY <1>1, <1>6, <2>3, <3>1, RcLinkStep
    <3>3. H = Rc!Holders(n)
      BY <1>2, <1>5, <2>4, <3>2
    <3>. QED
      BY <1>5, <2>1, <3>2, <3>3
  <2>. QED
    BY <2>5, <2>6
<1>7. CASE Rc!Pop(t)
  <2>1. rcStack # <<>> /\ rcStack' = Tail(rcStack) /\ rcNode[t] = rcStack[1]
    BY <1>7, RcStackStep
  <2>2. Len(rcStack') = Len(rcStack) - 1
      /\ \A j \in 1 .. Len(rcStack') : rcStack'[j] = rcStack[j + 1]
    <3>1. rcStack \in Seq(OtherNodes)
      BY <1>0
    <3>. QED
      BY <2>1, <3>1, HeadTailProperties
  <2>3. /\ n = rcStack[i + 1] /\ i + 1 \in 1 .. Len(rcStack) /\ i \in 1 .. Len(rcStack) - 1
        /\ 1 \in 1 .. Len(rcStack)
    BY <1>0, <1>1, <2>2
  <2>4. n # rcNode[t]
    BY <1>0, <2>1, <2>3 DEF RcPlaced, Once
  <2>5. rcPc[t] = "pop" /\ n \in rcHeap
    BY <1>5, <1>7, <2>3 DEF Rc!Pop
  <2>6. rcInternal'[n] = rcInternal[n] /\ H = Rc!Holders(n)
    BY <1>2, <2>4, <2>5, RcQuiet
  <2>7. Rc!LinkTo(i)' = Rc!LinkTo(i + 1)
    BY <1>7, <2>3, RcLinkStep
  <2>. QED
    BY <1>5, <2>3, <2>6, <2>7
<1>8. CASE ~Rc!Push(t) /\ ~Rc!Pop(t)
  <2>1. rcStack' = rcStack
    BY <1>8, RcStackStep
  <2>2. i \in 1 .. Len(rcStack) /\ n = rcStack[i] /\ n \in OtherNodes /\ n \in rcHeap
    BY <1>1, <1>5, <2>1
  <2>3. PICK c, b : c = Rc!LinkTo(i).count /\ b = rcInternal[n]
    OBVIOUS
  <2>4. /\ c - 1 + b = Cardinality(Rc!Holders(n)) /\ b <= 0 /\ b \in Int
        /\ Cardinality(Rc!Holders(n)) \in Nat
    BY <1>0, <1>5, <2>2, <2>3, RcHolders
  <2>5. c \in Nat
    <3>1. Rc!LinkTo(i) \in Rc!Counted
      <4>1. CASE i = 1
        BY <1>0, <4>1 DEF Rc!LinkTo
      <4>2. CASE i # 1
        <5>1. i - 1 \in 1 .. Len(rcStack)
          BY <1>0, <2>2, <4>2
        <5>. QED
          BY <1>0, <1>5, <4>2, <5>1 DEF Rc!LinkTo
      <4>. QED
        BY <4>1, <4>2
    <3>. QED
      BY <2>3, <3>1 DEF Rc!Counted
  <2>6. rcPc[t] # "increase" => Rc!LinkTo(i)' = Rc!LinkTo(i)
    <3>1. CASE i = 1
      <4>1. rcPc[t] # "increase" => rcHead' = rcHead
        BY <1>8 DEF RcStep, Rc!PushCall, Rc!PushFails, Rc!PopCall, Rc!IncreaseFails,
                    Rc!Increase, Rc!ReadNext, Rc!PopFails, Rc!Count, Rc!Release, Rc!Return
      <4>. QED
        BY <1>8, <3>1, <4>1, RcLinkStep DEF Rc!LinkTo
    <3>2. CASE i # 1
      <4>1. i \in 2 .. Len(rcStack)
        BY <2>2, <3>2
      <4>. QED
        BY <1>8, <4>1, RcLinkStep
    <3>. QED
      BY <3>1, <3>2
  <2>7. CASE Rc!Increase(t)
    <3>1. rcPc[t] = "increase" /\ rcInternal' = rcInternal /\ rcHead.ptr = rcStack[1]
          /\ rcHead.ptr # Null
      BY <2>2, <2>7, RcTop DEF Rc!Increase
    <3>2. CASE i = 1
      <4>1. Rc!LinkTo(i)'.count = c + 1
        BY <1>8, <2>3, <2>5, <2>7, <3>2, RcRaise, RcLinkStep DEF Rc!LinkTo
      <4>2. /\ n = rcHead.ptr /\ rcPc'[t] = "next" /\ rcNode'[t] = n
        BY <1>0, <2>2, <2>7, <3>1, <3>2 DEF Rc!Increase
      <4>3. Cardinality(H) = Cardinality(Rc!Holders(n)) + 1
        <5>1. rcPc[t] \notin {"next", "pop", "release"} /\ rcPc'[t] \in {"next", "pop", "release"}
          BY <3>1, <4>2
        <5>. QED
          BY <1>2, <4>2, <5>1, RcHolders
      <4>. QED
        BY <2>3, <2>4, <2>5, <3>1, <4>1, <4>3, SMTT(30)
    <3>3. CASE i # 1
      <4>1. n # rcHead.ptr
        <5>1. 1 \in 1 .. Len(rcStack)
          BY <1>0, <2>2
        <5>. QED
          BY <1>0, <2>2, <3>1, <3>3, <5>1 DEF RcPlaced, Once
      <4>2. rcPc'[t] # "count"
        BY <1>0, <2>7 DEF Rc!Increase
      <4>3. rcInternal'[n] = b /\ H = Rc!Holders(n)
        BY <1>2, <2>2, <2>3, <3>1, <4>1, <4>2, RcQuiet
      <4>4. Rc!LinkTo(i)' = Rc!LinkTo(i)
        <5>1. i \in 2 .. Len(rcStack)
          BY <2>2, <3>3
        <5>. QED
          BY <1>8, <5>1, RcLinkStep
      <4>. QED
        BY <2>3, <2>4, <4>3, <4>4
    <3>. QED
      BY <3>2, <3>3
  <2>8. CASE Rc!Release(t) /\ rcNode[t] = n
    <3>1. rcPc[t] # "increase"
      BY <2>8 DEF Rc!Release
    <3>2. rcInternal'[n] = b - 1 /\ Cardinality(H) = Cardinality(Rc!Holders(n)) - 1
      BY <1>2, <2>2, <2>3, <2>8, RcLetGo
    <3>. QED
      BY <2>3, <2>4, <2>5, <2>6, <3>1, <3>2, SMTT(30)
  <2>9. CASE Rc!IncreaseFails(t)
    <3>1. rcInternal' = rcInternal /\ rcHead' = rcHead /\ rcPc[t] = "increase"
          /\ rcPc'[t] = "increase"
      BY <1>0, <2>9 DEF Rc!IncreaseFails
    <3>2. H = Rc!Holders(n)
      <4>1. rcPc[t] \notin {"next", "pop", "release"} /\ rcPc'[t] \notin {"next", "pop", "release"}
        BY <3>1
      <4>. QED
        BY <1>2, <4>1, RcHolders
    <3>3. Rc!LinkTo(i)' = Rc!LinkTo(i)
      <4>1. i = 1 \/ i \in 2 .. Len(rcStack)
        BY <2>2
      <4>. QED
        BY <1>8, <3>1, <4>1, RcLinkStep DEF Rc!LinkTo
    <3>. QED
      BY <2>3, <2>4, <3>1, <3>2, <3>3
  <2>10. CASE ~Rc!Increase(t) /\ ~Rc!IncreaseFails(t) /\ (Rc!Release(t) => rcNode[t] # n)
    <3>1. rcPc[t] # "increase" /\ rcPc'[t] # "count"
      BY <1>0, <1>8, <2>10
         DEF RcStep, Rc!PushCall, Rc!PushFails, Rc!PopCall, Rc!ReadNext, Rc!PopFails,
             Rc!Count, Rc!Release, Rc!Return
    <3>2. n # rcNode[t] \/ rcPc[t] \notin {"count", "release"}
      <4>1. rcPc[t] = "release" => Rc!Release(t)
        BY <1>8, <2>10
           DEF RcStep, Rc!PushCall, Rc!PushFails, Rc!PopCall, Rc!ReadNext, Rc!PopFails,
               Rc!Count, Rc!Return
      <4>2. rcPc[t] = "count" => rcNode[t] # n
        BY <1>0, <1>5, <2>2 DEF RcPlaced
      <4>. QED
        BY <2>10, <4>1, <4>2
    <3>3. rcInternal'[n] = b /\ H = Rc!Holders(n)
      BY <1>2, <2>2, <2>3, <3>1, <3>2, RcQuiet
    <3>. QED
      BY <2>3, <2>4, <2>6, <3>1, <3>3
  <2>. QED
    BY <2>7, <2>8, <2>9, <2>10
<1>. QED
  BY <1>6, <1>7, <1>8

\* The counts of the nodes that have been popped.
LEMMA RcPoppedCounts ==
  ASSUME RcInv, NEW t \in Threads, RcStep(t), NEW u \in Threads, rcPc'[u] = "count"
  PROVE  /\ rcOld'[u].count - 2 + rcInternal'[rcNode'[u]] = Cardinality(Rc!Holders(rcNode[u])')
         /\ rcInternal'[rcNode'[u]] <= 0
<1> USE DEF RcTyped, Rc!TypeOK, Rc!Goto, Rc!list, Rc!locals
<1>0. RcTyped /\ RcInStep /\ RcPlaced /\ RcCounts
  BY DEF RcInv
<1>1. PICK n : n = rcNode'[u]
  OBVIOUS
<1>2. PICK H : H = Rc!Holders(n)'
  OBVIOUS
<1>3. H = Rc!Holders(rcNode[u])'
  BY <1>1, <1>2 DEF Rc!Holders
<1>4. SUFFICES /\ rcOld'[u].count - 2 + rcInternal'[n] = Cardinality(H)
               /\ rcInternal'[n] <= 0
  BY <1>1, <1>3
<1>5. CASE u = t
  <2>1. Rc!Pop(t) /\ rcNode'[t] = rcNode[t]
    BY <1>0, <1>5, RcOwns
  <2>2. rcPc[t] = "pop" /\ rcHead = rcOld[t] /\ rcOld' = rcOld
    BY <2>1 DEF Rc!Pop
  <2>3. rcStack # <<>> /\ n = rcStack[1] /\ n \in OtherNodes /\ n = rcNode[t]
    BY <1>1, <1>5, <2>1, <2>2, RcStackStep, RcTop
  <2>4. 1 \in 1 .. Len(rcStack)
    BY <1>0, <2>3
  <2>5. /\ rcHead.count - 1 + rcInternal[n] = Cardinality(Rc!Holders(n))
        /\ rcInternal[n] <= 0 /\ rcInternal[n] \in Int /\ rcHead.count \in Nat
    BY <1>0, <2>3, <2>4, RcTop DEF RcCounts, Rc!LinkTo
  <2>6. rcInternal'[n] = rcInternal[n] /\ Cardinality(H) = Cardinality(Rc!Holders(n)) - 1
    BY <1>2, <2>1, <2>3, RcLetGo
  <2>. QED
    BY <1>5, <2>2, <2>5, <2>6
<1>6. CASE u # t
  <2>1. rcPc[u] = "count" /\ rcNode[u] = n /\ rcOld'[u] = rcOld[u]
    BY <1>1, <1>6, RcAlone
  <2>2. n \in OtherNodes /\ n \in rcHeap /\ n \notin Elems(rcStack)
    BY <1>0, <2>1, RcTop DEF RcPlaced
  <2>3. /\ rcOld[u].count - 2 + rcInternal[n] = Cardinality(Rc!Holders(n))
        /\ rcInternal[n] <= 0 /\ rcInternal[n] \in Int /\ rcOld[u].count \in Nat
    BY <1>0, <2>1, <2>2 DEF RcCounts, Rc!Counted
  <2>4. CASE Rc!Release(t) /\ rcNode[t] = n
    <3>1. /\ rcInternal'[n] = rcInternal[n] - 1
          /\ Cardinality(H) = Cardinality(Rc!Holders(n)) - 1
      BY <1>2, <2>2, <2>4, RcLetGo
    <3>. QED
      BY <2>1, <2>3, <3>1
  <2>5. CASE ~(Rc!Release(t) /\ rcNode[t] = n)
    <3>1. n # rcHead.ptr
      BY <2>2, RcTop
    <3>2. rcPc[t] \in {"count", "release"} => n # rcNode[t]
      <4>1. rcPc[t] = "release" => Rc!Release(t)
        BY DEF RcStep, Rc!PushCall, Rc!PushFails, Rc!Push, Rc!PopCall, Rc!IncreaseFails,
               Rc!Increase, Rc!ReadNext, Rc!Pop, Rc!PopFails, Rc!Count, Rc!Return
      <4>2. rcPc[t] = "count" => rcNode[t] # n
        BY <1>0, <1>6, <2>1 DEF RcPlaced
      <4>. QED
        BY <2>5, <4>1, <4>2
    <3>3. rcPc'[t] = "count" => n # rcNode[t]
      <4>1. rcPc'[t] = "count" => rcNode[t] \in Elems(rcStack)
        BY <1>0, RcOwns, RcStackStep
      <4>. QED
        BY <2>2, <4>1
    <3>4. rcInternal'[n] = rcInternal[n] /\ H = Rc!Holders(n)
      BY <1>2, <2>2, <3>1, <3>2, <3>3, RcQuiet
    <3>. QED
      BY <2>1, <2>3, <3>4
  <2>. QED
    BY <2>4, <2>5
<1>. QED
  BY <1>5, <1>6

\* The counts of the nodes that only holders keep allocated.
LEMMA RcLeftCounts ==
  ASSUME RcInv, NEW t \in Threads, RcStep(t), NEW n \in OtherNodes, RcLeft(n)'
  PROVE  rcInternal'[n] = Cardinality(Rc!Holders(n)') /\ rcInternal'[n] > 0
<1> USE DEF RcTyped, Rc!TypeOK, Rc!Goto, Rc!list, Rc!locals
<1>0. RcTyped /\ RcInStep /\ RcPlaced /\ RcCounts
  BY DEF RcInv
<1>1. /\ n \in rcHeap' /\ n \notin Elems(rcStack')
      /\ \A u \in Threads : rcPc'[u] \in {"push", "count"} => rcNode'[u] # n
  BY DEF RcLeft
<1>2. n \in rcHeap
  <2>1. SUFFICES ASSUME n \notin rcHeap PROVE FALSE
    OBVIOUS
  <2>2. CASE Rc!PushCall(t)
    <3>1. PICK m \in OtherNodes : rcHeap' = rcHeap \cup {m} /\ rcNode' = [rcNode EXCEPT ![t] = m]
      BY <2>2 DEF Rc!PushCall
    <3>2. rcPc'[t] = "push" /\ rcNode'[t] = n
      BY <1>0, <1>1, <2>1, <2>2, <3>1 DEF Rc!PushCall
    <3>. QED
      BY <1>1, <3>2
  <2>3. CASE Rc!Count(t) \/ Rc!Release(t)
    <3>1. rcHeap' \subseteq rcHeap
      BY <2>3 DEF Rc!Count, Rc!Release, Rc!Account
    <3>. QED
      BY <1>1, <2>1, <3>1
  <2>4. CASE ~Rc!PushCall(t) /\ ~Rc!Count(t) /\ ~Rc!Release(t)
    <3>1. rcHeap' = rcHeap
      BY <2>4 DEF RcStep, Rc!PushFails, Rc!Push, Rc!PopCall, Rc!IncreaseFails,
                  Rc!Increase, Rc!ReadNext, Rc!Pop, Rc!PopFails, Rc!Return
    <3>. QED
      BY <1>1, <2>1, <3>1
  <2>. QED
    BY <2>2, <2>3, <2>4
<1>3. rcPc'[t] = "count" => n # rcNode[t]
  BY <1>0, <1>1, RcOwns
<1>4. n \notin Elems(rcStack)
  <2>1. CASE Rc!Pop(t)
    <3>1. rcPc'[t] = "count"
      BY <1>0, <2>1 DEF Rc!Pop
    <3>. QED
      BY <1>1, <1>3, <2>1, <3>1, RcStackStep
  <2>2. CASE ~Rc!Pop(t)
    BY <1>1, <2>2, RcStackStep
  <2>. QED
    BY <2>1, <2>2
<1>5. \A u \in Threads \ {t} : rcPc[u] \in {"push", "count"} => rcNode[u] # n
  BY <1>1, RcAlone
<1>6. rcPc[t] = "push" => rcNode[t] # n
  <2>1. SUFFICES ASSUME rcPc[t] = "push", rcNode[t] = n PROVE FALSE
    OBVIOUS
  <2>2. Rc!Push(t) \/ Rc!PushFails(t)
    BY <2>1 DEF RcStep, Rc!PushCall, Rc!PopCall, Rc!IncreaseFails, Rc!Increase,
                Rc!ReadNext, Rc!Pop, Rc!PopFails, Rc!Count, Rc!Release, Rc!Return
  <2>3. CASE Rc!Push(t)
    BY <1>1, <2>1, <2>3, RcStackStep
  <2>4. CASE Rc!PushFails(t)
    BY <1>0, <1>1, <2>1, <2>4 DEF Rc!PushFails
  <2>. QED
    BY <2>2, <2>3, <2>4
<1>7. Cardinality(Rc!Holders(n)) \in Nat /\ rcInternal[n] \in Int
  BY <1>0, RcHolders
<1>8. CASE rcPc[t] = "count" /\ rcNode[t] = n
  <2>1. Rc!Count(t)
    BY <1>8 DEF RcStep, Rc!PushCall, Rc!PushFails, Rc!Push, Rc!PopCall, Rc!IncreaseFails,
                Rc!Increase, Rc!ReadNext, Rc!Pop, Rc!PopFails, Rc!Release, Rc!Return
  <2>2. /\ rcInternal'[n] = rcInternal[n] + (rcOld[t].count - 2) /\ rcInternal'[n] # 0
        /\ Rc!Holders(n)' = Rc!Holders(n)
    BY <1>1, <1>8, <2>1, RcLetGo
  <2>3. rcOld[t].count - 2 + rcInternal[n] = Cardinality(Rc!Holders(n)) /\ rcOld[t].count \in Nat
    BY <1>0, <1>8 DEF RcCounts, Rc!Counted
  <2>. QED
    BY <1>7, <2>2, <2>3
<1>9. CASE ~(rcPc[t] = "count" /\ rcNode[t] = n)
  <2>1. RcLeft(n)
    BY <1>2, <1>4, <1>5, <1>6, <1>9 DEF RcLeft
  <2>2. rcInternal[n] = Cardinality(Rc!Holders(n)) /\ rcInternal[n] > 0
    BY <1>0, <2>1 DEF RcCounts
  <2>3. CASE rcPc[t] = "release" /\ rcNode[t] = n
    <3>1. Rc!Release(t)
      BY <2>3 DEF RcStep, Rc!PushCall, Rc!PushFails, Rc!Push, Rc!PopCall, Rc!IncreaseFails,
                  Rc!Increase, Rc!ReadNext, Rc!Pop, Rc!PopFails, Rc!Count, Rc!Return
    <3>2. /\ rcInternal'[n] = rcInternal[n] - 1 /\ rcInternal'[n] # 0
          /\ Cardinality(Rc!Holders(n)') = Cardinality(Rc!Holders(n)) - 1
      BY <1>1, <2>3, <3>1, RcLetGo
    <3>. QED
      BY <1>7, <2>2, <3>2
  <2>4. CASE ~(rcPc[t] = "release" /\ rcNode[t] = n)
    <3>1. n # rcHead.ptr
      BY <1>4, RcTop
    <3>2. rcPc[t] \in {"count", "release"} \/ rcPc'[t] = "count" => n # rcNode[t]
      BY <1>3, <1>9, <2>4
    <3>3. rcInternal'[n] = rcInternal[n] /\ Rc!Holders(n)' = Rc!Holders(n)
      BY <1>2, <3>1, <3>2, RcQuiet
    <3>. QED
      BY <2>2, <3>3
  <2>. QED
    BY <2>3, <2>4
<1>. QED
  BY <1>8, <1>9

\* Every step keeps the invariant.
LEMMA RcInvStep == RcInv /\ [Rc!Next]_rcVars => RcInv'
<1>1. ASSUME RcInv, Rc!Next PROVE RcInv'
  <2>1. PICK t \in Threads : RcStep(t)
    BY <1>1, RcSteppers
  <2>2. RcCounts'
    <3>1. \A i \in 1 .. Len(rcStack') :
            /\ Rc!LinkTo(i)'.count - 1 + rcInternal'[rcStack'[i]]
                 = Cardinality(Rc!Holders(rcStack[i])')
            /\ rcInternal'[rcStack'[i]] <= 0
      BY <1>1, <2>1, RcStackCounts
    <3>2. \A u \in Threads : rcPc'[u] = "count" =>
            /\ rcOld'[u].count - 2 + rcInternal'[rcNode'[u]] = Cardinality(Rc!Holders(rcNode[u])')
            /\ rcInternal'[rcNode'[u]] <= 0
      BY <1>1, <2>1, RcPoppedCounts
    <3>3. \A n \in OtherNodes : RcLeft(n)' =>
            rcInternal'[n] = Cardinality(Rc!Holders(n)') /\ rcInternal'[n] > 0
      BY <1>1, <2>1, RcLeftCounts
    <3>. QED
      BY <3>1, <3>2, <3>3 DEF RcCounts
  <2>. QED
    BY <1>1, <2>1, <2>2, RcTypedStep, RcInStepStep, RcPlacedStep, RcLinkedStep DEF RcInv
<1>2. ASSUME RcInv, UNCHANGED rcVars PROVE RcInv'
  <2>1. /\ rcHead' = rcHead /\ rcNext' = rcNext /\ rcData' = rcData /\ rcInternal' = rcInternal
        /\ rcHeap' = rcHeap /\ rcPc' = rcPc /\ rcNode' = rcNode /\ rcOld' = rcOld
        /\ rcSeen' = rcSeen /\ rcRes' = rcRes /\ rcStack' = rcStack
    BY <1>2 DEF rcVars
  <2>2. RcTyped' /\ RcInStep'
    BY <1>2, <2>1 DEF RcInv, RcTyped, Rc!TypeOK, RcInStep
  <2>3. RcPlaced' /\ RcLinked'
    BY <1>2, <2>1 DEF RcInv, RcPlaced, RcLinked, Rc!Holders
  <2>4. RcCounts'
    <3>1. /\ \A i : Rc!LinkTo(i)' = Rc!LinkTo(i)
          /\ \A n : Rc!Holders(n)' = Rc!Holders(n) /\ RcLeft(n)' = RcLeft(n)
      BY <2>1 DEF Rc!LinkTo, Rc!Holders, RcLeft
    <3>. QED
      BY <1>2, <2>1, <3>1 DEF RcInv, RcCounts, Rc!Holders
  <2>. QED
    BY <2>2, <2>3, <2>4 DEF RcInv
<1>. QED
  BY <1>1, <1>2

\* The cardinality of the module's own FiniteSets is the one of this module.
LEMMA RcCardinality == \A S : Rc!Cardinality(S) = Cardinality(S)
BY DEF Rc!Cardinality, Cardinality

\* Every link of the stack points to the next of its nodes, the last to none.
LEMMA RcIsSafe == RcInv => Rc!TypeOK /\ Rc!DereferencesAreLive /\ Rc!CountsAddUp
<1> SUFFICES ASSUME RcInv PROVE Rc!TypeOK /\ Rc!DereferencesAreLive /\ Rc!CountsAddUp
  OBVIOUS
<1>0. RcTyped /\ RcInStep /\ RcPlaced /\ RcLinked /\ RcCounts /\ Len(rcStack) \in Nat
  BY DEF RcInv, RcTyped
<1>1. Rc!DereferencesAreLive
  BY RcTop DEF Rc!DereferencesAreLive
<1>2. ASSUME NEW i \in 1 .. Len(rcStack)
      PROVE  LET n == rcStack[i]
             IN /\ n \in rcHeap /\ Rc!LinkTo(i).ptr = n
                /\ Rc!LinkTo(i).count - 1 + rcInternal[n] = Cardinality(Rc!Holders(n))
  <2>1. rcStack[i] \in rcHeap
    BY <1>0 DEF RcPlaced, Elems
  <2>2. Rc!LinkTo(i).ptr = rcStack[i]
    <3>1. CASE i = 1
      BY <1>0, <3>1 DEF RcLinked, Follows, Rc!LinkTo
    <3>2. CASE i # 1
      <4>1. /\ i - 1 \in 1 .. Len(rcStack) /\ (i - 1) + 1 = i /\ i - 1 < Len(rcStack)
            /\ rcStack[i - 1] \in OtherNodes
        BY <1>0, <3>2 DEF RcTyped
      <4>2. rcNext[rcStack[i - 1]].ptr = rcStack[i]
        BY <1>0, <4>1 DEF RcLinked, Follows
      <4>. QED
        BY <3>2, <4>2 DEF Rc!LinkTo
    <3>. QED
      BY <3>1, <3>2
  <2>. QED
    BY <1>0, <2>1, <2>2 DEF RcCounts
<1>3. ASSUME NEW n \in rcHeap \ {rcStack[i] : i \in 1 .. Len(rcStack)}
      PROVE  \/ \E t \in Threads : rcPc[t] = "push" /\ rcNode[t] = n /\ rcInternal[n] = 0
             \/ \E t \in Rc!Counting(n) :
                  rcOld[t].count - 2 + rcInternal[n] = Cardinality(Rc!Holders(n))
             \/ /\ Rc!Counting(n) = {} /\ rcInternal[n] = Cardinality(Rc!Holders(n))
                /\ rcInternal[n] > 0
  <2>1. CASE \E t \in Threads : rcPc[t] = "push" /\ rcNode[t] = n
    BY <1>0, <2>1 DEF RcPlaced
  <2>2. CASE \E t \in Threads : rcPc[t] = "count" /\ rcNode[t] = n
    <3>1. PICK t \in Threads : rcPc[t] = "count" /\ rcNode[t] = n
      BY <2>2
    <3>2. t \in Rc!Counting(n)
      BY <3>1 DEF Rc!Counting
    <3>3. rcOld[t].count - 2 + rcInternal[n] = Cardinality(Rc!Holders(n))
      BY <1>0, <3>1 DEF RcCounts
    <3>. QED
      BY <3>2, <3>3
  <2>3. CASE \A t \in Threads : rcPc[t] \in {"push", "count"} => rcNode[t] # n
    <3>1. RcLeft(n) /\ n \in OtherNodes
      BY <1>0, <2>3 DEF RcLeft, RcTyped, Rc!TypeOK, Elems
    <3>2. Rc!Counting(n) = {}
      BY <2>3 DEF Rc!Counting
    <3>. QED
      BY <1>0, <3>1, <3>2 DEF RcCounts
  <2>. QED
    BY <2>1, <2>2, <2>3
<1>4. Rc!CountsAddUp
  BY <1>2, <1>3, RcCardinality DEF Rc!CountsAddUp
<1>. QED
  BY <1>0, <1>1, <1>4 DEF RcTyped

-----------------------------------------------------------------------------
(* lock_free_stack_with_rc implements the abstract stack *)

\* The abstract variables.
RcItems == Items(rcStack, rcData)
RcCall == [t \in Threads |->
             CASE rcPc[t] = "idle" -> "none"
               [] rcPc[t] = "push" -> "push"
               [] rcPc[t] \in {"increase", "next", "pop", "release"} -> "pop"
               [] OTHER -> "done"]
RcVal == [t \in Threads |->
            IF rcPc[t] \in {"push", "count"} THEN rcData[rcNode[t]] ELSE rcRes[t]]

\* The call of t: its place in the abstract stack.
LEMMA RcMapping ==
  \A t \in Threads :
    /\ rcPc[t] = "idle" => RcCall[t] = "none"
    /\ rcPc[t] = "push" => RcCall[t] = "push"
    /\ rcPc[t] \in {"increase", "next", "pop", "release"} => RcCall[t] = "pop"
    /\ rcPc[t] \in {"count", "return"} => RcCall[t] = "done"
    /\ rcPc[t] \notin {"push", "count"} => RcVal[t] = rcRes[t]
    /\ rcPc[t] \in {"push", "count"} => RcVal[t] = rcData[rcNode[t]]
BY DEF RcCall, RcVal

\* The call of t after a step: its place in the abstract stack.
LEMMA RcMapped ==
  ASSUME NEW t \in Threads
  PROVE  /\ rcPc'[t] = "idle" => RcCall'[t] = "none"
         /\ rcPc'[t] = "push" => RcCall'[t] = "push"
         /\ rcPc'[t] \in {"increase", "next", "pop", "release"} => RcCall'[t] = "pop"
         /\ rcPc'[t] \in {"count", "return"} => RcCall'[t] = "done"
         /\ rcPc'[t] \notin {"push", "count"} => RcVal'[t] = rcRes'[t]
         /\ rcPc'[t] \in {"push", "count"} => RcVal'[t] = rcData'[rcNode'[t]]
BY DEF RcCall, RcVal

\* The other calls are as they were, and the stack unless the step is its own.
LEMMA RcOthersStay ==
  ASSUME RcInv, NEW t \in Threads, RcStep(t)
  PROVE  /\ RcCall' = [RcCall EXCEPT ![t] = RcCall'[t]]
         /\ RcVal' = [RcVal EXCEPT ![t] = RcVal'[t]]
         /\ RcCall'[t] = RcCall[t] => RcCall' = RcCall
         /\ RcVal'[t] = RcVal[t] => RcVal' = RcVal
         /\ rcStack' = rcStack => RcItems' = RcItems
<1>0. RcTyped /\ RcPlaced
  BY DEF RcInv
<1>1. ASSUME NEW n \in rcHeap,
             \/ n \in Elems(rcStack)
             \/ \E u \in Threads \ {t} : rcPc[u] \in {"push", "count"} /\ rcNode[u] = n
      PROVE  rcData'[n] = rcData[n]
  <2>1. ~(rcPc[t] = "count" /\ rcNode[t] = n)
    BY <1>0, <1>1 DEF RcPlaced
  <2>. QED
    BY <2>1, RcChanges
<1>2. \A u \in Threads \ {t} : RcCall'[u] = RcCall[u] /\ RcVal'[u] = RcVal[u]
  <2>1. SUFFICES ASSUME NEW u \in Threads \ {t}
                 PROVE  RcCall'[u] = RcCall[u] /\ RcVal'[u] = RcVal[u]
    OBVIOUS
  <2>2. rcPc'[u] = rcPc[u] /\ rcNode'[u] = rcNode[u] /\ rcRes'[u] = rcRes[u]
    BY RcAlone
  <2>3. rcPc[u] \in {"push", "count"} => rcData'[rcNode[u]] = rcData[rcNode[u]]
    BY <1>1, RcTop
  <2>. QED
    BY <2>2, <2>3 DEF RcCall, RcVal
<1>3. /\ RcCall = [u \in Threads |-> RcCall[u]] /\ RcCall' = [u \in Threads |-> RcCall'[u]]
      /\ RcVal = [u \in Threads |-> RcVal[u]] /\ RcVal' = [u \in Threads |-> RcVal'[u]]
  BY DEF RcCall, RcVal
<1>4. rcStack' = rcStack => RcItems' = RcItems
  <2>1. \A n \in Elems(rcStack) : rcData[n] = rcData'[n]
    BY <1>1, RcTop
  <2>. QED
    BY <2>1, ListStays DEF RcItems
<1>5. /\ RcCall' = [RcCall EXCEPT ![t] = RcCall'[t]]
      /\ RcVal' = [RcVal EXCEPT ![t] = RcVal'[t]]
  <2> HIDE DEF RcCall, RcVal
  <2>. QED
    BY <1>2, <1>3
<1>6. /\ RcCall'[t] = RcCall[t] => RcCall' = RcCall
      /\ RcVal'[t] = RcVal[t] => RcVal' = RcVal
  <2> HIDE DEF RcCall, RcVal
  <2>. QED
    BY <1>3, <1>5
<1>. QED
  BY <1>4, <1>5, <1>6

\* Each step is one of the abstract stack, or none: push() and pop() take
\* effect at their exchange of _head, and a pop() that finds nothing when it
\* counts itself at a null _head.
LEMMA RcStepRefines ==
  ASSUME RcInv, NEW t \in Threads, RcStep(t)
  PROVE  [Rc!Abstract!Next]_(Rc!Abstract!vars)
<1> DEFINE call == RcCall
           val == RcVal
           items == RcItems
<1>0. /\ RcTyped /\ RcInStep
      /\ call' = [call EXCEPT ![t] = call'[t]] /\ val' = [val EXCEPT ![t] = val'[t]]
      /\ call'[t] = call[t] => call' = call
      /\ val'[t] = val[t] => val' = val
      /\ rcStack' = rcStack => items' = items
  BY RcOthersStay DEF RcInv
<1> USE DEF RcTyped, Rc!TypeOK, Rc!Goto, Rc!list, Rc!locals
<1>1. ASSUME items' = items, call'[t] = call[t], val'[t] = val[t]
      PROVE  UNCHANGED Rc!Abstract!vars
  <2>1. call' = call /\ val' = val
    BY <1>0, <1>1
  <2>. QED
    BY <1>1, <2>1 DEF Rc!Abstract!vars, RcCall, RcVal, RcItems, Items
<1>2. CASE Rc!PushCall(t)
  <2>1. PICK n \in OtherNodes, v \in Values :
          rcNode' = [rcNode EXCEPT ![t] = n] /\ rcData' = [rcData EXCEPT ![n] = v]
    BY <1>2 DEF Rc!PushCall
  <2>2. rcPc[t] = "idle" /\ rcPc'[t] = "push" /\ rcStack' = rcStack
    BY <1>0, <1>2 DEF Rc!PushCall
  <2>3. val'[t] = v /\ call[t] = "none" /\ call'[t] = "push" /\ items' = items
    BY <1>0, <2>1, <2>2, RcMapping, RcMapped
  <2>4. Rc!Abstract!CallPush(t)
    BY <1>0, <2>3 DEF Rc!Abstract!CallPush, RcCall, RcVal, RcItems, Items
  <2>. QED
    BY <2>4 DEF Rc!Abstract!Next
<1>3. CASE Rc!Push(t)
  <2>1. /\ rcPc[t] = "push" /\ rcPc'[t] = "return" /\ rcData' = rcData
        /\ rcStack' = <<rcNode[t]>> \o rcStack /\ rcRes'[t] = Null
    BY <1>0, <1>3 DEF Rc!Push, RcInStep
  <2>2. /\ call[t] = "push" /\ call'[t] = "done" /\ val'[t] = Null
        /\ val[t] = rcData[rcNode[t]]
    BY <2>1, RcMapping, RcMapped
  <2>3. items' = <<val[t]>> \o items
    <3>1. rcStack \in Seq(OtherNodes) /\ rcNode[t] \in OtherNodes
      BY <1>0, <2>1, RcTop
    <3>2. Items(<<rcNode[t]>> \o rcStack, rcData)
            = <<rcData[rcNode[t]]>> \o Items(rcStack, rcData)
      BY <3>1, PushedItems
    <3>. QED
      BY <2>1, <2>2, <3>2 DEF RcItems
  <2>4. Rc!Abstract!Push(t)
    BY <1>0, <2>2, <2>3 DEF Rc!Abstract!Push, RcCall, RcVal, RcItems, Items
  <2>. QED
    BY <2>4 DEF Rc!Abstract!Next
<1>4. CASE Rc!PopCall(t)
  <2>1. rcPc[t] = "idle" /\ rcPc'[t] = "increase" /\ rcStack' = rcStack /\ rcRes' = rcRes
    BY <1>0, <1>4 DEF Rc!PopCall
  <2>2. call[t] = "none" /\ call'[t] = "pop" /\ val'[t] = val[t] /\ items' = items
    BY <1>0, <2>1, RcMapping, RcMapped
  <2>3. val' = val
    BY <1>0, <2>2
  <2>4. Rc!Abstract!CallPop(t)
    BY <1>0, <2>2, <2>3 DEF Rc!Abstract!CallPop, RcCall, RcVal, RcItems, Items
  <2>. QED
    BY <2>4 DEF Rc!Abstract!Next
<1>5. CASE Rc!Pop(t)
  <2>1. /\ rcPc[t] = "pop" /\ rcPc'[t] = "count" /\ rcData' = rcData /\ rcNode' = rcNode
        /\ rcStack' = Tail(rcStack) /\ rcStack # <<>> /\ rcNode[t] = rcStack[1]
    BY <1>0, <1>5, RcStackStep DEF Rc!Pop
  <2>2. call[t] = "pop" /\ call'[t] = "done" /\ val'[t] = rcData[rcStack[1]]
    BY <2>1, RcMapping, RcMapped
  <2>3. items # <<>> /\ items' = Tail(items) /\ val'[t] = Head(items)
    <3>1. rcStack \in Seq(OtherNodes)
      BY <1>0
    <3>. QED
      BY <2>1, <2>2, <3>1, Popped DEF RcItems
  <2>4. Rc!Abstract!Pop(t)
    BY <1>0, <2>2, <2>3 DEF Rc!Abstract!Pop, RcCall, RcVal, RcItems, Items
  <2>. QED
    BY <2>4 DEF Rc!Abstract!Next
<1>6. CASE Rc!Increase(t)
  <2>1. /\ rcPc[t] = "increase" /\ rcStack' = rcStack /\ rcRes' = rcRes
        /\ rcPc'[t] = IF rcHead.ptr = Null THEN "return" ELSE "next"
    BY <1>0, <1>6 DEF Rc!Increase
  <2>2. call[t] = "pop" /\ val'[t] = val[t] /\ items' = items
    BY <1>0, <2>1, RcMapping, RcMapped
  <2>3. CASE rcHead.ptr = Null
    <3>1. items = <<>>
      BY <2>3, RcTop DEF RcItems, Items
    <3>2. call'[t] = "done" /\ val' = val
      BY <1>0, <2>1, <2>2, <2>3, RcMapped
    <3>3. Rc!Abstract!FindEmpty(t)
      BY <1>0, <2>2, <3>1, <3>2 DEF Rc!Abstract!FindEmpty, RcCall, RcVal, RcItems, Items
    <3>. QED
      BY <3>3 DEF Rc!Abstract!Next
  <2>4. CASE rcHead.ptr # Null
    <3>1. call'[t] = "pop"
      BY <2>1, <2>4, RcMapped
    <3>. QED
      BY <1>1, <2>2, <3>1
  <2>. QED
    BY <2>3, <2>4
<1>7. CASE Rc!Return(t)
  <2>1. rcPc[t] = "return" /\ rcPc'[t] = "idle" /\ rcStack' = rcStack /\ rcRes'[t] = Null
    BY <1>0, <1>7 DEF Rc!Return
  <2>2. call[t] = "done" /\ call'[t] = "none" /\ val'[t] = Null /\ items' = items
    BY <1>0, <2>1, RcMapping, RcMapped
  <2>3. Rc!Abstract!Return(t)
    BY <1>0, <2>2 DEF Rc!Abstract!Return, RcCall, RcVal, RcItems, Items
  <2>. QED
    BY <2>3 DEF Rc!Abstract!Next
<1>8. CASE Rc!Count(t)
  <2>1. /\ rcPc[t] = "count" /\ rcPc'[t] = "return" /\ rcStack' = rcStack
        /\ rcRes'[t] = rcData[rcNode[t]]
    BY <1>0, <1>8 DEF Rc!Count
  <2>. QED
    BY <1>0, <1>1, <2>1, RcMapping, RcMapped
<1>9. CASE Rc!PushFails(t)
  <2>1. /\ rcPc[t] = "push" /\ rcPc'[t] = "push" /\ rcNode' = rcNode /\ rcData' = rcData
        /\ rcStack' = rcStack
    BY <1>0, <1>9 DEF Rc!PushFails
  <2>. QED
    BY <1>0, <1>1, <2>1, RcMapping, RcMapped
<1>10. CASE Rc!IncreaseFails(t) \/ Rc!ReadNext(t) \/ Rc!PopFails(t) \/ Rc!Release(t)
  <2>1. /\ rcPc[t] \in {"increase", "next", "pop", "release"}
        /\ rcPc'[t] \in {"increase", "pop", "release"}
        /\ rcRes' = rcRes /\ rcStack' = rcStack
    BY <1>0, <1>10 DEF Rc!IncreaseFails, Rc!ReadNext, Rc!PopFails, Rc!Release
  <2>. QED
    BY <1>0, <1>1, <2>1, RcMapping, RcMapped
<1>. QED
  BY <1>2, <1>3, <1>4, <1>5, <1>6, <1>7, <1>8, <1>9, <1>10 DEF RcStep

\* The first states and each step map to the abstract stack's.
LEMMA RcRefines ==
  /\ Rc!Init => Rc!Abstract!Init
  /\ RcInv /\ [Rc!Next]_rcVars => [Rc!Abstract!Next]_(Rc!Abstract!vars)
<1>1. ASSUME Rc!Init PROVE Rc!Abstract!Init
  BY <1>1 DEF Rc!Init, Rc!Abstract!Init
<1>2. ASSUME RcInv, Rc!Next PROVE [Rc!Abstract!Next]_(Rc!Abstract!vars)
  BY <1>2, RcSteppers, RcStepRefines
<1>3. ASSUME UNCHANGED rcVars PROVE UNCHANGED Rc!Abstract!vars
  BY <1>3 DEF rcVars, Rc!Abstract!vars
<1>. QED
  BY <1>1, <1>2, <1>3

\* Every set of naturals has a least member: what stands for induction here.
LEMMA NatMin ==
  ASSUME NEW S, S \subseteq Nat, NEW m \in S
  PROVE  \E n \in S : \A k \in Nat : k < n => k \notin S
<1> DEFINE R == {ss \in Nat \X Nat : ss[1] < ss[2]}
<1>1. IsWellFoundedOn(R, Nat)
  BY NatLessThanWellFounded DEF OpToRel
<1>2. \A k, n \in Nat : k < n => <<k, n>> \in R
  OBVIOUS
<1> HIDE DEF R
<1>3. \E n \in S : \A k \in S : <<k, n>> \notin R
  BY <1>1, WFMin
<1>. QED
  BY <1>2, <1>3

-----------------------------------------------------------------------------
(* The lists of lock_free_stack *)

\* The equation of the function that List() is defined by, for lists of at
\* most K nodes.
ListsTo(g, K) ==
  g = [k \in 0 .. K |-> [m \in Nodes \cup {Null} |->
         IF m = Null \/ k = 0 THEN <<>> ELSE <<m>> \o g[k - 1][next[m]]]]

\* There is such a function for every K.
LEMMA ListsExist ==
  ASSUME next \in [Nodes -> Nodes \cup {Null}]
  PROVE  \A K \in Nat : \E g : ListsTo(g, K)
<1> DEFINE S == {K \in Nat : ~ \E g : ListsTo(g, K)}
           N == Nodes \cup {Null}
<1>1. ASSUME NEW K \in Nat, NEW g, ListsTo(g, K) PROVE \E h : ListsTo(h, K + 1)
  <2> DEFINE h == [k \in 0 .. K + 1 |-> [m \in N |->
                     IF m = Null \/ k = 0 THEN <<>> ELSE <<m>> \o g[k - 1][next[m]]]]
  <2>1. ASSUME NEW k \in 0 .. K PROVE h[k] = g[k]
    <3>1. g[k] = [m \in N |-> IF m = Null \/ k = 0 THEN <<>> ELSE <<m>> \o g[k - 1][next[m]]]
      BY <1>1, Zenon DEF ListsTo
    <3>2. h[k] = [m \in N |-> IF m = Null \/ k = 0 THEN <<>> ELSE <<m>> \o g[k - 1][next[m]]]
      OBVIOUS
    <3>. QED
      BY <3>1, <3>2, Zenon
  <2>2. \A k \in 0 .. K + 1 : k # 0 => k - 1 \in 0 .. K
    OBVIOUS
  <2>3. \A k \in 0 .. K + 1 : k # 0 => h[k - 1] = g[k - 1]
    <3> HIDE DEF h
    <3>. QED
      BY <2>1, <2>2
  <2>4. h = [k \in 0 .. K + 1 |-> [m \in N |->
               IF m = Null \/ k = 0 THEN <<>> ELSE <<m>> \o h[k - 1][next[m]]]]
    <3>1. PICK f : f = h
      OBVIOUS
    <3>2. f = [k \in 0 .. K + 1 |-> [m \in N |->
                 IF m = Null \/ k = 0 THEN <<>> ELSE <<m>> \o g[k - 1][next[m]]]]
      BY <3>1
    <3>3. \A k \in 0 .. K + 1 : k # 0 => f[k - 1] = g[k - 1]
      BY <2>3, <3>1
    <3>4. f = [k \in 0 .. K + 1 |-> [m \in N |->
                 IF m = Null \/ k = 0 THEN <<>> ELSE <<m>> \o f[k - 1][next[m]]]]
      BY <3>2, <3>3
    <3> HIDE DEF h
    <3>. QED
      BY <3>1, <3>4
  <2>. QED
    BY <2>4 DEF ListsTo
<1>2. \E g : ListsTo(g, 0)
  <2>1. ListsTo([k \in 0 .. 0 |-> [m \in N |-> <<>>]], 0)
    BY DEF ListsTo
  <2>. QED
    BY <2>1
<1>3. SUFFICES ASSUME NEW K \in S PROVE FALSE
  OBVIOUS
<1>4. PICK L \in S : \A k \in Nat : k < L => k \notin S
  BY NatMin
<1>5. L # 0 /\ L \in Nat
  BY <1>2
<1>6. L - 1 \in Nat /\ L - 1 < L /\ (L - 1) + 1 = L
  BY <1>5
<1>7. PICK g : ListsTo(g, L - 1)
  BY <1>4, <1>6
<1>. QED
  BY <1>1, <1>6, <1>7

\* What that function returns.
LEMMA ListsAt ==
  ASSUME NEW K \in Nat, NEW g, ListsTo(g, K)
  PROVE  \A k \in 0 .. K, m \in Nodes \cup {Null} :
           g[k][m] = IF m = Null \/ k = 0 THEN <<>> ELSE <<m>> \o g[k - 1][next[m]]
<1>. TAKE k \in 0 .. K, m \in Nodes \cup {Null}
<1>1. g[k] = [n \in Nodes \cup {Null} |->
                IF n = Null \/ k = 0 THEN <<>> ELSE <<n>> \o g[k - 1][next[n]]]
  BY Zenon DEF ListsTo
<1>. QED
  BY <1>1, Zenon

Unrolls(g, k, m) == g[k][m] = <<m>> \o g[k - 1][next[m]]

\* What List() returns begins with the node it is called with.
LEMMA ListsBegin ==
  ASSUME NEW K \in Nat, NEW g, ListsTo(g, K), NEW k \in 0 .. K, k # 0,
         NEW m \in Nodes \cup {Null}, m # Null
  PROVE  Unrolls(g, k, m)
<1>1. g[k][m] = IF m = Null \/ k = 0 THEN <<>> ELSE <<m>> \o g[k - 1][next[m]]
  BY ListsAt
<1>. QED
  BY <1>1 DEF Unrolls

\* List() returns a sequence of nodes.
LEMMA ListsAreSequences ==
  ASSUME next \in [Nodes -> Nodes \cup {Null}], NEW K \in Nat, NEW g, ListsTo(g, K)
  PROVE  \A k \in 0 .. K : \A m \in Nodes \cup {Null} : g[k][m] \in Seq(Nodes)
<1> DEFINE S == {k \in 0 .. K : \E m \in Nodes \cup {Null} : g[k][m] \notin Seq(Nodes)}
<1>1. SUFFICES ASSUME NEW k0 \in S PROVE FALSE
  OBVIOUS
<1>2. PICK k \in S : \A j \in Nat : j < k => j \notin S
  <2>1. S \subseteq Nat
    OBVIOUS
  <2> HIDE DEF S
  <2>. QED
    BY <2>1, NatMin
<1>3. PICK m \in Nodes \cup {Null} : g[k][m] \notin Seq(Nodes)
  OBVIOUS
<1>4. m # Null /\ k # 0
  <2>1. k \in 0 .. K /\ <<>> \in Seq(Nodes)
    OBVIOUS
  <2>2. g[k][m] = IF m = Null \/ k = 0 THEN <<>> ELSE <<m>> \o g[k - 1][next[m]]
    BY <2>1, ListsAt
  <2>. QED
    BY <1>3, <2>1, <2>2
<1>5. m \in Nodes /\ next[m] \in Nodes \cup {Null} /\ k - 1 \in 0 .. K /\ k - 1 < k /\ k - 1 \in Nat
  BY <1>4
<1>6. g[k - 1][next[m]] \in Seq(Nodes)
  BY <1>2, <1>5
<1>7. <<m>> \o g[k - 1][next[m]] \in Seq(Nodes)
  BY <1>5, <1>6
<1>8. k \in 0 .. K
  OBVIOUS
<1>9. g[k][m] = <<m>> \o g[k - 1][next[m]]
  <2>1. Unrolls(g, k, m)
    <3> HIDE DEF S
    <3>. QED
      BY <1>4, <1>8, ListsBegin
  <2>. QED
    BY <2>1 DEF Unrolls
<1>. QED
  BY <1>3, <1>7, <1>9

\* s leads from h to z: the nodes of s are linked, and z comes after them.
Reaches(h, s, z, f) ==
  /\ h = IF s = <<>> THEN z ELSE s[1]
  /\ \A i \in 1 .. Len(s) : f[s[i]] = IF i < Len(s) THEN s[i + 1] ELSE z

\* A path that ends in nullptr is a list.
LEMMA ReachesNull == \A h, s, f : Reaches(h, s, Null, f) <=> Follows(h, s, f)
BY DEF Reaches, Follows

\* What follows the first node of a path is a path.
LEMMA ReachesRest ==
  ASSUME NEW S, NEW s \in Seq(S), s # <<>>, NEW h, NEW z, NEW f, Reaches(h, s, z, f)
  PROVE  h = s[1] /\ Reaches(f[h], Tail(s), z, f)
<1> DEFINE r == Tail(s)
<1>1. /\ r \in Seq(S) /\ Len(r) = Len(s) - 1 /\ Len(s) \in Nat /\ Len(s) >= 1
      /\ \A i \in 1 .. Len(r) : r[i] = s[i + 1]
      /\ r = <<>> <=> Len(r) = 0
  <2>1. r \in Seq(S) /\ Len(r) = Len(s) - 1 /\ \A i \in 1 .. Len(r) : r[i] = s[i + 1]
    BY HeadTailProperties
  <2>2. Len(s) \in Nat /\ Len(s) >= 1
    OBVIOUS
  <2>. QED
    BY <2>1, <2>2, EmptySeq
<1> HIDE DEF r
<1>2. h = s[1] /\ f[h] = IF r = <<>> THEN z ELSE r[1]
  BY <1>1 DEF Reaches
<1>3. ASSUME NEW i \in 1 .. Len(r) PROVE f[r[i]] = IF i < Len(r) THEN r[i + 1] ELSE z
  BY <1>1 DEF Reaches
<1>. QED
  BY <1>2, <1>3 DEF Reaches, r

\* A path is what the function of List() returns, and what comes after it.
LEMMA ListsFollow ==
  ASSUME next \in [Nodes -> Nodes \cup {Null}], Null \notin Nodes,
         NEW K \in Nat, NEW g, ListsTo(g, K)
  PROVE  \A s \in Seq(Nodes) : \A h, z \in Nodes \cup {Null} : \A k \in Len(s) .. K :
           Reaches(h, s, z, next) => g[k][h] = s \o g[k - Len(s)][z]
<1> DEFINE Holds(s) == \A h, z \in Nodes \cup {Null} : \A k \in Len(s) .. K :
                         Reaches(h, s, z, next) => g[k][h] = s \o g[k - Len(s)][z]
           S == {n \in Nat : \E s \in Seq(Nodes) : Len(s) = n /\ ~Holds(s)}
<1>1. SUFFICES ASSUME NEW s0 \in Seq(Nodes), ~Holds(s0) PROVE FALSE
  OBVIOUS
<1>2. Len(s0) \in S
  BY <1>1
<1>3. PICK n \in S : \A j \in Nat : j < n => j \notin S
  <2> HIDE DEF Holds
  <2>. QED
    BY <1>2, NatMin
<1>4. PICK s \in Seq(Nodes) : Len(s) = n /\ ~Holds(s)
  OBVIOUS
<1>5. PICK h \in Nodes \cup {Null}, z \in Nodes \cup {Null}, k \in Len(s) .. K :
        Reaches(h, s, z, next) /\ g[k][h] # s \o g[k - Len(s)][z]
  BY <1>4
<1>6. Len(s) \in Nat /\ k \in 0 .. K /\ k - Len(s) \in 0 .. K
  BY <1>5, SMTT(30)
<1>7. g[k - Len(s)][z] \in Seq(Nodes)
  BY <1>6, ListsAreSequences
<1>8. s # <<>>
  <2>1. SUFFICES ASSUME s = <<>> PROVE FALSE
    OBVIOUS
  <2>2. h = z /\ k - Len(s) = k
    BY <1>5, <1>6, <2>1 DEF Reaches
  <2>3. s \o g[k - Len(s)][z] = g[k - Len(s)][z]
    BY <1>7, <2>1
  <2>. QED
    BY <1>5, <2>2, <2>3
<1>9. h = s[1] /\ Reaches(next[h], Tail(s), z, next)
  BY <1>5, <1>8, ReachesRest
<1>10. h \in Nodes /\ next[h] \in Nodes \cup {Null}
  BY <1>8, <1>9
<1>11. Tail(s) \in Seq(Nodes) /\ Len(Tail(s)) = Len(s) - 1 /\ Len(s) >= 1
  BY <1>8
<1>16. s = <<s[1]>> \o Tail(s)
  BY <1>8
<1>12. Holds(Tail(s))
  <2> HIDE DEF Holds
  <2>1. Len(Tail(s)) \in Nat /\ Len(Tail(s)) < n
    BY <1>4, <1>6, <1>11
  <2>. QED
    BY <1>3, <1>11, <2>1
<1>13. g[k - 1][next[h]] = Tail(s) \o g[k - Len(s)][z]
  <2>1. PICK j \in Int, r \in Seq(Nodes), m \in Nodes \cup {Null} :
          j = k - 1 /\ r = Tail(s) /\ m = next[h]
    <3>1. k - 1 \in Int
      BY <1>6
    <3>. QED
      BY <1>10, <1>11, <3>1
  <2>2. j \in Len(r) .. K /\ j - Len(r) = k - Len(s)
    <3>1. Len(r) = Len(s) - 1
      BY <1>11, <2>1
    <3>. QED
      BY <1>6, <1>11, <2>1, <3>1, SMTT(30)
  <2>3. Reaches(m, r, z, next) /\ Holds(r)
    <3> HIDE DEF Holds
    <3>. QED
      BY <1>9, <1>12, <2>1
  <2>4. g[j][m] = r \o g[j - Len(r)][z]
    BY <2>2, <2>3, SMTT(30)
  <2>. QED
    BY <2>1, <2>2, <2>4
<1>14. g[k][h] = s \o g[k - Len(s)][z]
  <2>1. PICK r \in Seq(Nodes), b \in Seq(Nodes) : r = g[k - Len(s)][z] /\ b = Tail(s)
    BY <1>7, <1>11
  <2>2. k # 0 /\ g[k - 1][next[h]] = b \o r
    BY <1>6, <1>11, <1>13, <2>1
  <2>3. Unrolls(g, k, h)
    <3>1. h # Null
      BY <1>10
    <3> HIDE DEF Holds, S
    <3>. QED
      BY <1>6, <2>2, <3>1, ListsBegin
  <2>4. g[k][h] = <<h>> \o (b \o r)
    BY <2>2, <2>3 DEF Unrolls
  <2>5. PICK a \in Seq(Nodes) : a = <<h>>
    <3>1. <<h>> \in Seq(Nodes)
      BY <1>10
    <3>. QED
      BY <3>1
  <2>6. g[k][h] = (a \o b) \o r
    <3>1. a \o (b \o r) = (a \o b) \o r
      <4> HIDE DEF Holds, S
      <4>. QED
        BY SMTT(30)
    <3>. QED
      BY <2>4, <2>5, <3>1
  <2>. QED
    BY <1>9, <1>16, <2>1, <2>5, <2>6
<1>. QED
  BY <1>5, <1>14

-----------------------------------------------------------------------------
(* lock_free_stack: the inductive invariant *)

PnSteps == {"idle", "push", "pushed", "load", "next", "pop", "swap", "test", "take",
            "leave", "chain", "exchange", "decrement", "delete", "return", "crash"}

PnTyped ==
  /\ {head, toBeDeleted} \subseteq Nodes \cup {Null}
  /\ heap \subseteq Nodes
  /\ next \in [Nodes -> Nodes \cup {Null}]
  /\ data \in [Nodes -> Values \cup {Null}]
  /\ pc \in [Threads -> PnSteps]
  /\ node \in [Threads -> Nodes \cup {Null}]
  /\ seen \in [Threads -> Nodes \cup {Null}]
  /\ batch \in [Threads -> Nodes \cup {Null}]
  /\ last \in [Threads -> Nodes \cup {Null}]
  /\ res \in [Threads -> Values \cup {Null}]
  /\ stack \in Seq(Nodes)

\* t has taken the pending nodes and has not given them up.
HasBatch(t) == batch[t] # Null

\* What each thread has while it is somewhere in push() or pop().
PnInStep ==
  \A t \in Threads :
    /\ pc[t] \in {"push", "next", "pop", "swap"} => node[t] # Null
    /\ pc[t] = "exchange" => First(t) # Null
    /\ HasBatch(t) => pc[t] \in {"leave", "chain", "exchange", "delete"}
    /\ pc[t] \in {"idle", "push", "pushed", "load", "next", "pop"} => res[t] = Null
    /\ pc[t] \in {"crash", "idle"} => node[t] = Null
    /\ pc[t] = "exchange" /\ ~HasBatch(t) => last[t] = node[t]

\* The new node or old_head that only t can reach.
Private(t) ==
  IF pc[t] \in {"push", "swap", "test", "take", "leave", "delete", "chain", "exchange"}
  THEN {node[t]} \ {Null} ELSE {}

PnOwners(B) == [t \in Threads |-> Private(t) \cup Elems(B[t])]

\* Each node is in one place, and only once.  K are the pending nodes and
\* B[t] those that t has taken.
PnPlaced(K, B) ==
  /\ K \in Seq(Nodes) /\ B \in [Threads -> Seq(Nodes)]
  /\ Parted(heap, Elems(stack), Elems(K), PnOwners(B))
  /\ Once(stack) /\ Once(K)
  /\ \A t \in Threads : Once(B[t]) /\ Private(t) \cap Elems(B[t]) = {}

\* Where the batch of t leads: chain_pending_nodes() has linked its last node.
BatchEnd(t) == IF pc[t] = "exchange" /\ HasBatch(t) THEN next[last[t]] ELSE Null

\* The lists are linked.
PnLinked(K, B) ==
  /\ Follows(head, stack, next)
  /\ Follows(toBeDeleted, K, next)
  /\ \A t \in Threads :
       /\ Reaches(batch[t], B[t], BatchEnd(t), next)
       /\ B[t] = <<>> <=> ~HasBatch(t)
       /\ pc[t] = "exchange" /\ HasBatch(t) => last[t] = B[t][Len(B[t])]

\* The threads that _threads_in_pop counts.
InPop(t) ==
  \/ pc[t] \in {"load", "next", "pop", "swap", "test", "take", "leave", "decrement", "crash"}
  \/ pc[t] \in {"chain", "exchange"} /\ ~HasBatch(t)

Counted == {t \in Threads : InPop(t)}

\* old_head is t's alone, and no other thread reads it any more.
WillDelete(t) ==
  \/ pc[t] \in {"take", "leave", "delete"}
  \/ pc[t] \in {"chain", "exchange"} /\ HasBatch(t)

\* The node a thread reads is allocated, will not be pushed or deleted while it
\* does, and its link stays while it is on the stack.
PnProtected(B) ==
  \A t \in Threads :
    pc[t] \in {"next", "pop"} =>
      /\ node[t] \in heap
      /\ \A u \in Threads :
           /\ pc[u] = "push" => node[u] # node[t]
           /\ WillDelete(u) => node[u] # node[t]
           /\ pc[u] = "delete" => node[t] \notin Elems(B[u])
      /\ pc[t] = "pop" /\ node[t] \in Elems(stack) => seen[t] = next[node[t]]

PnInvOf(K, B) ==
  /\ PnTyped /\ PnInStep
  /\ threadsInPop = Cardinality(Counted)
  /\ PnPlaced(K, B) /\ PnLinked(K, B) /\ PnProtected(B)

PnInv == \E K \in Seq(Nodes), B \in [Threads -> Seq(Nodes)] : PnInvOf(K, B)

-----------------------------------------------------------------------------
(* Paths and the lists that List() returns *)

\* What a path of its own length begins and ends with.
LEMMA ReachesHead ==
  ASSUME NEW S, NEW s \in Seq(S), NEW h, NEW z, NEW f, Reaches(h, s, z, f)
  PROVE  /\ s = <<>> => h = z
         /\ s # <<>> => /\ h = s[1] /\ h \in Elems(s) /\ h \in S
                        /\ s[Len(s)] \in Elems(s) /\ s[Len(s)] \in S
                        /\ f[s[Len(s)]] = z
         /\ Elems(s) \subseteq S
<1>1. s # <<>> => /\ 1 \in 1 .. Len(s) /\ Len(s) \in 1 .. Len(s)
                  /\ s[1] \in S /\ s[Len(s)] \in S
  OBVIOUS
<1>2. Elems(s) \subseteq S
  BY DEF Elems
<1>. QED
  BY <1>1, <1>2 DEF Reaches, Elems

\* A path stays one when the links of its nodes stay.
LEMMA ReachesStays ==
  ASSUME NEW s, NEW f, NEW g, \A n \in Elems(s) : f[n] = g[n]
  PROVE  \A h, z : Reaches(h, s, z, f) => Reaches(h, s, z, g)
BY DEF Reaches, Elems

\* A path leads elsewhere when only its last node is linked anew.
LEMMA ReachesElsewhere ==
  ASSUME NEW S, NEW s \in Seq(S), s # <<>>, Once(s), NEW h, NEW z, NEW f, Reaches(h, s, z, f),
         NEW g, NEW y, g[s[Len(s)]] = y, \A n \in Elems(s) : n # s[Len(s)] => g[n] = f[n]
  PROVE  Reaches(h, s, y, g)
<1>1. Len(s) \in Nat /\ Len(s) \in 1 .. Len(s)
  OBVIOUS
<1>2. ASSUME NEW i \in 1 .. Len(s) PROVE g[s[i]] = IF i < Len(s) THEN s[i + 1] ELSE y
  <2>1. CASE i = Len(s)
    BY <2>1, <1>1
  <2>2. CASE i # Len(s)
    <3>1. i < Len(s)
      BY <1>1, <2>2
    <3>2. s[i] # s[Len(s)] /\ s[i] \in Elems(s)
      BY <1>1, <2>2 DEF Once, Elems
    <3>3. f[s[i]] = s[i + 1]
      BY <3>1 DEF Reaches
    <3>. QED
      BY <3>1, <3>2, <3>3
  <2>. QED
    BY <2>1, <2>2
<1>. QED
  BY <1>2 DEF Reaches

\* Two sequences that have nothing in common, one after the other.
LEMMA Concatenated ==
  ASSUME NEW S, NEW s \in Seq(S), NEW r \in Seq(S)
  PROVE  /\ Elems(s \o r) = Elems(s) \cup Elems(r)
         /\ Once(s) /\ Once(r) /\ Elems(s) \cap Elems(r) = {} => Once(s \o r)
<1> DEFINE q == s \o r
<1>1. /\ q \in Seq(S) /\ Len(q) = Len(s) + Len(r) /\ Len(s) \in Nat /\ Len(r) \in Nat
      /\ \A i \in 1 .. Len(s) : q[i] = s[i]
      /\ \A i \in 1 .. Len(r) : q[Len(s) + i] = r[i]
      /\ s = <<>> <=> Len(s) = 0
      /\ r = <<>> <=> Len(r) = 0
      /\ q = <<>> <=> Len(q) = 0
      /\ s = <<>> => q = r
  OBVIOUS
<1> HIDE DEF q
<1>2. ASSUME NEW i \in 1 .. Len(q), ~(i \in 1 .. Len(s))
      PROVE  i - Len(s) \in 1 .. Len(r) /\ q[i] = r[i - Len(s)]
  <2>1. i - Len(s) \in 1 .. Len(r) /\ Len(s) + (i - Len(s)) = i
    BY <1>1, <1>2
  <2>. QED
    BY <1>1, <2>1
<1>3. Elems(q) = Elems(s) \cup Elems(r)
  <2>1. ASSUME NEW y \in Elems(q) PROVE y \in Elems(s) \cup Elems(r)
    BY <1>1, <1>2 DEF Elems
  <2>2. ASSUME NEW y \in Elems(s) PROVE y \in Elems(q)
    <3>1. PICK i \in 1 .. Len(s) : y = s[i]
      BY DEF Elems
    <3>2. i \in 1 .. Len(q) /\ q[i] = y
      BY <1>1, <3>1
    <3>. QED
      BY <3>2 DEF Elems
  <2>3. ASSUME NEW y \in Elems(r) PROVE y \in Elems(q)
    <3>1. PICK i \in 1 .. Len(r) : y = r[i]
      BY DEF Elems
    <3>2. Len(s) + i \in 1 .. Len(q) /\ q[Len(s) + i] = y
      BY <1>1, <3>1
    <3>. QED
      BY <3>2 DEF Elems
  <2>. QED
    BY <2>1, <2>2, <2>3
<1>4. ASSUME Once(s), Once(r), Elems(s) \cap Elems(r) = {} PROVE Once(q)
  <2>1. SUFFICES ASSUME NEW i \in 1 .. Len(q), NEW j \in 1 .. Len(q), q[i] = q[j]
                 PROVE  i = j
    BY DEF Once
  <2>2. \A k \in 1 .. Len(s) : s[k] \in Elems(s)
    BY DEF Elems
  <2>3. \A k \in 1 .. Len(r) : r[k] \in Elems(r)
    BY DEF Elems
  <2>4. CASE i \in 1 .. Len(s) /\ j \in 1 .. Len(s)
    BY <1>1, <1>4, <2>1, <2>4 DEF Once
  <2>5. CASE ~(i \in 1 .. Len(s)) /\ ~(j \in 1 .. Len(s))
    <3>1. i - Len(s) = j - Len(s)
      BY <1>2, <1>4, <2>1, <2>5 DEF Once
    <3>. QED
      BY <1>1, <3>1
  <2>6. CASE i \in 1 .. Len(s) /\ ~(j \in 1 .. Len(s))
    <3>1. q[i] \in Elems(s) /\ q[j] \in Elems(r)
      BY <1>1, <1>2, <2>2, <2>3, <2>6
    <3>. QED
      BY <1>4, <2>1, <3>1
  <2>7. CASE ~(i \in 1 .. Len(s)) /\ j \in 1 .. Len(s)
    <3>1. q[j] \in Elems(s) /\ q[i] \in Elems(r)
      BY <1>1, <1>2, <2>2, <2>3, <2>7
    <3>. QED
      BY <1>4, <2>1, <3>1
  <2>. QED
    BY <2>4, <2>5, <2>6, <2>7
<1>. QED
  BY <1>3, <1>4 DEF q

\* A path and the list it leads to are a list.
LEMMA Joined ==
  ASSUME NEW S, NEW s \in Seq(S), NEW r \in Seq(S), NEW h, NEW z, NEW f,
         Reaches(h, s, z, f), Follows(z, r, f)
  PROVE  Follows(h, s \o r, f)
<1> DEFINE q == s \o r
<1>1. /\ q \in Seq(S) /\ Len(q) = Len(s) + Len(r) /\ Len(s) \in Nat /\ Len(r) \in Nat
      /\ \A i \in 1 .. Len(s) : q[i] = s[i]
      /\ \A i \in 1 .. Len(r) : q[Len(s) + i] = r[i]
      /\ s = <<>> <=> Len(s) = 0
      /\ r = <<>> <=> Len(r) = 0
      /\ q = <<>> <=> Len(q) = 0
      /\ s = <<>> => q = r
  OBVIOUS
<1> HIDE DEF q
<1>2. ASSUME NEW i \in 1 .. Len(q), ~(i \in 1 .. Len(s))
      PROVE  i - Len(s) \in 1 .. Len(r) /\ q[i] = r[i - Len(s)]
  <2>1. i - Len(s) \in 1 .. Len(r) /\ Len(s) + (i - Len(s)) = i
    BY <1>1, <1>2
  <2>. QED
    BY <1>1, <2>1
<1>3. Follows(h, q, f)
  <2>1. h = IF q = <<>> THEN Null ELSE q[1]
    BY <1>1 DEF Reaches, Follows
  <2>2. z = IF r = <<>> THEN Null ELSE r[1]
    BY DEF Follows
  <2>3. ASSUME NEW i \in 1 .. Len(q)
        PROVE  f[q[i]] = IF i < Len(q) THEN q[i + 1] ELSE Null
    <3>1. CASE i \in 1 .. Len(s) /\ i < Len(s)
      <4>1. i + 1 \in 1 .. Len(s) /\ i < Len(q) /\ f[s[i]] = s[i + 1]
        BY <1>1, <3>1 DEF Reaches
      <4>. QED
        BY <1>1, <3>1, <4>1
    <3>2. CASE i = Len(s)
      <4>1. i \in 1 .. Len(s) /\ f[s[i]] = z
        BY <1>1, <3>2 DEF Reaches
      <4>2. r # <<>> => 1 \in 1 .. Len(r) /\ q[i + 1] = r[1] /\ i < Len(q)
        BY <1>1, <3>2
      <4>3. r = <<>> => ~(i < Len(q))
        BY <1>1, <3>2
      <4>. QED
        BY <1>1, <2>2, <4>1, <4>2, <4>3
    <3>3. CASE ~(i \in 1 .. Len(s))
      <4>1. PICK j \in 1 .. Len(r) : j = i - Len(s)
        BY <1>2, <3>3
      <4>2. f[r[j]] = IF j < Len(r) THEN r[j + 1] ELSE Null
        BY DEF Follows
      <4>3. q[i] = r[j] /\ (j < Len(r) <=> i < Len(q))
        BY <1>1, <1>2, <3>3, <4>1
      <4>4. j < Len(r) => q[i + 1] = r[j + 1]
        <5>1. Len(s) + (j + 1) = i + 1 /\ (j < Len(r) => j + 1 \in 1 .. Len(r))
          BY <1>1, <4>1
        <5>. QED
          BY <1>1, <5>1
      <4>. QED
        BY <4>2, <4>3, <4>4
    <3>. QED
      BY <1>1, <3>1, <3>2, <3>3
  <2>. QED
    BY <2>1, <2>3 DEF Follows
<1>. QED
  BY <1>3 DEF q

\* A sequence without repetition is no longer than the set it is over.
LEMMA ShortEnough ==
  ASSUME NEW S, IsFiniteSet(S), NEW s \in Seq(S), Once(s)
  PROVE  Len(s) \in Nat /\ Cardinality(S) \in Nat /\ Len(s) <= Cardinality(S)
<1>1. Len(s) \in Nat /\ Cardinality(S) \in Nat
  BY FS_CardinalityType
<1>2. s \in [1 .. Len(s) -> S]
  OBVIOUS
<1>3. s \in Injection(1 .. Len(s), S)
  BY <1>2 DEF Once, Injection, IsInjective
<1>4. Cardinality(1 .. Len(s)) <= Cardinality(S)
  BY <1>3, FS_Injection
<1>5. Cardinality(1 .. Len(s)) = Len(s)
  <2>1. 1 \in Int /\ Len(s) \in Int
    BY <1>1
  <2>2. Cardinality(1 .. Len(s)) = IF 1 > Len(s) THEN 0 ELSE Len(s) - 1 + 1
    BY <2>1, FS_Interval
  <2>. QED
    BY <1>1, <2>2
<1>. QED
  BY <1>1, <1>4, <1>5

\* What List() returns: the path that begins there, and the rest of it only if
\* the path does not end.
LEMMA ListIs ==
  ASSUME next \in [Nodes -> Nodes \cup {Null}],
         NEW s \in Seq(Nodes), Once(s), NEW h \in Nodes \cup {Null},
         NEW z \in Nodes \cup {Null}, Reaches(h, s, z, next)
  PROVE  /\ \E r \in Seq(Nodes) : List(h) = s \o r
         /\ z = Null => List(h) = s
<1> DEFINE C == Cardinality(Nodes)
           g == CHOOSE f : f = [k \in 0 .. C |-> [m \in Nodes \cup {Null} |->
                  IF m = Null \/ k = 0 THEN <<>> ELSE <<m>> \o f[k - 1][next[m]]]]
<1>1. Null \notin Nodes /\ C \in Nat /\ Len(s) \in Nat /\ Len(s) <= C
  BY StackAssumption, ShortEnough
<1>2. List(h) = g[C][h]
  BY DEF List
<1>3. ListsTo(g, C)
  <2>1. \E f : ListsTo(f, C)
    BY <1>1, ListsExist
  <2>. QED
    BY <2>1 DEF ListsTo
<1> HIDE DEF C, g
<1>4. C \in Len(s) .. C /\ C - Len(s) \in 0 .. C
  BY <1>1
<1>5. g[C][h] = s \o g[C - Len(s)][z]
  BY <1>1, <1>3, <1>4, ListsFollow
<1>6. g[C - Len(s)][z] \in Seq(Nodes)
  BY <1>1, <1>3, <1>4, ListsAreSequences
<1>7. z = Null => g[C - Len(s)][z] = <<>>
  <2>1. PICK k \in 0 .. C : k = C - Len(s)
    BY <1>4
  <2>2. g[k][z] = IF z = Null \/ k = 0 THEN <<>> ELSE <<z>> \o g[k - 1][next[z]]
    BY <1>1, <1>3, ListsAt
  <2>. QED
    BY <2>1, <2>2
<1>8. s \o <<>> = s
  OBVIOUS
<1>. QED
  BY <1>2, <1>5, <1>6, <1>7, <1>8

\* The members of a path's list are those of the path when it ends.
LEMMA MembersAre ==
  ASSUME next \in [Nodes -> Nodes \cup {Null}],
         NEW s \in Seq(Nodes), Once(s), NEW h \in Nodes \cup {Null},
         Reaches(h, s, Null, next)
  PROVE  Members(h) = Elems(s)
<1>1. List(h) = s
  BY ListIs
<1>. QED
  BY <1>1 DEF Members, Elems

\* The members of s \o r up to the last of s are those of s.
LEMMA UpToAll ==
  ASSUME NEW S, NEW s \in Seq(S), NEW r \in Seq(S), s # <<>>, Once(s)
  PROVE  UpTo(s \o r, s[Len(s)]) = Elems(s)
<1> DEFINE q == s \o r
           n == s[Len(s)]
           I == {j \in 1 .. Len(q) : \A k \in 1 .. j - 1 : q[k] # n}
<1>1. /\ Len(q) \in Nat /\ Len(q) >= Len(s) /\ Len(s) \in Nat /\ Len(s) >= 1
      /\ \A i \in 1 .. Len(s) : q[i] = s[i]
  OBVIOUS
<1>2. \A i \in 1 .. Len(s) : s[i] = n => i = Len(s)
  BY <1>1 DEF Once
<1> HIDE DEF q, n
<1>3. ASSUME NEW j \in I PROVE j \in 1 .. Len(s)
  <2>1. SUFFICES ASSUME j > Len(s) PROVE FALSE
    BY <1>1
  <2>2. Len(s) \in 1 .. j - 1 /\ q[Len(s)] = n
    BY <1>1, <2>1 DEF n
  <2>. QED
    BY <2>2
<1>4. ASSUME NEW j \in 1 .. Len(s) PROVE j \in I
  BY <1>1, <1>2
<1>5. I = 1 .. Len(s)
  BY <1>3, <1>4
<1>6. UpTo(q, n) = {q[i] : i \in I}
  BY DEF UpTo
<1> HIDE DEF I
<1>7. UpTo(q, n) = Elems(s)
  BY <1>1, <1>5, <1>6 DEF Elems
<1>. QED
  BY <1>7 DEF q, n

-----------------------------------------------------------------------------
(* lock_free_stack: its steps *)

\* The invariant holds when the constructor is done.
LEMMA PnInvInit == Init => PnInv
<1> SUFFICES ASSUME Init PROVE PnInv
  OBVIOUS
<1> DEFINE B == [t \in Threads |-> <<>>]
<1> USE DEF Init
<1>1. PnTyped
  BY DEF PnTyped, PnSteps
<1>2. PnInStep
  BY DEF PnInStep, HasBatch
<1>3. threadsInPop = Cardinality(Counted)
  <2>1. Counted = {}
    BY DEF Counted, InPop
  <2>. QED
    BY <2>1, FS_EmptySet
<1>4. B \in [Threads -> Seq(Nodes)] /\ \A t \in Threads : B[t] = <<>>
  OBVIOUS
<1> HIDE DEF B
<1>5. PnPlaced(<<>>, B)
  <2>1. \A t \in Threads : PnOwners(B)[t] = {} /\ Private(t) = {}
    BY <1>4, EmptyList DEF PnOwners, Private
  <2>2. Parted({}, {}, {}, PnOwners(B))
    BY <2>1 DEF Parted
  <2>3. /\ heap = {} /\ Elems(stack) = {} /\ Elems(<<>>) = {} /\ Once(stack)
        /\ Once(<<>>) /\ <<>> \in Seq(Nodes)
    BY EmptyList
  <2>. QED
    BY <1>4, <2>1, <2>2, <2>3 DEF PnPlaced
<1>6. PnLinked(<<>>, B)
  <2>1. \A t \in Threads : pc[t] = "idle" /\ batch[t] = Null /\ BatchEnd(t) = Null
    BY DEF BatchEnd
  <2>. QED
    BY <1>4, <2>1, EmptyList, ReachesNull DEF PnLinked, HasBatch
<1>7. PnProtected(B)
  BY DEF PnProtected
<1>8. PnInvOf(<<>>, B)
  BY <1>1, <1>2, <1>3, <1>5, <1>6, <1>7 DEF PnInvOf
<1>9. <<>> \in Seq(Nodes)
  OBVIOUS
<1>. QED
  BY <1>4, <1>8, <1>9 DEF PnInv

\* What the invariant says of the places of the nodes.
LEMMA PnTop ==
  ASSUME NEW K, NEW B, PnInvOf(K, B)
  PROVE  /\ Null \notin Nodes \cup Values
         /\ head = Null <=> stack = <<>>
         /\ head # Null => head = stack[1] /\ head \in Elems(stack)
         /\ toBeDeleted = Null <=> K = <<>>
         /\ Elems(stack) \subseteq heap /\ Elems(K) \subseteq heap
         /\ Elems(stack) \cap Elems(K) = {}
         /\ \A t \in Threads :
              /\ Private(t) \subseteq heap /\ Elems(B[t]) \subseteq heap
              /\ Private(t) \cap (Elems(stack) \cup Elems(K)) = {}
              /\ Elems(B[t]) \cap (Elems(stack) \cup Elems(K)) = {}
              /\ Private(t) \cap Elems(B[t]) = {}
         /\ \A t, u \in Threads : t # u =>
              (Private(t) \cup Elems(B[t])) \cap (Private(u) \cup Elems(B[u])) = {}
<1>1. Null \notin Nodes \cup Values
  BY StackAssumption
<1>2. /\ head = Null <=> stack = <<>>
      /\ head # Null => head = stack[1] /\ head \in Elems(stack)
  BY <1>1, ListHead DEF PnInvOf, PnLinked, PnTyped
<1>3. toBeDeleted = Null <=> K = <<>>
  <2>1. K \in Seq(Nodes) /\ Follows(toBeDeleted, K, next)
    BY DEF PnInvOf, PnLinked, PnPlaced
  <2>. QED
    BY <1>1, <2>1, ListHead
<1>4. \A t \in Threads : PnOwners(B)[t] = Private(t) \cup Elems(B[t])
  BY DEF PnOwners
<1>5. Parted(heap, Elems(stack), Elems(K), PnOwners(B))
  BY DEF PnInvOf, PnPlaced
<1>6. /\ Elems(stack) \subseteq heap /\ Elems(K) \subseteq heap
      /\ Elems(stack) \cap Elems(K) = {}
      /\ \A t \in Threads : /\ PnOwners(B)[t] \subseteq heap
                            /\ PnOwners(B)[t] \cap (Elems(stack) \cup Elems(K)) = {}
      /\ \A t, u \in Threads : t # u => PnOwners(B)[t] \cap PnOwners(B)[u] = {}
  <2> HIDE DEF PnOwners
  <2>. QED
    BY <1>5 DEF Parted
<1>7. \A t \in Threads : Private(t) \cap Elems(B[t]) = {}
  BY DEF PnInvOf, PnPlaced
<1>. QED
  BY <1>1, <1>2, <1>3, <1>4, <1>6, <1>7

\* What t has of its own.
LEMMA PnOwn ==
  ASSUME NEW K, NEW B, PnInvOf(K, B), NEW t \in Threads
  PROVE  /\ B[t] \in Seq(Nodes) /\ Once(B[t])
         /\ HasBatch(t) <=> B[t] # <<>>
         /\ Elems(B[t]) \subseteq Nodes
         /\ HasBatch(t) => /\ batch[t] = B[t][1] /\ batch[t] \in Elems(B[t])
                           /\ B[t][Len(B[t])] \in Elems(B[t])
         /\ ~HasBatch(t) => Elems(B[t]) = {}
         /\ pc[t] = "exchange" => last[t] \in Private(t) \cup Elems(B[t]) /\ last[t] \in Nodes
         /\ pc[t] \in {"push", "swap"} => node[t] \in Nodes /\ Private(t) = {node[t]}
<1>1. /\ B[t] \in Seq(Nodes) /\ Once(B[t]) /\ (HasBatch(t) <=> B[t] # <<>>)
      /\ Reaches(batch[t], B[t], BatchEnd(t), next)
      /\ pc[t] = "exchange" /\ HasBatch(t) => last[t] = B[t][Len(B[t])]
  BY DEF PnInvOf, PnPlaced, PnLinked
<1>2. /\ Elems(B[t]) \subseteq Nodes
      /\ HasBatch(t) => /\ batch[t] = B[t][1] /\ batch[t] \in Elems(B[t])
                        /\ B[t][Len(B[t])] \in Elems(B[t])
  <2>1. PICK s \in Seq(Nodes) : s = B[t]
    BY <1>1
  <2>2. PICK h, z : h = batch[t] /\ z = BatchEnd(t)
    OBVIOUS
  <2>3. Reaches(h, s, z, next)
    BY <1>1, <2>1, <2>2
  <2>4. /\ Elems(s) \subseteq Nodes
        /\ s # <<>> => h = s[1] /\ h \in Elems(s) /\ s[Len(s)] \in Elems(s)
    BY <2>3, ReachesHead
  <2>. QED
    BY <1>1, <2>1, <2>2, <2>4
<1>3. ~HasBatch(t) => Elems(B[t]) = {}
  BY <1>1, EmptyList
<1>4. /\ node[t] \in Nodes \cup {Null}
      /\ pc[t] \in {"push", "swap"} => node[t] # Null
      /\ pc[t] = "exchange" /\ ~HasBatch(t) => last[t] = node[t] /\ node[t] # Null
  BY DEF PnInvOf, PnInStep, PnTyped, First, HasBatch
<1>5. node[t] # Null /\ pc[t] \in {"push", "swap", "exchange"} => Private(t) = {node[t]}
  BY DEF Private
<1>6. pc[t] = "exchange" => last[t] \in Private(t) \cup Elems(B[t]) /\ last[t] \in Nodes
  <2>1. CASE HasBatch(t)
    BY <1>1, <1>2, <2>1
  <2>2. CASE ~HasBatch(t)
    BY <1>4, <1>5, <2>2
  <2>. QED
    BY <2>1, <2>2
<1>7. pc[t] \in {"push", "swap"} => node[t] \in Nodes /\ Private(t) = {node[t]}
  BY <1>4, <1>5
<1>. QED
  BY <1>1, <1>2, <1>3, <1>6, <1>7

\* The steps of a thread.
PnStep(t) ==
  \/ PushCall(t) \/ PushFails(t) \/ Push(t) \/ PushReturn(t)
  \/ Enter(t) \/ LoadHead(t) \/ ReadNext(t) \/ PopFails(t) \/ Pop(t) \/ Swap(t)
  \/ Test(t) \/ Take(t) \/ Leave(t) \/ Delete(t)
  \/ Chain(t) \/ ChainNull(t) \/ ExchangeFails(t) \/ Exchange(t) \/ Decrement(t) \/ Return(t)

\* A step of the class is a step of some thread.
LEMMA PnSteppers == Next => \E t \in Threads : PnStep(t)
BY DEF Next, Step, StrongStep, PnStep

\* What chain_pending_nodes() makes point to the pending nodes: the last node
\* of the batch, or old_head.
LEMMA PnChains ==
  ASSUME NEW K, NEW B, PnInvOf(K, B), NEW t \in Threads, pc[t] = "chain", First(t) # Null
  PROVE  /\ LastOfFirst(t) \in Nodes /\ LastOfFirst(t) \in Private(t) \cup Elems(B[t])
         /\ HasBatch(t) => LastOfFirst(t) = B[t][Len(B[t])]
         /\ ~HasBatch(t) => LastOfFirst(t) = node[t]
<1>1. CASE HasBatch(t)
  <2>1. batch[t] \in Nodes \cup {Null} /\ next \in [Nodes -> Nodes \cup {Null}]
    BY DEF PnInvOf, PnTyped
  <2>2. Reaches(batch[t], B[t], Null, next)
    BY DEF PnInvOf, PnLinked, BatchEnd
  <2>3. List(batch[t]) = B[t]
    BY <2>1, <2>2, PnOwn, ListIs
  <2>4. LastOfFirst(t) = B[t][Len(B[t])]
    BY <1>1, <2>3 DEF LastOfFirst, HasBatch
  <2>. QED
    BY <1>1, <2>4, PnOwn
<1>2. CASE ~HasBatch(t)
  <2>1. node[t] \in Nodes \cup {Null} /\ node[t] # Null
    BY <1>2 DEF PnInvOf, PnTyped, First, HasBatch
  <2>. QED
    BY <1>2, <2>1 DEF LastOfFirst, HasBatch, Private
<1>. QED
  BY <1>1, <1>2

\* Each operation keeps the types.
LEMMA PnTypedStep ==
  ASSUME NEW K, NEW B, PnInvOf(K, B), NEW t \in Threads, PnStep(t)
  PROVE  PnTyped'
<1> USE DEF PnTyped, Goto, shared, locals, PnSteps
<1>0. PnTyped /\ PnInStep
  BY DEF PnInvOf
<1>1. CASE PushCall(t)
  BY <1>0, <1>1 DEF PushCall
<1>2. CASE PushFails(t)
  BY <1>0, <1>2 DEF PushFails
<1>3. CASE Push(t)
  <2>1. node[t] \in Nodes
    BY <1>3, PnOwn DEF Push
  <2>2. stack' \in Seq(Nodes)
    BY <1>0, <1>3, <2>1, Pushed DEF Push
  <2>. QED
    BY <1>0, <1>3, <2>1, <2>2 DEF Push
<1>4. CASE PushReturn(t) \/ Enter(t)
  BY <1>0, <1>4 DEF PushReturn, Enter
<1>5. CASE LoadHead(t) \/ PopFails(t)
  BY <1>0, <1>5 DEF LoadHead, PopFails, Observe
<1>6. CASE ReadNext(t)
  <2>1. node[t] \in Nodes
    BY <1>0, <1>6 DEF ReadNext, PnInStep
  <2>. QED
    BY <1>0, <1>6, <2>1 DEF ReadNext
<1>7. CASE Pop(t)
  <2>1. stack # <<>>
    BY <1>0, <1>7, PnTop DEF Pop, PnInStep
  <2>2. stack' \in Seq(Nodes)
    BY <1>0, <1>7, <2>1, Popped DEF Pop
  <2>. QED
    BY <1>0, <1>7, <2>2 DEF Pop
<1>8. CASE Swap(t)
  <2>1. node[t] \in Nodes
    BY <1>8, PnOwn DEF Swap
  <2>2. data[node[t]] \in Values \cup {Null}
    BY <1>0, <2>1
  <2>3. res' \in [Threads -> Values \cup {Null}]
    BY <1>0, <1>8, <2>2 DEF Swap
  <2>. QED
    BY <1>0, <1>8, <2>3 DEF Swap
<1>9. CASE Test(t)
  BY <1>0, <1>9 DEF Test
<1>10. CASE Take(t)
  BY <1>0, <1>10 DEF Take
<1>11. CASE Leave(t)
  BY <1>0, <1>11 DEF Leave
<1>12. CASE Delete(t)
  <2>1. heap' \subseteq Nodes
    BY <1>0, <1>12 DEF Delete
  <2>2. next' \in [Nodes -> Nodes \cup {Null}]
    <3>1. PICK D : next' = [n \in Nodes |-> IF n \in D THEN Null ELSE next[n]]
      BY <1>12 DEF Delete
    <3>. QED
      BY <1>0, <3>1
  <2>. QED
    BY <1>0, <1>12, <2>1, <2>2 DEF Delete
<1>13. CASE Chain(t)
  <2>1. PICK l \in Nodes : last' = [last EXCEPT ![t] = l]
    <3>1. last' = [last EXCEPT ![t] = LastOfFirst(t)]
      BY <1>13 DEF Chain
    <3>2. LastOfFirst(t) \in Nodes
      BY <1>13, PnChains DEF Chain
    <3>. QED
      BY <3>1, <3>2
  <2>2. next' = [next EXCEPT ![l] = toBeDeleted]
    BY <1>0, <1>13, <2>1 DEF Chain
  <2>. QED
    BY <1>0, <1>13, <2>1, <2>2 DEF Chain
<1>14. CASE ChainNull(t)
  BY <1>0, <1>14 DEF ChainNull
<1>15. CASE ExchangeFails(t)
  BY <1>0, <1>15 DEF ExchangeFails
<1>16. CASE Exchange(t)
  <2>1. First(t) \in Nodes \cup {Null}
    BY <1>0 DEF First
  <2>2. pc' \in [Threads -> PnSteps] /\ batch' \in [Threads -> Nodes \cup {Null}]
        /\ node' \in [Threads -> Nodes \cup {Null}]
    BY <1>0, <1>16 DEF Exchange, Chained
  <2>. QED
    BY <1>0, <1>16, <2>1, <2>2 DEF Exchange, Chained
<1>17. CASE Decrement(t) \/ Return(t)
  BY <1>0, <1>17 DEF Decrement, Return
<1>. QED
  BY <1>1, <1>2, <1>3, <1>4, <1>5, <1>6, <1>7, <1>8, <1>9, <1>10, <1>11, <1>12, <1>13,
     <1>14, <1>15, <1>16, <1>17 DEF PnStep

\* A step of t leaves the locals of the other threads.
LEMMA PnAlone ==
  ASSUME NEW K, NEW B, PnInvOf(K, B), NEW t \in Threads, PnStep(t), NEW u \in Threads, u # t
  PROVE  /\ pc'[u] = pc[u] /\ node'[u] = node[u] /\ seen'[u] = seen[u]
         /\ batch'[u] = batch[u] /\ last'[u] = last[u] /\ res'[u] = res[u]
         /\ Private(u)' = Private(u) /\ HasBatch(u)' = HasBatch(u)
         /\ InPop(u)' = InPop(u) /\ WillDelete(u)' = WillDelete(u)
<1> USE DEF PnTyped, Goto, shared, locals
<1>0. PnTyped
  BY DEF PnInvOf
<1>1. /\ pc'[u] = pc[u] /\ node'[u] = node[u] /\ seen'[u] = seen[u]
      /\ batch'[u] = batch[u] /\ last'[u] = last[u] /\ res'[u] = res[u]
  <2>1. CASE PushCall(t) \/ PushFails(t) \/ Push(t) \/ PushReturn(t) \/ Enter(t)
    BY <1>0, <2>1 DEF PushCall, PushFails, Push, PushReturn, Enter
  <2>2. CASE LoadHead(t) \/ ReadNext(t) \/ PopFails(t) \/ Pop(t) \/ Swap(t)
    BY <1>0, <2>2 DEF LoadHead, ReadNext, PopFails, Pop, Swap, Observe
  <2>3. CASE Test(t) \/ Take(t) \/ Leave(t) \/ Decrement(t) \/ Return(t)
    BY <1>0, <2>3 DEF Test, Take, Leave, Decrement, Return
  <2>4. CASE Delete(t)
    BY <1>0, <2>4 DEF Delete
  <2>5. CASE Chain(t) \/ ChainNull(t) \/ ExchangeFails(t)
    BY <1>0, <2>5 DEF Chain, ChainNull, ExchangeFails
  <2>6. CASE Exchange(t)
    BY <1>0, <2>6 DEF Exchange, Chained
  <2>. QED
    BY <2>1, <2>2, <2>3, <2>4, <2>5, <2>6 DEF PnStep
<1>. QED
  BY <1>1 DEF Private, HasBatch, InPop, WillDelete

\* Each operation leaves its thread with what the next one needs.
LEMMA PnInStepStep ==
  ASSUME NEW K, NEW B, PnInvOf(K, B), NEW t \in Threads, PnStep(t)
  PROVE  PnInStep'
<1> DEFINE Fine(u) ==
      /\ pc[u] \in {"push", "next", "pop", "swap"} => node[u] # Null
      /\ pc[u] = "exchange" => First(u) # Null
      /\ HasBatch(u) => pc[u] \in {"leave", "chain", "exchange", "delete"}
      /\ pc[u] \in {"idle", "push", "pushed", "load", "next", "pop"} => res[u] = Null
      /\ pc[u] \in {"crash", "idle"} => node[u] = Null
      /\ pc[u] = "exchange" /\ ~HasBatch(u) => last[u] = node[u]
<1>0. PnTyped /\ Null \notin Nodes /\ \A u \in Threads : Fine(u)
  BY PnTop DEF PnInvOf, PnInStep
<1>1. SUFFICES Fine(t)'
  <2>1. ASSUME NEW u \in Threads, u # t PROVE Fine(u)'
    BY <1>0, <2>1, PnAlone DEF First, HasBatch
  <2>. QED
    BY <2>1 DEF PnInStep
<1>2. Fine(t)
  BY <1>0
<1> USE DEF PnTyped, Goto, shared, locals, First, HasBatch
<1>3. CASE PushCall(t) \/ PushFails(t) \/ Push(t) \/ PushReturn(t) \/ Enter(t)
  <2>1. CASE PushCall(t)
    BY <1>0, <1>2, <2>1 DEF PushCall
  <2>2. CASE PushFails(t) \/ Push(t) \/ PushReturn(t) \/ Enter(t)
    BY <1>0, <1>2, <2>2 DEF PushFails, Push, PushReturn, Enter
  <2>. QED
    BY <1>3, <2>1, <2>2
<1>4. CASE LoadHead(t) \/ PopFails(t) \/ ReadNext(t) \/ Pop(t) \/ Swap(t)
  BY <1>0, <1>2, <1>4 DEF LoadHead, PopFails, Observe, ReadNext, Pop, Swap
<1>5. CASE Test(t) \/ Take(t) \/ Leave(t)
  BY <1>0, <1>2, <1>5 DEF Test, Take, Leave
<1>6. CASE Delete(t) \/ Decrement(t) \/ Return(t) \/ ExchangeFails(t) \/ ChainNull(t)
  BY <1>0, <1>2, <1>6 DEF Delete, Decrement, Return, ExchangeFails, ChainNull
<1>7. CASE Chain(t)
  <2>1. ~HasBatch(t) => LastOfFirst(t) = node[t]
    BY <1>7, PnChains DEF Chain
  <2>2. /\ last' = [last EXCEPT ![t] = LastOfFirst(t)] /\ First(t) # Null
        /\ batch' = batch /\ node' = node /\ res' = res /\ pc'[t] = "exchange" /\ pc[t] = "chain"
    BY <1>0, <1>7 DEF Chain
  <2>. QED
    BY <1>0, <1>2, <2>1, <2>2
<1>8. CASE Exchange(t)
  BY <1>0, <1>2, <1>8 DEF Exchange, Chained
<1>. QED
  BY <1>3, <1>4, <1>5, <1>6, <1>7, <1>8 DEF PnStep

\* _threads_in_pop counts those threads and no others.
LEMMA PnCountedStep ==
  ASSUME NEW K, NEW B, PnInvOf(K, B), NEW t \in Threads, PnStep(t)
  PROVE  threadsInPop' = Cardinality(Counted')
<1>0. /\ PnTyped /\ PnInStep /\ threadsInPop = Cardinality(Counted)
      /\ IsFiniteSet(Threads)
  BY StackAssumption DEF PnInvOf
<1>1. IsFiniteSet(Counted) /\ threadsInPop \in Nat
  <2>1. Counted \in SUBSET Threads
    BY DEF Counted
  <2>2. IsFiniteSet(Counted)
    BY <1>0, <2>1, FS_Subset
  <2>. QED
    BY <1>0, <2>2, FS_CardinalityType
<1>2. \A u \in Threads : u # t => (InPop(u)' <=> InPop(u))
  BY PnAlone
<1> USE DEF PnTyped, Goto, shared, locals
<1>3. CASE Enter(t)
  <2>1. pc[t] = "idle" /\ pc'[t] = "load" /\ threadsInPop' = threadsInPop + 1
    BY <1>0, <1>3 DEF Enter
  <2>2. t \notin Counted /\ Counted' = Counted \cup {t}
    BY <1>2, <2>1 DEF Counted, InPop
  <2>. QED
    BY <1>0, <1>1, <2>1, <2>2, FS_AddElement
<1>4. CASE Leave(t) \/ Decrement(t)
  <2>1. threadsInPop' = threadsInPop - 1 /\ InPop(t)
    BY <1>0, <1>4 DEF Leave, Decrement, InPop
  <2>2. ~InPop(t)'
    BY <1>0, <1>4 DEF Leave, Decrement, InPop, HasBatch
  <2>3. t \in Counted /\ Counted' = Counted \ {t}
    BY <1>2, <2>1, <2>2 DEF Counted
  <2>. QED
    BY <1>0, <1>1, <2>1, <2>3, FS_RemoveElement
<1>5. ASSUME threadsInPop' = threadsInPop, InPop(t)' <=> InPop(t)
      PROVE  threadsInPop' = Cardinality(Counted')
  <2>1. Counted' = Counted
    BY <1>2, <1>5 DEF Counted
  <2>. QED
    BY <1>0, <1>5, <2>1
<1>6. CASE PushCall(t) \/ PushFails(t) \/ Push(t) \/ PushReturn(t)
  <2>1. /\ threadsInPop' = threadsInPop
        /\ pc[t] \in {"idle", "push", "pushed"} /\ pc'[t] \in {"idle", "push", "pushed"}
    BY <1>0, <1>6 DEF PushCall, PushFails, Push, PushReturn
  <2>. QED
    BY <1>5, <2>1 DEF InPop
<1>7. CASE LoadHead(t) \/ PopFails(t) \/ ReadNext(t) \/ Pop(t) \/ Swap(t) \/ Take(t)
  <2>1. /\ threadsInPop' = threadsInPop
        /\ pc[t] \in {"load", "next", "pop", "swap", "take"}
        /\ pc'[t] \in {"next", "test", "pop", "swap", "leave"}
    BY <1>0, <1>7 DEF LoadHead, PopFails, Observe, ReadNext, Pop, Swap, Take
  <2>. QED
    BY <1>5, <2>1 DEF InPop
<1>8. CASE Test(t)
  <2>1. threadsInPop' = threadsInPop /\ pc[t] = "test" /\ pc'[t] \in {"take", "chain"}
        /\ batch' = batch /\ ~HasBatch(t)
    BY <1>0, <1>8 DEF Test, PnInStep
  <2>. QED
    BY <1>5, <2>1 DEF InPop, HasBatch
<1>9. CASE Delete(t) \/ Return(t)
  <2>1. /\ threadsInPop' = threadsInPop /\ pc[t] \in {"delete", "return"}
        /\ pc'[t] \in {"return", "idle"}
    BY <1>0, <1>9 DEF Delete, Return
  <2>. QED
    BY <1>5, <2>1 DEF InPop
<1>10. CASE Chain(t) \/ ExchangeFails(t)
  <2>1. /\ threadsInPop' = threadsInPop /\ pc[t] \in {"chain", "exchange"}
        /\ pc'[t] = "exchange" /\ batch' = batch
    BY <1>0, <1>10 DEF Chain, ExchangeFails
  <2>. QED
    BY <1>5, <2>1 DEF InPop, HasBatch
<1>11. CASE ChainNull(t)
  <2>1. /\ threadsInPop' = threadsInPop /\ pc[t] = "chain" /\ ~HasBatch(t)
        /\ pc'[t] = "crash"
    BY <1>0, <1>11 DEF ChainNull, HasBatch, First
  <2>. QED
    BY <1>5, <2>1 DEF InPop
<1>12. CASE Exchange(t)
  <2>1. CASE HasBatch(t)
    <3>1. threadsInPop' = threadsInPop /\ pc[t] = "exchange" /\ pc'[t] = "delete"
      BY <1>0, <1>12, <2>1 DEF Exchange, Chained, HasBatch
    <3>. QED
      BY <1>5, <2>1, <3>1 DEF InPop
  <2>2. CASE ~HasBatch(t)
    <3>1. threadsInPop' = threadsInPop /\ pc[t] = "exchange" /\ pc'[t] = "decrement"
      BY <1>0, <1>12, <2>2 DEF Exchange, Chained, HasBatch
    <3>. QED
      BY <1>5, <2>2, <3>1 DEF InPop
  <2>. QED
    BY <2>1, <2>2
<1>. QED
  BY <1>3, <1>4, <1>6, <1>7, <1>8, <1>9, <1>10, <1>11, <1>12 DEF PnStep

\* The pending nodes L and the batches C after a step of t that found K and B.
ListsAfter(K, B, t, L, C) ==
  /\ pc[t] = "take" => L = <<>> /\ C = [B EXCEPT ![t] = K]
  /\ pc[t] = "delete" => L = K /\ C = [B EXCEPT ![t] = <<>>]
  /\ pc[t] = "exchange" /\ pc'[t] # "exchange" =>
       /\ L = (IF HasBatch(t) THEN B[t] ELSE <<node[t]>>) \o K
       /\ C = [B EXCEPT ![t] = <<>>]
  /\ pc[t] \notin {"take", "delete"} /\ (pc[t] = "exchange" => pc'[t] = "exchange") =>
       L = K /\ C = B

\* The pending nodes and the batches after a step are sequences of nodes.
LEMMA PnListsAfter ==
  ASSUME NEW K, NEW B, PnInvOf(K, B), NEW t \in Threads
  PROVE  \E L \in Seq(Nodes), C \in [Threads -> Seq(Nodes)] : ListsAfter(K, B, t, L, C)
<1>1. K \in Seq(Nodes) /\ B \in [Threads -> Seq(Nodes)] /\ <<>> \in Seq(Nodes)
  BY DEF PnInvOf, PnPlaced
<1>2. CASE pc[t] = "take"
  <2>1. [B EXCEPT ![t] = K] \in [Threads -> Seq(Nodes)]
    BY <1>1
  <2>2. ListsAfter(K, B, t, <<>>, [B EXCEPT ![t] = K])
    BY <1>2 DEF ListsAfter
  <2>. QED
    BY <1>1, <2>1, <2>2
<1>3. [B EXCEPT ![t] = <<>>] \in [Threads -> Seq(Nodes)]
  BY <1>1
<1>4. CASE pc[t] = "delete"
  <2>1. ListsAfter(K, B, t, K, [B EXCEPT ![t] = <<>>])
    BY <1>4 DEF ListsAfter
  <2>. QED
    BY <1>1, <1>3, <2>1
<1>5. CASE pc[t] = "exchange" /\ pc'[t] # "exchange"
  <2>1. PICK s \in Seq(Nodes) : s = IF HasBatch(t) THEN B[t] ELSE <<node[t]>>
    <3>1. B[t] \in Seq(Nodes)
      BY <1>1
    <3>2. ~HasBatch(t) => node[t] \in Nodes
      BY <1>5 DEF PnInvOf, PnTyped, PnInStep, First, HasBatch
    <3>3. ~HasBatch(t) => <<node[t]>> \in Seq(Nodes)
      BY <3>2
    <3>. QED
      BY <3>1, <3>3
  <2>2. s \o K \in Seq(Nodes)
    BY <1>1
  <2>3. ListsAfter(K, B, t, s \o K, [B EXCEPT ![t] = <<>>])
    BY <1>5, <2>1 DEF ListsAfter
  <2>. QED
    BY <1>3, <2>2, <2>3
<1>6. CASE pc[t] \notin {"take", "delete"} /\ (pc[t] = "exchange" => pc'[t] = "exchange")
  <2>1. ListsAfter(K, B, t, K, B)
    BY <1>6 DEF ListsAfter
  <2>. QED
    BY <1>1, <2>1
<1>. QED
  BY <1>2, <1>4, <1>5, <1>6

\* The batches of the other threads stay.
LEMMA PnOtherBatches ==
  ASSUME NEW K, NEW B, PnInvOf(K, B), NEW t \in Threads,
         NEW L, NEW C, ListsAfter(K, B, t, L, C)
  PROVE  \A u \in Threads : u # t => C[u] = B[u]
BY DEF ListsAfter, PnInvOf, PnPlaced

\* What delete_nodes() and the deletion of old_head free is all that t owns.
LEMMA PnDeletes ==
  ASSUME NEW K, NEW B, PnInvOf(K, B), NEW t \in Threads, pc[t] = "delete"
  PROVE  (Members(batch[t]) \cup {node[t]}) \ {Null} = Private(t) \cup Elems(B[t])
<1>1. /\ next \in [Nodes -> Nodes \cup {Null}] /\ batch[t] \in Nodes \cup {Null}
      /\ Reaches(batch[t], B[t], Null, next)
  BY DEF PnInvOf, PnTyped, PnLinked, BatchEnd
<1>2. Members(batch[t]) = Elems(B[t])
  BY <1>1, PnOwn, MembersAre
<1>3. Null \notin Elems(B[t])
  BY PnOwn, PnTop
<1>. QED
  BY <1>2, <1>3 DEF Private

\* Each operation moves nodes between the places, or allocates or deletes
\* them, and every node is still in one place.
LEMMA PnPlacedStep ==
  ASSUME NEW K, NEW B, PnInvOf(K, B), NEW t \in Threads, PnStep(t),
         NEW L \in Seq(Nodes), NEW C \in [Threads -> Seq(Nodes)], ListsAfter(K, B, t, L, C)
  PROVE  PnPlaced(L, C)'
<1> DEFINE S == Elems(stack)
           E == Elems(K)
           V == Private(t)
           W == Elems(B[t])
           H == heap \ (S \cup E \cup V \cup W)
<1>0. /\ PnTyped /\ PnInStep /\ Once(stack) /\ Once(K)
      /\ K \in Seq(Nodes) /\ B \in [Threads -> Seq(Nodes)] /\ stack \in Seq(Nodes)
      /\ \A u \in Threads : Once(B[u]) /\ Private(u) \cap Elems(B[u]) = {}
      /\ Null \notin Nodes
  BY PnTop DEF PnInvOf, PnPlaced, PnTyped
<1>1. /\ heap = H \cup S \cup E \cup V \cup W
      /\ S \cap E = {} /\ V \cap W = {} /\ (V \cup W) \cap (S \cup E) = {}
      /\ H \cap (S \cup E \cup V \cup W) = {}
      /\ S \subseteq Nodes /\ E \subseteq Nodes /\ W \subseteq Nodes
      /\ ~HasBatch(t) => W = {} /\ B[t] = <<>>
  <2>1. S \subseteq Nodes /\ E \subseteq Nodes /\ W \subseteq Nodes
    BY <1>0 DEF Elems
  <2>2. ~HasBatch(t) => W = {} /\ B[t] = <<>>
    BY PnOwn
  <2>3. /\ S \cup E \cup V \cup W \subseteq heap
        /\ S \cap E = {} /\ V \cap W = {} /\ (V \cup W) \cap (S \cup E) = {}
    BY PnTop
  <2> HIDE DEF S, E, V, W
  <2>. QED
    BY <2>1, <2>2, <2>3
<1>2. \A u \in Threads : u # t => Once(C[u]) /\ Private(u)' \cap Elems(C[u]) = {}
  BY <1>0, PnAlone, PnOtherBatches
<1> DEFINE X == Private(t)'
           Y == Elems(C[t])
           R == Elems(stack')
           J == Elems(L)
           Sorted == /\ Once(stack') /\ Once(L) /\ Once(C[t])
                     /\ X \cap Y = {} /\ R \cap J = {} /\ (X \cup Y) \cap (R \cup J) = {}
                     /\ heap' = H \cup R \cup J \cup X \cup Y
                     /\ (R \cup J \cup X \cup Y) \cap H = {}
<1>3. ASSUME Sorted PROVE PnPlaced(L, C)'
  <2>1. PICK O, Q : O = PnOwners(B) /\ Q = PnOwners(C)'
    OBVIOUS
  <2>2. O[t] = V \cup W /\ Q[t] = X \cup Y
    BY <2>1 DEF PnOwners
  <2>3. \A u \in Threads \ {t} : Q[u] = O[u]
    BY <2>1, PnAlone, PnOtherBatches DEF PnOwners
  <2>4. PICK s, n, m, g, r, j : /\ s = S /\ n = E /\ m = heap /\ g = heap'
                                /\ r = R /\ j = J
    OBVIOUS
  <2>5. Parted(m, s, n, O)
    BY <2>1, <2>4 DEF PnInvOf, PnPlaced
  <2>6. H = m \ (s \cup n \cup O[t])
    <3> HIDE DEF S, E, V, W
    <3>. QED
      BY <2>2, <2>4
  <2> HIDE DEF S, E, V, W, H, R, J, X, Y
  <2>7. /\ r \cap j = {} /\ Q[t] \cap (r \cup j) = {}
        /\ g = (m \ (s \cup n \cup O[t])) \cup r \cup j \cup Q[t]
        /\ (r \cup j \cup Q[t]) \cap (m \ (s \cup n \cup O[t])) = {}
    BY <1>3, <2>2, <2>4, <2>6
  <2>8. Parted(g, r, j, Q)
    BY <2>3, <2>5, <2>7, PartsMove
  <2>9. Parted(heap', R, J, PnOwners(C)')
    BY <2>1, <2>4, <2>8
  <2>10. \A u \in Threads : Once(C[u]) /\ Private(u)' \cap Elems(C[u]) = {}
    BY <1>2, <1>3 DEF X, Y
  <2>. QED
    BY <1>3, <2>9, <2>10 DEF PnPlaced, R, J
<1> USE DEF PnTyped, Goto, shared, locals
<1>4. ASSUME heap' = heap, stack' = stack, L = K, C = B, X = V
      PROVE  PnPlaced(L, C)'
  <2>1. Once(B[t]) /\ R = S /\ J = E /\ Y = W /\ X = V
    BY <1>0, <1>4
  <2>2. Once(stack') /\ Once(L) /\ Once(C[t])
    BY <1>0, <1>4, <2>1
  <2> HIDE DEF S, E, V, W, H, R, J, X, Y
  <2>3. Sorted
    BY <1>1, <1>4, <2>1, <2>2
  <2>. QED
    BY <1>3, <2>3
<1>5. pc[t] \notin {"take", "delete", "exchange"} => L = K /\ C = B
  BY DEF ListsAfter
<1>6. CASE PushCall(t)
  <2>1. PICK n \in Nodes \ heap : node' = [node EXCEPT ![t] = n] /\ heap' = heap \cup {n}
    BY <1>6 DEF PushCall
  <2>2. /\ pc[t] = "idle" /\ pc'[t] = "push" /\ stack' = stack /\ L = K /\ C = B
        /\ ~HasBatch(t)
    BY <1>0, <1>5, <1>6 DEF PushCall, PnInStep
  <2>3. V = {} /\ X = {n} /\ W = {} /\ Once(C[t])
    BY <1>0, <1>1, <2>1, <2>2 DEF Private
  <2>4. R = S /\ J = E /\ Y = W
    BY <2>2
  <2> HIDE DEF S, E, V, W, H, R, J, X, Y
  <2>9. Sorted
    BY <1>0, <1>1, <2>1, <2>2, <2>3, <2>4
  <2>. QED
    BY <1>3, <2>9
<1>7. CASE Push(t)
  <2>1. /\ pc[t] = "push" /\ pc'[t] = "pushed" /\ L = K /\ C = B /\ heap' = heap
        /\ stack' = <<node[t]>> \o stack /\ ~HasBatch(t)
    BY <1>0, <1>5, <1>7 DEF Push, PnInStep
  <2>2. V = {node[t]} /\ node[t] \in Nodes /\ X = {} /\ W = {} /\ Once(C[t])
    BY <1>0, <1>1, <2>1, PnOwn DEF Private
  <2>3. node[t] \notin S
    BY <1>1, <2>2
  <2>4. Once(stack') /\ R = S \cup {node[t]} /\ J = E /\ Y = W
    BY <1>0, <2>1, <2>2, <2>3, Pushed
  <2> HIDE DEF S, E, V, W, H, R, J, X, Y
  <2>9. Sorted
    BY <1>0, <1>1, <2>1, <2>2, <2>4
  <2>. QED
    BY <1>3, <2>9
<1>8. CASE Pop(t)
  <2>1. /\ pc[t] = "pop" /\ pc'[t] = "swap" /\ L = K /\ C = B /\ heap' = heap
        /\ stack' = Tail(stack) /\ ~HasBatch(t) /\ node' = node
        /\ head = node[t] /\ node[t] # Null
    BY <1>0, <1>5, <1>8 DEF Pop, PnInStep
  <2>2. stack # <<>> /\ node[t] = stack[1]
    BY <2>1, PnTop
  <2>3. V = {} /\ X = {node[t]} /\ W = {} /\ Once(C[t])
    BY <1>0, <1>1, <2>1 DEF Private
  <2>4. /\ Once(stack') /\ R = S \ {node[t]} /\ node[t] \in S
        /\ J = E /\ Y = W
    BY <1>0, <2>1, <2>2, Popped
  <2> HIDE DEF S, E, V, W, H, R, J, X, Y
  <2>9. Sorted
    BY <1>0, <1>1, <2>1, <2>3, <2>4
  <2>. QED
    BY <1>3, <2>9
<1>9. CASE Take(t)
  <2>1. /\ pc[t] = "take" /\ pc'[t] = "leave" /\ heap' = heap /\ stack' = stack
        /\ node' = node /\ ~HasBatch(t)
    BY <1>0, <1>9 DEF Take, PnInStep
  <2>2. L = <<>> /\ C[t] = K
    BY <1>0, <2>1 DEF ListsAfter
  <2>3. X = V /\ W = {} /\ R = S
    BY <1>1, <2>1 DEF Private
  <2>4. J = {} /\ Once(L) /\ Y = E /\ Once(C[t]) /\ Once(stack')
    BY <1>0, <2>1, <2>2, EmptyList
  <2> HIDE DEF S, E, V, W, H, R, J, X, Y
  <2>9. Sorted
    BY <1>0, <1>1, <2>1, <2>3, <2>4
  <2>. QED
    BY <1>3, <2>9
<1>10. CASE Delete(t)
  <2>1. /\ pc[t] = "delete" /\ pc'[t] = "return" /\ stack' = stack
        /\ heap' = heap \ ((Members(batch[t]) \cup {node[t]}) \ {Null})
    BY <1>0, <1>10 DEF Delete
  <2>2. L = K /\ C[t] = <<>>
    BY <1>0, <2>1 DEF ListsAfter
  <2>3. (Members(batch[t]) \cup {node[t]}) \ {Null} = V \cup W
    BY <2>1, PnDeletes
  <2>4. X = {} /\ Y = {} /\ Once(C[t]) /\ R = S /\ J = E
    BY <2>1, <2>2, EmptyList DEF Private
  <2> HIDE DEF S, E, V, W, H, R, J, X, Y
  <2>9. Sorted
    BY <1>0, <1>1, <2>1, <2>2, <2>3, <2>4
  <2>. QED
    BY <1>3, <2>9
<1>11. CASE Exchange(t) /\ HasBatch(t)
  <2>1. /\ pc[t] = "exchange" /\ pc'[t] = "delete" /\ heap' = heap /\ stack' = stack
        /\ node' = node
    BY <1>0, <1>11 DEF Exchange, Chained, HasBatch
  <2>2. L = B[t] \o K /\ C[t] = <<>>
    BY <1>0, <1>11, <2>1 DEF ListsAfter
  <2>3. X = V /\ R = S /\ Y = {} /\ Once(C[t]) /\ Once(stack')
    BY <1>0, <2>1, <2>2, EmptyList DEF Private
  <2>4. J = W \cup E /\ Once(L)
    BY <1>0, <1>1, <2>2, Concatenated
  <2> HIDE DEF S, E, V, W, H, R, J, X, Y
  <2>9. Sorted
    BY <1>0, <1>1, <2>1, <2>3, <2>4
  <2>. QED
    BY <1>3, <2>9
<1>12. CASE Exchange(t) /\ ~HasBatch(t)
  <2>1. /\ pc[t] = "exchange" /\ pc'[t] = "decrement" /\ heap' = heap /\ stack' = stack
        /\ node[t] \in Nodes
    BY <1>0, <1>12 DEF Exchange, Chained, HasBatch, PnInStep, First
  <2>2. L = <<node[t]>> \o K /\ C[t] = <<>>
    BY <1>0, <1>12, <2>1 DEF ListsAfter
  <2>3. /\ V = {node[t]} /\ W = {} /\ X = {}
        /\ R = S /\ Y = {} /\ Once(C[t]) /\ Once(stack')
    BY <1>0, <1>1, <1>12, <2>1, <2>2, EmptyList DEF Private
  <2>4. J = E \cup {node[t]} /\ Once(L)
    <3>1. node[t] \notin E
      BY <1>1, <2>3
    <3>. QED
      BY <1>0, <2>1, <2>2, <3>1, Pushed
  <2> HIDE DEF S, E, V, W, H, R, J, X, Y
  <2>9. Sorted
    BY <1>0, <1>1, <2>1, <2>3, <2>4
  <2>. QED
    BY <1>3, <2>9
<1>13. CASE \/ PushFails(t) \/ PushReturn(t) \/ Enter(t) \/ ReadNext(t)
            \/ Decrement(t) \/ Return(t)
  <2>1. /\ heap' = heap /\ stack' = stack /\ pc[t] \notin {"take", "delete", "exchange"}
        /\ X = V
    BY <1>0, <1>13 DEF PushFails, PushReturn, Enter, ReadNext, Decrement, Return, Private
  <2>. QED
    BY <1>4, <1>5, <2>1
<1>14. CASE LoadHead(t) \/ PopFails(t)
  <2>1. /\ heap' = heap /\ stack' = stack /\ pc[t] \in {"load", "pop"}
        /\ pc'[t] \in {"test", "next"} /\ (pc'[t] = "test" => node'[t] = Null)
    BY <1>0, <1>14 DEF LoadHead, PopFails, Observe
  <2>. QED
    BY <1>4, <1>5, <2>1 DEF Private
<1>15. CASE Swap(t) \/ Test(t) \/ Leave(t) \/ Chain(t)
  <2>1. /\ heap' = heap /\ stack' = stack /\ node' = node
        /\ pc[t] \in {"swap", "test", "leave", "chain"}
        /\ pc'[t] \in {"test", "take", "chain", "delete", "exchange"}
    BY <1>0, <1>15 DEF Swap, Test, Leave, Chain
  <2>. QED
    BY <1>4, <1>5, <2>1 DEF Private
<1>16. CASE ChainNull(t)
  <2>1. /\ heap' = heap /\ stack' = stack /\ pc[t] = "chain" /\ pc'[t] = "crash"
        /\ node[t] = Null
    BY <1>0, <1>16 DEF ChainNull, First
  <2>. QED
    BY <1>4, <1>5, <2>1 DEF Private
<1>17. CASE ExchangeFails(t)
  <2>1. /\ heap' = heap /\ stack' = stack /\ node' = node /\ pc[t] = "exchange"
        /\ pc'[t] = "exchange"
    BY <1>0, <1>17 DEF ExchangeFails
  <2>2. L = K /\ C = B
    BY <2>1 DEF ListsAfter
  <2>. QED
    BY <1>4, <2>1, <2>2 DEF Private
<1>. QED
  BY <1>6, <1>7, <1>8, <1>9, <1>10, <1>11, <1>12, <1>13, <1>14, <1>15, <1>16, <1>17
  DEF PnStep

\* A step of t links anew only nodes that it allocates or owns.
LEMMA PnNextStays ==
  ASSUME NEW K, NEW B, PnInvOf(K, B), NEW t \in Threads, PnStep(t)
  PROVE  /\ \A n \in heap : n \notin Private(t) \cup Elems(B[t]) => next'[n] = next[n]
         /\ pc[t] \notin {"idle", "push", "delete", "chain", "exchange"} => next' = next
         /\ pc[t] = "exchange" /\ pc'[t] # "exchange" => next' = next
         /\ pc[t] = "push" /\ pc'[t] # "push" => next' = next
<1> USE DEF PnTyped, Goto, shared, locals
<1>0. PnTyped
  BY DEF PnInvOf
<1>1. CASE PushCall(t)
  BY <1>0, <1>1 DEF PushCall
<1>2. CASE PushFails(t)
  <2>1. node[t] \in Private(t)
    BY <1>2, PnOwn DEF PushFails
  <2>. QED
    BY <1>0, <1>2, <2>1 DEF PushFails
<1>3. CASE Delete(t)
  <2>1. PICK D : /\ D = (Members(batch[t]) \cup {node[t]}) \ {Null}
                 /\ next' = [n \in Nodes |-> IF n \in D THEN Null ELSE next[n]]
    BY <1>3 DEF Delete
  <2>2. pc[t] = "delete"
    BY <1>3 DEF Delete
  <2>3. D = Private(t) \cup Elems(B[t])
    BY <2>1, <2>2, PnDeletes
  <2>. QED
    BY <1>0, <2>1, <2>2, <2>3
<1>4. CASE Chain(t)
  <2>1. PICK l : l = LastOfFirst(t)
    OBVIOUS
  <2>2. l \in Private(t) \cup Elems(B[t]) /\ pc[t] = "chain"
    BY <1>4, <2>1, PnChains DEF Chain
  <2>3. next' = [next EXCEPT ![l] = toBeDeleted]
    BY <1>0, <1>4, <2>1 DEF Chain
  <2>. QED
    BY <1>0, <2>2, <2>3
<1>5. CASE ExchangeFails(t)
  <2>1. last[t] \in Private(t) \cup Elems(B[t])
    BY <1>5, PnOwn DEF ExchangeFails
  <2>2. pc[t] = "exchange" /\ pc'[t] = "exchange"
    BY <1>0, <1>5 DEF ExchangeFails
  <2>. QED
    BY <1>0, <1>5, <2>1, <2>2 DEF ExchangeFails
<1>6. CASE \/ Push(t) \/ PushReturn(t) \/ Enter(t) \/ LoadHead(t) \/ ReadNext(t)
           \/ PopFails(t) \/ Pop(t) \/ Swap(t) \/ Test(t) \/ Take(t) \/ Leave(t)
           \/ ChainNull(t) \/ Exchange(t) \/ Decrement(t) \/ Return(t)
  BY <1>6 DEF Push, PushReturn, Enter, LoadHead, ReadNext, PopFails, Observe, Pop, Swap,
              Test, Take, Leave, ChainNull, Exchange, Chained, Decrement, Return
<1>7. PushCall(t) => pc[t] = "idle"
  BY DEF PushCall
<1>8. PushFails(t) => pc[t] = "push" /\ pc'[t] = "push"
  BY <1>0 DEF PushFails
<1>. QED
  BY <1>1, <1>2, <1>3, <1>4, <1>5, <1>6, <1>7, <1>8 DEF PnStep

\* The batch of another thread stays linked.
LEMMA PnOthersLinked ==
  ASSUME NEW K, NEW B, PnInvOf(K, B), NEW t \in Threads, PnStep(t),
         NEW L, NEW C, ListsAfter(K, B, t, L, C), NEW u \in Threads, u # t
  PROVE  /\ Reaches(batch'[u], C[u], BatchEnd(u)', next')
         /\ C[u] = <<>> <=> ~HasBatch(u)'
         /\ pc'[u] = "exchange" /\ HasBatch(u)' => last'[u] = C[u][Len(C[u])]
<1>1. /\ pc'[u] = pc[u] /\ batch'[u] = batch[u] /\ last'[u] = last[u]
      /\ HasBatch(u)' = HasBatch(u) /\ C[u] = B[u]
  BY PnAlone, PnOtherBatches
<1>2. /\ Reaches(batch[u], B[u], BatchEnd(u), next)
      /\ B[u] = <<>> <=> ~HasBatch(u)
      /\ pc[u] = "exchange" /\ HasBatch(u) => last[u] = B[u][Len(B[u])]
  BY DEF PnInvOf, PnLinked
<1>3. \A n \in Elems(B[u]) : next[n] = next'[n]
  <2>1. Elems(B[u]) \subseteq heap
    BY PnTop
  <2>2. Elems(B[u]) \cap (Private(t) \cup Elems(B[t])) = {}
    BY PnTop
  <2>. QED
    BY <2>1, <2>2, PnNextStays
<1>4. BatchEnd(u)' = BatchEnd(u)
  <2>1. HasBatch(u) => B[u][Len(B[u])] \in Elems(B[u])
    BY PnOwn
  <2>2. pc[u] = "exchange" /\ HasBatch(u) => next[last[u]] = next'[last[u]]
    BY <1>2, <1>3, <2>1
  <2>. QED
    BY <1>1, <2>2 DEF BatchEnd
<1>5. Reaches(batch[u], B[u], BatchEnd(u), next')
  BY <1>2, <1>3, ReachesStays
<1>. QED
  BY <1>1, <1>2, <1>4, <1>5

\* The lists of the stack and of the pending nodes stay linked.
LEMMA PnListsLinked ==
  ASSUME NEW K, NEW B, PnInvOf(K, B), NEW t \in Threads, PnStep(t),
         NEW L, NEW C, ListsAfter(K, B, t, L, C)
  PROVE  Follows(head', stack', next') /\ Follows(toBeDeleted', L, next')
<1>0. /\ PnTyped /\ PnInStep /\ K \in Seq(Nodes) /\ B \in [Threads -> Seq(Nodes)]
      /\ stack \in Seq(Nodes) /\ Follows(head, stack, next) /\ Follows(toBeDeleted, K, next)
  BY DEF PnInvOf, PnPlaced, PnLinked, PnTyped
<1>1. /\ \A n \in Elems(stack) : next[n] = next'[n]
      /\ \A n \in Elems(K) : next[n] = next'[n]
  <2>1. /\ Elems(stack) \subseteq heap /\ Elems(K) \subseteq heap
        /\ (Private(t) \cup Elems(B[t])) \cap (Elems(stack) \cup Elems(K)) = {}
    BY PnTop
  <2>. QED
    BY <2>1, PnNextStays
<1>2. Follows(head, stack, next') /\ Follows(toBeDeleted, K, next')
  BY <1>0, <1>1, ListStays
<1> USE DEF PnTyped, Goto, shared, locals
<1>3. CASE Push(t)
  <2>1. /\ pc[t] = "push" /\ pc'[t] = "pushed" /\ head' = node[t] /\ toBeDeleted' = toBeDeleted
        /\ next' = next /\ next[node[t]] = head /\ stack' = <<node[t]>> \o stack
    BY <1>0, <1>3 DEF Push
  <2>2. node[t] \in Nodes /\ node[t] \notin Elems(stack)
    BY <2>1, PnOwn, PnTop
  <2>3. Follows(node[t], <<node[t]>> \o stack, next)
    BY <1>0, <2>1, <2>2, Pushed
  <2>4. L = K
    BY <2>1 DEF ListsAfter
  <2>. QED
    BY <1>0, <2>1, <2>3, <2>4
<1>4. CASE Pop(t)
  <2>1. /\ pc[t] = "pop" /\ pc'[t] = "swap" /\ head' = seen[t] /\ toBeDeleted' = toBeDeleted
        /\ next' = next /\ head = node[t] /\ stack' = Tail(stack) /\ node[t] # Null
    BY <1>0, <1>4 DEF Pop, PnInStep
  <2>2. stack # <<>> /\ head \in Elems(stack)
    BY <2>1, PnTop
  <2>3. seen[t] = next[head]
    BY <2>1, <2>2 DEF PnInvOf, PnProtected
  <2>4. Follows(next[head], Tail(stack), next)
    BY <1>0, <2>2, Popped
  <2>5. L = K
    BY <2>1 DEF ListsAfter
  <2>. QED
    BY <1>0, <2>1, <2>3, <2>4, <2>5
<1>5. CASE Take(t)
  <2>1. pc[t] = "take" /\ head' = head /\ stack' = stack /\ toBeDeleted' = Null
    BY <1>0, <1>5 DEF Take
  <2>2. L = <<>>
    BY <2>1 DEF ListsAfter
  <2>. QED
    BY <1>2, <2>1, <2>2, EmptyList
<1>6. CASE Exchange(t)
  <2>1. /\ pc[t] = "exchange" /\ pc'[t] # "exchange" /\ head' = head /\ stack' = stack
        /\ toBeDeleted' = First(t) /\ toBeDeleted = next[last[t]] /\ next' = next
    BY <1>0, <1>6 DEF Exchange, Chained
  <2>2. L = (IF HasBatch(t) THEN B[t] ELSE <<node[t]>>) \o K
    BY <2>1 DEF ListsAfter
  <2>3. CASE HasBatch(t)
    <3>1. Reaches(batch[t], B[t], toBeDeleted, next) /\ First(t) = batch[t]
      BY <2>1, <2>3 DEF PnInvOf, PnLinked, BatchEnd, First, HasBatch
    <3>2. Follows(batch[t], B[t] \o K, next)
      <4>1. PICK s \in Seq(Nodes) : s = B[t]
        BY <1>0
      <4>2. PICK h, z : h = batch[t] /\ z = toBeDeleted
        OBVIOUS
      <4>3. Reaches(h, s, z, next) /\ Follows(z, K, next)
        BY <1>0, <3>1, <4>1, <4>2
      <4>4. Follows(h, s \o K, next)
        BY <1>0, <4>3, Joined
      <4>. QED
        BY <4>1, <4>2, <4>4
    <3>. QED
      BY <1>2, <2>1, <2>2, <2>3, <3>1, <3>2
  <2>4. CASE ~HasBatch(t)
    <3>1. /\ First(t) = node[t] /\ node[t] # Null /\ last[t] = node[t] /\ node[t] \in Nodes
          /\ Private(t) = {node[t]}
      BY <1>0, <2>1, <2>4 DEF PnInStep, First, HasBatch, Private
    <3>2. node[t] \notin Elems(K)
      BY <3>1, PnTop
    <3>3. Follows(node[t], <<node[t]>> \o K, next)
      BY <1>0, <2>1, <3>1, <3>2, Pushed
    <3>. QED
      BY <1>2, <2>1, <2>2, <2>4, <3>1, <3>3
  <2>. QED
    BY <2>3, <2>4
<1>7. ASSUME head' = head, stack' = stack, toBeDeleted' = toBeDeleted, L = K
      PROVE  Follows(head', stack', next') /\ Follows(toBeDeleted', L, next')
  BY <1>2, <1>7
<1>8. CASE Delete(t) \/ ExchangeFails(t)
  <2>1. /\ pc[t] = "delete" \/ (pc[t] = "exchange" /\ pc'[t] = "exchange")
        /\ head' = head /\ stack' = stack /\ toBeDeleted' = toBeDeleted
    BY <1>0, <1>8 DEF Delete, ExchangeFails
  <2>2. L = K
    BY <2>1 DEF ListsAfter
  <2>. QED
    BY <1>7, <2>1, <2>2
<1>9. CASE \/ PushCall(t) \/ PushFails(t) \/ PushReturn(t) \/ Enter(t) \/ LoadHead(t)
           \/ ReadNext(t) \/ PopFails(t) \/ Swap(t) \/ Test(t) \/ Leave(t)
           \/ Chain(t) \/ ChainNull(t) \/ Decrement(t) \/ Return(t)
  <2>1. pc[t] \notin {"take", "delete", "exchange"}
    BY <1>9 DEF PushCall, PushFails, PushReturn, Enter, LoadHead, ReadNext, PopFails, Swap,
                Test, Leave, Chain, ChainNull, Decrement, Return
  <2>2. head' = head /\ stack' = stack /\ toBeDeleted' = toBeDeleted
    BY <1>9 DEF PushCall, PushFails, PushReturn, Enter, LoadHead, ReadNext, PopFails, Observe,
                Swap, Test, Leave, Chain, ChainNull, Decrement, Return
  <2>3. L = K
    BY <2>1 DEF ListsAfter
  <2>. QED
    BY <1>7, <2>2, <2>3
<1>. QED
  BY <1>3, <1>4, <1>5, <1>6, <1>8, <1>9 DEF PnStep

\* So does the batch of t.
LEMMA PnBatchLinked ==
  ASSUME NEW K, NEW B, PnInvOf(K, B), NEW t \in Threads, PnStep(t),
         NEW L, NEW C, ListsAfter(K, B, t, L, C)
  PROVE  /\ Reaches(batch'[t], C[t], BatchEnd(t)', next')
         /\ C[t] = <<>> <=> ~HasBatch(t)'
         /\ pc'[t] = "exchange" /\ HasBatch(t)' => last'[t] = C[t][Len(C[t])]
<1>0. /\ PnTyped /\ PnInStep /\ B \in [Threads -> Seq(Nodes)]
      /\ Reaches(batch[t], B[t], BatchEnd(t), next)
      /\ B[t] = <<>> <=> ~HasBatch(t)
      /\ pc[t] = "exchange" /\ HasBatch(t) => last[t] = B[t][Len(B[t])]
  BY DEF PnInvOf, PnPlaced, PnLinked
<1>1. \A f : Reaches(Null, <<>>, Null, f)
  BY EmptyList, ReachesNull
<1> USE DEF PnTyped, Goto, shared, locals
<1>2. ASSUME batch'[t] = Null, C[t] = <<>>
      PROVE  /\ Reaches(batch'[t], C[t], BatchEnd(t)', next')
             /\ C[t] = <<>> <=> ~HasBatch(t)'
             /\ pc'[t] = "exchange" /\ HasBatch(t)' => last'[t] = C[t][Len(C[t])]
  BY <1>1, <1>2 DEF HasBatch, BatchEnd
<1>3. CASE Take(t)
  <2>1. /\ pc[t] = "take" /\ pc'[t] = "leave" /\ batch'[t] = toBeDeleted /\ next' = next
    BY <1>0, <1>3 DEF Take
  <2>2. C[t] = K
    BY <1>0, <2>1 DEF ListsAfter
  <2>3. Reaches(toBeDeleted, K, Null, next) /\ (K = <<>> <=> toBeDeleted = Null)
    BY ReachesNull, PnTop DEF PnInvOf, PnLinked
  <2>. QED
    BY <2>1, <2>2, <2>3 DEF HasBatch, BatchEnd
<1>4. CASE Delete(t)
  <2>1. pc[t] = "delete" /\ batch'[t] = Null
    BY <1>0, <1>4 DEF Delete
  <2>2. C[t] = <<>>
    BY <1>0, <2>1 DEF ListsAfter
  <2>. QED
    BY <1>2, <2>1, <2>2
<1>5. CASE Exchange(t)
  <2>1. pc[t] = "exchange" /\ pc'[t] # "exchange" /\ batch'[t] = Null
    BY <1>0, <1>5 DEF Exchange, Chained
  <2>2. C[t] = <<>>
    BY <1>0, <2>1 DEF ListsAfter
  <2>. QED
    BY <1>2, <2>1, <2>2
<1>6. ASSUME ~HasBatch(t), C = B, batch' = batch
      PROVE  /\ Reaches(batch'[t], C[t], BatchEnd(t)', next')
             /\ C[t] = <<>> <=> ~HasBatch(t)'
             /\ pc'[t] = "exchange" /\ HasBatch(t)' => last'[t] = C[t][Len(C[t])]
  BY <1>0, <1>2, <1>6 DEF HasBatch
<1>7. ASSUME HasBatch(t), C = B, batch' = batch, pc'[t] = "exchange",
             next' = [next EXCEPT ![last'[t]] = toBeDeleted], last'[t] = B[t][Len(B[t])]
      PROVE  /\ Reaches(batch'[t], C[t], BatchEnd(t)', next')
             /\ C[t] = <<>> <=> ~HasBatch(t)'
             /\ pc'[t] = "exchange" /\ HasBatch(t)' => last'[t] = C[t][Len(C[t])]
  <2>0. PICK s \in Seq(Nodes) : s = B[t]
    BY <1>0
  <2>1. PICK h, z, f : s = B[t] /\ h = batch[t] /\ z = BatchEnd(t) /\ f = next'
    BY <2>0
  <2>2. s # <<>> /\ Once(s) /\ Elems(s) \subseteq Nodes /\ s[Len(s)] \in Elems(s)
    BY <1>7, <2>1, PnOwn
  <2>3. f[s[Len(s)]] = toBeDeleted /\ \A n \in Elems(s) : n # s[Len(s)] => f[n] = next[n]
    BY <1>0, <1>7, <2>1, <2>2
  <2>4. Reaches(h, s, z, next)
    BY <1>0, <2>1
  <2>5. PICK y : y = toBeDeleted
    OBVIOUS
  <2>6. Reaches(h, s, y, f)
    BY <2>2, <2>3, <2>4, <2>5, ReachesElsewhere
  <2>7. BatchEnd(t)' = toBeDeleted
    BY <1>7, <2>1, <2>3 DEF BatchEnd, HasBatch
  <2>. QED
    BY <1>0, <1>7, <2>1, <2>5, <2>6, <2>7 DEF HasBatch
<1>8. CASE Chain(t)
  <2>1. /\ pc[t] = "chain" /\ pc'[t] = "exchange" /\ batch' = batch
        /\ last'[t] = LastOfFirst(t) /\ next' = [next EXCEPT ![last'[t]] = toBeDeleted]
        /\ First(t) # Null
    BY <1>0, <1>8 DEF Chain
  <2>2. HasBatch(t) => LastOfFirst(t) = B[t][Len(B[t])]
    BY <2>1, PnChains
  <2>3. C = B
    BY <2>1 DEF ListsAfter
  <2>. QED
    BY <1>6, <1>7, <2>1, <2>2, <2>3
<1>9. CASE ExchangeFails(t)
  <2>1. /\ pc[t] = "exchange" /\ pc'[t] = "exchange" /\ batch' = batch
        /\ last' = last /\ next' = [next EXCEPT ![last[t]] = toBeDeleted]
    BY <1>0, <1>9 DEF ExchangeFails
  <2>2. C = B
    BY <2>1 DEF ListsAfter
  <2>. QED
    BY <1>0, <1>6, <1>7, <2>1, <2>2
<1>10. CASE Leave(t)
  <2>1. pc[t] = "leave" /\ pc'[t] \in {"delete", "chain"} /\ batch' = batch /\ next' = next
    BY <1>0, <1>10 DEF Leave
  <2>2. C = B
    BY <2>1 DEF ListsAfter
  <2>. QED
    BY <1>0, <2>1, <2>2 DEF HasBatch, BatchEnd
<1>11. CASE \/ PushCall(t) \/ PushFails(t) \/ Push(t) \/ PushReturn(t) \/ Enter(t)
            \/ LoadHead(t) \/ ReadNext(t) \/ PopFails(t) \/ Pop(t) \/ Swap(t) \/ Test(t)
            \/ ChainNull(t) \/ Decrement(t) \/ Return(t)
  <2>1. /\ pc[t] \notin {"leave", "take", "delete", "exchange"}
        /\ pc[t] = "chain" => batch[t] = Null
    BY <1>11 DEF PushCall, PushFails, Push, PushReturn, Enter, LoadHead, ReadNext, PopFails,
                 Pop, Swap, Test, ChainNull, Decrement, Return, First
  <2>2. batch' = batch
    BY <1>11 DEF PushCall, PushFails, Push, PushReturn, Enter, LoadHead, ReadNext, PopFails,
                 Observe, Pop, Swap, Test, ChainNull, Decrement, Return
  <2>3. C = B
    BY <2>1 DEF ListsAfter
  <2>4. ~HasBatch(t)
    BY <1>0, <2>1 DEF PnInStep, HasBatch
  <2>. QED
    BY <1>6, <2>2, <2>3, <2>4
<1>. QED
  BY <1>3, <1>4, <1>5, <1>8, <1>9, <1>10, <1>11 DEF PnStep

\* Each operation keeps the stack, the pending nodes and the batches linked.
LEMMA PnLinkedStep ==
  ASSUME NEW K, NEW B, PnInvOf(K, B), NEW t \in Threads, PnStep(t),
         NEW L, NEW C, ListsAfter(K, B, t, L, C)
  PROVE  PnLinked(L, C)'
<1>1. ASSUME NEW u \in Threads
      PROVE  /\ Reaches(batch'[u], C[u], BatchEnd(u)', next')
             /\ C[u] = <<>> <=> ~HasBatch(u)'
             /\ pc'[u] = "exchange" /\ HasBatch(u)' => last'[u] = C[u][Len(C[u])]
  <2>1. CASE u = t
    BY <2>1, PnBatchLinked
  <2>2. CASE u # t
    BY <2>2, PnOthersLinked
  <2>. QED
    BY <2>1, <2>2
<1>. QED
  BY <1>1, PnListsLinked DEF PnLinked

\* Why counting the threads in pop() works.  Who finds itself alone after its
\* node has left the stack knows that nobody reads that node; and who is still
\* alone after taking the pending nodes knows that of them.
LEMMA PnAloneInPop ==
  ASSUME NEW K, NEW B, PnInvOf(K, B), NEW t \in Threads, InPop(t)
  PROVE  /\ threadsInPop = 1 => \A u \in Threads : InPop(u) => u = t
         /\ threadsInPop - 1 = 0 => threadsInPop = 1
<1>1. threadsInPop = Cardinality(Counted) /\ IsFiniteSet(Threads)
  BY StackAssumption DEF PnInvOf
<1>2. Counted \in SUBSET Threads /\ t \in Counted
  BY DEF Counted
<1>3. IsFiniteSet(Counted)
  BY <1>1, <1>2, FS_Subset
<1>4. threadsInPop \in Nat
  BY <1>1, <1>3, FS_CardinalityType
<1>5. ASSUME threadsInPop = 1 PROVE \A u \in Threads : InPop(u) => u = t
  <2>1. PICK x : Counted = {x}
    BY <1>1, <1>3, <1>5, FS_Singleton
  <2>. QED
    BY <1>2, <2>1 DEF Counted
<1>. QED
  BY <1>4, <1>5

\* What PnProtected says of a reader r.
Safe(r, B) ==
  /\ node[r] \in heap
  /\ \A u \in Threads :
       /\ pc[u] = "push" => node[u] # node[r]
       /\ WillDelete(u) => node[u] # node[r]
       /\ pc[u] = "delete" => node[r] \notin Elems(B[u])
  /\ pc[r] = "pop" /\ node[r] \in Elems(stack) => seen[r] = next[node[r]]

\* A thread that comes to read a node finds it on the stack.
LEMMA PnObserved ==
  ASSUME NEW K, NEW B, PnInvOf(K, B), NEW t \in Threads, PnStep(t),
         LoadHead(t) \/ PopFails(t), pc'[t] = "next"
  PROVE  Safe(t, B)'
<1> USE DEF PnTyped, Goto, shared, locals
<1>0. PnTyped
  BY DEF PnInvOf
<1>1. head # Null /\ node'[t] = head /\ heap' = heap
  BY <1>0 DEF LoadHead, PopFails, Observe
<1>2. head \in Elems(stack) /\ head \in heap
  BY <1>1, PnTop
<1>3. \A u \in Threads : head \notin Private(u) /\ head \notin Elems(B[u])
  BY <1>2, PnTop
<1>4. ASSUME NEW u \in Threads
      PROVE  /\ pc'[u] = "push" => node'[u] # head
             /\ WillDelete(u)' => node'[u] # head
             /\ pc'[u] = "delete" => head \notin Elems(B[u])
  <2>1. CASE u = t
    BY <2>1 DEF WillDelete
  <2>2. CASE u # t
    <3>1. pc'[u] = pc[u] /\ node'[u] = node[u] /\ WillDelete(u)' = WillDelete(u)
      BY <2>2, PnAlone
    <3>2. pc[u] = "push" \/ WillDelete(u) => node[u] \in Private(u) \/ node[u] = Null
      BY DEF WillDelete, Private
    <3>. QED
      BY <1>1, <1>3, <3>1, <3>2
  <2>. QED
    BY <2>1, <2>2
<1>. QED
  BY <1>1, <1>2, <1>4 DEF Safe

\* What else t does leaves safe the node that r reads, unless it comes to
\* delete it.
LEMMA PnStaysSafe ==
  ASSUME NEW K, NEW B, PnInvOf(K, B), NEW t \in Threads, PnStep(t),
         NEW L, NEW C, ListsAfter(K, B, t, L, C),
         NEW r \in Threads, r # t, pc[r] \in {"next", "pop"}
  PROVE  Safe(r, C)'
<1> USE DEF PnTyped, Goto, shared, locals
<1>0. /\ PnTyped /\ PnInStep /\ Safe(r, B) /\ Null \notin Nodes
      /\ stack \in Seq(Nodes) /\ node[r] \in Nodes
  BY PnTop DEF PnInvOf, PnProtected, Safe, PnInStep
<1>1. pc'[r] = pc[r] /\ node'[r] = node[r] /\ seen'[r] = seen[r] /\ InPop(r)
  BY PnAlone DEF InPop
<1>2. PICK n : n = node[r]
  OBVIOUS
<1>3. /\ n \in heap /\ n \in Nodes
      /\ \A u \in Threads : /\ pc[u] = "push" => node[u] # n
                            /\ WillDelete(u) => node[u] # n
                            /\ pc[u] = "delete" => n \notin Elems(B[u])
  BY <1>0, <1>2 DEF Safe
<1>4. ASSUME NEW u \in Threads, u # t
      PROVE  /\ pc'[u] = "push" => node'[u] # n
             /\ WillDelete(u)' => node'[u] # n
             /\ pc'[u] = "delete" => n \notin Elems(C[u])
  BY <1>3, <1>4, PnAlone, PnOtherBatches
<1>5. ASSUME n \in heap',
             pc'[t] = "push" => node'[t] # n,
             WillDelete(t)' => node'[t] # n,
             pc'[t] = "delete" => n \notin Elems(C[t]),
             n \in Elems(stack') => n \in Elems(stack) /\ next'[n] = next[n]
      PROVE  Safe(r, C)'
  <2>1. \A u \in Threads : /\ pc'[u] = "push" => node'[u] # n
                           /\ WillDelete(u)' => node'[u] # n
                           /\ pc'[u] = "delete" => n \notin Elems(C[u])
    BY <1>4, <1>5
  <2>2. pc[r] = "pop" /\ n \in Elems(stack) => seen[r] = next[n]
    BY <1>0, <1>2 DEF Safe
  <2>. QED
    BY <1>1, <1>2, <1>5, <2>1, <2>2 DEF Safe
<1>6. n \in Elems(stack) => next'[n] = next[n]
  <2>1. n \in Elems(stack) => n \notin Private(t) \cup Elems(B[t])
    BY PnTop
  <2>. QED
    BY <1>3, <2>1, PnNextStays
<1>7. CASE PushCall(t)
  <2>1. PICK m \in Nodes \ heap : node' = [node EXCEPT ![t] = m] /\ heap' = heap \cup {m}
    BY <1>7 DEF PushCall
  <2>2. pc'[t] = "push" /\ node'[t] = m /\ stack' = stack
    BY <1>0, <1>7, <2>1 DEF PushCall
  <2>. QED
    BY <1>3, <1>5, <1>6, <2>1, <2>2 DEF WillDelete
<1>8. CASE Push(t)
  <2>1. pc[t] = "push" /\ pc'[t] = "pushed" /\ heap' = heap /\ stack' = <<node[t]>> \o stack
    BY <1>0, <1>8 DEF Push
  <2>2. Elems(stack') = Elems(stack) \cup {node[t]}
    BY <1>0, <2>1, PnOwn, Pushed
  <2>3. node[t] # n
    BY <1>3, <2>1
  <2>. QED
    BY <1>3, <1>5, <1>6, <2>1, <2>2, <2>3 DEF WillDelete
<1>9. CASE Pop(t)
  <2>1. /\ pc[t] = "pop" /\ pc'[t] = "swap" /\ heap' = heap /\ stack' = Tail(stack)
        /\ head = node[t] /\ node[t] # Null
    BY <1>0, <1>9 DEF Pop, PnInStep
  <2>2. stack # <<>> /\ Once(stack)
    BY <2>1, PnTop DEF PnInvOf, PnPlaced
  <2>3. Elems(stack') \subseteq Elems(stack)
    BY <1>0, <2>1, <2>2, Popped
  <2>. QED
    BY <1>3, <1>5, <1>6, <2>1, <2>3 DEF WillDelete
<1>10. CASE Test(t)
  <2>1. /\ pc[t] = "test" /\ heap' = heap /\ stack' = stack /\ pc'[t] \in {"take", "chain"}
        /\ (pc'[t] = "take" => threadsInPop = 1) /\ batch' = batch /\ ~HasBatch(t)
    BY <1>0, <1>10 DEF Test, PnInStep
  <2>2. InPop(t)
    BY <2>1 DEF InPop
  <2>3. pc'[t] # "take"
    BY <1>1, <2>1, <2>2, PnAloneInPop
  <2>. QED
    BY <1>3, <1>5, <1>6, <2>1, <2>3 DEF WillDelete, HasBatch
<1>11. CASE Leave(t)
  <2>1. /\ pc[t] = "leave" /\ heap' = heap /\ stack' = stack /\ pc'[t] \in {"delete", "chain"}
        /\ (pc'[t] = "delete" => threadsInPop - 1 = 0 \/ ~HasBatch(t)) /\ node' = node
    BY <1>0, <1>11 DEF Leave, HasBatch
  <2>2. InPop(t) /\ WillDelete(t) /\ C[t] = B[t]
    BY <2>1 DEF InPop, WillDelete, ListsAfter
  <2>3. pc'[t] = "delete" => ~HasBatch(t)
    <3>1. ASSUME threadsInPop - 1 = 0 PROVE FALSE
      <4>1. threadsInPop = 1
        BY <1>1, <2>2, <3>1, PnAloneInPop
      <4>2. \A u \in Threads : InPop(u) => u = t
        BY <1>1, <2>2, <4>1, PnAloneInPop
      <4>. QED
        BY <1>1, <4>2
    <3>. QED
      BY <2>1, <3>1
  <2>4. pc'[t] = "delete" => Elems(C[t]) = {}
    <3>1. ~HasBatch(t) => Elems(B[t]) = {}
      BY PnOwn
    <3>. QED
      BY <2>2, <2>3, <3>1
  <2>. QED
    BY <1>3, <1>5, <1>6, <2>1, <2>2, <2>4
<1>12. CASE Delete(t)
  <2>1. /\ pc[t] = "delete" /\ pc'[t] = "return" /\ stack' = stack
        /\ heap' = heap \ ((Members(batch[t]) \cup {node[t]}) \ {Null})
    BY <1>0, <1>12 DEF Delete
  <2>2. (Members(batch[t]) \cup {node[t]}) \ {Null} = Private(t) \cup Elems(B[t])
    BY <2>1, PnDeletes
  <2>3. n \notin Private(t) \cup Elems(B[t])
    BY <1>3, <2>1 DEF WillDelete, Private
  <2>. QED
    BY <1>3, <1>5, <1>6, <2>1, <2>2, <2>3 DEF WillDelete
<1>13. CASE Take(t)
  <2>1. /\ pc[t] = "take" /\ pc'[t] = "leave" /\ heap' = heap /\ stack' = stack /\ node' = node
    BY <1>0, <1>13 DEF Take
  <2>2. WillDelete(t)
    BY <2>1 DEF WillDelete
  <2>. QED
    BY <1>3, <1>5, <1>6, <2>1, <2>2
<1>14. CASE Exchange(t)
  <2>1. pc[t] = "exchange" /\ heap' = heap /\ stack' = stack
    BY <1>14 DEF Exchange, Chained
  <2>2. CASE HasBatch(t)
    <3>1. pc'[t] = "delete" /\ node' = node
      BY <1>0, <1>14, <2>2 DEF Exchange, Chained, HasBatch
    <3>2. WillDelete(t)
      BY <2>1, <2>2 DEF WillDelete
    <3>3. Elems(C[t]) = {}
      <4>1. C[t] = <<>>
        BY <2>1, <3>1 DEF ListsAfter, PnInvOf, PnPlaced
      <4>. QED
        BY <4>1, EmptyList
    <3>. QED
      BY <1>3, <1>5, <1>6, <2>1, <3>1, <3>2, <3>3
  <2>3. CASE ~HasBatch(t)
    <3>1. pc'[t] = "decrement"
      BY <1>0, <1>14, <2>3 DEF Exchange, Chained, HasBatch
    <3>. QED
      BY <1>3, <1>5, <1>6, <2>1, <3>1 DEF WillDelete
  <2>. QED
    BY <2>2, <2>3
<1>15. CASE Chain(t) \/ ExchangeFails(t)
  <2>1. /\ pc[t] \in {"chain", "exchange"} /\ pc'[t] = "exchange" /\ heap' = heap
        /\ stack' = stack /\ node' = node /\ batch' = batch
    BY <1>0, <1>15 DEF Chain, ExchangeFails
  <2>2. WillDelete(t)' => WillDelete(t)
    BY <2>1 DEF WillDelete, HasBatch
  <2>. QED
    BY <1>3, <1>5, <1>6, <2>1, <2>2
<1>16. CASE PushFails(t)
  <2>1. /\ pc[t] = "push" /\ pc'[t] = "push" /\ heap' = heap /\ stack' = stack /\ node' = node
    BY <1>0, <1>16 DEF PushFails
  <2>. QED
    BY <1>3, <1>5, <1>6, <2>1 DEF WillDelete
<1>17. CASE \/ PushReturn(t) \/ Enter(t) \/ LoadHead(t) \/ ReadNext(t) \/ PopFails(t)
            \/ Swap(t) \/ ChainNull(t) \/ Decrement(t) \/ Return(t)
  <2>1. heap' = heap /\ stack' = stack
    BY <1>17 DEF PushReturn, Enter, LoadHead, ReadNext, PopFails, Observe, Swap, ChainNull,
                 Decrement, Return
  <2>2. pc'[t] \in {"idle", "load", "next", "test", "pop", "crash", "return"}
    BY <1>0, <1>17 DEF PushReturn, Enter, LoadHead, ReadNext, PopFails, Observe, Swap,
                       ChainNull, Decrement, Return
  <2>. QED
    BY <1>3, <1>5, <1>6, <2>1, <2>2 DEF WillDelete
<1>. QED
  BY <1>7, <1>8, <1>9, <1>10, <1>11, <1>12, <1>13, <1>14, <1>15, <1>16, <1>17 DEF PnStep

\* No operation takes away the node that a thread reads: a thread deletes its
\* batch only when it was alone in pop() after it took the batch.
LEMMA PnProtectedStep ==
  ASSUME NEW K, NEW B, PnInvOf(K, B), NEW t \in Threads, PnStep(t),
         NEW L, NEW C, ListsAfter(K, B, t, L, C)
  PROVE  PnProtected(C)'
<1> USE DEF PnTyped, Goto, shared, locals
<1>0. PnTyped
  BY DEF PnInvOf
<1>1. SUFFICES ASSUME NEW r \in Threads, pc'[r] \in {"next", "pop"} PROVE Safe(r, C)'
  BY DEF PnProtected, Safe
<1>2. CASE r # t
  <2>1. pc[r] \in {"next", "pop"}
    BY <1>1, <1>2, PnAlone
  <2>. QED
    BY <1>2, <2>1, PnStaysSafe
<1>3. CASE r = t
  <2>1. LoadHead(t) \/ PopFails(t) \/ ReadNext(t)
    <3>1. CASE \/ PushCall(t) \/ PushFails(t) \/ Push(t) \/ PushReturn(t) \/ Enter(t)
               \/ Pop(t) \/ Swap(t)
      BY <1>0, <1>1, <1>3, <3>1 DEF PushCall, PushFails, Push, PushReturn, Enter, Pop, Swap
    <3>2. CASE Test(t) \/ Take(t) \/ Leave(t) \/ Chain(t) \/ ChainNull(t)
      BY <1>0, <1>1, <1>3, <3>2 DEF Test, Take, Leave, Chain, ChainNull
    <3>3. CASE Delete(t) \/ ExchangeFails(t) \/ Exchange(t) \/ Decrement(t) \/ Return(t)
      BY <1>0, <1>1, <1>3, <3>3 DEF Delete, ExchangeFails, Exchange, Chained, Decrement, Return
    <3>. QED
      BY <3>1, <3>2, <3>3 DEF PnStep
  <2>2. CASE LoadHead(t) \/ PopFails(t)
    <3>1. pc[t] \in {"load", "pop"} /\ pc'[t] \in {"test", "next"}
      BY <1>0, <2>2 DEF LoadHead, PopFails, Observe
    <3>2. C = B
      BY <3>1 DEF ListsAfter
    <3>3. Safe(t, B)'
      BY <1>1, <1>3, <2>2, <3>1, PnObserved
    <3>. QED
      BY <1>3, <3>2, <3>3
  <2>3. CASE ReadNext(t)
    <3>1. /\ pc[t] = "next" /\ pc'[t] = "pop" /\ node' = node /\ heap' = heap /\ stack' = stack
          /\ next' = next /\ batch' = batch /\ seen'[t] = next[node[t]]
      BY <1>0, <2>3 DEF ReadNext
    <3>2. C = B
      BY <3>1 DEF ListsAfter
    <3>3. Safe(t, B)
      BY <3>1 DEF PnInvOf, PnProtected, Safe
    <3>4. \A u \in Threads : /\ pc'[u] = "push" => pc[u] = "push"
                             /\ pc'[u] = "delete" => pc[u] = "delete"
                             /\ WillDelete(u)' => WillDelete(u)
      <4>1. ~WillDelete(t)' /\ pc'[t] = "pop"
        BY <3>1 DEF WillDelete
      <4>. QED
        BY <4>1, PnAlone
    <3>. QED
      BY <1>3, <3>1, <3>2, <3>3, <3>4 DEF Safe
  <2>. QED
    BY <2>1, <2>2, <2>3
<1>. QED
  BY <1>2, <1>3

\* Every step keeps the invariant.
LEMMA PnInvStep == PnInv /\ [Next]_pnVars => PnInv'
<1>1. ASSUME PnInv, Next PROVE PnInv'
  <2>1. PICK K \in Seq(Nodes), B \in [Threads -> Seq(Nodes)] : PnInvOf(K, B)
    BY <1>1 DEF PnInv
  <2>2. PICK t \in Threads : PnStep(t)
    BY <1>1, PnSteppers
  <2>3. PICK L \in Seq(Nodes), C \in [Threads -> Seq(Nodes)] : ListsAfter(K, B, t, L, C)
    BY <2>1, PnListsAfter
  <2>4. PnTyped' /\ PnInStep' /\ threadsInPop' = Cardinality(Counted')
    BY <2>1, <2>2, PnTypedStep, PnInStepStep, PnCountedStep
  <2>5. PnPlaced(L, C)'
    BY <2>1, <2>2, <2>3, PnPlacedStep
  <2>6. PnLinked(L, C)' /\ PnProtected(C)'
    BY <2>1, <2>2, <2>3, PnLinkedStep, PnProtectedStep
  <2>7. PnInvOf(L, C)'
    BY <2>4, <2>5, <2>6 DEF PnInvOf
  <2>. QED
    BY <2>7 DEF PnInv
<1>2. ASSUME PnInv, UNCHANGED pnVars PROVE PnInv'
  <2>1. PICK K \in Seq(Nodes), B \in [Threads -> Seq(Nodes)] : PnInvOf(K, B)
    BY <1>2 DEF PnInv
  <2>2. /\ head' = head /\ toBeDeleted' = toBeDeleted /\ threadsInPop' = threadsInPop
        /\ next' = next /\ data' = data /\ heap' = heap /\ stack' = stack /\ pc' = pc
        /\ node' = node /\ seen' = seen /\ batch' = batch /\ last' = last /\ res' = res
    BY <1>2 DEF pnVars, vars, shared, locals
  <2>3. PnTyped' /\ PnInStep'
    BY <2>1, <2>2 DEF PnInvOf, PnTyped, PnInStep, First, HasBatch
  <2>4. \A t \in Threads : /\ Private(t)' = Private(t) /\ HasBatch(t)' = HasBatch(t)
                           /\ BatchEnd(t)' = BatchEnd(t) /\ WillDelete(t)' = WillDelete(t)
                           /\ InPop(t)' = InPop(t)
    BY <2>2 DEF Private, HasBatch, BatchEnd, WillDelete, InPop
  <2>5. Counted' = Counted /\ PnOwners(B)' = PnOwners(B)
    BY <2>4 DEF Counted, PnOwners
  <2>6. PnPlaced(K, B)'
    BY <2>1, <2>2, <2>4, <2>5 DEF PnInvOf, PnPlaced
  <2>7. PnLinked(K, B)' /\ PnProtected(B)'
    BY <2>1, <2>2, <2>4 DEF PnInvOf, PnLinked, PnProtected
  <2>8. PnInvOf(K, B)'
    BY <2>1, <2>2, <2>3, <2>5, <2>6, <2>7 DEF PnInvOf
  <2>. QED
    BY <2>8 DEF PnInv
<1>. QED
  BY <1>1, <1>2

-----------------------------------------------------------------------------
(* lock_free_stack: what the invariant says *)

\* The nodes that the code owns through its variables are those of the
\* auxiliary sequences.
LEMMA PnOwned ==
  ASSUME NEW K, NEW B, PnInvOf(K, B)
  PROVE  /\ Members(toBeDeleted) = Elems(K)
         /\ \A t \in Threads : Owned(t) = PnOwners(B)[t]
         /\ \A t \in Threads : pc[t] # "exchange" => Members(batch[t]) = Elems(B[t])
<1>1. /\ next \in [Nodes -> Nodes \cup {Null}] /\ toBeDeleted \in Nodes \cup {Null}
      /\ K \in Seq(Nodes) /\ Once(K) /\ Follows(toBeDeleted, K, next)
      /\ batch \in [Threads -> Nodes \cup {Null}]
  BY DEF PnInvOf, PnTyped, PnPlaced, PnLinked
<1>2. Members(toBeDeleted) = Elems(K)
  <2>1. Reaches(toBeDeleted, K, Null, next)
    BY <1>1, ReachesNull
  <2>. QED
    BY <1>1, <2>1, MembersAre
<1>3. ASSUME NEW t \in Threads, ~(pc[t] = "exchange" /\ HasBatch(t))
      PROVE  Members(batch[t]) = Elems(B[t])
  <2>1. Reaches(batch[t], B[t], Null, next)
    BY <1>3 DEF PnInvOf, PnLinked, BatchEnd
  <2>. QED
    BY <1>1, <2>1, PnOwn, MembersAre
<1>4. ASSUME NEW t \in Threads, pc[t] = "exchange", HasBatch(t)
      PROVE  UpTo(List(batch[t]), last[t]) = Elems(B[t])
  <2>1. /\ Reaches(batch[t], B[t], next[last[t]], next)
        /\ last[t] = B[t][Len(B[t])]
    BY <1>4 DEF PnInvOf, PnLinked, BatchEnd
  <2>2. B[t] \in Seq(Nodes) /\ Once(B[t]) /\ B[t] # <<>> /\ last[t] \in Nodes
    BY <1>4, PnOwn
  <2>3. PICK z \in Nodes \cup {Null} : z = next[last[t]]
    BY <1>1, <2>2
  <2>4. PICK r \in Seq(Nodes) : List(batch[t]) = B[t] \o r
    BY <1>1, <2>1, <2>2, <2>3, ListIs
  <2>. QED
    BY <2>1, <2>2, <2>4, UpToAll
<1>5. \A t \in Threads : Owned(t) = PnOwners(B)[t]
  BY <1>3, <1>4 DEF Owned, PnOwners, Private, HasBatch
<1>. QED
  BY <1>2, <1>3, <1>5

\* The types, the live dereferences and the places of the nodes follow.
LEMMA PnIsSafe == PnInv => TypeOK /\ DereferencesAreLive /\ NodesAreOwnedOnce
<1> SUFFICES ASSUME NEW K, NEW B, PnInvOf(K, B)
             PROVE  TypeOK /\ DereferencesAreLive /\ NodesAreOwnedOnce
  BY DEF PnInv
<1>2. TypeOK
  <2>1. Counted \subseteq Threads
    BY DEF Counted
  <2>2. Cardinality(Counted) \in Nat
    BY <2>1, StackAssumption, FS_Subset, FS_CardinalityType
  <2>. QED
    BY <2>2 DEF TypeOK, PnInvOf, PnTyped
<1>3. DereferencesAreLive
  <2>1. ASSUME NEW t \in Threads, pc[t] \in {"push", "next", "swap"}
        PROVE  node[t] \in heap
    BY <2>1, PnOwn, PnTop DEF PnInvOf, PnProtected
  <2>2. ASSUME NEW t \in Threads, pc[t] = "exchange" PROVE last[t] \in heap
    BY <2>2, PnOwn, PnTop
  <2>3. ASSUME NEW t \in Threads, pc[t] \in {"delete", "chain"}
        PROVE  Members(batch[t]) \subseteq heap
    BY <2>3, PnOwned, PnTop
  <2>. QED
    BY <2>1, <2>2, <2>3 DEF DereferencesAreLive
<1>4. NodesAreOwnedOnce
  <2>1. Parted(heap, Elems(stack), Elems(K), PnOwners(B))
    BY DEF PnInvOf, PnPlaced
  <2>2. \A t \in Threads : Owned(t) = PnOwners(B)[t]
    BY PnOwned
  <2>3. UNION {Owned(t) : t \in Threads} = UNION {PnOwners(B)[t] : t \in Threads}
    BY <2>2
  <2>4. Parted(heap, Elems(stack), Members(toBeDeleted), [t \in Threads |-> Owned(t)])
    BY <2>1, <2>2, <2>3, PnOwned DEF Parted
  <2>. QED
    BY <2>4 DEF NodesAreOwnedOnce, Parted, Elems
<1>. QED
  BY <1>2, <1>3, <1>4

-----------------------------------------------------------------------------
(* lock_free_stack implements the abstract stack *)

\* The abstract variables.
PnItems == Items(stack, data)
PnCall == [t \in Threads |->
             CASE pc[t] = "idle" -> "none"
               [] pc[t] = "push" -> "push"
               [] pc[t] \in {"load", "next", "pop"} -> "pop"
               [] OTHER -> "done"]
PnVal == [t \in Threads |-> IF pc[t] \in {"push", "swap"} THEN data[node[t]] ELSE res[t]]

\* The steps of a call that has taken effect.
PnDone == {"pushed", "swap", "test", "take", "leave", "chain", "exchange", "decrement",
           "delete", "return", "crash"}

\* The call of t: its place in the abstract stack.
LEMMA PnMapping ==
  \A t \in Threads :
    /\ pc[t] = "idle" => PnCall[t] = "none"
    /\ pc[t] = "push" => PnCall[t] = "push"
    /\ pc[t] \in {"load", "next", "pop"} => PnCall[t] = "pop"
    /\ pc[t] \in PnDone => PnCall[t] = "done"
    /\ pc[t] \in {"push", "swap"} => PnVal[t] = data[node[t]]
    /\ pc[t] \notin {"push", "swap"} => PnVal[t] = res[t]
BY DEF PnCall, PnVal, PnDone

\* The same after a step.
LEMMA PnMapped ==
  ASSUME NEW t \in Threads
  PROVE  /\ pc'[t] = "idle" => PnCall'[t] = "none"
         /\ pc'[t] = "push" => PnCall'[t] = "push"
         /\ pc'[t] \in {"load", "next", "pop"} => PnCall'[t] = "pop"
         /\ pc'[t] \in PnDone => PnCall'[t] = "done"
         /\ pc'[t] \in {"push", "swap"} => PnVal'[t] = data'[node'[t]]
         /\ pc'[t] \notin {"push", "swap"} => PnVal'[t] = res'[t]
BY DEF PnCall, PnVal, PnDone

\* The other calls are as they were, and the stack unless the step is its own.
LEMMA PnOthersStay ==
  ASSUME PnInv, NEW t \in Threads, PnStep(t)
  PROVE  /\ PnCall' = [PnCall EXCEPT ![t] = PnCall'[t]]
         /\ PnVal' = [PnVal EXCEPT ![t] = PnVal'[t]]
         /\ PnCall'[t] = PnCall[t] => PnCall' = PnCall
         /\ PnVal'[t] = PnVal[t] => PnVal' = PnVal
         /\ stack' = stack => PnItems' = PnItems
         /\ ~PushCall(t) /\ ~Swap(t) => data' = data
<1> USE DEF PnTyped, Goto, shared, locals
<1>0. PICK K, B : PnInvOf(K, B)
  BY DEF PnInv
<1>1. PnTyped
  BY <1>0 DEF PnInvOf
<1>2. PushCall(t) \/ Swap(t) \/ data' = data
  BY DEF PnStep, PushFails, Push, PushReturn, Enter, LoadHead, ReadNext, PopFails, Observe,
         Pop, Test, Take, Leave, Delete, Chain, ChainNull, ExchangeFails, Exchange, Chained,
         Decrement, Return
<1>3. ASSUME NEW n \in Nodes, n \in Elems(stack) \/ \E u \in Threads \ {t} : n \in Private(u)
      PROVE  data'[n] = data[n]
  <2>1. n \in heap /\ n \notin Private(t)
    BY <1>0, <1>3, PnTop
  <2>2. CASE PushCall(t)
    BY <1>1, <2>1, <2>2 DEF PushCall
  <2>3. CASE Swap(t)
    <3>1. pc[t] = "swap"
      BY <2>3 DEF Swap
    <3>2. Private(t) = {node[t]}
      BY <1>0, <3>1, PnOwn
    <3>. QED
      BY <1>1, <2>1, <2>3, <3>2 DEF Swap
  <2>. QED
    BY <1>2, <2>2, <2>3
<1>4. ASSUME NEW u \in Threads \ {t}
      PROVE  PnCall'[u] = PnCall[u] /\ PnVal'[u] = PnVal[u]
  <2>1. pc'[u] = pc[u] /\ node'[u] = node[u] /\ res'[u] = res[u]
    BY <1>0, PnAlone
  <2>2. pc[u] \in {"push", "swap"} => node[u] \in Nodes /\ Private(u) = {node[u]}
    BY <1>0, PnOwn
  <2>3. pc[u] \in {"push", "swap"} => data'[node[u]] = data[node[u]]
    BY <1>3, <2>2
  <2>. QED
    BY <2>1, <2>3 DEF PnCall, PnVal
<1>5. /\ PnCall' = [PnCall EXCEPT ![t] = PnCall'[t]]
      /\ PnVal' = [PnVal EXCEPT ![t] = PnVal'[t]]
      /\ PnCall'[t] = PnCall[t] => PnCall' = PnCall
      /\ PnVal'[t] = PnVal[t] => PnVal' = PnVal
  <2>1. /\ PnCall = [u \in Threads |-> PnCall[u]] /\ PnCall' = [u \in Threads |-> PnCall'[u]]
        /\ PnVal = [u \in Threads |-> PnVal[u]] /\ PnVal' = [u \in Threads |-> PnVal'[u]]
    BY DEF PnCall, PnVal
  <2> HIDE DEF PnCall, PnVal
  <2>2. /\ PnCall' = [PnCall EXCEPT ![t] = PnCall'[t]]
        /\ PnVal' = [PnVal EXCEPT ![t] = PnVal'[t]]
    BY <1>4, <2>1
  <2>. QED
    BY <2>1, <2>2
<1>6. stack' = stack => PnItems' = PnItems
  <2>1. Elems(stack) \subseteq Nodes
    BY <1>1 DEF Elems
  <2>2. \A n \in Elems(stack) : data[n] = data'[n]
    BY <1>3, <2>1
  <2>. QED
    BY <2>2, ListStays DEF PnItems
<1>. QED
  BY <1>2, <1>5, <1>6

\* Each step is one of the abstract stack, or none: push() takes effect at the
\* exchange of _head, and so does pop(); a pop() that finds nothing takes
\* effect when it loads the null _head.
LEMMA PnStepRefines ==
  ASSUME PnInv, NEW t \in Threads, PnStep(t)
  PROVE  [Abstract!Next]_(Abstract!vars)
<1> DEFINE call == PnCall
           val == PnVal
           items == PnItems
<1>i. PICK K, B : PnInvOf(K, B)
  BY DEF PnInv
<1>0. /\ PnTyped /\ PnInStep
      /\ call' = [call EXCEPT ![t] = call'[t]] /\ val' = [val EXCEPT ![t] = val'[t]]
      /\ call'[t] = call[t] => call' = call
      /\ val'[t] = val[t] => val' = val
      /\ stack' = stack => items' = items
      /\ ~PushCall(t) /\ ~Swap(t) => data' = data
  BY <1>i, PnOthersStay DEF PnInvOf
<1> USE DEF PnTyped, Goto, shared, locals
<1>1. ASSUME items' = items, call'[t] = call[t], val'[t] = val[t]
      PROVE  UNCHANGED Abstract!vars
  <2>1. call' = call /\ val' = val
    BY <1>0, <1>1
  <2>. QED
    BY <1>1, <2>1 DEF Abstract!vars, PnCall, PnVal, PnItems, Items
<1>2. CASE PushCall(t)
  <2>1. PICK n \in Nodes, v \in Values :
          node' = [node EXCEPT ![t] = n] /\ data' = [data EXCEPT ![n] = v]
    BY <1>2 DEF PushCall
  <2>2. pc[t] = "idle" /\ pc'[t] = "push" /\ stack' = stack
    BY <1>0, <1>2 DEF PushCall
  <2>3. val'[t] = v /\ call[t] = "none" /\ call'[t] = "push" /\ items' = items
    BY <1>0, <2>1, <2>2, PnMapping, PnMapped
  <2>4. Abstract!CallPush(t)
    BY <1>0, <2>3 DEF Abstract!CallPush, PnCall, PnVal, PnItems, Items
  <2>. QED
    BY <2>4 DEF Abstract!Next
<1>3. CASE Push(t)
  <2>1. /\ pc[t] = "push" /\ pc'[t] = "pushed" /\ data' = data
        /\ stack' = <<node[t]>> \o stack /\ res'[t] = Null /\ node[t] # Null
    BY <1>0, <1>3 DEF Push, PnInStep
  <2>2. /\ call[t] = "push" /\ call'[t] = "done" /\ val'[t] = Null
        /\ val[t] = data[node[t]]
    BY <2>1, PnMapping, PnMapped DEF PnDone
  <2>3. items' = <<val[t]>> \o items
    <3>1. stack \in Seq(Nodes) /\ node[t] \in Nodes
      BY <1>0, <2>1
    <3>2. Items(<<node[t]>> \o stack, data) = <<data[node[t]]>> \o Items(stack, data)
      BY <3>1, PushedItems
    <3>. QED
      BY <2>1, <2>2, <3>2 DEF PnItems
  <2>4. Abstract!Push(t)
    BY <1>0, <2>2, <2>3 DEF Abstract!Push, PnCall, PnVal, PnItems, Items
  <2>. QED
    BY <2>4 DEF Abstract!Next
<1>4. CASE Enter(t)
  <2>1. /\ pc[t] = "idle" /\ pc'[t] = "load" /\ stack' = stack /\ res' = res
    BY <1>0, <1>4 DEF Enter
  <2>2. call[t] = "none" /\ call'[t] = "pop" /\ val'[t] = val[t] /\ items' = items
    BY <1>0, <2>1, PnMapping, PnMapped
  <2>3. val' = val
    BY <1>0, <2>2
  <2>4. Abstract!CallPop(t)
    BY <1>0, <2>2, <2>3 DEF Abstract!CallPop, PnCall, PnVal, PnItems, Items
  <2>. QED
    BY <2>4 DEF Abstract!Next
<1>5. CASE Pop(t)
  <2>1. /\ pc[t] = "pop" /\ pc'[t] = "swap" /\ data' = data /\ stack' = Tail(stack)
        /\ node' = node /\ head = node[t] /\ node[t] # Null
    BY <1>0, <1>5 DEF Pop, PnInStep
  <2>2. stack # <<>> /\ node[t] = stack[1]
    BY <1>i, <2>1, PnTop
  <2>3. call[t] = "pop" /\ call'[t] = "done" /\ val'[t] = data[stack[1]]
    BY <2>1, <2>2, PnMapping, PnMapped DEF PnDone
  <2>4. items # <<>> /\ items' = Tail(items) /\ val'[t] = Head(items)
    <3>1. stack \in Seq(Nodes)
      BY <1>0
    <3>. QED
      BY <2>1, <2>2, <2>3, <3>1, Popped DEF PnItems
  <2>5. Abstract!Pop(t)
    BY <1>0, <2>3, <2>4 DEF Abstract!Pop, PnCall, PnVal, PnItems, Items
  <2>. QED
    BY <2>5 DEF Abstract!Next
<1>6. CASE LoadHead(t) \/ PopFails(t)
  <2>1. /\ pc[t] \in {"load", "pop"} /\ pc'[t] \in {"test", "next"}
        /\ pc'[t] = "test" => head = Null
        /\ stack' = stack /\ res' = res
    BY <1>0, <1>6 DEF LoadHead, PopFails, Observe
  <2>2. call[t] = "pop" /\ val'[t] = val[t] /\ items' = items
    BY <1>0, <2>1, PnMapping, PnMapped
  <2>3. CASE pc'[t] = "test"
    <3>1. stack = <<>>
      BY <1>i, <2>1, <2>3, PnTop
    <3>2. items = <<>>
      BY <3>1 DEF PnItems, Items
    <3>3. call'[t] = "done" /\ val' = val
      BY <1>0, <2>2, <2>3, PnMapped DEF PnDone
    <3>4. Abstract!FindEmpty(t)
      BY <1>0, <2>2, <3>2, <3>3 DEF Abstract!FindEmpty, PnCall, PnVal, PnItems, Items
    <3>. QED
      BY <3>4 DEF Abstract!Next
  <2>4. CASE pc'[t] = "next"
    <3>1. call'[t] = "pop"
      BY <2>4, PnMapped
    <3>. QED
      BY <1>1, <2>2, <3>1
  <2>. QED
    BY <2>1, <2>3, <2>4
<1>7. CASE PushReturn(t) \/ Return(t)
  <2>1. pc[t] \in {"pushed", "return"} /\ pc'[t] = "idle" /\ stack' = stack /\ res'[t] = Null
    BY <1>0, <1>7 DEF PushReturn, Return, PnInStep
  <2>2. call[t] = "done" /\ call'[t] = "none" /\ val'[t] = Null /\ items' = items
    BY <1>0, <2>1, PnMapping, PnMapped DEF PnDone
  <2>3. Abstract!Return(t)
    BY <1>0, <2>2 DEF Abstract!Return, PnCall, PnVal, PnItems, Items
  <2>. QED
    BY <2>3 DEF Abstract!Next
<1>8. CASE Swap(t)
  <2>1. /\ pc[t] = "swap" /\ pc'[t] = "test" /\ stack' = stack /\ res'[t] = data[node[t]]
    BY <1>0, <1>8 DEF Swap
  <2>. QED
    BY <1>0, <1>1, <2>1, PnMapping, PnMapped DEF PnDone
<1>9. CASE PushFails(t)
  <2>1. /\ pc[t] = "push" /\ pc'[t] = "push" /\ node' = node /\ data' = data
        /\ stack' = stack
    BY <1>0, <1>9 DEF PushFails
  <2>. QED
    BY <1>0, <1>1, <2>1, PnMapping, PnMapped
<1>10. CASE ReadNext(t)
  <2>1. /\ pc[t] = "next" /\ pc'[t] = "pop" /\ res' = res /\ stack' = stack
    BY <1>0, <1>10 DEF ReadNext
  <2>. QED
    BY <1>0, <1>1, <2>1, PnMapping, PnMapped
<1>11. CASE \/ Test(t) \/ Take(t) \/ Leave(t) \/ Delete(t) \/ Chain(t) \/ ChainNull(t)
            \/ ExchangeFails(t) \/ Exchange(t) \/ Decrement(t)
  <2>1. /\ pc[t] \in PnDone \ {"swap"} /\ pc'[t] \in PnDone \ {"swap"}
        /\ res' = res /\ stack' = stack
    BY <1>0, <1>11 DEF Test, Take, Leave, Delete, Chain, ChainNull, ExchangeFails, Exchange,
                       Chained, Decrement, PnDone
  <2>2. pc[t] \notin {"push", "swap"} /\ pc'[t] \notin {"push", "swap"}
    BY <2>1 DEF PnDone
  <2>. QED
    BY <1>0, <1>1, <2>1, <2>2, PnMapping, PnMapped
<1>. QED
  BY <1>2, <1>3, <1>4, <1>5, <1>6, <1>7, <1>8, <1>9, <1>10, <1>11 DEF PnStep

\* Init and each step map to the abstract stack's.
LEMMA PnRefines ==
  /\ Init => Abstract!Init
  /\ PnInv /\ [Next]_pnVars => [Abstract!Next]_(Abstract!vars)
<1>1. ASSUME Init PROVE Abstract!Init
  BY <1>1 DEF Init, Abstract!Init
<1>2. ASSUME PnInv, Next PROVE [Abstract!Next]_(Abstract!vars)
  BY <1>2, PnSteppers, PnStepRefines
<1>3. ASSUME UNCHANGED pnVars PROVE UNCHANGED Abstract!vars
  BY <1>3 DEF pnVars, vars, shared, locals, Abstract!vars
<1>. QED
  BY <1>1, <1>2, <1>3

-----------------------------------------------------------------------------
(* The composition: each execution is one of one of the three classes *)

\* A step of the composition is a step of one class and leaves the others.
LEMMA StepsOfEach ==
  [PendingNext \/ HpNext \/ RcNext]_all
    => [Next]_pnVars /\ [Hp!Next]_hpVars /\ [Rc!Next]_rcVars
BY DEF PendingNext, HpNext, RcNext, Pending, HazardPointers, ReferenceCounts,
       PendingStays, HpStays, RcStays, all

\* So is a step in which no exchange fails for no reason.
LEMMA StrongStepsOfEach ==
  [PendingStrongNext \/ HpStrongNext \/ RcNext]_all
    => [PendingNext \/ HpNext \/ RcNext]_all
BY DEF PendingStrongNext, HpStrongNext, PendingNext, HpNext, StrongNext, Next, Step,
       Hp!StrongNext, Hp!Next

\* The invariants of the three classes hold in every execution.
LEMMA StacksInvariant == StacksSpec => [](PnInv /\ HpInv /\ RcInv)
<1>1. StacksInit => PnInv /\ HpInv /\ RcInv
  BY PnInvInit, HpInvInit, RcInvInit DEF StacksInit
<1>2. /\ PnInv /\ [Next]_pnVars => PnInv'
      /\ HpInv /\ [Hp!Next]_hpVars => HpInv'
      /\ RcInv /\ [Rc!Next]_rcVars => RcInv'
  BY PnInvStep, HpInvStep, RcInvStep
<1>. QED
  BY <1>1, <1>2, StepsOfEach, PTL DEF StacksSpec

\* The variables of the three classes keep their types; the counts of
\* lock_free_stack and lock_free_stack_with_rc stay natural numbers.
THEOREM StacksTypesOK == StacksSpec => []TypesOK
<1>1. PnInv /\ HpInv /\ RcInv => TypesOK
  BY PnIsSafe, HpIsSafe, RcIsSafe DEF TypesOK
<1>. QED
  BY <1>1, StacksInvariant, PTL

\* pop() reads old_head->next of a node that other threads may pop at any time
\* (line 109, and line 178 with hazard pointers): none of the three classes
\* has deleted it by then.
THEOREM StacksDereferencesAreLive == StacksSpec => []AllDereferencesAreLive
<1>1. PnInv /\ HpInv /\ RcInv => AllDereferencesAreLive
  BY PnIsSafe, HpIsSafe, RcIsSafe DEF AllDereferencesAreLive
<1>. QED
  BY <1>1, StacksInvariant, PTL

\* Every allocated node is on the stack, waits to be deleted or belongs to one
\* thread, and with reference counts the counts say how many threads hold it:
\* no node leaks and none is deleted twice.
THEOREM StacksLoseNoNode == StacksSpec => []NoNodeIsLost
<1>1. PnInv /\ HpInv /\ RcInv => NoNodeIsLost
  BY PnIsSafe, HpIsSafe, RcIsSafe DEF NoNodeIsLost
<1>. QED
  BY <1>1, StacksInvariant, PTL

\* Every push() and pop() of the three classes takes effect at one instant: at
\* its exchange of _head, or when pop() finds _head null.
THEOREM StacksAreLinearizable == FairStacksSpec => AllImplementStack
<1>1. StacksInit => /\ PnInv /\ HpInv /\ RcInv
                    /\ Abstract!Init /\ Hp!Abstract!Init /\ Rc!Abstract!Init
  BY PnInvInit, HpInvInit, RcInvInit, PnRefines, HpRefines, RcRefines DEF StacksInit
<1>2. [PendingStrongNext \/ HpStrongNext \/ RcNext]_all
        => [Next]_pnVars /\ [Hp!Next]_hpVars /\ [Rc!Next]_rcVars
  BY StepsOfEach, StrongStepsOfEach
<1>3. /\ PnInv /\ [Next]_pnVars => PnInv' /\ [Abstract!Next]_(Abstract!vars)
      /\ HpInv /\ [Hp!Next]_hpVars => HpInv' /\ [Hp!Abstract!Next]_(Hp!Abstract!vars)
      /\ RcInv /\ [Rc!Next]_rcVars => RcInv' /\ [Rc!Abstract!Next]_(Rc!Abstract!vars)
  BY PnInvStep, HpInvStep, RcInvStep, PnRefines, HpRefines, RcRefines
<1>. QED
  BY <1>1, <1>2, <1>3, PTL
     DEF FairStacksSpec, AllImplementStack, ImplementsStack, Abstract!Spec,
         Hp!ImplementsStack, Hp!Abstract!Spec, Rc!ImplementsStack, Rc!Abstract!Spec
==============================================================================
