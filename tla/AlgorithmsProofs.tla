--------------------------- MODULE AlgorithmsProofs ---------------------------
(***************************************************************************)
(* The parallel algorithms, in the executions of MCAlgorithms, for every   *)
(* list, number of threads and length: some thread of the pool always has  *)
(* work, a call that ends leaves nothing behind, and what it returns is    *)
(* right.                                                                  *)
(***************************************************************************)
EXTENDS MCAlgorithms, SequenceTheorems, FiniteSetTheorems, WellFoundedInduction, TLAPS

-----------------------------------------------------------------------------
(* Sequences of tasks and of calls *)

IsSeq(s) == \E U : s \in Seq(U)

\* A task of the number n is among them; none but 0 is there twice.
Has(s, n) == \E i \in 1 .. Len(s) : s[i].task = n

Distinct(s) == \A i, j \in 1 .. Len(s) : s[i].task = s[j].task /\ s[i].task # 0 => i = j

LEMMA HasNothing == /\ IsSeq(<<>>) /\ Distinct(<<>>) /\ Len(<<>>) = 0
                    /\ \A n : ~Has(<<>>, n)
<1>1. <<>> \in Seq({}) /\ Len(<<>>) = 0
  OBVIOUS
<1>2. IsSeq(<<>>)
  BY <1>1 DEF IsSeq
<1>3. 1 .. 0 = {}
  OBVIOUS
<1>. QED
  BY <1>1, <1>2, <1>3 DEF Distinct, Has

LEMMA SeqAppend ==
  ASSUME NEW s, IsSeq(s), NEW x
  PROVE  /\ IsSeq(Append(s, x)) /\ Len(Append(s, x)) = Len(s) + 1 /\ Len(s) \in Nat
         /\ \A i \in 1 .. Len(s) : Append(s, x)[i] = s[i]
         /\ Append(s, x)[Len(s) + 1] = x /\ Append(s, x) # <<>>
<1>1. PICK U : s \in Seq(U)
  BY DEF IsSeq
<1>2. s \in Seq(U \cup {x}) /\ x \in U \cup {x} /\ Len(s) \in Nat
  BY <1>1
<1>3. /\ Append(s, x) \in Seq(U \cup {x}) /\ Len(Append(s, x)) = Len(s) + 1
      /\ Append(s, x)[Len(s) + 1] = x
      /\ \A i \in 1 .. Len(s) : Append(s, x)[i] = s[i]
  BY <1>2
<1>4. Append(s, x) # <<>>
  BY <1>2, <1>3
<1>5. IsSeq(Append(s, x))
  BY <1>3 DEF IsSeq
<1>. QED
  BY <1>2, <1>3, <1>4, <1>5

LEMMA SeqDomain == ASSUME NEW s, IsSeq(s) PROVE DOMAIN s = 1 .. Len(s) /\ Len(s) \in Nat
BY DEF IsSeq

\* r is s but for x in the place i.
Replaces(r, s, i, x) == /\ IsSeq(r) /\ Len(r) = Len(s) /\ r[i] = x
                        /\ \A j \in 1 .. Len(s) : j # i => r[j] = s[j]

LEMMA SeqReplace ==
  \A s, i, x : IsSeq(s) /\ i \in 1 .. Len(s) => Replaces([s EXCEPT ![i] = x], s, i, x)
<1> SUFFICES ASSUME NEW s, NEW i, NEW x, IsSeq(s), i \in 1 .. Len(s)
             PROVE  Replaces([s EXCEPT ![i] = x], s, i, x)
  OBVIOUS
<1>1. PICK U : s \in Seq(U)
  BY DEF IsSeq
<1>2. s \in Seq(U \cup {x}) /\ x \in U \cup {x}
  BY <1>1
<1>3. [s EXCEPT ![i] = x] \in Seq(U \cup {x})
  BY <1>2
<1>. QED
  BY <1>1, <1>2, <1>3 DEF IsSeq, Replaces

LEMMA SeqConcat ==
  ASSUME NEW s, NEW t, IsSeq(s), IsSeq(t)
  PROVE  /\ IsSeq(s \o t) /\ Len(s \o t) = Len(s) + Len(t) /\ Len(s) \in Nat /\ Len(t) \in Nat
         /\ \A k \in 1 .. Len(s \o t) : (s \o t)[k] = IF k <= Len(s) THEN s[k] ELSE t[k - Len(s)]
<1>1. PICK U, V : s \in Seq(U) /\ t \in Seq(V)
  BY DEF IsSeq
<1>2. s \in Seq(U \cup V) /\ t \in Seq(U \cup V)
  BY <1>1
<1>3. s \o t \in Seq(U \cup V)
  BY <1>2
<1>4. /\ Len(s \o t) = Len(s) + Len(t) /\ Len(s) \in Nat /\ Len(t) \in Nat
      /\ \A k \in 1 .. Len(s) + Len(t) :
           (s \o t)[k] = IF k <= Len(s) THEN s[k] ELSE t[k - Len(s)]
  BY <1>2
<1>. QED
  BY <1>3, <1>4 DEF IsSeq

LEMMA HasAppend ==
  ASSUME NEW s, IsSeq(s), NEW x, Distinct(s), x.task # 0 => ~Has(s, x.task)
  PROVE  /\ Distinct(Append(s, x))
         /\ \A n : Has(Append(s, x), n) <=> (Has(s, n) \/ n = x.task)
<1> DEFINE r == Append(s, x)
<1>1. /\ Len(s) \in Nat /\ Len(r) = Len(s) + 1 /\ r[Len(s) + 1] = x
      /\ \A i \in 1 .. Len(s) : r[i] = s[i]
  BY SeqAppend
<1>. HIDE DEF r
<1>2. \A i \in 1 .. Len(r) : i \in 1 .. Len(s) \/ i = Len(s) + 1
  BY <1>1
<1>3. Distinct(r)
  BY <1>1, <1>2 DEF Distinct, Has
<1>4. ASSUME NEW n PROVE Has(r, n) <=> (Has(s, n) \/ n = x.task)
  <2>1. \A i \in 1 .. Len(s) : i \in 1 .. Len(r)
    BY <1>1
  <2>2. Len(s) + 1 \in 1 .. Len(r)
    BY <1>1
  <2>. QED
    BY <1>1, <1>2, <2>1, <2>2 DEF Has
<1>. QED
  BY <1>3, <1>4 DEF r

LEMMA HasTail ==
  ASSUME NEW s, IsSeq(s), s # <<>>, Distinct(s), Head(s).task # 0
  PROVE  /\ IsSeq(Tail(s)) /\ Distinct(Tail(s)) /\ Has(s, Head(s).task)
         /\ Head(s) = s[1] /\ 1 \in 1 .. Len(s)
         /\ \A n : Has(Tail(s), n) <=> (Has(s, n) /\ n # Head(s).task)
         /\ \A i \in 1 .. Len(Tail(s)) : i + 1 \in 1 .. Len(s) /\ Tail(s)[i] = s[i + 1]
<1> DEFINE r == Tail(s)
<1>0. PICK U : s \in Seq(U)
  BY DEF IsSeq
<1>1. /\ r \in Seq(U) /\ Len(r) = Len(s) - 1 /\ Len(s) \in Nat \ {0}
      /\ \A i \in 1 .. Len(s) - 1 : r[i] = s[i + 1]
      /\ Head(s) = s[1] /\ Head(s) \in U
  BY <1>0
<1>. HIDE DEF r
<1>2. \A i \in 1 .. Len(r) : i + 1 \in 1 .. Len(s) /\ r[i] = s[i + 1] /\ i + 1 # 1
  BY <1>1
<1>3. \A i \in 1 .. Len(s) : i = 1 \/ (i - 1 \in 1 .. Len(r) /\ r[i - 1] = s[i])
  BY <1>1
<1>4. 1 \in 1 .. Len(s)
  BY <1>1
<1>5. Distinct(r)
  <2> SUFFICES ASSUME NEW i \in 1 .. Len(r), NEW j \in 1 .. Len(r),
                      r[i].task = r[j].task, r[i].task # 0
               PROVE  i = j
    BY DEF Distinct
  <2>1. i + 1 = j + 1
    BY <1>2 DEF Distinct
  <2>. QED
    BY <2>1
<1>6. ASSUME NEW n PROVE Has(r, n) <=> (Has(s, n) /\ n # Head(s).task)
  <2>1. ASSUME Has(r, n) PROVE Has(s, n) /\ n # Head(s).task
    BY <1>1, <1>2, <1>4, <2>1 DEF Has, Distinct
  <2>2. ASSUME Has(s, n), n # Head(s).task PROVE Has(r, n)
    BY <1>1, <1>3, <2>2 DEF Has
  <2>. QED
    BY <2>1, <2>2
<1>7. Has(s, Head(s).task)
  BY <1>1, <1>4 DEF Has
<1>8. IsSeq(r)
  BY <1>1 DEF IsSeq
<1>. QED
  BY <1>1, <1>2, <1>4, <1>5, <1>6, <1>7, <1>8 DEF r

\* What the change of the last call, and the call above it, make of a stack.
LEMMA SeqBelow ==
  ASSUME NEW s, IsSeq(s), s # <<>>
  PROVE  LET b == SubSeq(s, 1, Len(s) - 1)
         IN /\ IsSeq(b) /\ Len(s) \in Nat \ {0} /\ Len(b) = Len(s) - 1 /\ Len(b) \in Nat
            /\ \A i \in 1 .. Len(b) : b[i] = s[i] /\ i \in 1 .. Len(s) /\ i # Len(s)
            /\ \A i \in 1 .. Len(s) : i \in 1 .. Len(b) \/ i = Len(s)
            /\ (b = <<>> <=> Len(s) = 1)
            /\ 1 \in 1 .. Len(s) /\ Len(s) \in 1 .. Len(s)
<1> DEFINE b == SubSeq(s, 1, Len(s) - 1)
<1>0. PICK U : s \in Seq(U)
  BY DEF IsSeq
<1> DEFINE n == Len(s) - 1
<1>1. Len(s) \in Nat \ {0} /\ n \in Nat /\ \A i \in 1 .. n : s[i] \in U
  BY <1>0
<1>2. /\ b \in Seq(U) /\ Len(b) = Len(s) - 1 /\ Len(b) \in Nat
      /\ \A i \in 1 .. Len(b) : b[i] = s[i]
  <2>1. b = SubSeq(s, 1, n)
    OBVIOUS
  <2>2. n = Len(s) - 1
    OBVIOUS
  <2>. HIDE DEF n, b
  <2>3. b \in Seq(U) /\ Len(b) = n /\ \A i \in 1 .. n : b[i] = s[i]
    BY <1>0, <1>1, <2>1, <2>2
  <2>. QED
    BY <1>1, <2>2, <2>3
<1>. HIDE DEF b
<1>. HIDE DEF n
<1>3. IsSeq(b)
  BY <1>2 DEF IsSeq
<1>4. b = <<>> <=> Len(b) = 0
  BY <1>2
<1>5. /\ \A i \in 1 .. Len(b) : i \in 1 .. Len(s) /\ i # Len(s)
      /\ \A i \in 1 .. Len(s) : i \in 1 .. Len(b) \/ i = Len(s)
      /\ 1 \in 1 .. Len(s) /\ Len(s) \in 1 .. Len(s)
      /\ (Len(b) = 0 <=> Len(s) = 1)
  BY <1>1, <1>2
<1>. QED
  BY <1>1, <1>2, <1>3, <1>4, <1>5 DEF b

LEMMA SeqTwo ==
  ASSUME NEW s, IsSeq(s), NEW x, NEW y
  PROVE  LET r == s \o <<x, y>>
         IN /\ IsSeq(r) /\ Len(s) \in Nat /\ Len(r) = Len(s) + 2 /\ r # <<>>
            /\ \A i \in 1 .. Len(s) : r[i] = s[i]
            /\ r[Len(s) + 1] = x /\ r[Len(s) + 2] = y
<1> DEFINE r == s \o <<x, y>>
           V == {x, y}
<1>0. PICK U : s \in Seq(U)
  BY DEF IsSeq
<1>1. s \in Seq(U \cup V) /\ <<x, y>> \in Seq(U \cup V) /\ Len(s) \in Nat
  BY <1>0
<1>2. /\ r \in Seq(U \cup V) /\ Len(r) = Len(s) + 2
      /\ \A i \in 1 .. Len(s) : r[i] = s[i]
      /\ r[Len(s) + 1] = x /\ r[Len(s) + 2] = y
  BY <1>1
<1>. HIDE DEF r, V
<1>3. IsSeq(r)
  BY <1>2 DEF IsSeq
<1>4. r # <<>>
  BY <1>1, <1>2
<1>. QED
  BY <1>1, <1>2, <1>3, <1>4 DEF r

-----------------------------------------------------------------------------
(* The calls of a thread *)

IsFrame(f) == f = [task |-> f.task, chunk |-> f.chunk, at |-> f.at,
                   lower |-> f.lower, high |-> f.high]

\* A call waits for a task that is submitted after those it runs within; it is
\* at "sort" while the one above it is its recursive call.
FrameOK(s, i, n) ==
  /\ IsFrame(s[i])
  /\ s[i].task \in 0 .. n /\ s[i].at \in {"start", "sort", "wait", "end"}
  /\ s[i].at \in {"sort", "wait"} =>
       s[i].lower \in 1 .. n /\ \A j \in 1 .. i : s[j].task < s[i].lower
  /\ s[i].at = "sort" <=> (i < Len(s) /\ s[i + 1].task = 0)
  /\ s[i].at = "start" => i = Len(s)
  /\ s[i].at = "end" => Len(s) = 1 /\ s[i].task = 0

StackOK(s, n) == IsSeq(s) /\ Distinct(s) /\ \A i \in 1 .. Len(s) : FrameOK(s, i, n)

Awaits(s, n) == \E i \in 1 .. Len(s) : s[i].at \in {"sort", "wait"} /\ s[i].lower = n

\* A call that stays where it is, with those below it.
LEMMA FrameKept ==
  ASSUME NEW n \in Nat, NEW q \in Nat, n <= q, NEW s, NEW r, NEW i \in Nat, FrameOK(s, i, n),
         r[i] = s[i], \A j \in 1 .. i : r[j].task = s[j].task,
         s[i].at = "sort" <=> (i < Len(r) /\ r[i + 1].task = 0),
         s[i].at = "start" => i = Len(r),
         s[i].at = "end" => Len(r) = 1
  PROVE  FrameOK(r, i, q)
<1>1. 0 .. n \subseteq 0 .. q /\ 1 .. n \subseteq 1 .. q
  OBVIOUS
<1>2. IsFrame(r[i])
  BY DEF FrameOK
<1>3. r[i].task \in 0 .. q /\ r[i].at \in {"start", "sort", "wait", "end"}
  BY <1>1 DEF FrameOK
<1>4. r[i].at \in {"sort", "wait"} =>
        r[i].lower \in 1 .. q /\ \A j \in 1 .. i : r[j].task < r[i].lower
  BY <1>1 DEF FrameOK
<1>5. /\ r[i].at = "sort" <=> (i < Len(r) /\ r[i + 1].task = 0)
      /\ r[i].at = "start" => i = Len(r)
      /\ r[i].at = "end" => Len(r) = 1 /\ r[i].task = 0
  BY DEF FrameOK
<1>. QED
  BY <1>2, <1>3, <1>4, <1>5 DEF FrameOK

\* More tasks do not matter to the calls there are.
LEMMA StackLater ==
  ASSUME NEW s, NEW n \in Nat, StackOK(s, n)
  PROVE  StackOK(s, n + 1)
<1>1. Len(s) \in Nat
  BY SeqAppend DEF StackOK
<1>2. ASSUME NEW i \in 1 .. Len(s) PROVE FrameOK(s, i, n + 1)
  <2>1. FrameOK(s, i, n) /\ i \in Nat /\ n <= n + 1 /\ n + 1 \in Nat
    BY <1>1 DEF StackOK
  <2>2. /\ s[i].at = "sort" <=> (i < Len(s) /\ s[i + 1].task = 0)
        /\ s[i].at = "start" => i = Len(s)
        /\ s[i].at = "end" => Len(s) = 1
    BY <2>1 DEF FrameOK
  <2>. QED
    BY <2>1, <2>2, FrameKept
<1>. QED
  BY <1>2 DEF StackOK

\* What Run does.
LEMMA StackPush ==
  ASSUME NEW s, NEW n \in Nat, StackOK(s, n),
         s = <<>> \/ s[Len(s)].at = "wait",
         NEW k \in 1 .. n, NEW chunk, ~Has(s, k)
  PROVE  LET r == Append(s, Frame(k, chunk))
         IN /\ StackOK(r, n)
            /\ \A j : Has(r, j) <=> (Has(s, j) \/ j = k)
            /\ \A j : Awaits(s, j) => Awaits(r, j)
            /\ r # <<>> /\ r[1].task = (IF s = <<>> THEN k ELSE s[1].task)
            /\ r[1].at # "end"
<1> DEFINE f == Frame(k, chunk)
           r == Append(s, f)
<1>1. /\ f.task = k /\ f.at = "start" /\ k # 0 /\ k \in 0 .. n
      /\ IsFrame(f)
  BY DEF Frame, IsFrame
<1>. HIDE DEF f
<1>2. /\ IsSeq(r) /\ Distinct(r)
      /\ \A j : Has(r, j) <=> (Has(s, j) \/ j = k)
      /\ Len(r) = Len(s) + 1 /\ Len(s) \in Nat
      /\ \A i \in 1 .. Len(s) : r[i] = s[i]
      /\ r[Len(s) + 1] = f /\ r # <<>>
  BY <1>1, HasAppend, SeqAppend DEF StackOK
<1>. HIDE DEF r
<1>3. s # <<>> => Len(s) \in 1 .. Len(s) /\ 1 \in 1 .. Len(s)
  BY SeqBelow DEF StackOK
<1>4. ASSUME NEW i \in 1 .. Len(s) PROVE FrameOK(r, i, n) /\ s[i].at # "end"
  <2>1. r[i] = s[i] /\ FrameOK(s, i, n) /\ i \in Nat
    BY <1>2, <1>4 DEF StackOK
  <2>0. s # <<>>
    BY <1>4, HasNothing
  <2>2. \A j \in 1 .. i : r[j].task = s[j].task
    BY <1>2
  <2>3. i # Len(s) => i + 1 \in 1 .. Len(s) /\ r[i + 1] = s[i + 1] /\ i < Len(s) /\ i < Len(r)
    BY <1>2
  <2>4. i = Len(s) => s[i].at = "wait" /\ r[i + 1].task # 0
    BY <1>1, <1>2, <2>0
  <2>5. s[i].at # "start" /\ s[i].at # "end"
    <3>1. i = Len(s) => s[i].at # "start" /\ s[i].at # "end"
      BY <2>4
    <3>2. s[i].at = "end" => i = Len(s)
      <4>1. s[i].at = "end" => Len(s) = 1
        BY <2>1 DEF FrameOK
      <4>2. Len(s) = 1 => i = Len(s)
        BY <1>2
      <4>. QED
        BY <4>1, <4>2
    <3>3. s[i].at = "start" => i = Len(s)
      BY <2>1 DEF FrameOK
    <3>. QED
      BY <3>1, <3>2, <3>3
  <2>6. s[i].at = "sort" <=> (i < Len(r) /\ r[i + 1].task = 0)
    <3>1. CASE i = Len(s)
      BY <2>4, <3>1
    <3>2. CASE i # Len(s)
      BY <2>1, <2>3, <3>2 DEF FrameOK
    <3>. QED
      BY <3>1, <3>2
  <2>7. n <= n
    OBVIOUS
  <2>8. FrameOK(r, i, n)
    BY <2>1, <2>2, <2>5, <2>6, <2>7, FrameKept
  <2>. QED
    BY <2>5, <2>8
<1>5. FrameOK(r, Len(s) + 1, n)
  <2>1. ~(Len(s) + 1 < Len(r)) /\ Len(s) + 1 = Len(r)
    BY <1>2
  <2>. QED
    BY <1>1, <1>2, <2>1 DEF FrameOK
<1>6. StackOK(r, n)
  <2>1. \A i \in 1 .. Len(r) : i \in 1 .. Len(s) \/ i = Len(s) + 1
    BY <1>2
  <2>. QED
    BY <1>2, <1>4, <1>5, <2>1 DEF StackOK
<1>7. \A j : Awaits(s, j) => Awaits(r, j)
  <2>1. \A i \in 1 .. Len(s) : i \in 1 .. Len(r) /\ r[i] = s[i]
    BY <1>2
  <2>. QED
    BY <2>1 DEF Awaits
<1>8. r[1].task = (IF s = <<>> THEN k ELSE s[1].task) /\ r[1].at # "end"
  <2>1. CASE s = <<>>
    BY <1>1, <1>2, <2>1, HasNothing
  <2>2. CASE s # <<>>
    BY <1>2, <1>3, <1>4, <2>2
  <2>. QED
    BY <2>1, <2>2
<1>. QED
  BY <1>2, <1>6, <1>7, <1>8 DEF r, f

\* What Split does, to a thread of calls at the top of which is one that starts.
LEMMA StackSplit ==
  ASSUME NEW s, NEW n \in Nat, StackOK(s, n), s # <<>>, s[Len(s)].at = "start",
         NEW x, IsFrame(x), x.task = s[Len(s)].task, x.at = "sort", x.lower = n + 1, NEW chunk
  PROVE  LET r == SubSeq(s, 1, Len(s) - 1) \o <<x, Frame(0, chunk)>>
         IN /\ StackOK(r, n + 1)
            /\ \A j : j # 0 => (Has(r, j) <=> Has(s, j))
            /\ \A j : Awaits(s, j) => Awaits(r, j)
            /\ Awaits(r, n + 1)
            /\ r # <<>> /\ r[1].task = s[1].task /\ r[1].at # "end"
<1> DEFINE f == Frame(0, chunk)
           l == Len(s)
           b == SubSeq(s, 1, l - 1)
           r == b \o <<x, f>>
<1>1. /\ f.task = 0 /\ f.at = "start"
      /\ IsFrame(f)
  BY DEF Frame, IsFrame
<1>2. /\ IsSeq(b) /\ l \in Nat \ {0} /\ Len(b) = l - 1
      /\ \A i \in 1 .. Len(b) : b[i] = s[i]
      /\ 1 \in 1 .. l /\ l \in 1 .. l
  BY SeqBelow DEF StackOK
<1>3. FrameOK(s, l, n)
  BY <1>2 DEF StackOK
<1>4. /\ x.task = s[l].task /\ x.at = "sort" /\ x.lower = n + 1
      /\ IsFrame(x)
  OBVIOUS
<1>. HIDE DEF f, b
<1>5. /\ IsSeq(r) /\ Len(b) \in Nat /\ Len(r) = Len(b) + 2 /\ r # <<>>
      /\ \A i \in 1 .. Len(b) : r[i] = b[i]
      /\ r[Len(b) + 1] = x /\ r[Len(b) + 2] = f
  <2>1. IsSeq(b)
    BY <1>2
  <2>. QED
    BY <2>1, SeqTwo
<1>. HIDE DEF r, l
<1>6. /\ Len(r) = l + 1 /\ r[l] = x /\ r[l + 1] = f
      /\ \A i \in 1 .. l - 1 : r[i] = s[i] /\ i # l
  <2>1. Len(b) + 1 = l /\ Len(b) + 2 = l + 1
    BY <1>2
  <2>. QED
    BY <1>2, <1>5, <2>1
<1>7. \A i \in 1 .. l : r[i].task = s[i].task /\ i \in 1 .. Len(r)
  <2> SUFFICES ASSUME NEW i \in 1 .. l PROVE r[i].task = s[i].task /\ i \in 1 .. Len(r)
    OBVIOUS
  <2>1. i = l \/ i \in 1 .. l - 1
    BY <1>2
  <2>2. i \in 1 .. Len(r)
    BY <1>2, <1>6
  <2>. QED
    BY <1>4, <1>6, <2>1, <2>2
<1>8. \A i \in 1 .. Len(r) : i \in 1 .. l \/ i = l + 1
  BY <1>2, <1>6
<1>9. Distinct(r) /\ \A j : j # 0 => (Has(r, j) <=> Has(s, j))
  <2>1. Distinct(s) /\ l = Len(s)
    BY DEF StackOK, l
  <2>2. Distinct(r)
    BY <1>1, <1>6, <1>7, <1>8, <2>1 DEF Distinct
  <2>. QED
    BY <1>1, <1>6, <1>7, <1>8, <2>1, <2>2 DEF Has
<1>10. \A i \in 1 .. l : FrameOK(s, i, n) /\ i \in Nat /\ s[i].task < n + 1 /\ s[i].task \in 0 .. n
  <2> SUFFICES ASSUME NEW i \in 1 .. l
               PROVE  FrameOK(s, i, n) /\ i \in Nat /\ s[i].task < n + 1 /\ s[i].task \in 0 .. n
    OBVIOUS
  <2>1. FrameOK(s, i, n) /\ i \in Nat
    BY <1>2 DEF StackOK, l
  <2>2. s[i].task \in 0 .. n
    BY <2>1 DEF FrameOK
  <2>3. s[i].task < n + 1
    BY <2>2
  <2>. QED
    BY <2>1, <2>2, <2>3
<1>11. ASSUME NEW i \in 1 .. l - 1
       PROVE  FrameOK(r, i, n + 1) /\ s[i].at # "start" /\ s[i].at # "end"
  <2>1. /\ i \in 1 .. l /\ i + 1 \in 1 .. l /\ i < l /\ i < Len(r) /\ i # l /\ l # 1
        /\ \A j \in 1 .. i : j \in 1 .. l
    BY <1>2, <1>6
  <2>2. FrameOK(s, i, n) /\ i \in Nat /\ l = Len(s) /\ n <= n + 1 /\ n + 1 \in Nat
    BY <1>10, <2>1 DEF l
  <2>3. s[i].at # "start" /\ s[i].at # "end"
    BY <2>1, <2>2 DEF FrameOK
  <2>4. s[i].at = "sort" <=> (i < Len(r) /\ r[i + 1].task = 0)
    BY <1>7, <2>1, <2>2 DEF FrameOK
  <2>5. r[i] = s[i] /\ \A j \in 1 .. i : r[j].task = s[j].task
    BY <1>6, <1>7, <2>1
  <2>6. FrameOK(r, i, n + 1)
    BY <2>2, <2>3, <2>4, <2>5, FrameKept
  <2>. QED
    BY <2>3, <2>6
<1>12. FrameOK(r, l, n + 1)
  <2>1. l < Len(r) /\ l # Len(r) /\ r[l + 1].task = 0
    BY <1>1, <1>2, <1>6
  <2>2. \A j \in 1 .. l : r[j].task < n + 1
    BY <1>7, <1>10
  <2>3. r[l].task \in 0 .. n + 1 /\ n + 1 \in 1 .. n + 1
    BY <1>2, <1>7, <1>10
  <2>. QED
    BY <1>4, <1>6, <2>1, <2>2, <2>3 DEF FrameOK
<1>13. FrameOK(r, l + 1, n + 1)
  <2>1. ~(l + 1 < Len(r)) /\ l + 1 = Len(r) /\ 0 \in 0 .. n + 1
    BY <1>2, <1>6
  <2>. QED
    BY <1>1, <1>6, <2>1 DEF FrameOK
<1>14. \A i \in 1 .. l : i \in 1 .. l - 1 \/ i = l
  BY <1>2
<1>15. StackOK(r, n + 1)
  BY <1>5, <1>8, <1>9, <1>11, <1>12, <1>13, <1>14 DEF StackOK
<1>16. \A j : Awaits(s, j) => Awaits(r, j)
  <2> SUFFICES ASSUME NEW j, NEW i \in 1 .. l, s[i].at \in {"sort", "wait"}, s[i].lower = j
               PROVE  Awaits(r, j)
    BY DEF Awaits, l
  <2>1. i # l
    BY DEF l
  <2>2. r[i] = s[i] /\ i \in 1 .. Len(r)
    BY <1>6, <1>7, <1>14, <2>1
  <2>. QED
    BY <2>2 DEF Awaits
<1>17. Awaits(r, n + 1)
  BY <1>2, <1>4, <1>6, <1>7 DEF Awaits
<1>18. r[1].task = s[1].task /\ r[1].at # "end"
  <2>1. 1 \in 1 .. l - 1 \/ 1 = l
    BY <1>2
  <2>. QED
    BY <1>2, <1>4, <1>6, <1>7, <1>11, <2>1
<1>. QED
  BY <1>5, <1>9, <1>15, <1>16, <1>17, <1>18 DEF r, b, f, l

\* A task ends: what is below goes on waiting.
LEMMA StackPop ==
  ASSUME NEW s, NEW n \in Nat, StackOK(s, n), s # <<>>, s[Len(s)].task # 0
  PROVE  LET r == SubSeq(s, 1, Len(s) - 1)
             x == s[Len(s)]
         IN /\ StackOK(r, n) /\ Has(s, x.task)
            /\ \A j : j # 0 => (Has(r, j) <=> (Has(s, j) /\ j # x.task))
            /\ \A j : Awaits(s, j) => (Awaits(r, j) \/ (x.at \in {"sort", "wait"} /\ j = x.lower))
            /\ (r # <<>> => r[1].task = s[1].task /\ r[1].at # "end")
            /\ (r = <<>> => s[1].task = x.task)
<1> DEFINE l == Len(s)
           r == SubSeq(s, 1, l - 1)
           x == s[l]
<1>1. /\ IsSeq(r) /\ l \in Nat \ {0} /\ Len(r) = l - 1 /\ Len(r) \in Nat
      /\ \A i \in 1 .. Len(r) : r[i] = s[i] /\ i \in 1 .. l /\ i # l
      /\ \A i \in 1 .. l : i \in 1 .. Len(r) \/ i = l
      /\ (r = <<>> <=> l = 1)
      /\ 1 \in 1 .. l /\ l \in 1 .. l
  BY SeqBelow DEF StackOK
<1>2. l = Len(s) /\ x = s[l] /\ x.task # 0
  OBVIOUS
<1>. HIDE DEF r, l, x
<1>3. Distinct(s) /\ \A i \in 1 .. l : FrameOK(s, i, n)
  BY <1>2 DEF StackOK
<1>4. Distinct(r)
  BY <1>1, <1>3, <1>2 DEF Distinct
<1>5. Has(s, x.task) /\ \A j : j # 0 => (Has(r, j) <=> (Has(s, j) /\ j # x.task))
  <2>1. Has(s, x.task)
    BY <1>1, <1>2 DEF Has
  <2>2. \A j : Has(r, j) => Has(s, j)
    BY <1>1, <1>2 DEF Has
  <2>3. ~Has(r, x.task)
    BY <1>1, <1>2, <1>3 DEF Has, Distinct
  <2>4. \A j : Has(s, j) /\ j # x.task => Has(r, j)
    BY <1>1, <1>2 DEF Has
  <2>. QED
    BY <2>1, <2>2, <2>3, <2>4
<1>6. ASSUME NEW i \in 1 .. Len(r) PROVE FrameOK(r, i, n) /\ s[i].at # "end" /\ s[i].at # "start"
  <2>1. /\ i \in 1 .. l /\ i # l /\ i < l /\ i \in Nat /\ r[i] = s[i] /\ l # 1
        /\ i + 1 \in 1 .. l /\ n <= n
    BY <1>1
  <2>2. FrameOK(s, i, n)
    BY <1>3, <2>1
  <2>3. s[i].at # "start" /\ s[i].at # "end"
    BY <1>2, <2>1, <2>2 DEF FrameOK
  <2>4. s[i].at = "sort" <=> s[i + 1].task = 0
    BY <1>2, <2>1, <2>2 DEF FrameOK
  <2>5. \A j \in 1 .. i : r[j].task = s[j].task
    BY <1>1
  <2>6. s[i].at = "sort" <=> (i < Len(r) /\ r[i + 1].task = 0)
    <3>1. CASE i + 1 = l
      <4>1. ~(i < Len(r))
        BY <1>1, <3>1
      <4>. QED
        BY <1>2, <2>4, <3>1, <4>1
    <3>2. CASE i + 1 # l
      <4>1. i + 1 \in 1 .. Len(r) /\ i < Len(r)
        BY <1>1, <2>1, <3>2
      <4>. QED
        BY <1>1, <2>4, <4>1
    <3>. QED
      BY <3>1, <3>2
  <2>7. FrameOK(r, i, n)
    BY <2>1, <2>2, <2>3, <2>5, <2>6, FrameKept
  <2>. QED
    BY <2>3, <2>7
<1>7. StackOK(r, n)
  BY <1>1, <1>4, <1>6 DEF StackOK
<1>8. \A j : Awaits(s, j) => (Awaits(r, j) \/ (x.at \in {"sort", "wait"} /\ j = x.lower))
  BY <1>1, <1>2 DEF Awaits
<1>9. r # <<>> => r[1].task = s[1].task /\ r[1].at # "end"
  <2>1. r # <<>> => 1 \in 1 .. Len(r)
    BY <1>1
  <2>. QED
    BY <1>1, <1>6, <2>1
<1>10. r = <<>> => s[1].task = x.task
  BY <1>1, <1>2
<1>. QED
  BY <1>5, <1>7, <1>8, <1>9, <1>10 DEF r, l, x

\* A recursive call returns to the call below it.
Told(s, r) ==
  /\ s # <<>> /\ s[Len(s)].task = 0
  /\ IsSeq(r) /\ r # <<>> /\ Len(r) = Len(s) - 1
  /\ \A i \in 1 .. Len(r) : i # Len(r) => r[i] = s[i]
  /\ IsFrame(r[Len(r)]) /\ r[Len(r)].at = "wait"
  /\ r[Len(r)].task = s[Len(r)].task /\ r[Len(r)].lower = s[Len(r)].lower

LEMMA StackReturn ==
  ASSUME NEW s, NEW n \in Nat, StackOK(s, n), NEW r, Told(s, r)
  PROVE  LET x == s[Len(s)]
         IN /\ StackOK(r, n)
            /\ \A j : j # 0 => (Has(r, j) <=> Has(s, j))
            /\ \A j : Awaits(s, j) => (Awaits(r, j) \/ (x.at \in {"sort", "wait"} /\ j = x.lower))
            /\ r # <<>> /\ r[1].task = s[1].task /\ r[1].at # "end"
<1> DEFINE l == Len(s)
           b == SubSeq(s, 1, Len(s) - 1)
           p == Len(r)
           x == s[l]
<1>1. /\ IsSeq(b) /\ l \in Nat \ {0} /\ p = l - 1 /\ p \in Nat /\ p # 0
      /\ \A i \in 1 .. p : b[i] = s[i] /\ i \in 1 .. l /\ i # l
      /\ \A i \in 1 .. l : i \in 1 .. p \/ i = l
      /\ 1 \in 1 .. l /\ l \in 1 .. l
  <2>1. p \in Nat \ {0} /\ s # <<>>
    BY SeqBelow DEF Told
  <2>2. IsSeq(s) /\ p = l - 1
    BY DEF StackOK, Told
  <2>3. /\ IsSeq(b) /\ l \in Nat \ {0} /\ Len(b) = p
        /\ \A i \in 1 .. p : b[i] = s[i] /\ i \in 1 .. l /\ i # l
        /\ \A i \in 1 .. l : i \in 1 .. p \/ i = l
        /\ 1 \in 1 .. l /\ l \in 1 .. l
    BY <2>1, <2>2, SeqBelow
  <2>. QED
    BY <2>1, <2>2, <2>3
<1>2. l = Len(s) /\ p = Len(r) /\ x = s[l] /\ x.task = 0 /\ p \in 1 .. p /\ p # l /\ 1 \in 1 .. p
  BY <1>1 DEF Told
<1>. HIDE DEF b
<1>3. /\ IsSeq(r) /\ Len(r) = p /\ r # <<>>
      /\ \A i \in 1 .. p : i # p => r[i] = b[i]
  BY <1>1 DEF Told
<1>. HIDE DEF l, x, p
<1>4. Distinct(s) /\ \A i \in 1 .. l : FrameOK(s, i, n)
  BY <1>2 DEF StackOK
<1>5. FrameOK(s, p, n) /\ s[p].at = "sort"
  <2>1. p \in 1 .. l /\ p < l /\ p + 1 = l
    BY <1>1, <1>2
  <2>. QED
    BY <1>2, <1>4, <2>1 DEF FrameOK
<1>6. /\ r[p].task = s[p].task /\ r[p].at = "wait" /\ r[p].lower = s[p].lower
      /\ IsFrame(r[p])
  BY <1>2 DEF Told
<1>7. \A i \in 1 .. p : r[i].task = s[i].task
  BY <1>1, <1>3, <1>6
<1>8. Distinct(r)
  <2> SUFFICES ASSUME NEW i \in 1 .. p, NEW j \in 1 .. p, r[i].task = r[j].task, r[i].task # 0
               PROVE  i = j
    BY <1>3 DEF Distinct
  <2>1. i \in 1 .. Len(s) /\ j \in 1 .. Len(s)
    BY <1>1, <1>2
  <2>2. s[i].task = s[j].task /\ s[i].task # 0
    BY <1>7
  <2>. QED
    BY <1>4, <2>1, <2>2 DEF Distinct
<1>9. \A j : j # 0 => (Has(r, j) <=> Has(s, j))
  <2> SUFFICES ASSUME NEW j, j # 0 PROVE Has(r, j) <=> Has(s, j)
    OBVIOUS
  <2>1. ASSUME NEW i \in 1 .. Len(s), s[i].task = j PROVE Has(r, j)
    <3>1. i \in 1 .. p
      BY <1>1, <1>2, <2>1
    <3>. QED
      BY <1>3, <1>7, <2>1, <3>1 DEF Has
  <2>2. ASSUME NEW i \in 1 .. p, r[i].task = j PROVE Has(s, j)
    <3>1. i \in 1 .. Len(s) /\ s[i].task = j
      BY <1>1, <1>2, <1>7, <2>2
    <3>. QED
      BY <3>1 DEF Has
  <2>. QED
    BY <1>3, <2>1, <2>2 DEF Has
<1>10. ASSUME NEW i \in 1 .. p, i # p PROVE FrameOK(r, i, n) /\ s[i].at # "end"
  <2>0. r[i] = s[i] /\ i \in 1 .. l /\ i # l /\ Len(r) = p
    BY <1>1, <1>3, <1>10
  <2>1. /\ i \in 1 .. l /\ i # l /\ i < l /\ i \in Nat /\ r[i] = s[i] /\ l # 1
        /\ i + 1 \in 1 .. p /\ n <= n /\ i < Len(r)
    <3>1. /\ l \in Nat /\ p \in Nat /\ p = l - 1 /\ i \in 1 .. p /\ i # p /\ n \in Nat
      BY <1>1, <1>10
    <3>2. /\ i < l /\ i \in Nat /\ l # 1 /\ i + 1 \in 1 .. p /\ n <= n /\ i < p
      BY <3>1
    <3>. QED
      BY <2>0, <3>2
  <2>2. FrameOK(s, i, n)
    BY <1>4, <2>1
  <2>3. s[i].at # "start" /\ s[i].at # "end"
    BY <1>2, <2>1, <2>2 DEF FrameOK
  <2>4. s[i].at = "sort" <=> (i < Len(r) /\ r[i + 1].task = 0)
    <3>1. s[i].at = "sort" <=> s[i + 1].task = 0
      BY <1>2, <2>1, <2>2 DEF FrameOK
    <3>2. r[i + 1].task = s[i + 1].task
      BY <1>7, <2>1
    <3>. QED
      BY <2>1, <3>1, <3>2
  <2>5. \A j \in 1 .. i : r[j].task = s[j].task
    <3>1. \A j \in 1 .. i : j \in 1 .. p
      BY <1>1, <2>1
    <3>. QED
      BY <1>7, <3>1
  <2>6. FrameOK(r, i, n)
    BY <2>1, <2>2, <2>3, <2>4, <2>5, FrameKept
  <2>. QED
    BY <2>3, <2>6
<1>11. FrameOK(r, p, n)
  <2>1. r[p].lower \in 1 .. n /\ \A j \in 1 .. p : r[j].task < r[p].lower
    BY <1>5, <1>6, <1>7 DEF FrameOK
  <2>2. r[p].task \in 0 .. n /\ ~(p < Len(r))
    BY <1>1, <1>3, <1>5, <1>6 DEF FrameOK
  <2>. QED
    BY <1>6, <2>1, <2>2 DEF FrameOK
<1>12. StackOK(r, n)
  BY <1>3, <1>8, <1>10, <1>11 DEF StackOK
<1>13. \A j : Awaits(s, j) => (Awaits(r, j) \/ (x.at \in {"sort", "wait"} /\ j = x.lower))
  <2> SUFFICES ASSUME NEW j, NEW i \in 1 .. l, s[i].at \in {"sort", "wait"}, s[i].lower = j, i # l
               PROVE  Awaits(r, j)
    BY <1>2 DEF Awaits
  <2>1. i \in 1 .. p
    BY <1>1
  <2>2. r[i].at \in {"sort", "wait"} /\ r[i].lower = j
    BY <1>1, <1>3, <1>6, <2>1
  <2>. QED
    BY <1>3, <2>1, <2>2 DEF Awaits
<1>14. r[1].task = s[1].task /\ r[1].at # "end"
  <2>1. r[1].task = s[1].task
    BY <1>2, <1>7
  <2>2. CASE p = 1
    BY <1>6, <2>1, <2>2
  <2>3. CASE p # 1
    <3>1. r[1] = s[1] /\ s[1].at # "end"
      BY <1>1, <1>2, <1>3, <1>10, <2>3
    <3>. QED
      BY <2>1, <3>1
  <2>. QED
    BY <2>2, <2>3
<1>. QED
  BY <1>3, <1>9, <1>12, <1>13, <1>14 DEF l, x, p

\* The first call of the sort ends.
LEMMA StackEnd ==
  ASSUME NEW s, NEW n \in Nat, StackOK(s, n), s # <<>>, s[Len(s)].task = 0,
         SubSeq(s, 1, Len(s) - 1) = <<>>, NEW v
  PROVE  LET x == s[Len(s)]
             r == <<[x EXCEPT !.at = "end", !.high = v]>>
         IN /\ StackOK(r, n)
            /\ \A j : j # 0 => (Has(r, j) <=> Has(s, j))
            /\ \A j : Awaits(s, j) => x.at \in {"sort", "wait"} /\ j = x.lower
            /\ r # <<>> /\ r[1].task = 0 /\ r[1].at = "end" /\ s[1].task = 0
<1> DEFINE x == s[Len(s)]
           y == [x EXCEPT !.at = "end", !.high = v]
           r == <<y>>
<1>1. Len(s) = 1 /\ 1 \in 1 .. Len(s)
  BY SeqBelow DEF StackOK
<1>2. FrameOK(s, 1, n)
  BY <1>1 DEF StackOK
<1>3. /\ y.task = 0 /\ y.at = "end"
      /\ IsFrame(y)
  <2>1. IsFrame(x) /\ x.task = 0
    BY <1>1, <1>2 DEF FrameOK
  <2>2. y = [x EXCEPT !.at = "end", !.high = v]
    OBVIOUS
  <2>. HIDE DEF x, y
  <2>3. IsFrame(y)
    BY <2>1, <2>2 DEF IsFrame
  <2>4. y.task = x.task /\ y.at = "end"
    BY <2>1, <2>2 DEF IsFrame
  <2>. QED
    BY <2>1, <2>3, <2>4
<1>. HIDE DEF y
<1>4. IsSeq(r) /\ Len(r) = 1 /\ r[1] = y /\ r # <<>>
  <2>1. r \in Seq({y}) /\ Len(r) = 1 /\ r[1] = y /\ r # <<>>
    OBVIOUS
  <2>. QED
    BY <2>1 DEF IsSeq
<1>. HIDE DEF r
<1>5. \A i : i \in 1 .. 1 <=> i = 1
  OBVIOUS
<1>6. Distinct(r)
  BY <1>4, <1>5 DEF Distinct
<1>7. FrameOK(r, 1, n)
  BY <1>3, <1>4 DEF FrameOK
<1>8. StackOK(r, n)
  BY <1>4, <1>5, <1>6, <1>7 DEF StackOK
<1>9. \A j : j # 0 => (Has(r, j) <=> Has(s, j))
  BY <1>1, <1>3, <1>4, <1>5 DEF Has
<1>10. \A j : Awaits(s, j) => x.at \in {"sort", "wait"} /\ j = x.lower
  BY <1>1, <1>5 DEF Awaits
<1>. QED
  BY <1>1, <1>3, <1>4, <1>8, <1>9, <1>10 DEF r, y

-----------------------------------------------------------------------------
(* The pool *)

QueueOK(s, n) == IsSeq(s) /\ Distinct(s) /\ \A i \in 1 .. Len(s) : s[i].task \in 1 .. n

PoolTypes ==
  /\ IsSeq(future) /\ \A k \in 1 .. Len(future) : future[k].ready \in BOOLEAN
  /\ QueueOK(queue, Len(future))
  /\ local = [w \in Workers |-> local[w]]
  /\ \A w \in Workers : QueueOK(local[w], Len(future))
  /\ stack = [t \in Threads |-> stack[t]]
  /\ \A t \in Threads : StackOK(stack[t], Len(future))
  /\ mode \in [Threads -> {"check", "run"}]

\* Each task is in one place: a queue, or the calls of a thread.
Apart(k) ==
  /\ \A w \in Workers : ~(Has(queue, k) /\ Has(local[w], k))
  /\ \A t \in Threads : ~(Has(queue, k) /\ Has(stack[t], k))
  /\ \A w \in Workers, t \in Threads : ~(Has(local[w], k) /\ Has(stack[t], k))
  /\ \A w, x \in Workers : Has(local[w], k) /\ Has(local[x], k) => w = x
  /\ \A t, u \in Threads : Has(stack[t], k) /\ Has(stack[u], k) => t = u

Somewhere(k) == \/ Has(queue, k) \/ \E w \in Workers : Has(local[w], k)
                \/ \E t \in Threads : Has(stack[t], k)

\* It is there until its future is ready, and some call waits for it.
PoolTasks ==
  \A k \in 1 .. Len(future) :
    /\ Apart(k)
    /\ future[k].ready <=> ~Somewhere(k)
    /\ future[k].ready \/ \E t \in Threads : Awaits(stack[t], k)

PoolThreads ==
  /\ stack[Main] # <<>> /\ stack[Main][1].task = 0
  /\ \A w \in Workers : stack[w] # <<>> => stack[w][1].task # 0
  /\ \A t \in Threads : mode[t] = "run" /\ stack[t] # <<>> => Top(t).at = "wait"
  /\ main = "sort" <=> stack[Main][1].at # "end"
  /\ main \in {"sort", "destroy"} => ~done

PoolInv == PoolTypes /\ PoolTasks /\ PoolThreads

LEMMA ThreadsApart == Main \in Threads /\ (\A w \in Workers : w \in Threads /\ w # Main)
                      /\ \A t \in Threads : t \in Workers \/ t = Main
BY PoolAssumption DEF Threads

LEMMA PoolInit == Init => PoolInv
<1> SUFFICES ASSUME Init PROVE PoolInv
  OBVIOUS
<1> USE ThreadsApart
<1>1. /\ future = <<>> /\ Len(future) = 0 /\ 1 .. Len(future) = {} /\ queue = <<>>
      /\ \A w \in Workers : local[w] = <<>>
      /\ \A w \in Workers : stack[w] = <<>>
      /\ \A t \in Threads : mode[t] = "check"
      /\ main = "sort" /\ ~done
  BY HasNothing DEF Init
<1> DEFINE f == Frame(0, input)
           s == <<f>>
<1>2. f.task = 0 /\ f.at = "start" /\ IsFrame(f)
  BY DEF Frame, IsFrame
<1>3. stack[Main] = s
  BY DEF Init
<1>. HIDE DEF f
<1>4. IsSeq(s) /\ Len(s) = 1 /\ s[1] = f /\ s # <<>>
  <2>1. s \in Seq({f}) /\ Len(s) = 1 /\ s[1] = f /\ s # <<>>
    OBVIOUS
  <2>. QED
    BY <2>1 DEF IsSeq
<1>. HIDE DEF s
<1>5. \A i : i \in 1 .. 1 <=> i = 1
  OBVIOUS
<1>6. StackOK(s, 0)
  <2>1. Distinct(s)
    BY <1>4, <1>5 DEF Distinct
  <2>2. FrameOK(s, 1, 0)
    BY <1>2, <1>4 DEF FrameOK
  <2>. QED
    BY <1>4, <1>5, <2>1, <2>2 DEF StackOK
<1>7. StackOK(<<>>, 0) /\ QueueOK(<<>>, 0)
  BY HasNothing DEF StackOK, QueueOK
<1>8. PoolTypes
  <2>1. local = [w \in Workers |-> local[w]] /\ stack = [t \in Threads |-> stack[t]]
        /\ mode \in [Threads -> {"check", "run"}]
    BY DEF Init
  <2>. QED
    BY <1>1, <1>3, <1>6, <1>7, <2>1, HasNothing DEF PoolTypes
<1>9. PoolTasks
  BY <1>1 DEF PoolTasks
<1>10. PoolThreads
  BY <1>1, <1>2, <1>3, <1>4 DEF PoolThreads
<1>. QED
  BY <1>8, <1>9, <1>10 DEF PoolInv

\* Only a call that is alone has come to its end.
LEMMA BottomGoesOn ==
  ASSUME NEW s, NEW n \in Nat, StackOK(s, n), s # <<>>, s[Len(s)].at # "end"
  PROVE  s[1].at # "end"
<1>1. 1 \in 1 .. Len(s)
  BY SeqBelow DEF StackOK
<1>2. s[1].at = "end" => Len(s) = 1
  BY <1>1 DEF StackOK, FrameOK
<1>. QED
  BY <1>2

\* What the assignment to the stack of one thread changes.
LEMMA StackAssigned ==
  ASSUME stack = [u \in Threads |-> stack[u]], NEW t \in Threads, NEW r,
         stack' = [stack EXCEPT ![t] = r]
  PROVE  /\ stack' = [u \in Threads |-> stack'[u]] /\ stack'[t] = r
         /\ \A u \in Threads : u # t => stack'[u] = stack[u]
OBVIOUS

\* The numbers of tasks are among those of the futures.
LEMMA TaskNumbers ==
  ASSUME PoolTypes
  PROVE  /\ Len(future) \in Nat
         /\ \A k : Has(queue, k) => k \in 1 .. Len(future)
         /\ \A w \in Workers : \A k : Has(local[w], k) => k \in 1 .. Len(future)
         /\ \A t \in Threads : \A k : k # 0 /\ Has(stack[t], k) => k \in 1 .. Len(future)
<1>1. Len(future) \in Nat
  BY SeqAppend DEF PoolTypes
<1>2. /\ \A k : Has(queue, k) => k \in 1 .. Len(future)
      /\ \A w \in Workers : \A k : Has(local[w], k) => k \in 1 .. Len(future)
  BY DEF PoolTypes, QueueOK, Has
<1>3. ASSUME NEW t \in Threads, NEW k, k # 0, Has(stack[t], k)
      PROVE  k \in 1 .. Len(future)
  <2>1. PICK i \in 1 .. Len(stack[t]) : stack[t][i].task = k
    BY <1>3 DEF Has
  <2>2. FrameOK(stack[t], i, Len(future))
    BY DEF PoolTypes, StackOK
  <2>3. k \in 0 .. Len(future)
    BY <2>1, <2>2 DEF FrameOK
  <2>. QED
    BY <1>1, <1>3, <2>3
<1>. QED
  BY <1>1, <1>2, <1>3

\* The threads after a change of the stack of one, unless the sort ends.
LEMMA ThreadsKept ==
  ASSUME PoolThreads, NEW t \in Threads, NEW r, stack'[t] = r,
         \A u \in Threads : u # t => stack'[u] = stack[u],
         mode'[t] = "check", \A u \in Threads : u # t => mode'[u] = mode[u],
         UNCHANGED <<main, done>>,
         stack[t] = <<>> => r # <<>> /\ r[1].task # 0,
         stack[t] # <<>> => IF r = <<>> THEN t \in Workers
                            ELSE r[1].task = stack[t][1].task /\ (r[1].at = "end" <=> stack[t][1].at = "end")
  PROVE  PoolThreads'
<1> USE ThreadsApart
<1>1. (stack[Main] # <<>> /\ stack[Main][1].task = 0)'
  BY DEF PoolThreads
<1>2. (\A w \in Workers : stack[w] # <<>> => stack[w][1].task # 0)'
  BY DEF PoolThreads
<1>3. (\A u \in Threads : mode[u] = "run" /\ stack[u] # <<>> => Top(u).at = "wait")'
  BY DEF PoolThreads, Top
<1>4. (main = "sort" <=> stack[Main][1].at # "end")'
  BY DEF PoolThreads
<1>5. (main \in {"sort", "destroy"} => ~done)'
  BY DEF PoolThreads
<1>. QED
  BY <1>1, <1>2, <1>3, <1>4, <1>5 DEF PoolThreads

\* A thread begins a task that it has taken.
LEMMA RunBegins ==
  ASSUME PoolInv, NEW t \in Threads, mode[t] = "run", NEW task,
         task.task \in 1 .. Len(future), ~Has(stack[t], task.task), Run(t, task)
  PROVE  /\ stack' = [u \in Threads |-> stack'[u]]
         /\ \A u \in Threads : StackOK(stack'[u], Len(future))
         /\ mode' \in [Threads -> {"check", "run"}]
         /\ \A u \in Threads : \A j :
              /\ Has(stack'[u], j) <=> (Has(stack[u], j) \/ (u = t /\ j = task.task))
              /\ Awaits(stack[u], j) => Awaits(stack'[u], j)
         /\ PoolThreads'
<1> DEFINE n == Len(future)
           k == task.task
           s == stack[t]
           r == Append(s, Frame(k, task.chunk))
<1>1. n \in Nat /\ k \in 1 .. n /\ k # 0
  BY TaskNumbers DEF PoolInv
<1>2. stack = [u \in Threads |-> stack[u]] /\ StackOK(s, n)
  BY DEF PoolInv, PoolTypes
<1>3. stack' = [stack EXCEPT ![t] = r]
  BY <1>2 DEF Run
<1>4. /\ stack' = [u \in Threads |-> stack'[u]] /\ stack'[t] = r
      /\ \A u \in Threads : u # t => stack'[u] = stack[u]
  <2>. HIDE DEF r
  <2>. QED
    BY <1>2, <1>3, StackAssigned
<1>5. s = <<>> \/ s[Len(s)].at = "wait"
  BY DEF PoolInv, PoolThreads, Top
<1>6. /\ StackOK(r, n)
      /\ \A j : Has(r, j) <=> (Has(s, j) \/ j = k)
      /\ \A j : Awaits(s, j) => Awaits(r, j)
      /\ r # <<>> /\ r[1].task = (IF s = <<>> THEN k ELSE s[1].task)
      /\ r[1].at # "end"
  <2>1. ~Has(s, k)
    OBVIOUS
  <2>. HIDE DEF s, n, k
  <2>. QED
    BY <1>1, <1>2, <1>5, <2>1, StackPush
<1>7. s # <<>> => s[1].at # "end"
  <2>. HIDE DEF s, n
  <2>. QED
    BY <1>1, <1>2, <1>5, BottomGoesOn
<1>. HIDE DEF r
<1>8. \A u \in Threads : StackOK(stack'[u], n)
  BY <1>4, <1>6 DEF PoolInv, PoolTypes
<1>9. /\ mode' \in [Threads -> {"check", "run"}] /\ mode'[t] = "check"
      /\ \A u \in Threads : u # t => mode'[u] = mode[u]
      /\ UNCHANGED <<main, done>>
  BY DEF PoolInv, PoolTypes, Run
<1>10. \A u \in Threads : \A j :
         /\ Has(stack'[u], j) <=> (Has(stack[u], j) \/ (u = t /\ j = k))
         /\ Awaits(stack[u], j) => Awaits(stack'[u], j)
  <2> SUFFICES ASSUME NEW u \in Threads, NEW j
               PROVE  /\ Has(stack'[u], j) <=> (Has(stack[u], j) \/ (u = t /\ j = k))
                      /\ Awaits(stack[u], j) => Awaits(stack'[u], j)
    OBVIOUS
  <2>1. CASE u = t
    BY <1>4, <1>6, <2>1
  <2>2. CASE u # t
    BY <1>4, <2>2
  <2>. QED
    BY <2>1, <2>2
<1>11. PoolThreads'
  <2>1. stack[t] = <<>> => r # <<>> /\ r[1].task # 0
    BY <1>1, <1>6
  <2>2. stack[t] # <<>> => IF r = <<>> THEN t \in Workers
                           ELSE r[1].task = stack[t][1].task /\ (r[1].at = "end" <=> stack[t][1].at = "end")
    BY <1>6, <1>7
  <2>3. PoolThreads
    BY DEF PoolInv
  <2>. QED
    BY <1>4, <1>9, <2>1, <2>2, <2>3, ThreadsKept
<1>. QED
  BY <1>4, <1>8, <1>9, <1>10, <1>11

LEMMA RunSharedStep ==
  ASSUME PoolInv, NEW t \in Threads, RunShared(t)
  PROVE  PoolInv'
<1> DEFINE k == Head(queue).task
           n == Len(future)
<1> USE ThreadsApart
<1>1. mode[t] = "run" /\ queue # <<>> /\ Run(t, Head(queue)) /\ queue' = Tail(queue) /\ local' = local
  BY DEF RunShared
<1>2. IsSeq(queue) /\ Distinct(queue) /\ \A i \in 1 .. Len(queue) : queue[i].task \in 1 .. n
  BY DEF PoolInv, PoolTypes, QueueOK
<1>3. n \in Nat
  BY TaskNumbers DEF PoolInv
<1>4. k \in 1 .. n /\ k # 0
  <2>1. 1 \in 1 .. Len(queue) /\ Head(queue) = queue[1]
    <3>1. PICK U : queue \in Seq(U)
      BY <1>2 DEF IsSeq
    <3>. QED
      BY <1>1, <3>1
  <2>2. k \in 1 .. n
    BY <1>2, <2>1
  <2>. QED
    BY <1>3, <2>2
<1>5. /\ IsSeq(queue') /\ Distinct(queue') /\ Has(queue, k)
      /\ \A j : Has(queue', j) <=> (Has(queue, j) /\ j # k)
      /\ \A i \in 1 .. Len(queue') : i + 1 \in 1 .. Len(queue) /\ queue'[i] = queue[i + 1]
  BY <1>1, <1>2, <1>4, HasTail
<1>6. Apart(k) /\ ~future[k].ready
  BY <1>4, <1>5 DEF PoolInv, PoolTasks, Somewhere
<1>7. ~Has(stack[t], k)
  BY <1>5, <1>6 DEF Apart
<1>8. future' = future
  BY <1>1 DEF Run
<1>9. /\ stack' = [u \in Threads |-> stack'[u]]
      /\ \A u \in Threads : StackOK(stack'[u], n)
      /\ mode' \in [Threads -> {"check", "run"}]
      /\ \A u \in Threads : \A j :
           /\ Has(stack'[u], j) <=> (Has(stack[u], j) \/ (u = t /\ j = k))
           /\ Awaits(stack[u], j) => Awaits(stack'[u], j)
      /\ PoolThreads'
  BY <1>1, <1>4, <1>7, RunBegins
<1>10. PoolTypes'
  <2>1. QueueOK(queue', n)
    BY <1>2, <1>5 DEF QueueOK
  <2>. QED
    BY <1>1, <1>8, <1>9, <2>1 DEF PoolInv, PoolTypes
<1>11. PoolTasks'
  <2> SUFFICES ASSUME NEW j \in 1 .. n
               PROVE  /\ Apart(j)' /\ (future[j].ready <=> ~Somewhere(j)')
                      /\ future[j].ready \/ \E u \in Threads : Awaits(stack'[u], j)
    BY <1>8 DEF PoolTasks
  <2>1. /\ Apart(j) /\ (future[j].ready <=> ~Somewhere(j))
        /\ future[j].ready \/ \E u \in Threads : Awaits(stack[u], j)
    BY DEF PoolInv, PoolTasks
  <2>. HIDE DEF k
  <2>2. Apart(j)'
    BY <1>1, <1>5, <1>6, <1>9, <2>1 DEF Apart
  <2>3. Somewhere(j)' <=> Somewhere(j)
    BY <1>1, <1>5, <1>9 DEF Somewhere
  <2>. QED
    BY <1>9, <2>1, <2>2, <2>3
<1>. QED
  BY <1>9, <1>10, <1>11 DEF PoolInv

LEMMA RunLocalStep ==
  ASSUME PoolInv, NEW t \in Threads, RunLocal(t)
  PROVE  PoolInv'
<1> DEFINE q == local[t]
           k == Head(q).task
           n == Len(future)
<1> USE ThreadsApart
<1>1. /\ mode[t] = "run" /\ t \in Workers /\ q # <<>> /\ Run(t, Head(q))
      /\ local' = [local EXCEPT ![t] = Tail(q)] /\ queue' = queue
  BY DEF RunLocal, HasLocal
<1>2. /\ IsSeq(q) /\ Distinct(q) /\ \A i \in 1 .. Len(q) : q[i].task \in 1 .. n
      /\ local = [w \in Workers |-> local[w]]
  BY <1>1 DEF PoolInv, PoolTypes, QueueOK
<1>3. n \in Nat
  BY TaskNumbers DEF PoolInv
<1>4. k \in 1 .. n /\ k # 0
  <2>1. 1 \in 1 .. Len(q) /\ Head(q) = q[1]
    <3>1. PICK U : q \in Seq(U)
      BY <1>2 DEF IsSeq
    <3>2. q # <<>>
      BY <1>1
    <3>. HIDE DEF q
    <3>. QED
      BY <3>1, <3>2
  <2>2. k \in 1 .. n
    BY <1>2, <2>1
  <2>. QED
    BY <1>3, <2>2
<1>5. /\ local' = [w \in Workers |-> local'[w]] /\ local'[t] = Tail(q)
      /\ \A w \in Workers : w # t => local'[w] = local[w]
  BY <1>1, <1>2
<1>6. /\ IsSeq(Tail(q)) /\ Distinct(Tail(q)) /\ Has(q, k)
      /\ \A j : Has(Tail(q), j) <=> (Has(q, j) /\ j # k)
      /\ \A i \in 1 .. Len(Tail(q)) : i + 1 \in 1 .. Len(q) /\ Tail(q)[i] = q[i + 1]
  <2>1. q # <<>>
    BY <1>1
  <2>. HIDE DEF q
  <2>. QED
    BY <1>2, <1>4, <2>1, HasTail
<1>7. Apart(k) /\ ~future[k].ready
  BY <1>1, <1>4, <1>6 DEF PoolInv, PoolTasks, Somewhere
<1>8. ~Has(stack[t], k)
  BY <1>1, <1>6, <1>7 DEF Apart
<1>9. future' = future
  BY <1>1 DEF Run
<1>10. /\ stack' = [u \in Threads |-> stack'[u]]
       /\ \A u \in Threads : StackOK(stack'[u], n)
       /\ mode' \in [Threads -> {"check", "run"}]
       /\ \A u \in Threads : \A j :
            /\ Has(stack'[u], j) <=> (Has(stack[u], j) \/ (u = t /\ j = k))
            /\ Awaits(stack[u], j) => Awaits(stack'[u], j)
       /\ PoolThreads'
  BY <1>1, <1>4, <1>8, RunBegins
<1>11. PoolTypes'
  <2>1. QueueOK(Tail(q), n)
    BY <1>2, <1>6 DEF QueueOK
  <2>2. \A w \in Workers : QueueOK(local'[w], n)
    BY <1>5, <2>1 DEF PoolInv, PoolTypes
  <2>. QED
    BY <1>1, <1>5, <1>9, <1>10, <2>2 DEF PoolInv, PoolTypes
<1>12. \A w \in Workers : \A j : Has(local'[w], j) <=> (Has(local[w], j) /\ ~(w = t /\ j = k))
  <2> SUFFICES ASSUME NEW w \in Workers, NEW j
               PROVE  Has(local'[w], j) <=> (Has(local[w], j) /\ ~(w = t /\ j = k))
    OBVIOUS
  <2>1. CASE w = t
    BY <1>5, <1>6, <2>1
  <2>2. CASE w # t
    BY <1>5, <2>2
  <2>. QED
    BY <2>1, <2>2
<1>13. PoolTasks'
  <2> SUFFICES ASSUME NEW j \in 1 .. n
               PROVE  /\ Apart(j)' /\ (future[j].ready <=> ~Somewhere(j)')
                      /\ future[j].ready \/ \E u \in Threads : Awaits(stack'[u], j)
    BY <1>9 DEF PoolTasks
  <2>1. /\ Apart(j) /\ (future[j].ready <=> ~Somewhere(j))
        /\ future[j].ready \/ \E u \in Threads : Awaits(stack[u], j)
    BY DEF PoolInv, PoolTasks
  <2>0. Has(local[t], k)
    BY <1>6
  <2>. HIDE DEF k, q
  <2>2. Apart(j)'
    <3>1. \A w \in Workers : ~(Has(queue', j) /\ Has(local'[w], j))
      BY <1>1, <1>12, <2>1 DEF Apart
    <3>2. \A u \in Threads : ~(Has(queue', j) /\ Has(stack'[u], j))
      BY <1>1, <1>7, <1>10, <2>0, <2>1 DEF Apart
    <3>3. \A w \in Workers, u \in Threads : ~(Has(local'[w], j) /\ Has(stack'[u], j))
      BY <1>1, <1>7, <1>10, <1>12, <2>0, <2>1 DEF Apart
    <3>4. \A w, x \in Workers : Has(local'[w], j) /\ Has(local'[x], j) => w = x
      BY <1>12, <2>1 DEF Apart
    <3>5. \A u, x \in Threads : Has(stack'[u], j) /\ Has(stack'[x], j) => u = x
      BY <1>1, <1>7, <1>10, <2>0, <2>1 DEF Apart
    <3>. QED
      BY <3>1, <3>2, <3>3, <3>4, <3>5 DEF Apart
  <2>3. Somewhere(j)' <=> Somewhere(j)
    BY <1>1, <1>10, <1>12, <2>0 DEF Somewhere
  <2>. QED
    BY <1>10, <2>1, <2>2, <2>3
<1>. QED
  BY <1>10, <1>11, <1>13 DEF PoolInv

\* Steps that leave the tasks and the calls where they are.
LEMMA IdleStep ==
  ASSUME PoolInv, UNCHANGED <<queue, local, stack, future>>,
         mode' \in [Threads -> {"check", "run"}],
         PoolThreads'
  PROVE  PoolInv'
<1>1. PoolTypes'
  BY DEF PoolInv, PoolTypes
<1>2. PoolTasks'
  BY DEF PoolInv, PoolTasks, Apart, Somewhere
<1>. QED
  BY <1>1, <1>2 DEF PoolInv

LEMMA YieldStep ==
  ASSUME PoolInv, NEW t \in Threads, Yield(t) \/ Wait(t)
  PROVE  PoolInv'
<1>1. mode \in [Threads -> {"check", "run"}] /\ PoolThreads
  BY DEF PoolInv, PoolTypes
<1>2. /\ mode' \in [Threads -> {"check", "run"}]
      /\ UNCHANGED <<queue, local, stack, future, main, done>>
  BY <1>1 DEF Yield, Wait
<1>3. \A u \in Threads : mode'[u] = "run" => mode[u] = "run" \/ In(u, "wait")
  BY <1>1 DEF Yield, Wait
<1>4. (\A u \in Threads : mode[u] = "run" /\ stack[u] # <<>> => Top(u).at = "wait")'
  <2>1. \A u \in Threads : mode'[u] = "run" /\ stack[u] # <<>> => Top(u).at = "wait"
    BY <1>1, <1>3 DEF PoolThreads, In
  <2>. QED
    BY <1>2, <2>1 DEF Top
<1>5. PoolThreads'
  BY <1>1, <1>2, <1>4 DEF PoolThreads
<1>. QED
  BY <1>2, <1>5, IdleStep

LEMMA CheckDoneStep ==
  ASSUME PoolInv, NEW w \in Workers, CheckDone(w)
  PROVE  PoolInv'
<1>1. mode \in [Threads -> {"check", "run"}] /\ PoolThreads
  BY DEF PoolInv, PoolTypes
<1>2. /\ mode' \in [Threads -> {"check", "run"}]
      /\ UNCHANGED <<queue, local, stack, future, main, done>>
  BY <1>1 DEF CheckDone
<1>3. \A u \in Threads : mode'[u] = "run" => mode[u] = "run" \/ stack[u] = <<>>
  BY <1>1 DEF CheckDone
<1>4. (\A u \in Threads : mode[u] = "run" /\ stack[u] # <<>> => Top(u).at = "wait")'
  <2>1. \A u \in Threads : mode'[u] = "run" /\ stack[u] # <<>> => Top(u).at = "wait"
    BY <1>1, <1>3 DEF PoolThreads
  <2>. QED
    BY <1>2, <2>1 DEF Top
<1>5. PoolThreads'
  BY <1>1, <1>2, <1>4 DEF PoolThreads
<1>. QED
  BY <1>2, <1>5, IdleStep

LEMMA DestroyStep ==
  ASSUME PoolInv, Destroy \/ JoinThreads
  PROVE  PoolInv'
<1>1. mode \in [Threads -> {"check", "run"}] /\ PoolThreads
  BY DEF PoolInv, PoolTypes
<1>2. /\ UNCHANGED <<queue, local, stack, future, mode>>
      /\ main # "sort" /\ main' \in {"join", "return"}
  BY DEF Destroy, JoinThreads
<1>3. PoolThreads'
  BY <1>1, <1>2 DEF PoolThreads, Top
<1>. QED
  BY <1>1, <1>2, <1>3, IdleStep

\* A queue to which a new task is added.
LEMMA QueueGrows ==
  ASSUME NEW n \in Nat, NEW q, QueueOK(q, n), NEW x, x.task = n + 1
  PROVE  /\ QueueOK(Append(q, x), n + 1)
         /\ \A j : Has(Append(q, x), j) <=> (Has(q, j) \/ j = n + 1)
<1>1. ~Has(q, n + 1)
  BY DEF QueueOK, Has
<1>2. /\ IsSeq(q) /\ Distinct(q) /\ \A i \in 1 .. Len(q) : q[i].task \in 1 .. n
  BY DEF QueueOK
<1>3. /\ Distinct(Append(q, x))
      /\ \A j : Has(Append(q, x), j) <=> (Has(q, j) \/ j = x.task)
  BY <1>1, <1>2, HasAppend
<1>4. /\ IsSeq(Append(q, x)) /\ Len(Append(q, x)) = Len(q) + 1 /\ Len(q) \in Nat
      /\ \A i \in 1 .. Len(q) : Append(q, x)[i] = q[i]
      /\ Append(q, x)[Len(q) + 1] = x
  BY <1>2, SeqAppend
<1>5. ASSUME NEW i \in 1 .. Len(Append(q, x)) PROVE Append(q, x)[i].task \in 1 .. n + 1
  <2>1. CASE i \in 1 .. Len(q)
    <3>1. q[i].task \in 1 .. n /\ Append(q, x)[i] = q[i]
      BY <1>2, <1>4, <2>1
    <3>. QED
      BY <3>1
  <2>2. CASE i = Len(q) + 1
    BY <1>4, <2>2
  <2>. QED
    BY <1>4, <2>1, <2>2
<1>. QED
  BY <1>3, <1>4, <1>5 DEF QueueOK

LEMMA QueueLater ==
  ASSUME NEW n \in Nat, NEW q, QueueOK(q, n)
  PROVE  QueueOK(q, n + 1) /\ ~Has(q, n + 1)
BY DEF QueueOK, Has

\* What Submit does: the task is in one of the queues.
LEMMA Submitted ==
  ASSUME PoolInv, NEW t \in Threads, NEW chunk, Submit(t, chunk)
  PROVE  LET n == Len(future)
         IN /\ IsSeq(future') /\ Len(future') = n + 1 /\ n \in Nat
            /\ \A k \in 1 .. n : future'[k] = future[k]
            /\ future'[n + 1].ready = FALSE
            /\ QueueOK(queue', n + 1)
            /\ local' = [w \in Workers |-> local'[w]]
            /\ \A w \in Workers : QueueOK(local'[w], n + 1)
            /\ \A j \in 1 .. n : Has(queue', j) <=> Has(queue, j)
            /\ \A j \in 1 .. n : \A w \in Workers : Has(local'[w], j) <=> Has(local[w], j)
            /\ \/ Has(queue', n + 1) /\ \A w \in Workers : ~Has(local'[w], n + 1)
               \/ /\ ~Has(queue', n + 1)
                  /\ \E x \in Workers : \A w \in Workers : Has(local'[w], n + 1) <=> w = x
<1> DEFINE n == Len(future)
           task == [task |-> n + 1, chunk |-> chunk]
<1>1. n \in Nat
  BY TaskNumbers DEF PoolInv
<1>2. /\ IsSeq(future) /\ QueueOK(queue, n)
      /\ local = [w \in Workers |-> local[w]]
      /\ \A w \in Workers : QueueOK(local[w], n)
  BY DEF PoolInv, PoolTypes
<1>3. future' = Append(future, Promised)
  BY DEF Submit
<1>4. /\ IsSeq(future') /\ Len(future') = n + 1
      /\ \A k \in 1 .. n : future'[k] = future[k]
      /\ future'[n + 1] = Promised
  BY <1>2, <1>3, SeqAppend
<1>5. future'[n + 1].ready = FALSE
  BY <1>4 DEF Promised
<1>6. task.task = n + 1 /\ \A j \in 1 .. n : j # n + 1
  BY <1>1
<1>7. \/ /\ t \in Workers /\ local' = [local EXCEPT ![t] = Append(@, task)] /\ queue' = queue
      \/ queue' = Append(queue, task) /\ local' = local
  BY DEF Submit
<1>. HIDE DEF task, n
<1>8. CASE t \in Workers /\ local' = [local EXCEPT ![t] = Append(@, task)] /\ queue' = queue
  <2>1. /\ local' = [w \in Workers |-> local'[w]] /\ local'[t] = Append(local[t], task)
        /\ \A w \in Workers : w # t => local'[w] = local[w]
    BY <1>2, <1>8
  <2>2. /\ QueueOK(local'[t], n + 1)
        /\ \A j : Has(local'[t], j) <=> (Has(local[t], j) \/ j = n + 1)
    BY <1>1, <1>2, <1>6, <1>8, <2>1, QueueGrows
  <2>3. \A w \in Workers : QueueOK(local[w], n + 1) /\ ~Has(local[w], n + 1)
    BY <1>1, <1>2, QueueLater
  <2>4. QueueOK(queue, n + 1) /\ ~Has(queue, n + 1)
    BY <1>1, <1>2, QueueLater
  <2>5. \A w \in Workers : QueueOK(local'[w], n + 1)
    BY <2>1, <2>2, <2>3
  <2>6. \A j \in 1 .. n : \A w \in Workers : Has(local'[w], j) <=> Has(local[w], j)
    BY <1>6, <2>1, <2>2
  <2>7. \A w \in Workers : Has(local'[w], n + 1) <=> w = t
    BY <2>1, <2>2, <2>3
  <2>. QED
    BY <1>1, <1>4, <1>5, <1>8, <2>1, <2>4, <2>5, <2>6, <2>7 DEF n
<1>9. CASE queue' = Append(queue, task) /\ local' = local
  <2>1. /\ QueueOK(queue', n + 1)
        /\ \A j : Has(queue', j) <=> (Has(queue, j) \/ j = n + 1)
    BY <1>1, <1>2, <1>6, <1>9, QueueGrows
  <2>2. \A w \in Workers : QueueOK(local[w], n + 1) /\ ~Has(local[w], n + 1)
    BY <1>1, <1>2, QueueLater
  <2>3. \A j \in 1 .. n : Has(queue', j) <=> Has(queue, j)
    BY <1>6, <2>1
  <2>. QED
    BY <1>1, <1>2, <1>4, <1>5, <1>9, <2>1, <2>2, <2>3 DEF n
<1>. QED
  BY <1>7, <1>8, <1>9

\* A call of do_sort submits the lower part and calls itself.
LEMMA SplitStep ==
  ASSUME PoolInv, NEW t \in Threads, Split(t)
  PROVE  PoolInv'
<1> DEFINE n == Len(future)
           s == stack[t]
           l == Len(s)
           x == [s[l] EXCEPT !.at = "sort", !.lower = n + 1]
           chunk == Higher(s[l].chunk)
           b == SubSeq(s, 1, l - 1)
           r == b \o <<x, Frame(0, chunk)>>
<1>1. /\ s # <<>> /\ s[l].at = "start" /\ Submit(t, Lower(s[l].chunk))
      /\ stack' = [stack EXCEPT ![t] = r]
      /\ UNCHANGED <<mode, done, main>>
  BY DEF Split, In, Top, Below
<1>2. stack = [u \in Threads |-> stack[u]] /\ StackOK(s, n)
  BY DEF PoolInv, PoolTypes
<1>3. /\ IsSeq(future') /\ Len(future') = n + 1 /\ n \in Nat
      /\ \A k \in 1 .. n : future'[k] = future[k]
      /\ future'[n + 1].ready = FALSE
      /\ QueueOK(queue', n + 1)
      /\ local' = [w \in Workers |-> local'[w]]
      /\ \A w \in Workers : QueueOK(local'[w], n + 1)
      /\ \A j \in 1 .. n : Has(queue', j) <=> Has(queue, j)
      /\ \A j \in 1 .. n : \A w \in Workers : Has(local'[w], j) <=> Has(local[w], j)
      /\ \/ Has(queue', n + 1) /\ \A w \in Workers : ~Has(local'[w], n + 1)
         \/ /\ ~Has(queue', n + 1)
            /\ \E w \in Workers : \A u \in Workers : Has(local'[u], n + 1) <=> u = w
  BY <1>1, Submitted
<1>4. /\ stack' = [u \in Threads |-> stack'[u]] /\ stack'[t] = r
      /\ \A u \in Threads : u # t => stack'[u] = stack[u]
  <2>. HIDE DEF r
  <2>. QED
    BY <1>1, <1>2, StackAssigned
<1>5. /\ StackOK(r, n + 1)
      /\ \A j : j # 0 => (Has(r, j) <=> Has(s, j))
      /\ \A j : Awaits(s, j) => Awaits(r, j)
      /\ Awaits(r, n + 1)
      /\ r # <<>> /\ r[1].task = s[1].task /\ r[1].at # "end"
  <2>1. IsFrame(x) /\ x.task = s[Len(s)].task /\ x.at = "sort" /\ x.lower = n + 1
    <3>1. IsFrame(s[l])
      <4>1. s # <<>>
        BY <1>1
      <4>. HIDE DEF s, n
      <4>. QED
        BY <1>2, <4>1, SeqBelow DEF StackOK, FrameOK
    <3>2. x = [s[l] EXCEPT !.at = "sort", !.lower = n + 1] /\ l = Len(s)
      OBVIOUS
    <3>. HIDE DEF x, l, s, n
    <3>3. IsFrame(x)
      BY <3>1, <3>2 DEF IsFrame
    <3>4. x.task = s[l].task /\ x.at = "sort" /\ x.lower = n + 1
      BY <3>1, <3>2 DEF IsFrame
    <3>. QED
      BY <3>2, <3>3, <3>4
  <2>3. s # <<>> /\ s[Len(s)].at = "start"
    BY <1>1
  <2>2. r = SubSeq(s, 1, Len(s) - 1) \o <<x, Frame(0, chunk)>>
    OBVIOUS
  <2>. HIDE DEF r, b, chunk, x, l, s, n
  <2>. QED
    BY <1>2, <1>3, <2>1, <2>2, <2>3, StackSplit
<1>6. s[1].at # "end"
  <2>1. s # <<>> /\ s[Len(s)].at # "end"
    BY <1>1
  <2>. HIDE DEF s, n
  <2>. QED
    BY <1>2, <1>3, <2>1, BottomGoesOn
<1>. HIDE DEF r, n
<1>7. \A u \in Threads : StackOK(stack'[u], n + 1)
  <2>1. \A u \in Threads : StackOK(stack[u], n + 1)
    BY <1>3, StackLater DEF PoolInv, PoolTypes, n
  <2>. QED
    BY <1>4, <1>5, <2>1
<1>8. \A u \in Threads : \A j : /\ j # 0 => (Has(stack'[u], j) <=> Has(stack[u], j))
                                /\ Awaits(stack[u], j) => Awaits(stack'[u], j)
  <2> SUFFICES ASSUME NEW u \in Threads, NEW j
               PROVE  /\ j # 0 => (Has(stack'[u], j) <=> Has(stack[u], j))
                      /\ Awaits(stack[u], j) => Awaits(stack'[u], j)
    OBVIOUS
  <2>1. CASE u = t
    BY <1>4, <1>5, <2>1
  <2>2. CASE u # t
    BY <1>4, <2>2
  <2>. QED
    BY <2>1, <2>2
<1>9. mode \in [Threads -> {"check", "run"}] /\ mode[t] = "check"
  <2>1. mode \in [Threads -> {"check", "run"}]
    BY DEF PoolInv, PoolTypes
  <2>2. mode[t] # "run"
    BY <1>1 DEF PoolInv, PoolThreads, Top
  <2>. QED
    BY <2>1, <2>2
<1>10. \A k \in 1 .. n + 1 : k \in 1 .. n \/ k = n + 1
  BY <1>3
<1>11. PoolTypes'
  <2>1. \A k \in 1 .. n + 1 : future'[k].ready \in BOOLEAN
    BY <1>3, <1>10 DEF PoolInv, PoolTypes, n
  <2>. QED
    BY <1>1, <1>3, <1>4, <1>7, <1>9, <2>1 DEF PoolTypes
<1>12. PoolThreads'
  <2>1. PoolThreads
    BY DEF PoolInv
  <2>2. stack[t] = <<>> => r # <<>> /\ r[1].task # 0
    BY <1>1
  <2>3. stack[t] # <<>> => IF r = <<>> THEN t \in Workers
                           ELSE r[1].task = stack[t][1].task /\ (r[1].at = "end" <=> stack[t][1].at = "end")
    BY <1>5, <1>6
  <2>. QED
    BY <1>1, <1>4, <1>9, <2>1, <2>2, <2>3, ThreadsKept
<1>13. ASSUME NEW j \in 1 .. n
       PROVE  /\ Apart(j)' /\ (future'[j].ready <=> ~Somewhere(j)')
              /\ future'[j].ready \/ \E u \in Threads : Awaits(stack'[u], j)
  <2>1. /\ Apart(j) /\ (future[j].ready <=> ~Somewhere(j))
        /\ future[j].ready \/ \E u \in Threads : Awaits(stack[u], j)
    BY DEF PoolInv, PoolTasks, n
  <2>2. j # 0 /\ future'[j] = future[j]
    BY <1>3
  <2>3. /\ Has(queue', j) <=> Has(queue, j)
        /\ \A w \in Workers : Has(local'[w], j) <=> Has(local[w], j)
        /\ \A u \in Threads : Has(stack'[u], j) <=> Has(stack[u], j)
    BY <1>3, <1>8, <2>2
  <2>4. Apart(j)'
    BY <2>1, <2>3 DEF Apart
  <2>5. Somewhere(j)' <=> Somewhere(j)
    BY <2>3 DEF Somewhere
  <2>. QED
    BY <1>8, <2>1, <2>2, <2>4, <2>5
<1>0. PICK z : z = n + 1
  OBVIOUS
<1>14. Apart(z)' /\ ~future'[z].ready /\ Somewhere(z)' /\ \E u \in Threads : Awaits(stack'[u], z)
  <2>1. \A u \in Threads : ~Has(stack'[u], z)
    <3>1. \A u \in Threads : \A k : k # 0 /\ Has(stack[u], k) => k \in 1 .. n
      BY TaskNumbers DEF PoolInv, n
    <3>2. z # 0 /\ z \notin 1 .. n
      BY <1>0, <1>3
    <3>. QED
      BY <1>8, <3>1, <3>2
  <2>2. Apart(z)'
    BY <1>0, <1>3, <2>1 DEF Apart
  <2>3. Somewhere(z)'
    BY <1>0, <1>3 DEF Somewhere
  <2>. QED
    BY <1>0, <1>3, <1>4, <1>5, <2>2, <2>3
<1>15. PoolTasks'
  <2> SUFFICES ASSUME NEW k \in 1 .. n + 1
               PROVE  /\ Apart(k)' /\ (future'[k].ready <=> ~Somewhere(k)')
                      /\ future'[k].ready \/ \E u \in Threads : Awaits(stack'[u], k)
    BY <1>3 DEF PoolTasks
  <2>. QED
    BY <1>0, <1>10, <1>13, <1>14
<1>. QED
  BY <1>11, <1>12, <1>15 DEF PoolInv

\* A call returns; if it waited for a task, this is ready.
LEMMA ReturnStep ==
  ASSUME PoolInv, NEW t \in Threads, NEW v, Return(t, v), stack[t] # <<>>, mode[t] = "check",
         Top(t).at = "start" \/ (Top(t).at = "wait" /\ Ready(Top(t).lower))
  PROVE  PoolInv'
<1> DEFINE n == Len(future)
           s == stack[t]
           l == Len(s)
           x == s[l]
           b == SubSeq(s, 1, l - 1)
<1> USE ThreadsApart
<1>1. /\ s # <<>> /\ x.at # "end" /\ (x.at \in {"sort", "wait"} => future[x.lower].ready)
      /\ x = s[Len(s)] /\ l = Len(s)
  BY DEF Top, Ready
<1>2. stack = [u \in Threads |-> stack[u]] /\ StackOK(s, n) /\ n \in Nat
  BY TaskNumbers DEF PoolInv, PoolTypes
<1>3. /\ UNCHANGED <<queue, local, mode, done>>
      /\ mode \in [Threads -> {"check", "run"}] /\ PoolThreads
  BY DEF Return, PoolInv, PoolTypes
<1>4. s[1].at # "end"
  <2>1. s # <<>> /\ s[Len(s)].at # "end"
    BY <1>1
  <2>. HIDE DEF s, n
  <2>. QED
    BY <1>2, <2>1, BottomGoesOn
<1>5. CASE x.task # 0
  <2> DEFINE k == x.task
             value == [ready |-> TRUE, value |-> v]
  <2>1. /\ future' = [future EXCEPT ![k] = value] /\ main' = main
        /\ stack' = [stack EXCEPT ![t] = b]
    BY <1>5 DEF Return, Top, Below
  <2>2. /\ StackOK(b, n) /\ Has(s, k)
        /\ \A j : j # 0 => (Has(b, j) <=> (Has(s, j) /\ j # k))
        /\ \A j : Awaits(s, j) => (Awaits(b, j) \/ (x.at \in {"sort", "wait"} /\ j = x.lower))
        /\ (b # <<>> => b[1].task = s[1].task /\ b[1].at # "end")
        /\ (b = <<>> => s[1].task = k)
    <3>1. s # <<>> /\ s[Len(s)].task # 0
      BY <1>1, <1>5
    <3>. HIDE DEF s, n
    <3>. QED
      BY <1>2, <3>1, StackPop
  <2>3. k # 0 /\ k \in 1 .. n
    BY <1>5, <2>2, TaskNumbers DEF PoolInv
  <2>4. /\ stack' = [u \in Threads |-> stack'[u]] /\ stack'[t] = b
        /\ \A u \in Threads : u # t => stack'[u] = stack[u]
    <3>. HIDE DEF b
    <3>. QED
      BY <1>2, <2>1, StackAssigned
  <2>5. /\ IsSeq(future') /\ Len(future') = n
        /\ \A j \in 1 .. n : j # k => future'[j] = future[j]
        /\ future'[k].ready = TRUE
    <3>1. PICK U : future \in Seq(U)
      BY DEF PoolInv, PoolTypes, IsSeq
    <3>2. value.ready = TRUE
      OBVIOUS
    <3>. HIDE DEF value, k, b
    <3>3. future \in Seq(U \cup {value})
      BY <3>1
    <3>4. /\ future' \in Seq(U \cup {value}) /\ Len(future') = n
          /\ \A j \in 1 .. n : j # k => future'[j] = future[j]
          /\ future'[k] = value
      BY <2>1, <2>3, <3>3
    <3>. QED
      BY <3>2, <3>4 DEF IsSeq
  <2>. HIDE DEF b, n, value
  <2>6. PoolTypes'
    <3>1. \A j \in 1 .. n : future'[j].ready \in BOOLEAN
      BY <2>5 DEF PoolInv, PoolTypes, n
    <3>2. \A u \in Threads : StackOK(stack'[u], n)
      BY <2>2, <2>4 DEF PoolInv, PoolTypes, n
    <3>. QED
      BY <1>3, <2>4, <2>5, <3>1, <3>2 DEF PoolInv, PoolTypes, n
  <2>7. PoolThreads'
    <3>1. b = <<>> => t \in Workers
      BY <1>1, <1>3, <2>2, <2>3 DEF PoolThreads
    <3>2. stack[t] = <<>> => b # <<>> /\ b[1].task # 0
      BY <1>1
    <3>3. stack[t] # <<>> => IF b = <<>> THEN t \in Workers
                             ELSE b[1].task = stack[t][1].task /\ (b[1].at = "end" <=> stack[t][1].at = "end")
      BY <1>4, <2>2, <3>1
    <3>. QED
      BY <1>3, <2>1, <2>4, <3>2, <3>3, ThreadsKept
  <2>8. PoolTasks'
    <3> SUFFICES ASSUME NEW j \in 1 .. n
                 PROVE  /\ Apart(j)' /\ (future'[j].ready <=> ~Somewhere(j)')
                        /\ future'[j].ready \/ \E u \in Threads : Awaits(stack'[u], j)
      BY <2>5 DEF PoolTasks
    <3>1. /\ Apart(j) /\ (future[j].ready <=> ~Somewhere(j)) /\ j # 0
          /\ future[j].ready \/ \E u \in Threads : Awaits(stack[u], j)
      BY <1>2 DEF PoolInv, PoolTasks, n
    <3>2. \A u \in Threads : Has(stack'[u], j) <=> (Has(stack[u], j) /\ ~(u = t /\ j = k))
      BY <2>2, <2>4, <3>1
    <3>3. Apart(j)'
      BY <1>3, <3>1, <3>2 DEF Apart
    <3>4. CASE j = k
      <4>1. ~Somewhere(j)'
        <5>1. ~Has(queue, j) /\ \A w \in Workers : ~Has(local[w], j)
          BY <2>2, <3>1, <3>4 DEF Apart
        <5>2. \A u \in Threads : ~Has(stack'[u], j)
          BY <2>2, <3>1, <3>2, <3>4 DEF Apart
        <5>. QED
          BY <1>3, <5>1, <5>2 DEF Somewhere
      <4>. QED
        BY <2>5, <3>3, <3>4, <4>1
    <3>5. CASE j # k
      <4>1. Somewhere(j)' <=> Somewhere(j)
        BY <1>3, <3>2, <3>5 DEF Somewhere
      <4>2. future'[j] = future[j]
        BY <2>5, <3>5
      <4>3. ASSUME ~future[j].ready PROVE \E u \in Threads : Awaits(stack'[u], j)
        <5>1. PICK u \in Threads : Awaits(stack[u], j)
          BY <3>1, <4>3
        <5>2. Awaits(stack'[u], j)
          BY <1>1, <2>2, <2>4, <4>3, <5>1
        <5>. QED
          BY <5>2
      <4>. QED
        BY <3>1, <3>3, <4>1, <4>2, <4>3
    <3>. QED
      BY <3>4, <3>5
  <2>. QED
    BY <2>6, <2>7, <2>8 DEF PoolInv
<1>6. ASSUME x.task = 0, future' = future, NEW r, StackOK(r, n),
             stack' = [stack EXCEPT ![t] = r],
             \A j : j # 0 => (Has(r, j) <=> Has(s, j)),
             \A j : Awaits(s, j) => (Awaits(r, j) \/ (x.at \in {"sort", "wait"} /\ j = x.lower))
      PROVE  /\ PoolTypes' /\ PoolTasks' /\ stack'[t] = r
             /\ \A u \in Threads : u # t => stack'[u] = stack[u]
  <2>1. /\ stack' = [u \in Threads |-> stack'[u]] /\ stack'[t] = r
        /\ \A u \in Threads : u # t => stack'[u] = stack[u]
    BY <1>2, <1>6, StackAssigned
  <2>2. \A u \in Threads : StackOK(stack'[u], n)
    BY <1>6, <2>1 DEF PoolInv, PoolTypes
  <2>3. PoolTypes'
    BY <1>3, <1>6, <2>1, <2>2 DEF PoolInv, PoolTypes
  <2>4. PoolTasks'
    <3> SUFFICES ASSUME NEW j \in 1 .. n
                 PROVE  /\ Apart(j)' /\ (future[j].ready <=> ~Somewhere(j)')
                        /\ future[j].ready \/ \E u \in Threads : Awaits(stack'[u], j)
      BY <1>6 DEF PoolTasks
    <3>1. /\ Apart(j) /\ (future[j].ready <=> ~Somewhere(j)) /\ j # 0
          /\ future[j].ready \/ \E u \in Threads : Awaits(stack[u], j)
      BY <1>2 DEF PoolInv, PoolTasks
    <3>. HIDE DEF n, s, l, x
    <3>2. \A u \in Threads : Has(stack'[u], j) <=> Has(stack[u], j)
      BY <1>6, <2>1, <3>1 DEF s
    <3>3. Apart(j)'
      BY <1>3, <3>1, <3>2 DEF Apart
    <3>4. Somewhere(j)' <=> Somewhere(j)
      BY <1>3, <3>2 DEF Somewhere
    <3>5. ASSUME ~future[j].ready PROVE \E u \in Threads : Awaits(stack'[u], j)
      <4>1. PICK u \in Threads : Awaits(stack[u], j)
        BY <3>1, <3>5
      <4>2. Awaits(stack'[u], j)
        BY <1>1, <1>6, <2>1, <3>5, <4>1 DEF s
      <4>. QED
        BY <4>2
    <3>. QED
      BY <3>1, <3>3, <3>4, <3>5
  <2>. QED
    BY <2>1, <2>3, <2>4
<1>7. CASE x.task = 0 /\ b # <<>>
  <2> DEFINE r == [b EXCEPT ![Len(b)].at = "wait", ![Len(b)].high = v]
  <2>1. future' = future /\ main' = main /\ stack' = [stack EXCEPT ![t] = r]
    BY <1>7 DEF Return, Top, Below
  <2>2. /\ StackOK(r, n)
        /\ \A j : j # 0 => (Has(r, j) <=> Has(s, j))
        /\ \A j : Awaits(s, j) => (Awaits(r, j) \/ (x.at \in {"sort", "wait"} /\ j = x.lower))
        /\ r # <<>> /\ r[1].task = s[1].task /\ r[1].at # "end"
    <3> DEFINE p == Len(b)
               y == [b[p] EXCEPT !.at = "wait", !.high = v]
    <3>1. s # <<>> /\ s[Len(s)].task = 0 /\ b = SubSeq(s, 1, Len(s) - 1) /\ b # <<>>
      BY <1>1, <1>7
    <3>2. IsSeq(b) /\ p \in Nat /\ p \in 1 .. p /\ p \in 1 .. Len(s) /\ b[p] = s[p]
      <4>. HIDE DEF b, s, n
      <4>. QED
        BY <1>2, <3>1, SeqBelow DEF StackOK
    <3>3. IsFrame(b[p])
      <4>. HIDE DEF b, s, n, p
      <4>. QED
        BY <1>2, <3>2 DEF StackOK, FrameOK
    <3>4. IsFrame(y) /\ y.task = b[p].task /\ y.at = "wait" /\ y.lower = b[p].lower
      <4>1. y = [b[p] EXCEPT !.at = "wait", !.high = v]
        OBVIOUS
      <4>. HIDE DEF b, p, y
      <4>2. IsFrame(y)
        BY <3>3, <4>1 DEF IsFrame
      <4>3. y.task = b[p].task /\ y.at = "wait" /\ y.lower = b[p].lower
        BY <3>3, <4>1 DEF IsFrame
      <4>. QED
        BY <4>2, <4>3
    <3>5. /\ IsSeq(r) /\ Len(r) = p /\ r[p] = y
          /\ \A i \in 1 .. p : i # p => r[i] = b[i]
      <4>. HIDE DEF b
      <4>1. PICK U : b \in Seq(U)
        BY <3>2 DEF IsSeq
      <4>2. DOMAIN b = 1 .. p /\ b = [i \in 1 .. p |-> b[i]] /\ \A i \in 1 .. p : b[i] \in U
        BY <4>1
      <4>3. r = [i \in 1 .. p |-> IF i = p THEN [b[p] EXCEPT !.at = "wait", !.high = v] ELSE b[i]]
        BY <3>2, <4>2
      <4>4. y = [b[p] EXCEPT !.at = "wait", !.high = v]
        OBVIOUS
      <4> DEFINE V == U \cup {y}
      <4>. HIDE DEF y, r, p, V
      <4>5. r = [i \in 1 .. p |-> IF i = p THEN y ELSE b[i]]
        BY <4>3, <4>4
      <4>6. r \in [1 .. p -> V]
        BY <4>2, <4>5 DEF V
      <4>7. r \in Seq(V)
        BY <3>2, <4>6
      <4>. QED
        BY <3>2, <4>5, <4>6, <4>7 DEF IsSeq
    <3>6. IsSeq(r) /\ Len(r) = Len(b) /\ r[Len(b)] = y /\ \A i \in 1 .. Len(b) : i # Len(b) => r[i] = b[i]
      BY <3>5
    <3>7. IsFrame(y) /\ y.task = b[Len(b)].task /\ y.at = "wait" /\ y.lower = b[Len(b)].lower
      BY <3>4
    <3>8. /\ StackOK(r, n)
          /\ \A j : j # 0 => (Has(r, j) <=> Has(s, j))
          /\ \A j : Awaits(s, j) => \/ Awaits(r, j)
                                    \/ s[Len(s)].at \in {"sort", "wait"} /\ j = s[Len(s)].lower
          /\ r # <<>> /\ r[1].task = s[1].task /\ r[1].at # "end"
      <4>1. StackOK(s, n) /\ n \in Nat
        BY <1>2
      <4>2. /\ Len(b) = Len(s) - 1 /\ \A i \in 1 .. Len(b) : b[i] = s[i]
        <5>. HIDE DEF b, s, n
        <5>. QED
          BY <3>1, <4>1, SeqBelow DEF StackOK
      <4>. HIDE DEF b, s, n, r, y, l, x
      <4>3. r # <<>>
        BY <3>2, <3>5, HasNothing
      <4>4. /\ Len(r) = Len(s) - 1 /\ \A i \in 1 .. Len(r) : i # Len(r) => r[i] = s[i]
        BY <3>2, <3>6, <4>2
      <4>5. /\ IsFrame(r[Len(r)]) /\ r[Len(r)].at = "wait"
            /\ r[Len(r)].task = s[Len(r)].task /\ r[Len(r)].lower = s[Len(r)].lower
        BY <3>2, <3>6, <3>7
      <4>6. Told(s, r)
        BY <3>1, <3>6, <4>3, <4>4, <4>5 DEF Told
      <4>. QED
        BY <4>1, <4>6, StackReturn
    <3>9. x = s[Len(s)]
      OBVIOUS
    <3>. HIDE DEF b, s, n, r, y, p, l, x
    <3>. QED
      BY <3>8, <3>9
  <2>. HIDE DEF r, b
  <2>3. /\ PoolTypes' /\ PoolTasks' /\ stack'[t] = r
        /\ \A u \in Threads : u # t => stack'[u] = stack[u]
    BY <1>6, <1>7, <2>1, <2>2
  <2>4. PoolThreads'
    <3>1. stack[t] = <<>> => r # <<>> /\ r[1].task # 0
      BY <1>1
    <3>2. stack[t] # <<>> => IF r = <<>> THEN t \in Workers
                             ELSE r[1].task = stack[t][1].task /\ (r[1].at = "end" <=> stack[t][1].at = "end")
      BY <1>4, <2>2
    <3>. QED
      BY <1>3, <2>1, <2>3, <3>1, <3>2, ThreadsKept
  <2>. QED
    BY <2>3, <2>4 DEF PoolInv
<1>8. CASE x.task = 0 /\ b = <<>>
  <2> DEFINE r == <<[x EXCEPT !.at = "end", !.high = v]>>
  <2>1. future' = future /\ main' = "destroy" /\ stack' = [stack EXCEPT ![t] = r]
    BY <1>8 DEF Return, Top, Below
  <2>2. /\ StackOK(r, n)
        /\ \A j : j # 0 => (Has(r, j) <=> Has(s, j))
        /\ \A j : Awaits(s, j) => x.at \in {"sort", "wait"} /\ j = x.lower
        /\ r # <<>> /\ r[1].task = 0 /\ r[1].at = "end" /\ s[1].task = 0
    <3>1. s # <<>> /\ s[Len(s)].task = 0 /\ SubSeq(s, 1, Len(s) - 1) = <<>>
      BY <1>1, <1>8
    <3>. HIDE DEF b, s, n
    <3>. QED
      BY <1>2, <3>1, StackEnd DEF l
  <2>. HIDE DEF r, b
  <2>3. /\ PoolTypes' /\ PoolTasks' /\ stack'[t] = r
        /\ \A u \in Threads : u # t => stack'[u] = stack[u]
    BY <1>6, <1>8, <2>1, <2>2
  <2>4. t = Main
    BY <1>1, <1>3, <2>2 DEF PoolThreads
  <2>5. ~done
    BY <1>3, <1>4, <2>4 DEF PoolThreads
  <2>6. PoolThreads'
    <3>1. (stack[Main] # <<>> /\ stack[Main][1].task = 0)'
      BY <2>2, <2>3, <2>4
    <3>2. (\A w \in Workers : stack[w] # <<>> => stack[w][1].task # 0)'
      BY <1>3, <2>3, <2>4 DEF PoolThreads
    <3>3. (\A u \in Threads : mode[u] = "run" /\ stack[u] # <<>> => Top(u).at = "wait")'
      BY <1>3, <2>3 DEF PoolThreads, Top
    <3>4. (main = "sort" <=> stack[Main][1].at # "end")'
      BY <2>1, <2>2, <2>3, <2>4
    <3>5. (main \in {"sort", "destroy"} => ~done)'
      BY <1>3, <2>5
    <3>. QED
      BY <3>1, <3>2, <3>3, <3>4, <3>5 DEF PoolThreads
  <2>. QED
    BY <2>3, <2>6 DEF PoolInv
<1>. QED
  BY <1>5, <1>7, <1>8

LEMMA PoolStep == PoolInv /\ [Next]_vars => PoolInv'
<1> SUFFICES ASSUME PoolInv, [Next]_vars PROVE PoolInv'
  OBVIOUS
<1>1. CASE UNCHANGED vars
  <2>1. /\ UNCHANGED <<queue, local, stack, future, mode, main, done>>
        /\ mode \in [Threads -> {"check", "run"}]
    BY <1>1 DEF vars, PoolInv, PoolTypes
  <2>2. PoolThreads'
    BY <2>1 DEF PoolInv, PoolThreads, Top
  <2>. QED
    BY <2>1, <2>2, IdleStep
<1>2. ASSUME NEW t \in Threads, Step(t) PROVE PoolInv'
  <2>1. CASE RunLocal(t)
    BY <2>1, RunLocalStep
  <2>2. CASE RunShared(t)
    BY <2>2, RunSharedStep
  <2>3. CASE Yield(t) \/ Wait(t)
    BY <2>3, YieldStep
  <2>4. CASE Split(t)
    BY <2>4, SplitStep
  <2>5. CASE ReturnEmpty(t)
    <3>1. stack[t] # <<>> /\ Top(t).at = "start" /\ Return(t, <<>>)
      BY <2>5 DEF ReturnEmpty, In
    <3>2. mode[t] # "run" /\ mode[t] \in {"check", "run"}
      BY <3>1 DEF PoolInv, PoolTypes, PoolThreads
    <3>. QED
      BY <3>1, <3>2, ReturnStep
  <2>6. CASE Join(t)
    <3> DEFINE v == future[Top(t).lower].value \o <<Head(Top(t).chunk)>> \o Top(t).high
    <3>1. /\ stack[t] # <<>> /\ Top(t).at = "wait" /\ mode[t] = "check" /\ Ready(Top(t).lower)
          /\ Return(t, v)
      BY <2>6 DEF Join, In
    <3>. HIDE DEF v
    <3>. QED
      BY <3>1, ReturnStep
  <2>. QED
    BY <1>2, <2>1, <2>2, <2>3, <2>4, <2>5, <2>6 DEF Step
<1>3. ASSUME NEW w \in Workers, CheckDone(w) PROVE PoolInv'
  BY <1>3, CheckDoneStep
<1>4. CASE Destroy \/ JoinThreads
  BY <1>4, DestroyStep
<1>. QED
  BY <1>1, <1>2, <1>3, <1>4 DEF Next

Less == {p \in Nat \X Nat : p[1] < p[2]}

LEMMA LeastNumber ==
  ASSUME NEW S, S \subseteq Nat, S # {}
  PROVE  \E x \in S : \A y \in S : x <= y
<1>1. IsWellFoundedOn(Less, Nat)
  BY NatLessThanWellFounded DEF OpToRel, Less
<1>2. PICK x \in S : \A y \in S : ~ (<<y, x>> \in Less)
  BY <1>1, WFMin
<1>3. \A y \in S : ~ (y < x)
  BY <1>2 DEF Less
<1>. QED
  BY <1>2, <1>3

LEMMA GreatestNumber ==
  ASSUME NEW n \in Nat, NEW S, S \subseteq 1 .. n, S # {}
  PROVE  \E x \in S : \A y \in S : y <= x
<1> DEFINE R == {n - x : x \in S}
<1>1. R \subseteq Nat /\ R # {}
  <2>1. \A x \in S : n - x \in Nat
    OBVIOUS
  <2>2. R \subseteq Nat
    BY <2>1
  <2>3. R # {}
    OBVIOUS
  <2>. QED
    BY <2>2, <2>3
<1>2. PICK z \in R : \A y \in R : z <= y
  <2>. HIDE DEF R
  <2>. QED
    BY <1>1, LeastNumber
<1>3. PICK x \in S : z = n - x
  OBVIOUS
<1>4. \A y \in S : n - x <= n - y
  BY <1>2, <1>3
<1>. QED
  BY <1>4

\* The last task that is not ready is in a queue or runs on the calls of a
\* thread, whose innermost call can only wait for a later one.
LEMMA SomeoneWorks == PoolInv => SomeoneHasWork
<1> SUFFICES ASSUME PoolInv, main = "sort", queue = <<>>,
                    \A t \in Threads : ~In(t, "start") /\ ~HasLocal(t),
                    \A t \in Threads : ~(In(t, "wait") /\ Ready(Top(t).lower))
             PROVE  FALSE
  BY DEF SomeoneHasWork
<1> USE ThreadsApart
<1> DEFINE n == Len(future)
           Open == {k \in 1 .. n : ~future[k].ready}
<1>1. n \in Nat
  BY TaskNumbers DEF PoolInv
<1>2. ASSUME NEW t \in Threads, stack[t] # <<>>
      PROVE  /\ Top(t).lower \in Open
             /\ \A i \in 1 .. Len(stack[t]) : stack[t][i].task < Top(t).lower
  <2> DEFINE s == stack[t]
             l == Len(s)
  <2>1. StackOK(s, n)
    BY DEF PoolInv, PoolTypes
  <2>2. l \in 1 .. l /\ 1 \in 1 .. l
    <3>1. IsSeq(s) /\ s # <<>>
      BY <1>2, <2>1 DEF StackOK
    <3>. HIDE DEF s
    <3>. QED
      BY <3>1, SeqBelow
  <2>3. FrameOK(s, l, n)
    BY <2>1, <2>2 DEF StackOK
  <2>4. s[l].at # "start"
    BY <1>2 DEF In, Top
  <2>5. s[l].at # "sort"
    BY <2>2, <2>3 DEF FrameOK
  <2>6. s[l].at # "end"
    <3>1. ASSUME s[l].at = "end" PROVE FALSE
      <4>1. l = 1 /\ s[1].task = 0 /\ s[1].at = "end"
        BY <2>3, <3>1 DEF FrameOK
      <4>2. t = Main
        BY <1>2, <4>1 DEF PoolInv, PoolThreads
      <4>. QED
        BY <4>1, <4>2 DEF PoolInv, PoolThreads
    <3>. QED
      BY <3>1
  <2>7. s[l].at = "wait"
    BY <2>3, <2>4, <2>5, <2>6 DEF FrameOK
  <2>8. s[l].lower \in 1 .. n /\ \A i \in 1 .. l : s[i].task < s[l].lower
    BY <2>3, <2>7 DEF FrameOK
  <2>9. ~future[s[l].lower].ready
    BY <1>2, <2>7 DEF In, Top, Ready
  <2>. QED
    BY <2>8, <2>9 DEF Top
<1>3. Open # {}
  <2>1. stack[Main] # <<>>
    BY DEF PoolInv, PoolThreads
  <2>. QED
    BY <1>2, <2>1
<1>4. PICK k \in Open : \A j \in Open : j <= k
  <2>1. Open \subseteq 1 .. n
    OBVIOUS
  <2>. HIDE DEF Open, n
  <2>. QED
    BY <1>1, <1>3, <2>1, GreatestNumber
<1>5. Somewhere(k)
  BY <1>4 DEF PoolInv, PoolTasks
<1>6. ~Has(queue, k) /\ \A w \in Workers : ~Has(local[w], k)
  BY HasNothing DEF HasLocal
<1>7. PICK t \in Threads : Has(stack[t], k)
  BY <1>5, <1>6 DEF Somewhere
<1>8. PICK i \in 1 .. Len(stack[t]) : stack[t][i].task = k
  BY <1>7 DEF Has
<1>9. stack[t] # <<>>
  BY <1>7, HasNothing
<1>10. k < Top(t).lower /\ Top(t).lower \in Open
  BY <1>2, <1>8, <1>9
<1>11. Top(t).lower <= k
  BY <1>4, <1>10
<1>12. k \in Nat /\ Top(t).lower \in Nat
  BY <1>1, <1>4, <1>10
<1>. QED
  BY <1>10, <1>11, <1>12

\* The first task that is not ready is awaited on the calls of a worker, which
\* run within an earlier one: there is none when the sort has ended.
LEMMA NothingDropped == PoolInv => NothingIsDropped
<1> SUFFICES ASSUME PoolInv, done
             PROVE  queue = <<>> /\ \A w \in Workers : local[w] = <<>> /\ stack[w] = <<>>
  BY DEF NothingIsDropped
<1> USE ThreadsApart
<1> DEFINE n == Len(future)
           Open == {k \in 1 .. n : ~future[k].ready}
<1>1. n \in Nat
  BY TaskNumbers DEF PoolInv
<1>2. ASSUME NEW t \in Threads, stack[t] # <<>>
      PROVE  /\ StackOK(stack[t], n) /\ 1 \in 1 .. Len(stack[t]) /\ Len(stack[t]) \in Nat
             /\ FrameOK(stack[t], 1, n)
  <2>1. StackOK(stack[t], n)
    BY DEF PoolInv, PoolTypes
  <2>2. 1 \in 1 .. Len(stack[t]) /\ Len(stack[t]) \in Nat
    BY <1>2, <2>1, SeqBelow DEF StackOK
  <2>. QED
    BY <2>1, <2>2 DEF StackOK
<1>3. \A k : ~Awaits(stack[Main], k)
  <2>1. stack[Main] # <<>> /\ stack[Main][1].at = "end"
    BY DEF PoolInv, PoolThreads
  <2>2. Len(stack[Main]) = 1
    BY <1>2, <2>1 DEF FrameOK
  <2>3. \A i \in 1 .. Len(stack[Main]) : i = 1
    BY <2>2
  <2>. QED
    BY <2>1, <2>3 DEF Awaits
<1>4. Open = {}
  <2>1. SUFFICES ASSUME Open # {} PROVE FALSE
    OBVIOUS
  <2>2. PICK k \in Open : \A j \in Open : k <= j
    <3>1. Open \subseteq Nat
      BY <1>1
    <3>. HIDE DEF Open
    <3>. QED
      BY <2>1, <3>1, LeastNumber
  <2>3. PICK t \in Threads : Awaits(stack[t], k)
    BY <2>2 DEF PoolInv, PoolTasks
  <2>4. t \in Workers
    BY <1>3, <2>3
  <2>5. PICK i \in 1 .. Len(stack[t]) : stack[t][i].at \in {"sort", "wait"} /\ stack[t][i].lower = k
    BY <2>3 DEF Awaits
  <2>6. stack[t] # <<>>
    BY <2>5, HasNothing
  <2> DEFINE j == stack[t][1].task
  <2>7. j # 0
    BY <2>4, <2>6 DEF PoolInv, PoolThreads
  <2>8. j < k
    <3>1. FrameOK(stack[t], i, n) /\ 1 \in 1 .. i
      BY <1>2, <2>5, <2>6 DEF StackOK
    <3>. QED
      BY <2>5, <3>1 DEF FrameOK
  <2>9. Has(stack[t], j)
    BY <1>2, <2>6 DEF Has
  <2>10. j \in 1 .. n
    BY <2>7, <2>9, TaskNumbers DEF PoolInv
  <2>11. ~future[j].ready
    BY <2>9, <2>10 DEF PoolInv, PoolTasks, Somewhere
  <2>12. k <= j
    BY <2>2, <2>10, <2>11
  <2>13. k \in Nat /\ j \in Nat
    BY <1>1, <2>2, <2>10
  <2>. HIDE DEF j
  <2>. QED
    BY <2>8, <2>12, <2>13
<1>5. \A k \in 1 .. n : ~Somewhere(k)
  BY <1>4 DEF PoolInv, PoolTasks
<1>6. ASSUME NEW q, QueueOK(q, n), q # <<>> PROVE \E k \in 1 .. n : Has(q, k)
  <2>1. 1 \in 1 .. Len(q)
    BY <1>6, SeqBelow DEF QueueOK
  <2>2. q[1].task \in 1 .. n
    BY <1>6, <2>1 DEF QueueOK
  <2>. QED
    BY <2>1, <2>2 DEF Has
<1>7. queue = <<>>
  BY <1>5, <1>6 DEF PoolInv, PoolTypes, Somewhere
<1>8. \A w \in Workers : local[w] = <<>>
  BY <1>5, <1>6 DEF PoolInv, PoolTypes, Somewhere
<1>9. ASSUME NEW w \in Workers, stack[w] # <<>> PROVE FALSE
  <2> DEFINE j == stack[w][1].task
  <2>1. j # 0
    BY <1>9 DEF PoolInv, PoolThreads
  <2>2. Has(stack[w], j)
    BY <1>2, <1>9 DEF Has
  <2>3. j \in 1 .. n
    BY <2>1, <2>2, TaskNumbers DEF PoolInv
  <2>. QED
    BY <1>5, <2>2, <2>3 DEF Somewhere
<1>. QED
  BY <1>7, <1>8, <1>9

-----------------------------------------------------------------------------
(* Lists, their parts and their sorts *)

\* A set in one-to-one correspondence with another has as many elements.
LEMMA SameSize ==
  ASSUME NEW S, IsFiniteSet(S), NEW T, NEW f \in [S -> T],
         \A a, b \in S : f[a] = f[b] => a = b,
         \A t \in T : \E a \in S : f[a] = t
  PROVE  IsFiniteSet(T) /\ Cardinality(T) = Cardinality(S)
<1>1. f \in Bijection(S, T)
  BY DEF Bijection, Injection, IsInjective, Surjection
<1>2. ExistsBijection(S, T)
  BY <1>1 DEF ExistsBijection
<1>. QED
  BY <1>2, FS_Bijection

LEMMA SomeOf ==
  ASSUME NEW n \in Nat, NEW S \in SUBSET (1 .. n)
  PROVE  IsFiniteSet(S) /\ Cardinality(S) \in Nat /\ Cardinality(S) <= n
<1>1. IsFiniteSet(1 .. n) /\ Cardinality(1 .. n) = n
  BY FS_Interval
<1>. QED
  BY <1>1, FS_Subset, FS_CardinalityType

\* SetToSeq has each element of the set in one place.
LEMMA PlacesAreThere ==
  ASSUME NEW S, IsFiniteSet(S)
  PROVE  /\ SetToSeq(S) \in [1 .. Cardinality(S) -> S] /\ Cardinality(S) \in Nat
         /\ \A k, l \in 1 .. Cardinality(S) : SetToSeq(S)[k] = SetToSeq(S)[l] => k = l
         /\ \A i \in S : \E k \in 1 .. Cardinality(S) : SetToSeq(S)[k] = i
<1> DEFINE c == Cardinality(S)
           order == SetToSeq(S)
<1>1. c \in Nat /\ ExistsBijection(1 .. c, S)
  BY FS_CardinalityType
<1>2. \E f \in [1 .. c -> S] : IsInjective(f)
  BY <1>1 DEF ExistsBijection, Bijection, Injection
<1>3. order \in [1 .. c -> S] /\ IsInjective(order)
  BY <1>2 DEF SetToSeq
<1>4. order \in Injection(1 .. c, S)
  BY <1>3 DEF Injection
<1>5. IsFiniteSet(1 .. c) /\ Cardinality(1 .. c) = c
  BY <1>1, FS_Interval
<1>6. order \in Surjection(1 .. c, S)
  BY <1>4, <1>5, FS_Injection
<1>. HIDE DEF order
<1>7. \A i \in S : \E k \in 1 .. c : order[k] = i
  BY <1>6 DEF Surjection
<1>8. \A k, l \in 1 .. c : order[k] = order[l] => k = l
  BY <1>3 DEF IsInjective
<1>. QED
  BY <1>1, <1>3, <1>7, <1>8 DEF order

\* How often an element is in a list, and when a list is another in order.
Count(s, v) == Cardinality({i \in 1 .. Len(s) : s[i] = v})

InOrder(r) == \A i, j \in 1 .. Len(r) : i <= j => r[i] <= r[j]

SortOf(r, s) == /\ r \in Seq(Nat) /\ InOrder(r) /\ Len(r) = Len(s)
                /\ \A v \in Nat : Count(r, v) = Count(s, v)

\* What is selected from a list is what is at these places.
LEMMA SelectedCount ==
  ASSUME NEW s \in Seq(Nat), NEW S \in SUBSET (1 .. Len(s))
  PROVE  /\ Selected(s, S) \in Seq(Nat) /\ Len(Selected(s, S)) = Cardinality(S)
         /\ \A k \in 1 .. Cardinality(S) : \E i \in S : Selected(s, S)[k] = s[i]
         /\ \A v : Count(Selected(s, S), v) = Cardinality({i \in S : s[i] = v})
<1> DEFINE r == Selected(s, S)
           c == Cardinality(S)
           order == SetToSeq(S)
<1>1. c \in Nat /\ IsFiniteSet(S) /\ Len(s) \in Nat
  BY SomeOf
<1>3. /\ order \in [1 .. c -> S]
      /\ \A k, l \in 1 .. c : order[k] = order[l] => k = l
      /\ \A i \in S : \E k \in 1 .. c : order[k] = i
  BY <1>1, PlacesAreThere
<1>2. r = [k \in 1 .. c |-> s[order[k]]]
  BY <1>3 DEF Selected
<1>. HIDE DEF r, c, order
<1>4. \A k \in 1 .. c : r[k] \in Nat /\ r[k] = s[order[k]]
  <2>1. \A i \in 1 .. Len(s) : s[i] \in Nat
    OBVIOUS
  <2>. QED
    BY <1>2, <1>3, <2>1
<1>5. r \in [1 .. c -> Nat]
  BY <1>2, <1>4
<1>6. r \in Seq(Nat) /\ Len(r) = c
  BY <1>1, <1>5
<1>7. ASSUME NEW v PROVE Count(r, v) = Cardinality({i \in S : s[i] = v})
  <2> DEFINE T == {i \in S : s[i] = v}
             K == {k \in 1 .. c : r[k] = v}
             f == [k \in K |-> order[k]]
  <2>1. IsFiniteSet(K)
    BY <1>1, SomeOf
  <2>2. f \in [K -> T]
    BY <1>3, <1>4
  <2>3. \A k, l \in K : f[k] = f[l] => k = l
    BY <1>3
  <2>4. ASSUME NEW i \in T PROVE \E k \in K : f[k] = i
    <3>1. PICK k \in 1 .. c : order[k] = i
      BY <1>3
    <3>2. k \in K
      BY <1>4, <3>1
    <3>. QED
      BY <3>1, <3>2
  <2>. HIDE DEF f, T, K
  <2>5. Cardinality(T) = Cardinality(K)
    BY <2>1, <2>2, <2>3, <2>4, SameSize
  <2>. QED
    BY <1>6, <2>5 DEF Count, T, K
<1>. QED
  BY <1>3, <1>4, <1>6, <1>7 DEF r, c

LEMMA CountIsNatural ==
  ASSUME NEW s \in Seq(Nat), NEW v
  PROVE  /\ Count(s, v) \in Nat
         /\ Count(s, v) = 0 <=> \A i \in 1 .. Len(s) : s[i] # v
<1>1. {i \in 1 .. Len(s) : s[i] = v} \in SUBSET (1 .. Len(s)) /\ Len(s) \in Nat
  OBVIOUS
<1>2. /\ IsFiniteSet({i \in 1 .. Len(s) : s[i] = v})
      /\ Cardinality({i \in 1 .. Len(s) : s[i] = v}) \in Nat
  BY <1>1, SomeOf
<1>3. Count(s, v) = 0 <=> {i \in 1 .. Len(s) : s[i] = v} = {}
  BY <1>2, FS_EmptySet DEF Count
<1>. QED
  BY <1>2, <1>3 DEF Count

LEMMA ElementsOfConcat ==
  ASSUME NEW a \in Seq(Nat), NEW b \in Seq(Nat)
  PROVE  /\ Len(a) \in Nat /\ Len(b) \in Nat /\ Len(a \o b) = Len(a) + Len(b)
         /\ \A i \in 1 .. Len(a) : (a \o b)[i] = a[i]
         /\ \A i \in 1 .. Len(b) : (a \o b)[Len(a) + i] = b[i]
         /\ \A i \in 1 .. Len(a) + Len(b) : (a \o b)[i] = IF i <= Len(a) THEN a[i] ELSE b[i - Len(a)]
OBVIOUS

LEMMA CountOfConcat ==
  ASSUME NEW a \in Seq(Nat), NEW b \in Seq(Nat), NEW v
  PROVE  Count(a \o b, v) = Count(a, v) + Count(b, v)
<1> DEFINE m1 == Len(a)
           n1 == Len(b)
           A == {i \in 1 .. m1 : a[i] = v}
           B == {i \in 1 .. n1 : b[i] = v}
           C == {i \in m1 + 1 .. m1 + n1 : b[i - m1] = v}
           f == [i \in B |-> i + m1]
<1>1. /\ m1 \in Nat /\ n1 \in Nat /\ Len(a \o b) = m1 + n1
      /\ \A i \in 1 .. m1 + n1 : (a \o b)[i] = IF i <= m1 THEN a[i] ELSE b[i - m1]
  OBVIOUS
<1>. HIDE DEF m1, n1
<1>2. IsFiniteSet(A) /\ IsFiniteSet(B) /\ Cardinality(A) \in Nat /\ Cardinality(B) \in Nat
  BY <1>1, SomeOf
<1>3. IsFiniteSet(C) /\ Cardinality(C) = Cardinality(B)
  <2>1. f \in [B -> C]
    BY <1>1
  <2>2. \A i, j \in B : f[i] = f[j] => i = j
    BY <1>1
  <2>3. ASSUME NEW i \in C PROVE \E j \in B : f[j] = i
    <3>1. i - m1 \in B /\ (i - m1) + m1 = i
      BY <1>1
    <3>. QED
      BY <3>1
  <2>. HIDE DEF f, B, C
  <2>. QED
    BY <1>2, <2>1, <2>2, <2>3, SameSize
<1>4. A \cap C = {} /\ {i \in 1 .. Len(a \o b) : (a \o b)[i] = v} = A \cup C
  BY <1>1
<1>. HIDE DEF A, B, C
<1>5. Cardinality(A \cup C) = Cardinality(A) + Cardinality(C)
  <2>1. Cardinality({}) = 0
    BY FS_EmptySet
  <2>2. Cardinality(A \cup C) = Cardinality(A) + Cardinality(C) - Cardinality(A \cap C)
    BY <1>2, <1>3, FS_Union
  <2>3. Cardinality(A \cap C) = 0
    BY <1>4, <2>1, Zenon
  <2>. QED
    BY <1>2, <1>3, <2>2, <2>3
<1>. QED
  BY <1>3, <1>4, <1>5 DEF Count, A, B, m1, n1

\* The places of a list without the first are those of its two parts.
LEMMA PartsMakeTheList ==
  ASSUME NEW s \in Seq(Nat), s # <<>>
  PROVE  /\ Lower(s) \in Seq(Nat) /\ Higher(s) \in Seq(Nat) /\ Head(s) \in Nat
         /\ Len(s) = Len(Lower(s)) + 1 + Len(Higher(s))
         /\ \A v : Count(s, v) = Count(Lower(s), v) + (IF Head(s) = v THEN 1 ELSE 0)
                                 + Count(Higher(s), v)
         /\ \A k \in 1 .. Len(Lower(s)) : Lower(s)[k] < Head(s)
         /\ \A k \in 1 .. Len(Higher(s)) : Head(s) <= Higher(s)[k]
<1> DEFINE L == {i \in 2 .. Len(s) : s[i] < Head(s)}
           H == {i \in 2 .. Len(s) : ~(s[i] < Head(s))}
<1>1. /\ Len(s) \in Nat \ {0} /\ Head(s) = s[1] /\ Head(s) \in Nat
      /\ \A i \in 1 .. Len(s) : s[i] \in Nat
  OBVIOUS
<1>2. L \in SUBSET (1 .. Len(s)) /\ H \in SUBSET (1 .. Len(s))
  BY <1>1
<1>3. Lower(s) = Selected(s, L) /\ Higher(s) = Selected(s, H)
  BY DEF Lower, Higher
<1>4. /\ \A i \in L : s[i] < Head(s)
      /\ \A i \in H : Head(s) <= s[i]
  BY <1>1
<1>5. L \cap H = {} /\ 1 \notin L \cup H /\ 1 .. Len(s) = (L \cup H) \cup {1}
  BY <1>1
<1>. HIDE DEF L, H
<1>6. ASSUME NEW A \in SUBSET L, NEW B \in SUBSET H
      PROVE  /\ Cardinality(A \cup B) = Cardinality(A) + Cardinality(B)
             /\ IsFiniteSet(A \cup B) /\ Cardinality(A) \in Nat /\ Cardinality(B) \in Nat
             /\ Cardinality((A \cup B) \cup {1}) = Cardinality(A) + Cardinality(B) + 1
  <2>1. /\ IsFiniteSet(A) /\ IsFiniteSet(B) /\ Cardinality(A) \in Nat /\ Cardinality(B) \in Nat
    <3>1. A \in SUBSET (1 .. Len(s)) /\ B \in SUBSET (1 .. Len(s))
      BY <1>2
    <3>. QED
      BY <1>1, <3>1, SomeOf
  <2>2. A \cap B = {} /\ Cardinality({}) = 0 /\ 1 \notin A \cup B
    BY <1>5, FS_EmptySet
  <2>3. /\ IsFiniteSet(A \cup B)
        /\ Cardinality(A \cup B) = Cardinality(A) + Cardinality(B) - Cardinality(A \cap B)
    BY <2>1, FS_Union
  <2>6. Cardinality(A \cap B) = 0
    BY <2>2, Zenon
  <2>4. Cardinality(A \cup B) = Cardinality(A) + Cardinality(B)
    BY <2>1, <2>3, <2>6
  <2>5. Cardinality((A \cup B) \cup {1}) = Cardinality(A \cup B) + 1
    BY <2>2, <2>3, FS_AddElement
  <2>. QED
    BY <2>1, <2>3, <2>4, <2>5
<1>7. Len(s) = Len(Lower(s)) + 1 + Len(Higher(s))
  <2>1. Cardinality(1 .. Len(s)) = Len(s)
    BY <1>1, FS_Interval
  <2>2. Cardinality((L \cup H) \cup {1}) = Cardinality(L) + Cardinality(H) + 1
        /\ Cardinality(L) \in Nat /\ Cardinality(H) \in Nat
    BY <1>6
  <2>3. Len(Lower(s)) = Cardinality(L) /\ Len(Higher(s)) = Cardinality(H)
    BY <1>2, <1>3, SelectedCount
  <2>4. Cardinality(1 .. Len(s)) = Cardinality((L \cup H) \cup {1})
    BY <1>5, Zenon
  <2>. QED
    BY <2>1, <2>2, <2>3, <2>4
<1>8. ASSUME NEW v
      PROVE  Count(s, v) = Count(Lower(s), v) + (IF Head(s) = v THEN 1 ELSE 0) + Count(Higher(s), v)
  <2> DEFINE A == {i \in L : s[i] = v}
             B == {i \in H : s[i] = v}
  <2>1. /\ Cardinality(A \cup B) = Cardinality(A) + Cardinality(B)
        /\ Cardinality(A) \in Nat /\ Cardinality(B) \in Nat
        /\ Cardinality((A \cup B) \cup {1}) = Cardinality(A) + Cardinality(B) + 1
    BY <1>6
  <2>2. Count(Lower(s), v) = Cardinality(A) /\ Count(Higher(s), v) = Cardinality(B)
    BY <1>2, <1>3, SelectedCount
  <2>3. {i \in 1 .. Len(s) : s[i] = v} = IF Head(s) = v THEN (A \cup B) \cup {1} ELSE A \cup B
    BY <1>1, <1>5
  <2>. HIDE DEF A, B
  <2>4. ASSUME Head(s) = v PROVE Count(s, v) = Cardinality((A \cup B) \cup {1})
    BY <2>3, <2>4 DEF Count
  <2>5. ASSUME Head(s) # v PROVE Count(s, v) = Cardinality(A \cup B)
    BY <2>3, <2>5 DEF Count
  <2>6. CASE Head(s) = v
    BY <2>1, <2>2, <2>4, <2>6
  <2>7. CASE Head(s) # v
    BY <2>1, <2>2, <2>5, <2>7
  <2>. QED
    BY <2>6, <2>7
<1>9. /\ Lower(s) \in Seq(Nat) /\ Higher(s) \in Seq(Nat)
      /\ \A k \in 1 .. Len(Lower(s)) : Lower(s)[k] < Head(s)
      /\ \A k \in 1 .. Len(Higher(s)) : Head(s) <= Higher(s)[k]
  <2>1. /\ Lower(s) \in Seq(Nat) /\ Len(Lower(s)) = Cardinality(L)
        /\ \A k \in 1 .. Cardinality(L) : \E i \in L : Lower(s)[k] = s[i]
    BY <1>2, <1>3, SelectedCount
  <2>2. /\ Higher(s) \in Seq(Nat) /\ Len(Higher(s)) = Cardinality(H)
        /\ \A k \in 1 .. Cardinality(H) : \E i \in H : Higher(s)[k] = s[i]
    BY <1>2, <1>3, SelectedCount
  <2>. QED
    BY <1>4, <2>1, <2>2
<1>. QED
  BY <1>1, <1>7, <1>8, <1>9

\* Sorted parts, with the pivot between them, are the list in order.
LEMMA SortedPartsMakeTheSort ==
  ASSUME NEW s \in Seq(Nat), s # <<>>, NEW a, NEW b,
         SortOf(a, Lower(s)), SortOf(b, Higher(s))
  PROVE  SortOf(a \o <<Head(s)>> \o b, s)
<1> DEFINE h == Head(s)
           p == <<h>>
           r == (a \o p) \o b
<1>1. /\ Lower(s) \in Seq(Nat) /\ Higher(s) \in Seq(Nat) /\ h \in Nat
      /\ Len(s) = Len(Lower(s)) + 1 + Len(Higher(s))
      /\ \A v : Count(s, v) = Count(Lower(s), v) + (IF h = v THEN 1 ELSE 0) + Count(Higher(s), v)
      /\ \A k \in 1 .. Len(Lower(s)) : Lower(s)[k] < h
      /\ \A k \in 1 .. Len(Higher(s)) : h <= Higher(s)[k]
  BY PartsMakeTheList
<1>2. /\ a \in Seq(Nat) /\ b \in Seq(Nat) /\ InOrder(a) /\ InOrder(b)
      /\ Len(a) = Len(Lower(s)) /\ Len(b) = Len(Higher(s))
      /\ \A v \in Nat : Count(a, v) = Count(Lower(s), v) /\ Count(b, v) = Count(Higher(s), v)
  BY DEF SortOf
<1>3. \A k \in 1 .. Len(a) : a[k] \in Nat /\ a[k] < h
  <2> SUFFICES ASSUME NEW k \in 1 .. Len(a) PROVE a[k] \in Nat /\ a[k] < h
    OBVIOUS
  <2>1. a[k] \in Nat
    BY <1>2
  <2>2. Count(a, a[k]) # 0
    BY <1>2, CountIsNatural
  <2>3. Count(Lower(s), a[k]) # 0
    BY <1>2, <2>1, <2>2
  <2>4. \E i \in 1 .. Len(Lower(s)) : Lower(s)[i] = a[k]
    BY <1>1, <2>3, CountIsNatural
  <2>. QED
    BY <1>1, <2>1, <2>4
<1>4. \A k \in 1 .. Len(b) : b[k] \in Nat /\ h <= b[k]
  <2> SUFFICES ASSUME NEW k \in 1 .. Len(b) PROVE b[k] \in Nat /\ h <= b[k]
    OBVIOUS
  <2>1. b[k] \in Nat
    BY <1>2
  <2>2. Count(b, b[k]) # 0
    BY <1>2, CountIsNatural
  <2>3. Count(Higher(s), b[k]) # 0
    BY <1>2, <2>1, <2>2
  <2>4. \E i \in 1 .. Len(Higher(s)) : Higher(s)[i] = b[k]
    BY <1>1, <2>3, CountIsNatural
  <2>. QED
    BY <1>1, <2>1, <2>4
<1>5. /\ p \in Seq(Nat) /\ Len(p) = 1 /\ p[1] = h /\ a \o p \in Seq(Nat) /\ r \in Seq(Nat)
  BY <1>1, <1>2
<1>6. ASSUME NEW v \in Nat PROVE Count(r, v) = Count(s, v)
  <2>1. Count(p, v) = IF h = v THEN 1 ELSE 0
    <3>1. h = v => {i \in 1 .. Len(p) : p[i] = v} = {1}
      BY <1>5
    <3>2. h # v => {i \in 1 .. Len(p) : p[i] = v} = {}
      BY <1>5
    <3>. QED
      BY <3>1, <3>2, FS_Singleton, FS_EmptySet DEF Count
  <2>2. Count(r, v) = Count(a \o p, v) + Count(b, v)
    BY <1>2, <1>5, CountOfConcat
  <2>3. Count(a \o p, v) = Count(a, v) + Count(p, v)
    BY <1>2, <1>5, CountOfConcat
  <2>4. Count(a, v) = Count(Lower(s), v) /\ Count(b, v) = Count(Higher(s), v)
    BY <1>2
  <2>. HIDE DEF r, p, h
  <2>. QED
    BY <1>1, <2>1, <2>2, <2>3, <2>4
<1>7. /\ Len(r) = Len(a) + 1 + Len(b) /\ Len(a) \in Nat /\ Len(b) \in Nat
      /\ \A i \in 1 .. Len(a) : r[i] = a[i]
      /\ r[Len(a) + 1] = h
      /\ \A i \in Len(a) + 2 .. Len(a) + 1 + Len(b) : r[i] = b[i - (Len(a) + 1)]
  <2>1. /\ Len(a \o p) = Len(a) + 1 /\ Len(a) \in Nat /\ Len(b) \in Nat
        /\ \A i \in 1 .. Len(a) : (a \o p)[i] = a[i]
        /\ (a \o p)[Len(a) + 1] = h
    BY <1>2, <1>5, ElementsOfConcat
  <2> DEFINE q == a \o p
  <2>2. q \in Seq(Nat)
    BY <1>5
  <2>. HIDE DEF q
  <2>3. /\ Len(q \o b) = Len(q) + Len(b)
        /\ \A i \in 1 .. Len(q) + Len(b) : (q \o b)[i] = IF i <= Len(q) THEN q[i] ELSE b[i - Len(q)]
    BY <1>2, <2>2, ElementsOfConcat
  <2>4. Len(q) = Len(a) + 1 /\ r = q \o b
    BY <2>1 DEF q
  <2>. HIDE DEF r
  <2>5. /\ \A i \in 1 .. Len(a) : r[i] = a[i]
        /\ r[Len(a) + 1] = q[Len(a) + 1] /\ q[Len(a) + 1] = h
    BY <2>1, <2>3, <2>4 DEF q
  <2>6. \A i \in Len(a) + 2 .. Len(a) + 1 + Len(b) : r[i] = b[i - (Len(a) + 1)]
    BY <2>1, <2>3, <2>4
  <2>. QED
    BY <2>1, <2>3, <2>4, <2>5, <2>6
<1>. HIDE DEF r, h
<1>8. InOrder(r)
  <2> SUFFICES ASSUME NEW i \in 1 .. Len(r), NEW j \in 1 .. Len(r), i <= j PROVE r[i] <= r[j]
    BY DEF InOrder
  <2> DEFINE n == Len(a)
             k == Len(b)
  <2>0. n \in Nat /\ k \in Nat /\ Len(r) = n + 1 + k /\ h \in Nat
    BY <1>1, <1>7
  <2>1. \A x \in 1 .. Len(r) : x \in 1 .. n \/ x = n + 1 \/ (x \in n + 2 .. n + 1 + k /\ x - (n + 1) \in 1 .. k)
    BY <2>0
  <2>2. \A x \in 1 .. Len(r) : /\ x \in 1 .. n => r[x] \in Nat /\ r[x] < h
                               /\ x \in n + 2 .. n + 1 + k => r[x] \in Nat /\ h <= r[x]
    <3> SUFFICES ASSUME NEW x \in 1 .. Len(r)
                 PROVE  /\ x \in 1 .. n => r[x] \in Nat /\ r[x] < h
                        /\ x \in n + 2 .. n + 1 + k => r[x] \in Nat /\ h <= r[x]
      OBVIOUS
    <3>1. ASSUME x \in 1 .. n PROVE r[x] \in Nat /\ r[x] < h
      BY <1>3, <1>7, <3>1
    <3>2. ASSUME x \in n + 2 .. n + 1 + k PROVE r[x] \in Nat /\ h <= r[x]
      <4>1. x - (n + 1) \in 1 .. k
        BY <2>0, <3>2
      <4>. QED
        BY <1>4, <1>7, <3>2, <4>1
    <3>. QED
      BY <3>1, <3>2
  <2>3. CASE i \in 1 .. n /\ j \in 1 .. n
    BY <1>2, <1>7, <2>3 DEF InOrder
  <2>4. CASE i \in n + 2 .. n + 1 + k /\ j \in n + 2 .. n + 1 + k
    <3>1. i - (n + 1) \in 1 .. k /\ j - (n + 1) \in 1 .. k /\ i - (n + 1) <= j - (n + 1)
      BY <2>0, <2>4
    <3>2. r[i] = b[i - (n + 1)] /\ r[j] = b[j - (n + 1)]
      BY <1>7, <2>4
    <3>3. b[i - (n + 1)] <= b[j - (n + 1)]
      BY <1>2, <3>1 DEF InOrder
    <3>. QED
      BY <3>2, <3>3
  <2>5. CASE i \in 1 .. n /\ j \notin 1 .. n
    <3>1. r[i] \in Nat /\ r[i] < h /\ (j = n + 1 => r[j] = h)
      BY <1>7, <2>2, <2>5
    <3>. QED
      BY <2>0, <2>1, <2>2, <2>5, <3>1
  <2>6. CASE i = n + 1 /\ j \notin 1 .. n
    BY <1>7, <2>0, <2>1, <2>2, <2>6
  <2>7. ~(i \notin 1 .. n /\ j \in 1 .. n) /\ ~(i \in n + 2 .. n + 1 + k /\ j = n + 1)
    BY <2>0
  <2>. QED
    BY <2>1, <2>3, <2>4, <2>5, <2>6, <2>7
<1>9. Len(r) = Len(s)
  BY <1>1, <1>2, <1>7
<1>. QED
  BY <1>5, <1>6, <1>8, <1>9 DEF SortOf, r, h

LEMMA EmptyIsSorted == SortOf(<<>>, <<>>)
BY DEF SortOf, InOrder

LEMMA SortedIsTheBag ==
  ASSUME NEW s \in Seq(Nat), NEW r, SortOf(r, s)
  PROVE  /\ \A i, j \in 1 .. Len(r) : i <= j => r[i] <= r[j]
         /\ ToBag(r) = ToBag(s)
<1>1. /\ r \in Seq(Nat) /\ DOMAIN r = 1 .. Len(r) /\ DOMAIN s = 1 .. Len(s)
      /\ \A v \in Nat : Count(r, v) = Count(s, v)
      /\ \A i \in 1 .. Len(r) : r[i] \in Nat
      /\ \A i \in 1 .. Len(s) : s[i] \in Nat
  BY DEF SortOf
<1>2. Range(r) = Range(s)
  <2>1. ASSUME NEW i \in 1 .. Len(r) PROVE \E j \in 1 .. Len(s) : s[j] = r[i]
    <3>1. Count(r, r[i]) # 0
      BY <1>1, CountIsNatural
    <3>2. Count(s, r[i]) # 0
      BY <1>1, <3>1
    <3>. QED
      BY <3>2, CountIsNatural
  <2>2. ASSUME NEW i \in 1 .. Len(s) PROVE \E j \in 1 .. Len(r) : r[j] = s[i]
    <3>1. Count(s, s[i]) # 0
      BY <1>1, CountIsNatural
    <3>2. Count(r, s[i]) # 0
      BY <1>1, <3>1
    <3>. QED
      BY <1>1, <3>2, CountIsNatural
  <2>3. \A v \in Range(r) : v \in Range(s)
    BY <1>1, <2>1, Zenon DEF Range
  <2>4. \A v \in Range(s) : v \in Range(r)
    BY <1>1, <2>2, Zenon DEF Range
  <2>. QED
    BY <2>3, <2>4
<1>3. \A v \in Range(r) : v \in Nat
  BY <1>1 DEF Range
<1>4. \A v \in Range(r) : Cardinality({i \in DOMAIN r : r[i] = v}) = Cardinality({i \in DOMAIN s : s[i] = v})
  BY <1>1, <1>3 DEF Count
<1>5. ToBag(r) = ToBag(s)
  BY <1>2, <1>4 DEF ToBag
<1>. QED
  BY <1>5 DEF SortOf, InOrder

-----------------------------------------------------------------------------
(* What the calls of the pool sort *)

\* A task of the number k that has the list d; a call with the list c that
\* awaits the task k.
HasList(s, k, d) == \E i \in 1 .. Len(s) : s[i].task = k /\ s[i].chunk = d

AwaitsWith(s, k, c) ==
  \E i \in 1 .. Len(s) : s[i].at \in {"sort", "wait"} /\ s[i].lower = k /\ s[i].chunk = c

\* The call above one at "sort" has the higher part of its list.
CallSorts(s, i) ==
  /\ s[i].chunk \in Seq(Nat)
  /\ s[i].at \in {"sort", "wait"} => s[i].chunk # <<>>
  /\ s[i].at = "sort" => s[i + 1].chunk = Higher(s[i].chunk)
  /\ s[i].at = "wait" => SortOf(s[i].high, Higher(s[i].chunk))
  /\ s[i].at = "end" => SortOf(s[i].high, s[i].chunk)

CallsSort(s) == \A i \in 1 .. Len(s) : CallSorts(s, i)

Given(k, d) == \/ HasList(queue, k, d) \/ \E w \in Workers : HasList(local[w], k, d)
               \/ \E t \in Threads : HasList(stack[t], k, d)

AwaitedWith(k, c) == \E t \in Threads : AwaitsWith(stack[t], k, c)

\* A task has the lower part of the list of the call that awaits it, and what
\* it has put in its future is that part in order.
SortInv ==
  /\ \A t \in Threads : CallsSort(stack[t])
  /\ \A k, d : Given(k, d) => d \in Seq(Nat)
  /\ \A k, c, d : AwaitedWith(k, c) /\ Given(k, d) => d = Lower(c)
  /\ \A k, c : AwaitedWith(k, c) /\ future[k].ready => SortOf(future[k].value, Lower(c))
  /\ stack[Main][1].chunk = input

LEMMA ListAppend ==
  ASSUME NEW s, IsSeq(s), NEW x, NEW k, NEW d, HasList(Append(s, x), k, d)
  PROVE  HasList(s, k, d) \/ (x.task = k /\ x.chunk = d)
<1> DEFINE r == Append(s, x)
<1>1. /\ Len(s) \in Nat /\ Len(r) = Len(s) + 1 /\ r[Len(s) + 1] = x
      /\ \A i \in 1 .. Len(s) : r[i] = s[i]
  BY SeqAppend
<1>2. PICK i \in 1 .. Len(r) : r[i].task = k /\ r[i].chunk = d
  BY DEF HasList
<1>. HIDE DEF r
<1>3. i \in 1 .. Len(s) \/ i = Len(s) + 1
  BY <1>1
<1>. QED
  BY <1>1, <1>2, <1>3 DEF HasList

LEMMA ListTail ==
  ASSUME NEW s, IsSeq(s), s # <<>>
  PROVE  /\ \A k, d : HasList(Tail(s), k, d) => HasList(s, k, d)
         /\ HasList(s, Head(s).task, Head(s).chunk)
<1> DEFINE r == Tail(s)
<1>0. PICK U : s \in Seq(U)
  BY DEF IsSeq
<1>1. /\ Len(r) = Len(s) - 1 /\ Len(s) \in Nat \ {0} /\ Head(s) = s[1]
      /\ \A i \in 1 .. Len(r) : r[i] = s[i + 1]
  BY <1>0
<1>. HIDE DEF r
<1>2. 1 \in 1 .. Len(s) /\ \A i \in 1 .. Len(r) : i + 1 \in 1 .. Len(s)
  BY <1>1
<1>. QED
  BY <1>1, <1>2 DEF HasList, r

LEMMA CallsPush ==
  ASSUME NEW s, NEW n, StackOK(s, n), CallsSort(s), NEW k, NEW chunk \in Seq(Nat)
  PROVE  LET r == Append(s, Frame(k, chunk))
         IN /\ CallsSort(r)
            /\ \A j, d : HasList(r, j, d) => HasList(s, j, d) \/ (j = k /\ d = chunk)
            /\ \A j, c : AwaitsWith(r, j, c) => AwaitsWith(s, j, c)
            /\ s # <<>> => r[1].chunk = s[1].chunk
<1> DEFINE f == Frame(k, chunk)
           r == Append(s, f)
<1>1. f.task = k /\ f.chunk = chunk /\ f.at = "start"
  BY DEF Frame
<1>. HIDE DEF f
<1>2. /\ IsSeq(s) /\ Len(s) \in Nat /\ Len(r) = Len(s) + 1 /\ r[Len(s) + 1] = f
      /\ \A i \in 1 .. Len(s) : r[i] = s[i]
  BY SeqAppend DEF StackOK
<1>3. \A j, d : HasList(r, j, d) => HasList(s, j, d) \/ (j = k /\ d = chunk)
  BY <1>1, <1>2, ListAppend
<1>. HIDE DEF r
<1>4. \A i \in 1 .. Len(r) : i \in 1 .. Len(s) \/ i = Len(s) + 1
  BY <1>2
<1>5. \A j, c : AwaitsWith(r, j, c) => AwaitsWith(s, j, c)
  BY <1>1, <1>2, <1>4 DEF AwaitsWith
<1>6. ASSUME NEW i \in 1 .. Len(s) PROVE CallSorts(r, i)
  <2>1. CallSorts(s, i) /\ FrameOK(s, i, n) /\ r[i] = s[i]
    BY <1>2 DEF CallsSort, StackOK
  <2>2. s[i].at = "sort" => i + 1 \in 1 .. Len(s)
    BY <1>2, <2>1 DEF FrameOK
  <2>3. s[i].at = "sort" => r[i + 1] = s[i + 1]
    BY <1>2, <2>2
  <2>. QED
    BY <2>1, <2>3 DEF CallSorts
<1>7. CallSorts(r, Len(s) + 1)
  BY <1>1, <1>2 DEF CallSorts
<1>8. CallsSort(r)
  BY <1>4, <1>6, <1>7 DEF CallsSort
<1>9. s # <<>> => r[1].chunk = s[1].chunk
  <2>1. s # <<>> => 1 \in 1 .. Len(s)
    BY <1>2, SeqBelow
  <2>. QED
    BY <1>2, <2>1
<1>. QED
  BY <1>3, <1>5, <1>8, <1>9 DEF r, f

\* What a call makes of the calls below it, which stay.
LEMMA CallsBelow ==
  ASSUME NEW s, NEW n, StackOK(s, n), CallsSort(s), s # <<>>
  PROVE  LET b == SubSeq(s, 1, Len(s) - 1)
         IN /\ IsSeq(b) /\ Len(b) \in Nat /\ Len(s) = Len(b) + 1
            /\ \A i \in 1 .. Len(b) : b[i] = s[i] /\ CallSorts(s, i) /\ FrameOK(s, i, n)
            /\ \A j, d : HasList(b, j, d) => HasList(s, j, d)
            /\ \A j, c : AwaitsWith(b, j, c) => AwaitsWith(s, j, c)
            /\ CallSorts(s, Len(s)) /\ FrameOK(s, Len(s), n)
            /\ HasList(s, s[Len(s)].task, s[Len(s)].chunk)
            /\ (b = <<>> <=> Len(s) = 1)
<1> DEFINE b == SubSeq(s, 1, Len(s) - 1)
<1>1. /\ IsSeq(b) /\ Len(s) \in Nat \ {0} /\ Len(b) = Len(s) - 1 /\ Len(b) \in Nat
      /\ \A i \in 1 .. Len(b) : b[i] = s[i] /\ i \in 1 .. Len(s)
      /\ (b = <<>> <=> Len(s) = 1) /\ Len(s) \in 1 .. Len(s)
  BY SeqBelow DEF StackOK
<1>. HIDE DEF b
<1>2. Len(s) = Len(b) + 1
  BY <1>1
<1>. QED
  BY <1>1, <1>2 DEF b, StackOK, CallsSort, HasList, AwaitsWith

\* The last call of s, which is x in r, awaits k and calls itself.
Divided(s, r, x, k) ==
  /\ s # <<>> /\ s[Len(s)].at = "start" /\ s[Len(s)].chunk # <<>>
  /\ x.task = s[Len(s)].task /\ x.at = "sort" /\ x.lower = k /\ x.chunk = s[Len(s)].chunk
  /\ r = SubSeq(s, 1, Len(s) - 1) \o <<x, Frame(0, Higher(x.chunk))>>

LEMMA CallsSplit ==
  ASSUME NEW s, NEW n, StackOK(s, n), CallsSort(s), NEW r, NEW x, NEW k, Divided(s, r, x, k)
  PROVE  /\ CallsSort(r)
         /\ \A j, d : HasList(r, j, d) => HasList(s, j, d) \/ (j = 0 /\ d \in Seq(Nat))
         /\ \A j, c : AwaitsWith(r, j, c) => AwaitsWith(s, j, c) \/ (j = k /\ c = x.chunk)
         /\ r[1].chunk = s[1].chunk
         /\ x.chunk \in Seq(Nat) /\ Lower(x.chunk) \in Seq(Nat)
<1> DEFINE b == SubSeq(s, 1, Len(s) - 1)
           f == Frame(0, Higher(x.chunk))
<1>0. r = b \o <<x, f>>
  BY DEF Divided
<1>last. /\ s # <<>> /\ s[Len(s)].at = "start" /\ s[Len(s)].chunk # <<>>
         /\ x.task = s[Len(s)].task /\ x.at = "sort" /\ x.lower = k /\ x.chunk = s[Len(s)].chunk
  BY DEF Divided
<1> USE <1>last
<1>1. f.task = 0 /\ f.chunk = Higher(x.chunk) /\ f.at = "start"
  BY DEF Frame
<1>. HIDE DEF f
<1>2. /\ IsSeq(b) /\ Len(b) \in Nat /\ Len(s) = Len(b) + 1
      /\ \A i \in 1 .. Len(b) : b[i] = s[i] /\ CallSorts(s, i) /\ FrameOK(s, i, n)
      /\ \A j, d : HasList(b, j, d) => HasList(s, j, d)
      /\ \A j, c : AwaitsWith(b, j, c) => AwaitsWith(s, j, c)
      /\ CallSorts(s, Len(s)) /\ FrameOK(s, Len(s), n)
      /\ HasList(s, s[Len(s)].task, s[Len(s)].chunk)
  BY CallsBelow
<1>. HIDE DEF b
<1>3. /\ Len(r) = Len(b) + 2
      /\ \A i \in 1 .. Len(b) : r[i] = b[i]
      /\ r[Len(b) + 1] = x /\ r[Len(b) + 2] = f
  <2> DEFINE q == b \o <<x, f>>
  <2>1. /\ Len(q) = Len(b) + 2
        /\ \A i \in 1 .. Len(b) : q[i] = b[i]
        /\ q[Len(b) + 1] = x /\ q[Len(b) + 2] = f
    BY <1>2, SeqTwo
  <2>2. r = q
    BY <1>0
  <2>. HIDE DEF q
  <2>. QED
    BY <2>1, <2>2
<1>4. \A i \in 1 .. Len(r) : i \in 1 .. Len(b) \/ i = Len(b) + 1 \/ i = Len(b) + 2
  BY <1>2, <1>3
<1>5. x.chunk \in Seq(Nat) /\ x.chunk # <<>> /\ Lower(x.chunk) \in Seq(Nat) /\ Higher(x.chunk) \in Seq(Nat)
  <2>1. x.chunk \in Seq(Nat) /\ x.chunk # <<>>
    BY <1>2 DEF CallSorts
  <2>. QED
    BY <2>1, PartsMakeTheList
<1>6. \A j, d : HasList(r, j, d) => HasList(s, j, d) \/ (j = 0 /\ d \in Seq(Nat))
  <2> SUFFICES ASSUME NEW j, NEW d, HasList(r, j, d)
               PROVE  HasList(s, j, d) \/ (j = 0 /\ d \in Seq(Nat))
    OBVIOUS
  <2>1. PICK i \in 1 .. Len(r) : r[i].task = j /\ r[i].chunk = d
    BY DEF HasList
  <2>2. CASE i \in 1 .. Len(b)
    BY <1>2, <1>3, <2>1, <2>2 DEF HasList
  <2>3. CASE i = Len(b) + 1
    BY <1>2, <1>3, <2>1, <2>3
  <2>4. CASE i = Len(b) + 2
    BY <1>1, <1>3, <1>5, <2>1, <2>4
  <2>. QED
    BY <1>4, <2>2, <2>3, <2>4
<1>7. \A j, c : AwaitsWith(r, j, c) => AwaitsWith(s, j, c) \/ (j = k /\ c = x.chunk)
  <2> SUFFICES ASSUME NEW j, NEW c, AwaitsWith(r, j, c)
               PROVE  AwaitsWith(s, j, c) \/ (j = k /\ c = x.chunk)
    OBVIOUS
  <2>1. PICK i \in 1 .. Len(r) : r[i].at \in {"sort", "wait"} /\ r[i].lower = j /\ r[i].chunk = c
    BY DEF AwaitsWith
  <2>2. CASE i \in 1 .. Len(b)
    BY <1>2, <1>3, <2>1, <2>2 DEF AwaitsWith
  <2>3. CASE i = Len(b) + 1
    BY <1>2, <1>3, <2>1, <2>3
  <2>4. CASE i = Len(b) + 2
    BY <1>1, <1>3, <2>1, <2>4
  <2>. QED
    BY <1>4, <2>2, <2>3, <2>4
<1>8. ASSUME NEW i \in 1 .. Len(b) PROVE CallSorts(r, i)
  <2>1. CallSorts(s, i) /\ FrameOK(s, i, n) /\ r[i] = s[i]
    BY <1>2, <1>3
  <2>2. i + 1 \in 1 .. Len(b) \/ i + 1 = Len(b) + 1
    BY <1>2
  <2>3. r[i + 1].chunk = s[i + 1].chunk
    BY <1>2, <1>3, <2>2
  <2>. QED
    BY <2>1, <2>3 DEF CallSorts
<1>9. CallSorts(r, Len(b) + 1)
  <2>1. (Len(b) + 1) + 1 = Len(b) + 2
    BY <1>2
  <2>. QED
    BY <1>1, <1>3, <1>5, <2>1 DEF CallSorts
<1>10. CallSorts(r, Len(b) + 2)
  BY <1>1, <1>3, <1>5 DEF CallSorts
<1>11. CallsSort(r)
  BY <1>4, <1>8, <1>9, <1>10 DEF CallsSort
<1>12. r[1].chunk = s[1].chunk
  <2>1. 1 \in 1 .. Len(b) \/ 1 = Len(b) + 1
    BY <1>2
  <2>. QED
    BY <1>2, <1>3, <2>1
<1>. QED
  BY <1>5, <1>6, <1>7, <1>11, <1>12

\* A call whose task is done is over; one whose recursive call returns waits.
LEMMA CallsPop ==
  ASSUME NEW s, NEW n, StackOK(s, n), CallsSort(s), s # <<>>, s[Len(s)].task # 0
  PROVE  LET b == SubSeq(s, 1, Len(s) - 1)
         IN /\ CallsSort(b)
            /\ \A j, d : HasList(b, j, d) => HasList(s, j, d)
            /\ \A j, c : AwaitsWith(b, j, c) => AwaitsWith(s, j, c)
            /\ b # <<>> => b[1].chunk = s[1].chunk
<1> DEFINE b == SubSeq(s, 1, Len(s) - 1)
<1>1. /\ IsSeq(b) /\ Len(b) \in Nat /\ Len(s) = Len(b) + 1
      /\ \A i \in 1 .. Len(b) : b[i] = s[i] /\ CallSorts(s, i) /\ FrameOK(s, i, n)
      /\ \A j, d : HasList(b, j, d) => HasList(s, j, d)
      /\ \A j, c : AwaitsWith(b, j, c) => AwaitsWith(s, j, c)
      /\ (b = <<>> <=> Len(s) = 1)
  BY CallsBelow
<1>. HIDE DEF b
<1>2. ASSUME NEW i \in 1 .. Len(b) PROVE CallSorts(b, i)
  <2>1. CallSorts(s, i) /\ FrameOK(s, i, n) /\ b[i] = s[i]
    BY <1>1
  <2>2. i + 1 \in 1 .. Len(b) \/ i + 1 = Len(s)
    BY <1>1
  <2>3. s[i].at = "sort" => b[i + 1] = s[i + 1]
    BY <1>1, <2>1, <2>2 DEF FrameOK
  <2>. QED
    BY <2>1, <2>3 DEF CallSorts
<1>3. b # <<>> => 1 \in 1 .. Len(b)
  BY <1>1
<1>. QED
  BY <1>1, <1>2, <1>3 DEF b, CallsSort

\* r is what v makes of the calls s below the one that returns it.
Resumed(r, s, v) ==
  LET p == Len(s) - 1
  IN /\ Len(r) = p /\ \A i \in 1 .. p : i # p => r[i] = s[i]
     /\ r[p].task = s[p].task /\ r[p].at = "wait" /\ r[p].lower = s[p].lower
     /\ r[p].chunk = s[p].chunk /\ r[p].high = v

LEMMA CallsResume ==
  ASSUME NEW s, NEW n, StackOK(s, n), s # <<>>, NEW b, b = SubSeq(s, 1, Len(s) - 1),
         b # <<>>, NEW p, p = Len(b), NEW v, NEW r,
         r = [b EXCEPT ![p].at = "wait", ![p].high = v]
  PROVE  Resumed(r, s, v)
<1> DEFINE y == [b[p] EXCEPT !.at = "wait", !.high = v]
<1>1. /\ IsSeq(b) /\ Len(b) = Len(s) - 1 /\ Len(b) \in Nat
      /\ (\A i \in 1 .. Len(b) : b[i] = s[i] /\ i \in 1 .. Len(s))
      /\ (b = <<>> <=> Len(s) = 1)
  BY SeqBelow DEF StackOK
<1>2. p = Len(s) - 1 /\ p \in 1 .. p /\ p \in 1 .. Len(s)
  BY <1>1
<1>3. Replaces(r, b, p, y)
  <2>1. r = [b EXCEPT ![p] = y]
    <3>1. DOMAIN b = 1 .. p
      BY <1>1, SeqDomain
    <3>. QED
      BY <1>2, <3>1
  <2>. HIDE DEF y
  <2>2. Replaces([b EXCEPT ![p] = y], b, p, y)
    BY <1>1, <1>2, SeqReplace
  <2>. QED
    BY <2>1, <2>2
<1>4. /\ y.task = s[p].task /\ y.at = "wait" /\ y.lower = s[p].lower /\ y.chunk = s[p].chunk
      /\ y.high = v
  <2>1. IsFrame(s[p]) /\ b[p] = s[p]
    BY <1>1, <1>2 DEF FrameOK, StackOK
  <2>2. y = [s[p] EXCEPT !.at = "wait", !.high = v]
    BY <2>1
  <2>. HIDE DEF y
  <2>. QED
    BY <2>1, <2>2 DEF IsFrame
<1>. HIDE DEF y
<1>5. Len(r) = p /\ r[p] = y /\ \A i \in 1 .. p : i # p => r[i] = s[i]
  BY <1>1, <1>3 DEF Replaces
<1>6. p = Len(s) - 1
  BY <1>2
<1>. QED
  BY <1>4, <1>5, <1>6 DEF Resumed

LEMMA CallsGoOn ==
  ASSUME NEW s, NEW n, StackOK(s, n), CallsSort(s), s # <<>>, s[Len(s)].task = 0,
         SubSeq(s, 1, Len(s) - 1) # <<>>, NEW v, SortOf(v, s[Len(s)].chunk),
         NEW r, Resumed(r, s, v)
  PROVE  /\ CallsSort(r)
         /\ \A j, d : HasList(r, j, d) => HasList(s, j, d)
         /\ \A j, c : AwaitsWith(r, j, c) => AwaitsWith(s, j, c)
         /\ r[1].chunk = s[1].chunk
<1> DEFINE b == SubSeq(s, 1, Len(s) - 1)
           p == Len(s) - 1
<1>1. /\ Len(b) \in Nat /\ Len(s) = Len(b) + 1
      /\ \A i \in 1 .. Len(b) : b[i] = s[i] /\ CallSorts(s, i) /\ FrameOK(s, i, n)
      /\ (b = <<>> <=> Len(s) = 1) /\ b # <<>>
  BY CallsBelow
<1>. HIDE DEF b
<1>2. /\ p \in Nat /\ Len(s) = p + 1 /\ p \in 1 .. p
      /\ \A i \in 1 .. p : CallSorts(s, i) /\ FrameOK(s, i, n) /\ i \in 1 .. Len(s)
  BY <1>1
<1>3. /\ Len(r) = p /\ \A i \in 1 .. p : i # p => r[i] = s[i]
      /\ r[p].task = s[p].task /\ r[p].at = "wait" /\ r[p].lower = s[p].lower
      /\ r[p].chunk = s[p].chunk /\ r[p].high = v
  BY DEF Resumed
<1>6. s[p].at = "sort" /\ s[p + 1].chunk = Higher(s[p].chunk) /\ CallSorts(s, p)
  <2>1. FrameOK(s, p, n) /\ CallSorts(s, p) /\ p < Len(s) /\ s[p + 1].task = 0
    BY <1>2
  <2>. HIDE DEF p
  <2>. QED
    BY <2>1 DEF FrameOK, CallSorts
<1>7. SortOf(v, Higher(s[p].chunk))
  BY <1>2, <1>6
<1>. HIDE DEF p
<1>8. ASSUME NEW i \in 1 .. p PROVE CallSorts(r, i)
  <2>1. CASE i = p
    BY <1>3, <1>6, <1>7, <2>1 DEF CallSorts
  <2>2. CASE i # p
    <3>1. CallSorts(s, i) /\ FrameOK(s, i, n) /\ r[i] = s[i]
      BY <1>2, <1>3, <2>2
    <3>2. i + 1 \in 1 .. p
      BY <1>2, <2>2
    <3>3. r[i + 1].chunk = s[i + 1].chunk
      BY <1>3, <3>2
    <3>. QED
      BY <3>1, <3>3 DEF CallSorts
  <2>. QED
    BY <2>1, <2>2
<1>9. CallsSort(r)
  BY <1>3, <1>8 DEF CallsSort
<1>10. \A j, d : HasList(r, j, d) => HasList(s, j, d)
  BY <1>2, <1>3 DEF HasList
<1>11. \A j, c : AwaitsWith(r, j, c) => AwaitsWith(s, j, c)
  BY <1>2, <1>3, <1>6 DEF AwaitsWith
<1>12. r[1].chunk = s[1].chunk
  <2>1. 1 \in 1 .. p
    BY <1>2
  <2>. QED
    BY <1>3, <2>1
<1>. QED
  BY <1>9, <1>10, <1>11, <1>12

\* The first call ends with the list in order.
LEMMA CallsEnd ==
  ASSUME NEW s, NEW n, StackOK(s, n), CallsSort(s), s # <<>>, s[Len(s)].task = 0,
         SubSeq(s, 1, Len(s) - 1) = <<>>, NEW v, SortOf(v, s[Len(s)].chunk),
         NEW r, r = <<[s[Len(s)] EXCEPT !.at = "end", !.high = v]>>
  PROVE  /\ CallsSort(r)
         /\ \A j, d : HasList(r, j, d) => HasList(s, j, d)
         /\ \A j, c : AwaitsWith(r, j, c) => AwaitsWith(s, j, c)
         /\ r[1].chunk = s[1].chunk
<1> DEFINE x == s[Len(s)]
           y == [x EXCEPT !.at = "end", !.high = v]
<1>1. /\ Len(s) = 1 /\ CallSorts(s, Len(s)) /\ FrameOK(s, Len(s), n)
      /\ HasList(s, x.task, x.chunk)
  BY CallsBelow
<1>2. y.task = x.task /\ y.at = "end" /\ y.chunk = x.chunk /\ y.high = v
  <2>1. IsFrame(x)
    BY <1>1 DEF FrameOK
  <2>2. y = [x EXCEPT !.at = "end", !.high = v]
    OBVIOUS
  <2>. HIDE DEF x, y
  <2>. QED
    BY <2>1, <2>2 DEF IsFrame
<1>0. r = <<y>>
  OBVIOUS
<1>. HIDE DEF y
<1>3. Len(r) = 1 /\ r[1] = y /\ \A i : i \in 1 .. 1 => i = 1
  BY <1>0
<1>4. CallSorts(r, 1)
  BY <1>1, <1>2, <1>3 DEF CallSorts
<1>5. CallsSort(r)
  BY <1>3, <1>4 DEF CallsSort
<1>6. \A j, d : HasList(r, j, d) => HasList(s, j, d)
  <2>1. \A j, d : HasList(r, j, d) => j = x.task /\ d = x.chunk
    BY <1>2, <1>3 DEF HasList
  <2>. QED
    BY <1>1, <2>1
<1>7. \A j, c : ~AwaitsWith(r, j, c)
  BY <1>2, <1>3 DEF AwaitsWith
<1>. QED
  BY <1>1, <1>2, <1>3, <1>5, <1>6, <1>7

LEMMA SortInit == Init => SortInv
<1> SUFFICES ASSUME Init PROVE SortInv
  OBVIOUS
<1> DEFINE f == Frame(0, input)
           s == <<f>>
<1>1. f.task = 0 /\ f.at = "start" /\ f.chunk = input /\ input \in Seq(Nat)
  BY PoolAssumption DEF Frame, Init
<1>2. /\ stack[Main] = s /\ \A t \in Threads : t # Main => stack[t] = <<>>
      /\ queue = <<>> /\ (\A w \in Workers : local[w] = <<>>)
  BY ThreadsApart DEF Init
<1>. HIDE DEF f
<1>3. Len(s) = 1 /\ s[1] = f /\ Len(<<>>) = 0 /\ \A i : i \in 1 .. 1 => i = 1
  OBVIOUS
<1>. HIDE DEF s
<1>4. \A k, d : ~HasList(<<>>, k, d) /\ ~AwaitsWith(<<>>, k, d)
  BY <1>3 DEF HasList, AwaitsWith
<1>5. CallsSort(s) /\ CallsSort(<<>>)
  BY <1>1, <1>3 DEF CallsSort, CallSorts
<1>6. \A k, d : /\ HasList(s, k, d) => d = input
                /\ ~AwaitsWith(s, k, d)
  BY <1>1, <1>3 DEF HasList, AwaitsWith
<1>7. \A t \in Threads : t = Main \/ stack[t] = <<>>
  BY <1>2
<1>8. \A t \in Threads : CallsSort(stack[t])
  BY <1>2, <1>5, <1>7
<1>9. \A k, d : Given(k, d) => d \in Seq(Nat)
  BY <1>1, <1>2, <1>4, <1>6, <1>7 DEF Given
<1>10. \A k, c : ~AwaitedWith(k, c)
  BY <1>2, <1>4, <1>6, <1>7 DEF AwaitedWith
<1>. QED
  BY <1>1, <1>2, <1>3, <1>8, <1>9, <1>10 DEF SortInv

\* A step that gives no list to a new task, awaits no more and fulfils nothing.
LEMMA SortKept ==
  ASSUME SortInv, future' = future, UNCHANGED input,
         \A t \in Threads : CallsSort(stack'[t]),
         \A k, d : Given(k, d)' => Given(k, d),
         \A k, c : AwaitedWith(k, c)' => AwaitedWith(k, c),
         stack'[Main][1].chunk = stack[Main][1].chunk
  PROVE  SortInv'
<1>1. (\A t \in Threads : CallsSort(stack[t]))'
  OBVIOUS
<1>2. (\A k, d : Given(k, d) => d \in Seq(Nat))'
  BY DEF SortInv
<1>3. (\A k, c, d : AwaitedWith(k, c) /\ Given(k, d) => d = Lower(c))'
  BY DEF SortInv
<1>4. (\A k, c : AwaitedWith(k, c) /\ future[k].ready => SortOf(future[k].value, Lower(c)))'
  BY DEF SortInv
<1>5. (stack[Main][1].chunk = input)'
  BY DEF SortInv
<1>. QED
  BY <1>1, <1>2, <1>3, <1>4, <1>5 DEF SortInv

LEMMA SortRuns ==
  ASSUME PoolInv, SortInv, NEW t \in Threads, RunLocal(t) \/ RunShared(t)
  PROVE  SortInv'
<1> USE ThreadsApart
<1>1. PICK q : /\ q # <<>> /\ IsSeq(q) /\ Run(t, Head(q))
               /\ \/ t \in Workers /\ q = local[t] /\ local' = [local EXCEPT ![t] = Tail(q)] /\ queue' = queue
                  \/ q = queue /\ queue' = Tail(q) /\ local' = local
  <2>1. CASE RunLocal(t)
    <3>1. /\ t \in Workers /\ local[t] # <<>> /\ IsSeq(local[t]) /\ Run(t, Head(local[t])) /\ queue' = queue
          /\ local' = [local EXCEPT ![t] = Tail(local[t])]
      BY <2>1 DEF RunLocal, HasLocal, PoolInv, PoolTypes, QueueOK
    <3>. QED
      BY <3>1
  <2>2. CASE RunShared(t)
    BY <2>2 DEF RunShared, PoolInv, PoolTypes, QueueOK
  <2>. QED
    BY <2>1, <2>2
<1> DEFINE k == Head(q).task
           chunk == Head(q).chunk
           s == stack[t]
           r == Append(s, Frame(k, chunk))
           n == Len(future)
<1>2. HasList(q, k, chunk) /\ \A j, d : HasList(Tail(q), j, d) => HasList(q, j, d)
  BY <1>1, ListTail
<1>3. Given(k, chunk)
  BY <1>1, <1>2 DEF Given
<1>4. /\ stack = [u \in Threads |-> stack[u]] /\ local = [w \in Workers |-> local[w]]
      /\ StackOK(s, n) /\ CallsSort(s) /\ chunk \in Seq(Nat)
  BY <1>3 DEF PoolInv, PoolTypes, SortInv
<1>5. /\ CallsSort(r)
      /\ \A j, d : HasList(r, j, d) => HasList(s, j, d) \/ (j = k /\ d = chunk)
      /\ \A j, c : AwaitsWith(r, j, c) => AwaitsWith(s, j, c)
      /\ s # <<>> => r[1].chunk = s[1].chunk
  <2>. HIDE DEF s, k, chunk, n
  <2>. QED
    BY <1>4, CallsPush
<1>6. /\ stack' = [stack EXCEPT ![t] = r] /\ future' = future /\ input' = input
  BY <1>1, <1>4 DEF Run
<1>. HIDE DEF r, k, chunk
<1>7. stack'[t] = r /\ \A u \in Threads : u # t => stack'[u] = stack[u]
  BY <1>4, <1>6, StackAssigned
<1>8. /\ \A j, d : HasList(queue', j, d) => HasList(queue, j, d)
      /\ \A w \in Workers : \A j, d : HasList(local'[w], j, d) => HasList(local[w], j, d)
  <2>1. CASE t \in Workers /\ q = local[t] /\ local' = [local EXCEPT ![t] = Tail(q)] /\ queue' = queue
    <3>1. local'[t] = Tail(q) /\ \A w \in Workers : w # t => local'[w] = local[w]
      BY <1>4, <2>1
    <3>. QED
      BY <1>2, <2>1, <3>1
  <2>2. CASE q = queue /\ queue' = Tail(q) /\ local' = local
    BY <1>2, <2>2
  <2>. QED
    BY <1>1, <2>1, <2>2
<1>9. \A u \in Threads : CallsSort(stack'[u])
  BY <1>5, <1>7 DEF SortInv
<1>10. ASSUME NEW j, NEW d, Given(j, d)' PROVE Given(j, d)
  <2>1. \/ HasList(queue, j, d) \/ \E w \in Workers : HasList(local[w], j, d)
        \/ \E u \in Threads : HasList(stack'[u], j, d)
    BY <1>8, <1>10 DEF Given
  <2>2. ASSUME NEW u \in Threads, HasList(stack'[u], j, d) PROVE Given(j, d)
    <3>1. HasList(stack[u], j, d) \/ (j = k /\ d = chunk)
      BY <1>5, <1>7, <2>2
    <3>. QED
      BY <1>3, <3>1 DEF Given
  <2>. QED
    BY <2>1, <2>2 DEF Given
<1>11. ASSUME NEW j, NEW c, AwaitedWith(j, c)' PROVE AwaitedWith(j, c)
  BY <1>5, <1>7, <1>11 DEF AwaitedWith
<1>12. stack'[Main][1].chunk = stack[Main][1].chunk
  <2>1. stack[Main] # <<>>
    BY DEF PoolInv, PoolThreads
  <2>. QED
    BY <1>5, <1>7, <2>1
<1>. QED
  BY <1>6, <1>9, <1>10, <1>11, <1>12, SortKept

LEMMA SortSplits ==
  ASSUME PoolInv, SortInv, NEW t \in Threads, Split(t)
  PROVE  SortInv'
<1> USE ThreadsApart
<1> DEFINE n == Len(future)
           s == stack[t]
           l == Len(s)
           x == [s[l] EXCEPT !.at = "sort", !.lower = n + 1]
           low == Lower(s[l].chunk)
           r == SubSeq(s, 1, l - 1) \o <<x, Frame(0, Higher(s[l].chunk))>>
           task == [task |-> n + 1, chunk |-> low]
<1>1. /\ s # <<>> /\ s[l].at = "start" /\ s[l].chunk # <<>>
      /\ Submit(t, low)
      /\ stack' = [stack EXCEPT ![t] = r] /\ input' = input
  BY DEF Split, In, Top, Below
<1>2. /\ stack = [u \in Threads |-> stack[u]] /\ local = [w \in Workers |-> local[w]]
      /\ StackOK(s, n) /\ CallsSort(s) /\ IsSeq(queue) /\ \A w \in Workers : IsSeq(local[w])
  BY DEF PoolInv, PoolTypes, SortInv, QueueOK
<1>3. /\ Len(future') = n + 1 /\ n \in Nat
      /\ \A k \in 1 .. n : future'[k] = future[k]
      /\ future'[n + 1].ready = FALSE
  BY <1>1, Submitted
<1>4. stack'[t] = r /\ \A u \in Threads : u # t => stack'[u] = stack[u]
  <2>. HIDE DEF r
  <2>. QED
    BY <1>1, <1>2, StackAssigned
<1>5. x.task = s[l].task /\ x.at = "sort" /\ x.lower = n + 1 /\ x.chunk = s[l].chunk
  <2>1. IsFrame(s[l])
    <3>1. s # <<>>
      BY <1>1
    <3>. HIDE DEF s, n
    <3>. QED
      BY <1>2, <3>1, SeqBelow DEF StackOK, FrameOK
  <2>2. x = [s[l] EXCEPT !.at = "sort", !.lower = n + 1]
    OBVIOUS
  <2>. HIDE DEF x, s, l, n
  <2>. QED
    BY <2>1, <2>2 DEF IsFrame
<1>6. /\ CallsSort(r)
      /\ \A j, d : HasList(r, j, d) => HasList(s, j, d) \/ (j = 0 /\ d \in Seq(Nat))
      /\ \A j, c : AwaitsWith(r, j, c) => AwaitsWith(s, j, c) \/ (j = n + 1 /\ c = x.chunk)
      /\ r[1].chunk = s[1].chunk
      /\ low \in Seq(Nat)
  <2>1. r = SubSeq(s, 1, Len(s) - 1) \o <<x, Frame(0, Higher(x.chunk))>> /\ low = Lower(x.chunk)
    BY <1>5
  <2>2. /\ s # <<>> /\ s[Len(s)].at = "start" /\ s[Len(s)].chunk # <<>>
        /\ x.task = s[Len(s)].task /\ x.at = "sort" /\ x.lower = n + 1 /\ x.chunk = s[Len(s)].chunk
    BY <1>1, <1>5
  <2> DEFINE k == n + 1
  <2>. HIDE DEF r, x, l, low, s
  <2>3. Divided(s, r, x, k)
    BY <2>1, <2>2 DEF Divided
  <2>. HIDE DEF n, k
  <2>4. /\ CallsSort(r)
        /\ \A j, d : HasList(r, j, d) => HasList(s, j, d) \/ (j = 0 /\ d \in Seq(Nat))
        /\ \A j, c : AwaitsWith(r, j, c) => AwaitsWith(s, j, c) \/ (j = k /\ c = x.chunk)
        /\ r[1].chunk = s[1].chunk
        /\ x.chunk \in Seq(Nat) /\ Lower(x.chunk) \in Seq(Nat)
    BY <1>2, <2>3, CallsSplit
  <2>. QED
    BY <2>1, <2>4 DEF k
<1>7. task.task = n + 1 /\ task.chunk = low
  OBVIOUS
<1>8. \/ t \in Workers /\ local' = [local EXCEPT ![t] = Append(local[t], task)] /\ queue' = queue
      \/ queue' = Append(queue, task) /\ local' = local
  BY <1>1 DEF Submit
<1>9. low = Lower(x.chunk)
  BY <1>5
<1>. HIDE DEF task, r, x, low, l, n
<1>10. \A j, d : HasList(queue', j, d) => HasList(queue, j, d) \/ (j = n + 1 /\ d = low)
  <2>1. CASE queue' = queue
    BY <2>1
  <2>2. CASE queue' = Append(queue, task)
    BY <1>2, <1>7, <2>2, ListAppend
  <2>. QED
    BY <1>8, <2>1, <2>2
<1>11. \A w \in Workers : \A j, d : HasList(local'[w], j, d) => HasList(local[w], j, d) \/ (j = n + 1 /\ d = low)
  <2>1. CASE t \in Workers /\ local' = [local EXCEPT ![t] = Append(local[t], task)]
    <3>1. local'[t] = Append(local[t], task) /\ \A w \in Workers : w # t => local'[w] = local[w]
      BY <1>2, <2>1
    <3>. QED
      BY <1>2, <1>7, <2>1, <3>1, ListAppend
  <2>2. CASE local' = local
    BY <2>2
  <2>. QED
    BY <1>8, <2>1, <2>2
<1>12. ASSUME NEW j, NEW d, Given(j, d)'
       PROVE  Given(j, d) \/ (j = n + 1 /\ d = low) \/ (j = 0 /\ d \in Seq(Nat))
  <2>1. ASSUME NEW u \in Threads, HasList(stack'[u], j, d)
        PROVE  Given(j, d) \/ (j = 0 /\ d \in Seq(Nat))
    <3>1. HasList(stack[u], j, d) \/ (j = 0 /\ d \in Seq(Nat))
      BY <1>4, <1>6, <2>1
    <3>. QED
      BY <3>1 DEF Given
  <2>. QED
    BY <1>10, <1>11, <1>12, <2>1 DEF Given
<1>13. ASSUME NEW j, NEW c, AwaitedWith(j, c)'
       PROVE  AwaitedWith(j, c) \/ (j = n + 1 /\ c = x.chunk)
  BY <1>4, <1>6, <1>13 DEF AwaitedWith
<1>14. \A j, d : Given(j, d) => j \in 0 .. n
  <2>1. /\ \A j : Has(queue, j) => j \in 1 .. n
        /\ \A w \in Workers : \A j : Has(local[w], j) => j \in 1 .. n
        /\ \A u \in Threads : \A j : j # 0 /\ Has(stack[u], j) => j \in 1 .. n
    BY TaskNumbers DEF PoolInv, n
  <2>2. \A q, j, d : HasList(q, j, d) => Has(q, j)
    BY DEF HasList, Has
  <2>3. 0 \in 0 .. n /\ \A j \in 1 .. n : j \in 0 .. n
    BY <1>3
  <2>. QED
    BY <2>1, <2>2, <2>3 DEF Given
<1>15. \A j, c : AwaitedWith(j, c) => j \in 1 .. n
  <2>1. \A u \in Threads : StackOK(stack[u], n)
    BY DEF PoolInv, PoolTypes, n
  <2>. QED
    BY <2>1 DEF AwaitedWith, AwaitsWith, StackOK, FrameOK
<1>16. n + 1 \notin 0 .. n /\ n + 1 \notin 1 .. n /\ 0 \notin 1 .. n /\ n + 1 # 0
  BY <1>3
<1>17. (\A u \in Threads : CallsSort(stack[u]))'
  BY <1>4, <1>6 DEF SortInv
<1>18. (\A k, d : Given(k, d) => d \in Seq(Nat))'
  BY <1>6, <1>12 DEF SortInv
<1>19. (\A k, c, d : AwaitedWith(k, c) /\ Given(k, d) => d = Lower(c))'
  <2> SUFFICES ASSUME NEW k, NEW c, NEW d, AwaitedWith(k, c)', Given(k, d)' PROVE d = Lower(c)
    OBVIOUS
  <2>1. CASE k = n + 1
    BY <1>9, <1>12, <1>13, <1>14, <1>15, <1>16, <2>1
  <2>2. CASE k # n + 1
    <3>1. AwaitedWith(k, c) /\ k # 0
      BY <1>13, <1>15, <1>16, <2>2
    <3>2. Given(k, d)
      BY <1>12, <2>2, <3>1
    <3>. QED
      BY <3>1, <3>2 DEF SortInv
  <2>. QED
    BY <2>1, <2>2
<1>20. (\A k, c : AwaitedWith(k, c) /\ future[k].ready => SortOf(future[k].value, Lower(c)))'
  <2> SUFFICES ASSUME NEW k, NEW c, AwaitedWith(k, c)', future'[k].ready
               PROVE  SortOf(future'[k].value, Lower(c))
    OBVIOUS
  <2>1. k # n + 1
    BY <1>3
  <2>2. AwaitedWith(k, c) /\ k \in 1 .. n
    BY <1>13, <1>15, <2>1
  <2>3. future'[k] = future[k]
    BY <1>3, <2>2
  <2>. QED
    BY <2>2, <2>3 DEF SortInv
<1>21. (stack[Main][1].chunk = input)'
  BY <1>1, <1>4, <1>6 DEF SortInv
<1>. QED
  BY <1>17, <1>18, <1>19, <1>20, <1>21 DEF SortInv

LEMMA SortReturned ==
  ASSUME PoolInv, SortInv, NEW t \in Threads, NEW v, Return(t, v), stack[t] # <<>>,
         SortOf(v, Top(t).chunk)
  PROVE  SortInv'
<1> USE ThreadsApart
<1> DEFINE n == Len(future)
           s == stack[t]
           x == s[Len(s)]
           b == SubSeq(s, 1, Len(s) - 1)
<1>1. /\ s # <<>> /\ SortOf(v, x.chunk) /\ UNCHANGED <<input, queue, local>>
  BY DEF Return, Top
<1>2. /\ stack = [u \in Threads |-> stack[u]]
      /\ StackOK(s, n) /\ CallsSort(s) /\ n \in Nat
  BY TaskNumbers DEF PoolInv, PoolTypes, SortInv
<1>3. ASSUME NEW r, stack' = [stack EXCEPT ![t] = r], CallsSort(r),
             \A j, d : HasList(r, j, d) => HasList(s, j, d),
             \A j, c : AwaitsWith(r, j, c) => AwaitsWith(s, j, c),
             t = Main => r[1].chunk = s[1].chunk
      PROVE  /\ \A u \in Threads : CallsSort(stack'[u])
             /\ \A j, d : Given(j, d)' => Given(j, d)
             /\ \A j, c : AwaitedWith(j, c)' => AwaitedWith(j, c)
             /\ stack'[Main][1].chunk = stack[Main][1].chunk
  <2>1. stack'[t] = r /\ \A u \in Threads : u # t => stack'[u] = stack[u]
    BY <1>2, <1>3, StackAssigned
  <2>2. \A u \in Threads : CallsSort(stack'[u])
    BY <1>3, <2>1 DEF SortInv
  <2>3. ASSUME NEW j, NEW d, Given(j, d)' PROVE Given(j, d)
    <3>1. ASSUME NEW u \in Threads, HasList(stack'[u], j, d) PROVE HasList(stack[u], j, d)
      BY <1>3, <2>1, <3>1
    <3>. QED
      BY <1>1, <2>3, <3>1 DEF Given
  <2>4. ASSUME NEW j, NEW c, AwaitedWith(j, c)' PROVE AwaitedWith(j, c)
    <3>1. ASSUME NEW u \in Threads, AwaitsWith(stack'[u], j, c) PROVE AwaitsWith(stack[u], j, c)
      BY <1>3, <2>1, <3>1
    <3>. QED
      BY <2>4, <3>1 DEF AwaitedWith
  <2>5. stack'[Main][1].chunk = stack[Main][1].chunk
    BY <1>3, <2>1
  <2>. QED
    BY <2>2, <2>3, <2>4, <2>5
<1>4. CASE x.task # 0
  <2> DEFINE k == x.task
             value == [ready |-> TRUE, value |-> v]
  <2>1. /\ future' = [future EXCEPT ![k] = value] /\ stack' = [stack EXCEPT ![t] = b]
    BY <1>4 DEF Return, Top, Below
  <2>2. /\ CallsSort(b)
        /\ \A j, d : HasList(b, j, d) => HasList(s, j, d)
        /\ \A j, c : AwaitsWith(b, j, c) => AwaitsWith(s, j, c)
        /\ b # <<>> => b[1].chunk = s[1].chunk
    <3>1. s # <<>> /\ s[Len(s)].task # 0
      BY <1>1, <1>4
    <3>. HIDE DEF s, n
    <3>. QED
      BY <1>2, <3>1, CallsPop
  <2>3. /\ Given(k, x.chunk) /\ k \in 1 .. n
        /\ Len(s) \in 1 .. Len(s) /\ (b = <<>> => Len(s) = 1)
    <3>1. s # <<>>
      BY <1>1
    <3>2. /\ HasList(s, s[Len(s)].task, s[Len(s)].chunk) /\ Len(s) \in 1 .. Len(s)
          /\ SubSeq(s, 1, Len(s) - 1) = <<>> => Len(s) = 1
      <4>. HIDE DEF s, n
      <4>. QED
        BY <1>2, <3>1, CallsBelow
    <3>3. FrameOK(s, Len(s), n)
      BY <1>2, <3>2 DEF StackOK
    <3>. QED
      BY <1>2, <1>4, <3>2, <3>3 DEF Given, FrameOK
  <2>4. t = Main => b # <<>>
    <3>1. t = Main => s[1].task = 0
      BY DEF PoolInv, PoolThreads
    <3>2. b = <<>> => s[1].task # 0
      BY <1>4, <2>3
    <3>. QED
      BY <3>1, <3>2
  <2>5. /\ \A u \in Threads : CallsSort(stack'[u])
        /\ \A j, d : Given(j, d)' => Given(j, d)
        /\ \A j, c : AwaitedWith(j, c)' => AwaitedWith(j, c)
        /\ stack'[Main][1].chunk = stack[Main][1].chunk
    <3>. HIDE DEF b
    <3>. QED
      BY <1>3, <2>1, <2>2, <2>4
  <2>6. /\ \A j \in 1 .. n : j # k => future'[j] = future[j]
        /\ future'[k] = value
    <3>1. PICK U : future \in Seq(U)
      BY DEF PoolInv, PoolTypes, IsSeq
    <3>. HIDE DEF value, k, b
    <3>. QED
      BY <2>1, <2>3, <3>1
  <2>7. value.ready = TRUE /\ value.value = v
    OBVIOUS
  <2>8. \A j, c : AwaitedWith(j, c) => j \in 1 .. n
    <3>1. \A u \in Threads : StackOK(stack[u], n)
      BY DEF PoolInv, PoolTypes
    <3>. QED
      BY <3>1 DEF AwaitedWith, AwaitsWith, StackOK, FrameOK
  <2>. HIDE DEF value, k, b, x, n
  <2>9. (\A j, c : AwaitedWith(j, c) /\ future[j].ready => SortOf(future[j].value, Lower(c)))'
    <3> SUFFICES ASSUME NEW j, NEW c, AwaitedWith(j, c)', future'[j].ready
                 PROVE  SortOf(future'[j].value, Lower(c))
      OBVIOUS
    <3>1. AwaitedWith(j, c) /\ j \in 1 .. n
      BY <2>5, <2>8
    <3>2. CASE j = k
      <4>1. x.chunk = Lower(c)
        BY <2>3, <3>1, <3>2 DEF SortInv
      <4>2. future'[j].value = v
        BY <2>6, <2>7, <3>2
      <4>. QED
        BY <1>1, <4>1, <4>2
    <3>3. CASE j # k
      BY <2>6, <3>1, <3>3 DEF SortInv
    <3>. QED
      BY <3>2, <3>3
  <2>10. (\A j, d : Given(j, d) => d \in Seq(Nat))'
    BY <2>5 DEF SortInv
  <2>11. (\A j, c, d : AwaitedWith(j, c) /\ Given(j, d) => d = Lower(c))'
    BY <2>5 DEF SortInv
  <2>12. (stack[Main][1].chunk = input)'
    BY <1>1, <2>5 DEF SortInv
  <2>. QED
    BY <2>5, <2>9, <2>10, <2>11, <2>12 DEF SortInv
<1>5. ASSUME NEW r, stack' = [stack EXCEPT ![t] = r], future' = future, CallsSort(r),
             \A j, d : HasList(r, j, d) => HasList(s, j, d),
             \A j, c : AwaitsWith(r, j, c) => AwaitsWith(s, j, c),
             r[1].chunk = s[1].chunk
      PROVE  SortInv'
  BY <1>1, <1>3, <1>5, SortKept
<1>6. CASE x.task = 0 /\ b # <<>>
  <2> DEFINE p == Len(b)
             r == [b EXCEPT ![p].at = "wait", ![p].high = v]
  <2>1. stack' = [stack EXCEPT ![t] = r] /\ future' = future
    BY <1>6 DEF Return, Top, Below
  <2>2. Resumed(r, s, v)
    <3>1. s # <<>> /\ b = SubSeq(s, 1, Len(s) - 1) /\ b # <<>> /\ p = Len(b)
          /\ r = [b EXCEPT ![p].at = "wait", ![p].high = v]
      BY <1>1, <1>6
    <3>. HIDE DEF r, p, b, s, n
    <3>. QED
      BY <1>2, <3>1, CallsResume
  <2>. HIDE DEF r
  <2>3. /\ CallsSort(r)
        /\ \A j, d : HasList(r, j, d) => HasList(s, j, d)
        /\ \A j, c : AwaitsWith(r, j, c) => AwaitsWith(s, j, c)
        /\ r[1].chunk = s[1].chunk
    <3>1. /\ s # <<>> /\ s[Len(s)].task = 0 /\ SubSeq(s, 1, Len(s) - 1) # <<>>
          /\ SortOf(v, s[Len(s)].chunk)
      BY <1>1, <1>6
    <3>. HIDE DEF b, s, n, p
    <3>. QED
      BY <1>2, <2>2, <3>1, CallsGoOn
  <2>. QED
    BY <1>5, <2>1, <2>3
<1>7. CASE x.task = 0 /\ b = <<>>
  <2> DEFINE r == <<[x EXCEPT !.at = "end", !.high = v]>>
  <2>1. stack' = [stack EXCEPT ![t] = r] /\ future' = future
    BY <1>7 DEF Return, Top, Below
  <2>2. /\ CallsSort(r)
        /\ \A j, d : HasList(r, j, d) => HasList(s, j, d)
        /\ \A j, c : AwaitsWith(r, j, c) => AwaitsWith(s, j, c)
        /\ r[1].chunk = s[1].chunk
    <3>1. /\ s # <<>> /\ s[Len(s)].task = 0 /\ SubSeq(s, 1, Len(s) - 1) = <<>>
          /\ SortOf(v, s[Len(s)].chunk)
          /\ r = <<[s[Len(s)] EXCEPT !.at = "end", !.high = v]>>
      BY <1>1, <1>7
    <3>. HIDE DEF b, s, n, x, r
    <3>. QED
      BY <1>2, <3>1, CallsEnd
  <2>. HIDE DEF r
  <2>. QED
    BY <1>5, <2>1, <2>2
<1>. QED
  BY <1>4, <1>6, <1>7

LEMMA SortStep == PoolInv /\ SortInv /\ [Next]_vars => SortInv'
<1> SUFFICES ASSUME PoolInv, SortInv, [Next]_vars PROVE SortInv'
  OBVIOUS
<1>1. ASSUME UNCHANGED <<input, queue, local, stack, future>> PROVE SortInv'
  BY <1>1 DEF SortInv, Given, AwaitedWith
<1>2. CASE UNCHANGED vars
  BY <1>1, <1>2 DEF vars
<1>3. ASSUME NEW t \in Threads, Step(t) PROVE SortInv'
  <2>1. CASE RunLocal(t) \/ RunShared(t)
    BY <2>1, SortRuns
  <2>2. CASE Yield(t) \/ Wait(t)
    BY <1>1, <2>2 DEF Yield, Wait
  <2>3. CASE Split(t)
    BY <2>3, SortSplits
  <2>4. ASSUME stack[t] # <<>>
        PROVE  CallSorts(stack[t], Len(stack[t])) /\ Len(stack[t]) \in 1 .. Len(stack[t])
    <3>1. StackOK(stack[t], Len(future)) /\ CallsSort(stack[t])
      BY DEF PoolInv, PoolTypes, SortInv
    <3>2. Len(stack[t]) \in 1 .. Len(stack[t])
      BY <2>4, <3>1, SeqBelow DEF StackOK
    <3>. QED
      BY <3>1, <3>2 DEF CallsSort
  <2>5. CASE ReturnEmpty(t)
    <3>1. stack[t] # <<>> /\ Top(t).chunk = <<>> /\ Return(t, <<>>)
      BY <2>5 DEF ReturnEmpty, In
    <3>. QED
      BY <3>1, EmptyIsSorted, SortReturned
  <2>6. CASE Join(t)
    <3> DEFINE x == Top(t)
               v == future[x.lower].value \o <<Head(x.chunk)>> \o x.high
    <3>1. stack[t] # <<>> /\ x.at = "wait" /\ Ready(x.lower) /\ Return(t, v)
      BY <2>6 DEF Join, In
    <3>2. x.chunk \in Seq(Nat) /\ x.chunk # <<>> /\ SortOf(x.high, Higher(x.chunk))
      BY <2>4, <3>1 DEF CallSorts, Top
    <3>3. AwaitedWith(x.lower, x.chunk)
      BY <2>4, <3>1 DEF AwaitedWith, AwaitsWith, Top
    <3>4. SortOf(future[x.lower].value, Lower(x.chunk))
      BY <3>1, <3>3 DEF SortInv, Ready
    <3>5. SortOf(v, x.chunk)
      BY <3>2, <3>4, SortedPartsMakeTheSort
    <3>. HIDE DEF v
    <3>. QED
      BY <3>1, <3>5, SortReturned
  <2>. QED
    BY <1>3, <2>1, <2>2, <2>3, <2>5, <2>6 DEF Step
<1>4. ASSUME NEW w \in Workers, CheckDone(w) PROVE SortInv'
  BY <1>1, <1>4 DEF CheckDone
<1>5. CASE Destroy \/ JoinThreads
  BY <1>1, <1>5 DEF Destroy, JoinThreads
<1>. QED
  BY <1>2, <1>3, <1>4, <1>5 DEF Next

LEMMA SortInvSuffices == PoolInv /\ SortInv => SortIsCorrect
<1> SUFFICES ASSUME PoolInv, SortInv, main = "return"
             PROVE  LET result == Top(Main).high
                    IN /\ \A i, j \in 1 .. Len(result) : i <= j => result[i] <= result[j]
                       /\ ToBag(result) = ToBag(input)
  BY DEF SortIsCorrect
<1> USE ThreadsApart
<1>1. stack[Main] # <<>> /\ stack[Main][1].at = "end" /\ StackOK(stack[Main], Len(future))
  BY DEF PoolInv, PoolThreads, PoolTypes
<1>2. 1 \in 1 .. Len(stack[Main])
  BY <1>1, SeqBelow DEF StackOK
<1>3. Len(stack[Main]) = 1
  BY <1>1, <1>2 DEF StackOK, FrameOK
<1>4. CallSorts(stack[Main], 1) /\ stack[Main][1].chunk = input
  BY <1>2 DEF SortInv, CallsSort
<1>5. input \in Seq(Nat) /\ SortOf(Top(Main).high, input)
  BY <1>1, <1>3, <1>4 DEF CallSorts, Top
<1>. QED
  BY <1>5, SortedIsTheBag

-----------------------------------------------------------------------------
(* The simple pool *)

\* The tasks 1 .. p have been taken from the queue: each is in the hands of one
\* worker or was executed, once.
Taken(p) ==
  /\ owner # "gone" => Len(tasks) = submitted - p /\ \A i \in 1 .. Len(tasks) : tasks[i] = p + i
  /\ \A i \in 1 .. Len(executed) : executed[i] \in 1 .. p
  /\ \A w \in 1 .. Len(threads) : threads[w].task \in 0 .. p
  /\ \A k \in 1 .. p : \/ \E i \in 1 .. Len(executed) : executed[i] = k
                       \/ \E w \in 1 .. Len(threads) : threads[w].task = k
  /\ \A i, j \in 1 .. Len(executed) : executed[i] = executed[j] => i = j
  /\ \A v, w \in 1 .. Len(threads) :
       threads[v].task = threads[w].task /\ threads[v].task # 0 => v = w
  /\ \A i \in 1 .. Len(executed), w \in 1 .. Len(threads) : executed[i] # threads[w].task

\* Who is not about to run a task has none.
IsWorker(x) == /\ x = [at |-> x.at, task |-> x.task]
               /\ x.task # 0 <=> x.at = "run"

SimpleInv ==
  /\ IsSeq(threads) /\ IsSeq(tasks) /\ IsSeq(executed) /\ submitted \in Nat
  /\ \A w \in 1 .. Len(threads) : IsWorker(threads[w])
  /\ \E p \in 0 .. submitted : Taken(p)
  /\ Simple!WorkersEndBeforeTheQueue

LEMMA SimpleInit == Simple!Init => SimpleInv
<1> SUFFICES ASSUME Simple!Init PROVE SimpleInv
  OBVIOUS
<1>1. IsSeq(<<>>) /\ Len(<<>>) = 0
  <2>1. <<>> \in Seq({}) /\ Len(<<>>) = 0
    OBVIOUS
  <2>. QED
    BY <2>1 DEF IsSeq
<1>2. 1 .. 0 = {} /\ 0 \in 0 .. 0
  OBVIOUS
<1>3. threads = <<>> /\ tasks = <<>> /\ executed = <<>> /\ submitted = 0 /\ owner = "construct"
  BY DEF Simple!Init
<1>4. Taken(0)
  BY <1>1, <1>2, <1>3 DEF Taken
<1>5. Simple!WorkersEndBeforeTheQueue
  BY <1>3 DEF Simple!WorkersEndBeforeTheQueue
<1>. QED
  BY <1>1, <1>2, <1>3, <1>4, <1>5 DEF SimpleInv

\* The owner joins before it frees the queue, and a worker that has ended does
\* nothing.
LEMMA SimpleStepJoins ==
  Simple!WorkersEndBeforeTheQueue /\ [Simple!Next]_simpleVars => Simple!WorkersEndBeforeTheQueue'
<1> SUFFICES ASSUME Simple!WorkersEndBeforeTheQueue, [Simple!Next]_simpleVars,
                    owner' \in {"free", "gone"}
             PROVE  \A w \in DOMAIN threads' : threads'[w].at = "ended"
  BY DEF Simple!WorkersEndBeforeTheQueue
<1>1. CASE UNCHANGED simpleVars
  BY <1>1 DEF simpleVars, Simple!WorkersEndBeforeTheQueue
<1>2. CASE Simple!Owner
  <2>1. threads' = threads /\ \A w \in DOMAIN threads : threads[w].at = "ended"
    BY <1>2 DEF Simple!WorkersEndBeforeTheQueue, Simple!Owner, Simple!StartThread,
      Simple!FailToStart, Simple!Constructed, Simple!Submit, Simple!Destroy, Simple!Join,
      Simple!Free
  <2>. QED
    BY <2>1
<1>3. ASSUME NEW w \in DOMAIN threads, Simple!Worker(w) PROVE FALSE
  <2>1. owner' = owner /\ threads[w].at # "ended"
    BY <1>3 DEF Simple!Worker, Simple!CheckDone, Simple!TryPop, Simple!Yield,
      Simple!RunTask, Simple!Goto
  <2>. QED
    BY <2>1 DEF Simple!WorkersEndBeforeTheQueue
<1>. QED
  BY <1>1, <1>2, <1>3 DEF Simple!Next

\* A step in which the workers keep what they have changes nothing of that.
LEMMA SimpleStaysTaken ==
  ASSUME NEW p \in 0 .. submitted, Taken(p), Len(threads') = Len(threads),
         \A w \in 1 .. Len(threads) : threads'[w].task = threads[w].task,
         executed' = executed,
         owner' # "gone" => owner # "gone" /\ tasks' = tasks /\ submitted' = submitted
  PROVE  Taken(p)'
<1>1. owner' # "gone" => Len(tasks') = submitted' - p /\ \A i \in 1 .. Len(tasks') : tasks'[i] = p + i
  BY DEF Taken
<1>2. \A k \in 1 .. p : \/ \E i \in 1 .. Len(executed) : executed[i] = k
                        \/ \E w \in 1 .. Len(threads) : threads'[w].task = k
  BY DEF Taken
<1>3. \A v, w \in 1 .. Len(threads) :
        threads'[v].task = threads'[w].task /\ threads'[v].task # 0 => v = w
  BY DEF Taken
<1>4. \A i \in 1 .. Len(executed), w \in 1 .. Len(threads) : executed[i] # threads'[w].task
  BY DEF Taken
<1>5. \A w \in 1 .. Len(threads) : threads'[w].task \in 0 .. p
  BY DEF Taken
<1>6. /\ \A i \in 1 .. Len(executed) : executed[i] \in 1 .. p
      /\ \A i, j \in 1 .. Len(executed) : executed[i] = executed[j] => i = j
  BY DEF Taken
<1>. QED
  BY <1>1, <1>2, <1>3, <1>4, <1>5, <1>6 DEF Taken

\* A new worker has no task.
LEMMA SimpleStarts ==
  ASSUME SimpleInv, Simple!StartThread
  PROVE  SimpleInv'
<1> DEFINE x == [at |-> "check", task |-> 0]
           n == Len(threads)
<1>1. /\ threads' = Append(threads, x) /\ owner = "construct"
      /\ UNCHANGED <<tasks, stop, owner, submitted, executed>>
  BY DEF Simple!StartThread
<1>2. /\ IsSeq(threads') /\ Len(threads') = n + 1 /\ n \in Nat
      /\ threads'[n + 1] = x
      /\ \A i \in 1 .. n : threads'[i] = threads[i]
  BY <1>1, SeqAppend DEF SimpleInv
<1>3. \A i \in 1 .. Len(threads') : i \in 1 .. n \/ i = n + 1
  BY <1>2
<1>4. PICK p \in 0 .. submitted : Taken(p)
  BY DEF SimpleInv
<1>5. Taken(p)'
  <2> HIDE DEF n
  <2>1. x.task = 0 /\ p \in Nat /\ \A i \in 1 .. n : i \in 1 .. n + 1
    BY <1>2, <1>4 DEF SimpleInv
  <2> HIDE DEF x
  <2>2. \A w \in 1 .. Len(threads') : threads'[w].task \in 0 .. p
    BY <1>2, <1>3, <1>4, <2>1 DEF Taken, n
  <2>3. \A v, w \in 1 .. Len(threads') :
          threads'[v].task = threads'[w].task /\ threads'[v].task # 0 => v = w
    BY <1>2, <1>3, <1>4, <2>1 DEF Taken, n
  <2>4. \A i \in 1 .. Len(executed), w \in 1 .. Len(threads') : executed[i] # threads'[w].task
    BY <1>2, <1>3, <1>4, <2>1 DEF Taken, n
  <2>5. \A k \in 1 .. p : \/ \E i \in 1 .. Len(executed) : executed[i] = k
                          \/ \E w \in 1 .. Len(threads') : threads'[w].task = k
    BY <1>2, <1>4, <2>1 DEF Taken, n
  <2>. QED
    BY <1>1, <1>4, <2>2, <2>3, <2>4, <2>5 DEF Taken
<1>6. \A i \in 1 .. Len(threads') : IsWorker(threads'[i])
  <2>1. IsWorker(x)
    BY DEF IsWorker
  <2>. QED
    BY <1>2, <1>3, <2>1 DEF SimpleInv
<1>7. owner' = "construct"
  BY <1>1
<1>. QED
  BY <1>1, <1>2, <1>4, <1>5, <1>6, <1>7 DEF SimpleInv, Simple!WorkersEndBeforeTheQueue

\* The next task is the next number.
LEMMA SimpleSubmits ==
  ASSUME SimpleInv, Simple!Submit
  PROVE  SimpleInv'
<1> DEFINE n == Len(tasks)
<1>1. /\ tasks' = Append(tasks, submitted + 1) /\ submitted' = submitted + 1 /\ owner = "use"
      /\ UNCHANGED <<threads, stop, owner, executed>>
  BY DEF Simple!Submit
<1>2. /\ IsSeq(tasks') /\ Len(tasks') = n + 1 /\ n \in Nat
      /\ tasks'[n + 1] = submitted + 1
      /\ \A i \in 1 .. n : tasks'[i] = tasks[i]
  BY <1>1, SeqAppend DEF SimpleInv
<1>3. PICK p \in 0 .. submitted : Taken(p)
  BY DEF SimpleInv
<1>4. Taken(p)' /\ p \in 0 .. submitted'
  <2>1. submitted \in Nat /\ n = submitted - p /\ \A i \in 1 .. n : tasks[i] = p + i
    BY <1>1, <1>3 DEF Taken, SimpleInv
  <2>2. ASSUME NEW i \in 1 .. n + 1 PROVE tasks'[i] = p + i
    BY <1>2, <2>1
  <2>3. Len(tasks') = submitted' - p /\ p \in 0 .. submitted'
    BY <1>1, <1>2, <2>1
  <2>4. /\ \A i \in 1 .. Len(executed) : executed[i] \in 1 .. p
        /\ \A w \in 1 .. Len(threads) : threads[w].task \in 0 .. p
    BY <1>3 DEF Taken
  <2>. QED
    BY <1>1, <1>2, <1>3, <2>2, <2>3, <2>4 DEF Taken
<1>. QED
  BY <1>1, <1>2, <1>4 DEF SimpleInv, Simple!WorkersEndBeforeTheQueue

\* The other steps of the owner leave the threads alone.
LEMMA SimpleOwner ==
  ASSUME SimpleInv, Simple!Owner
  PROVE  SimpleInv'
<1>1. CASE Simple!StartThread \/ Simple!Submit
  BY <1>1, SimpleStarts, SimpleSubmits
<1>2. CASE Simple!FailToStart \/ Simple!Constructed \/ Simple!Destroy \/ Simple!Join \/ Simple!Free
  <2>1. /\ UNCHANGED <<threads, submitted, executed>>
        /\ owner' # "gone" => owner # "gone" /\ tasks' = tasks
        /\ tasks' = tasks \/ tasks' = <<>>
    BY <1>2 DEF Simple!FailToStart, Simple!Constructed, Simple!Destroy, Simple!Join, Simple!Free
  <2>2. PICK p \in 0 .. submitted : Taken(p)
    BY DEF SimpleInv
  <2>3. Taken(p)'
    BY <2>1, <2>2, SimpleStaysTaken
  <2>4. Simple!WorkersEndBeforeTheQueue'
    BY SimpleStepJoins DEF Simple!Next, SimpleInv
  <2>5. IsSeq(tasks')
    <3>1. <<>> \in Seq({})
      OBVIOUS
    <3>. QED
      BY <2>1, <3>1 DEF SimpleInv, IsSeq
  <2>. QED
    BY <2>1, <2>2, <2>3, <2>4, <2>5 DEF SimpleInv
<1>. QED
  BY <1>1, <1>2 DEF Simple!Owner

\* A worker takes the next task.
LEMMA SimplePops ==
  ASSUME SimpleInv, NEW w \in 1 .. Len(threads), Simple!TryPop(w)
  PROVE  SimpleInv'
<1> DEFINE x == [at |-> "run", task |-> Head(tasks)]
<1>1. /\ threads[w].at = "pop" /\ tasks # <<>>
      /\ threads' = [threads EXCEPT ![w] = x]
      /\ tasks' = Tail(tasks) /\ UNCHANGED <<stop, owner, submitted, executed>>
  BY DEF Simple!TryPop
<1>2. /\ IsSeq(threads') /\ Len(threads') = Len(threads) /\ threads'[w] = x
      /\ \A j \in 1 .. Len(threads) : j # w => threads'[j] = threads[j]
  <2>1. IsSeq(threads) /\ w \in 1 .. Len(threads)
    BY DEF SimpleInv
  <2>2. Replaces([threads EXCEPT ![w] = x], threads, w, x)
    BY <2>1, SeqReplace, Zenon
  <2>. QED
    BY <1>1, <2>2 DEF Replaces
<1>3. /\ IsSeq(tasks') /\ Len(tasks) \in Nat \ {0} /\ Len(tasks') = Len(tasks) - 1
      /\ \A i \in 1 .. Len(tasks) - 1 : tasks'[i] = tasks[i + 1]
      /\ Head(tasks) = tasks[1]
  <2>1. PICK U : tasks \in Seq(U)
    BY DEF SimpleInv, IsSeq
  <2>2. /\ Tail(tasks) \in Seq(U) /\ Len(Tail(tasks)) = Len(tasks) - 1 /\ Len(tasks) \in Nat \ {0}
        /\ \A i \in 1 .. Len(tasks) - 1 : Tail(tasks)[i] = tasks[i + 1]
        /\ Head(tasks) = tasks[1]
    BY <1>1, <2>1
  <2>. QED
    BY <1>1, <2>2 DEF IsSeq
<1>4. owner # "gone" /\ owner' # "gone" /\ owner' \notin {"free", "gone"}
  <2>1. Len(threads) \in Nat /\ w \in DOMAIN threads
    BY SeqDomain DEF SimpleInv
  <2>2. owner \notin {"free", "gone"}
    BY <1>1, <2>1 DEF SimpleInv, Simple!WorkersEndBeforeTheQueue
  <2>. QED
    BY <1>1, <2>2
<1>5. PICK p \in 0 .. submitted : Taken(p)
  BY DEF SimpleInv
<1>6. /\ submitted \in Nat /\ p \in Nat /\ Len(tasks) = submitted - p
      /\ \A i \in 1 .. Len(tasks) : tasks[i] = p + i
  BY <1>4, <1>5 DEF Taken, SimpleInv
<1>7. x.task = p + 1 /\ p + 1 \in 0 .. submitted /\ threads[w].task = 0
  <2>1. tasks[1] = p + 1
    BY <1>3, <1>6
  <2>2. x.task = p + 1
    BY <1>3, <2>1
  <2>3. threads[w].task = 0
    BY <1>1 DEF SimpleInv, IsWorker
  <2>. QED
    BY <1>3, <1>6, <2>2, <2>3
<1>8. IsWorker(x)
  BY <1>6, <1>7 DEF IsWorker
<1>. HIDE DEF x
<1>9. \A j \in 1 .. Len(threads) : threads'[j].task = IF j = w THEN p + 1 ELSE threads[j].task
  BY <1>2, <1>7
<1>10. PICK q \in 0 .. submitted : q = p + 1
  BY <1>7
<1>11. Taken(q)'
  <2>1. Len(tasks') = submitted' - q /\ \A i \in 1 .. Len(tasks') : tasks'[i] = q + i
    <3>1. Len(tasks') = submitted' - q
      BY <1>1, <1>3, <1>6, <1>10
    <3>2. ASSUME NEW i \in 1 .. Len(tasks') PROVE tasks'[i] = q + i
      <4>1. i \in 1 .. Len(tasks) - 1 /\ i + 1 \in 1 .. Len(tasks)
        BY <1>3
      <4>2. tasks'[i] = tasks[i + 1] /\ tasks[i + 1] = p + (i + 1)
        BY <1>3, <1>6, <4>1
      <4>. QED
        BY <1>6, <1>10, <4>1, <4>2
    <3>. QED
      BY <3>1, <3>2
  <2>2. \A i \in 1 .. Len(executed) : executed[i] \in 1 .. q /\ executed[i] # q
    BY <1>5, <1>6, <1>10 DEF Taken
  <2>3. \A j \in 1 .. Len(threads) : threads[j].task \in 0 .. p /\ threads[j].task # q
    BY <1>5, <1>6, <1>10 DEF Taken
  <2>4. \A j \in 1 .. Len(threads) : threads'[j].task \in 0 .. q
    BY <1>6, <1>9, <1>10, <2>3
  <2>5. \A u, v \in 1 .. Len(threads) :
          threads'[u].task = threads'[v].task /\ threads'[u].task # 0 => u = v
    BY <1>5, <1>9, <1>10, <2>3 DEF Taken
  <2>6. \A i \in 1 .. Len(executed), v \in 1 .. Len(threads) : executed[i] # threads'[v].task
    BY <1>5, <1>9, <1>10, <2>2 DEF Taken
  <2>7. ASSUME NEW k \in 1 .. q
        PROVE  \/ \E i \in 1 .. Len(executed) : executed[i] = k
               \/ \E v \in 1 .. Len(threads) : threads'[v].task = k
    <3>1. CASE k = q
      BY <1>9, <1>10, <3>1
    <3>2. CASE k # q
      <4>1. k \in 1 .. p /\ k # threads[w].task
        BY <1>6, <1>7, <1>10, <3>2
      <4>. QED
        BY <1>5, <1>9, <4>1 DEF Taken
    <3>. QED
      BY <3>1, <3>2
  <2>8. \A i, j \in 1 .. Len(executed) : executed[i] = executed[j] => i = j
    BY <1>5 DEF Taken
  <2>. QED
    BY <1>1, <1>2, <2>1, <2>2, <2>4, <2>5, <2>6, <2>7, <2>8 DEF Taken
<1>12. \A v \in 1 .. Len(threads') : IsWorker(threads'[v])
  BY <1>2, <1>8 DEF SimpleInv
<1>. QED
  BY <1>1, <1>2, <1>3, <1>4, <1>11, <1>12 DEF SimpleInv, Simple!WorkersEndBeforeTheQueue

\* It runs it, and has it no more.
LEMMA SimpleRuns ==
  ASSUME SimpleInv, NEW w \in 1 .. Len(threads), Simple!RunTask(w)
  PROVE  SimpleInv'
<1> DEFINE x == [at |-> "check", task |-> 0]
           n == Len(executed)
           k == threads[w].task
<1>1. /\ threads[w].at = "run" /\ threads' = [threads EXCEPT ![w] = x]
      /\ executed' = Append(executed, k) /\ UNCHANGED <<tasks, stop, owner, submitted>>
  BY DEF Simple!RunTask
<1>2. /\ IsSeq(threads') /\ Len(threads') = Len(threads) /\ threads'[w] = x
      /\ \A j \in 1 .. Len(threads) : j # w => threads'[j] = threads[j]
  <2>1. IsSeq(threads) /\ w \in 1 .. Len(threads)
    BY DEF SimpleInv
  <2>2. Replaces([threads EXCEPT ![w] = x], threads, w, x)
    BY <2>1, SeqReplace, Zenon
  <2>. QED
    BY <1>1, <2>2 DEF Replaces
<1>3. /\ IsSeq(executed') /\ Len(executed') = n + 1 /\ n \in Nat
      /\ executed'[n + 1] = k
      /\ \A i \in 1 .. n : executed'[i] = executed[i]
  BY <1>1, SeqAppend DEF SimpleInv
<1>4. owner' \notin {"free", "gone"}
  <2>1. Len(threads) \in Nat /\ w \in DOMAIN threads
    BY SeqDomain DEF SimpleInv
  <2>2. owner \notin {"free", "gone"}
    BY <1>1, <2>1 DEF SimpleInv, Simple!WorkersEndBeforeTheQueue
  <2>. QED
    BY <1>1, <2>2
<1>5. PICK p \in 0 .. submitted : Taken(p)
  BY DEF SimpleInv
<1>6. IsWorker(x) /\ x.task = 0 /\ k # 0 /\ k \in 1 .. p /\ p \in Nat
  <2>1. k # 0
    BY <1>1 DEF SimpleInv, IsWorker
  <2>2. k \in 0 .. p
    BY <1>5 DEF Taken
  <2>. QED
    BY <2>1, <2>2 DEF IsWorker, SimpleInv
<1>. HIDE DEF x
<1>7. \A j \in 1 .. Len(threads) : threads'[j].task = IF j = w THEN 0 ELSE threads[j].task
  BY <1>2, <1>6
<1>8. \A j \in 1 .. Len(threads) : j # w => threads[j].task # k
  BY <1>5, <1>6 DEF Taken
<1>9. \A i \in 1 .. n : executed[i] # k /\ executed[i] # 0
  BY <1>5, <1>6 DEF Taken
<1>. HIDE DEF k, n
<1>10. Taken(p)'
  <2>1. \A i \in 1 .. Len(executed') : i \in 1 .. n \/ i = n + 1
    BY <1>3
  <2>2. n + 1 \in 1 .. Len(executed') /\ \A i \in 1 .. n : i \in 1 .. Len(executed')
    BY <1>3
  <2>3. \A i \in 1 .. Len(executed') : executed'[i] \in 1 .. p
    BY <1>3, <1>5, <1>6, <2>1 DEF Taken, n
  <2>4. \A i, j \in 1 .. Len(executed') : executed'[i] = executed'[j] => i = j
    BY <1>3, <1>5, <1>9, <2>1 DEF Taken, n
  <2>5. \A j \in 1 .. Len(threads) : threads'[j].task \in 0 .. p
    BY <1>5, <1>6, <1>7 DEF Taken
  <2>6. \A u, v \in 1 .. Len(threads) :
          threads'[u].task = threads'[v].task /\ threads'[u].task # 0 => u = v
    BY <1>5, <1>7 DEF Taken
  <2>7. \A i \in 1 .. Len(executed'), v \in 1 .. Len(threads) : executed'[i] # threads'[v].task
    <3> SUFFICES ASSUME NEW i \in 1 .. Len(executed'), NEW v \in 1 .. Len(threads)
                 PROVE  executed'[i] # threads'[v].task
      OBVIOUS
    <3>1. CASE i = n + 1
      BY <1>3, <1>6, <1>7, <1>8, <3>1
    <3>2. CASE i \in 1 .. n
      BY <1>3, <1>5, <1>7, <1>9, <3>2 DEF Taken, n
    <3>. QED
      BY <2>1, <3>1, <3>2
  <2>8. ASSUME NEW j \in 1 .. p
        PROVE  \/ \E i \in 1 .. Len(executed') : executed'[i] = j
               \/ \E v \in 1 .. Len(threads) : threads'[v].task = j
    <3>1. CASE j = k
      BY <1>3, <2>2, <3>1
    <3>2. CASE j # k
      <4>1. CASE \E i \in 1 .. n : executed[i] = j
        BY <1>3, <2>2, <4>1
      <4>2. CASE \E v \in 1 .. Len(threads) : threads[v].task = j
        BY <1>7, <3>2, <4>2 DEF k
      <4>. QED
        BY <1>5, <4>1, <4>2 DEF Taken, n
    <3>. QED
      BY <3>1, <3>2
  <2>9. owner' # "gone" => Len(tasks') = submitted' - p /\ \A i \in 1 .. Len(tasks') : tasks'[i] = p + i
    BY <1>1, <1>5 DEF Taken
  <2>. QED
    BY <1>2, <2>3, <2>4, <2>5, <2>6, <2>7, <2>8, <2>9 DEF Taken
<1>11. \A v \in 1 .. Len(threads') : IsWorker(threads'[v])
  BY <1>2, <1>6 DEF SimpleInv
<1>. QED
  BY <1>1, <1>2, <1>3, <1>4, <1>5, <1>10, <1>11 DEF SimpleInv, Simple!WorkersEndBeforeTheQueue

LEMMA SimpleStep == SimpleInv /\ [Simple!Next]_simpleVars => SimpleInv'
<1> SUFFICES ASSUME SimpleInv, [Simple!Next]_simpleVars PROVE SimpleInv'
  OBVIOUS
<1>1. CASE UNCHANGED simpleVars
  BY <1>1 DEF simpleVars, SimpleInv, Taken, Simple!WorkersEndBeforeTheQueue
<1>2. CASE Simple!Owner
  BY <1>2, SimpleOwner
<1>3. ASSUME NEW w \in DOMAIN threads, Simple!Worker(w) PROVE SimpleInv'
  <2>1. w \in 1 .. Len(threads)
    BY SeqDomain DEF SimpleInv
  <2>2. ASSUME Simple!CheckDone(w) \/ Simple!Yield(w) PROVE SimpleInv'
    <3>1. PICK at : /\ threads[w].at # "run" /\ at # "run"
                    /\ threads' = [threads EXCEPT ![w].at = at]
                    /\ UNCHANGED <<tasks, stop, owner, submitted, executed>>
      BY <2>2 DEF Simple!CheckDone, Simple!Yield, Simple!Goto
    <3>2. threads' = [threads EXCEPT ![w] = [at |-> at, task |-> threads[w].task]]
      <4>1. threads[w] = [at |-> threads[w].at, task |-> threads[w].task]
        BY <2>1 DEF SimpleInv, IsWorker
      <4>2. [threads[w] EXCEPT !.at = at] = [at |-> at, task |-> threads[w].task]
        BY <4>1
      <4>. QED
        BY <3>1, <4>2
    <3> DEFINE x == [at |-> at, task |-> threads[w].task]
    <3>3. /\ IsSeq(threads') /\ Len(threads') = Len(threads) /\ threads'[w] = x
          /\ \A j \in 1 .. Len(threads) : j # w => threads'[j] = threads[j]
      <4>1. IsSeq(threads) /\ w \in 1 .. Len(threads)
        BY <2>1 DEF SimpleInv
      <4>2. Replaces([threads EXCEPT ![w] = x], threads, w, x)
        BY <4>1, SeqReplace, Zenon
      <4>. QED
        BY <3>2, <4>2 DEF Replaces
    <3>4. x.task = threads[w].task /\ IsWorker(x)
      <4>1. threads[w].task = 0
        BY <2>1, <3>1 DEF SimpleInv, IsWorker
      <4>. QED
        BY <3>1, <4>1 DEF IsWorker
    <3> HIDE DEF x
    <3>5. \A j \in 1 .. Len(threads) : threads'[j].task = threads[j].task
      BY <3>3, <3>4
    <3>6. \A v \in 1 .. Len(threads') : IsWorker(threads'[v])
      BY <3>3, <3>4 DEF SimpleInv
    <3>7. PICK p \in 0 .. submitted : Taken(p)
      BY DEF SimpleInv
    <3>8. Taken(p)'
      BY <3>1, <3>3, <3>5, <3>7, SimpleStaysTaken
    <3>9. Simple!WorkersEndBeforeTheQueue'
      BY <1>3, SimpleStepJoins DEF Simple!Next, SimpleInv
    <3>. QED
      BY <3>1, <3>3, <3>6, <3>7, <3>8, <3>9 DEF SimpleInv
  <2>. QED
    BY <1>3, <2>1, <2>2, SimplePops, SimpleRuns DEF Simple!Worker
<1>. QED
  BY <1>1, <1>2, <1>3 DEF Simple!Next

\* When nobody has a task in hand, the tasks executed are the first ones.
LEMMA SimpleInvSuffices == SimpleInv => Simple!TasksRunOnce
<1> SUFFICES ASSUME SimpleInv PROVE Simple!TasksRunOnce
  OBVIOUS
<1>1. /\ DOMAIN threads = 1 .. Len(threads) /\ DOMAIN tasks = 1 .. Len(tasks)
      /\ DOMAIN executed = 1 .. Len(executed)
  BY SeqDomain DEF SimpleInv
<1>2. PICK p \in 0 .. submitted : Taken(p)
  BY DEF SimpleInv
<1>3. \A i, j \in DOMAIN executed : executed[i] = executed[j] => i = j
  BY <1>1, <1>2 DEF Taken
<1>4. ASSUME NEW k \in 1 .. submitted, owner # "gone"
      PROVE  k \in Simple!Executed \cup Simple!InHand \/ \E i \in DOMAIN tasks : tasks[i] = k
  <2>1. CASE k \in 1 .. p
    <3>1. k # 0
      BY <2>1 DEF SimpleInv
    <3>2. CASE \E i \in 1 .. Len(executed) : executed[i] = k
      BY <1>1, <3>2 DEF Simple!Executed
    <3>3. CASE \E w \in 1 .. Len(threads) : threads[w].task = k
      BY <1>1, <3>1, <3>3 DEF Simple!InHand
    <3>. QED
      BY <1>2, <2>1, <3>2, <3>3 DEF Taken
  <2>2. CASE k \notin 1 .. p
    <3>1. k - p \in 1 .. submitted - p /\ p + (k - p) = k
      BY <2>2 DEF SimpleInv
    <3>2. k - p \in 1 .. Len(tasks) /\ tasks[k - p] = p + (k - p)
      BY <1>2, <1>4, <3>1 DEF Taken
    <3>. QED
      BY <1>1, <3>1, <3>2
  <2>. QED
    BY <2>1, <2>2
<1>5. ASSUME owner = "gone" PROVE Simple!Executed = 1 .. p
  <2>1. \A w \in 1 .. Len(threads) : threads[w].task = 0
    BY <1>1, <1>5 DEF SimpleInv, IsWorker, Simple!WorkersEndBeforeTheQueue
  <2>2. ASSUME NEW k \in 1 .. p PROVE \E i \in 1 .. Len(executed) : executed[i] = k
    <3>1. k # 0
      BY DEF SimpleInv
    <3>. QED
      BY <1>2, <2>1, <3>1 DEF Taken
  <2>3. \A i \in 1 .. Len(executed) : executed[i] \in 1 .. p
    BY <1>2 DEF Taken
  <2>. QED
    BY <1>1, <2>2, <2>3 DEF Simple!Executed
<1>. QED
  BY <1>2, <1>3, <1>4, <1>5 DEF Simple!TasksRunOnce

-----------------------------------------------------------------------------
(* The algorithms with blocks *)

\* Where the first b blocks end, and the length of block b.
Edge(b) == b * Block!block_size
Size(b) == IF b = Block!Own THEN length - Edge(b - 1) ELSE Block!block_size
Blocks == 1 .. Block!Own

\* The blocks are next to each other and make the range.
LEMMA BlocksMakeTheRange ==
  ASSUME length \in 1 .. MaxLength, hardware \in 0 .. MaxHardware
  PROVE  /\ Block!Own \in Nat \ {0} /\ Blocks \subseteq Block!AllBlocks /\ Edge(0) = 0
         /\ \A b \in Blocks : /\ Edge(b - 1) \in Nat /\ Size(b) \in Nat
                              /\ Block!First(b) = Edge(b - 1) + 1
                              /\ Block!Last(b) = Edge(b - 1) + Size(b)
                              /\ Edge(b - 1) + Size(b) <= length
                              /\ b # Block!Own => Edge(b) = Edge(b - 1) + Size(b)
         /\ Edge(Block!Own - 1) + Size(Block!Own) = length
<1> DEFINE n == Block!num_threads
           s == Block!block_size
<1>1. Block!max_threads \in Nat \ {0}
  <2>1. \A q \in Int : q <= 0 => MinPerThread * q <= 0
    BY BlockAssumption
  <2>. QED
    BY <2>1, BlockAssumption DEF Block!max_threads
<1>2. n \in 1 .. MaxHardware + 2
  BY <1>1, BlockAssumption DEF Block!num_threads, Block!Least
<1>3. s \in Nat /\ n * s <= length
  <2>1. n \in Nat \ {0} /\ length \in Nat
    BY <1>2, BlockAssumption
  <2>. HIDE DEF n
  <2>2. length \div n \in Nat /\ n * (length \div n) <= length
    BY <2>1
  <2>. QED
    BY <2>2 DEF Block!block_size, n
<1>4. Blocks = 1 .. n /\ Block!Own = n
  BY DEF Blocks, Block!Own
<1>5. \A b \in 1 .. n : /\ Block!First(b) = (b - 1) * s + 1
                        /\ Block!Last(b) = IF b = n THEN length ELSE b * s
  BY <1>4 DEF Block!First, Block!Last
<1>6. \A b \in 0 .. n + 1 : Edge(b) = b * s
  BY DEF Edge
<1>7. \A b \in 1 .. n : Size(b) = IF b = n THEN length - (b - 1) * s ELSE s
  BY <1>2, <1>4, <1>6 DEF Size
<1>8. n \in Nat \ {0} /\ s \in Nat /\ length \in Nat /\ n * s <= length
  BY <1>2, <1>3, BlockAssumption
<1>. HIDE DEF n, s
<1>9. ASSUME NEW b \in 1 .. n
      PROVE  /\ b * s \in Nat /\ (b - 1) * s \in Nat /\ b * s = (b - 1) * s + s
             /\ b * s <= n * s
  <2>1. b * s \in Nat /\ (b - 1) * s \in Nat /\ b * s = (b - 1) * s + s
    BY <1>8
  <2>2. (n - b) * s >= 0 /\ n * s = b * s + (n - b) * s
    BY <1>8
  <2>. QED
    BY <2>1, <2>2, <1>8
<1>10. ASSUME NEW b \in 1 .. n
       PROVE  /\ Edge(b - 1) \in Nat /\ Size(b) \in Nat
              /\ Block!First(b) = Edge(b - 1) + 1
              /\ Block!Last(b) = Edge(b - 1) + Size(b)
              /\ Edge(b - 1) + Size(b) <= length
              /\ b # n => Edge(b) = Edge(b - 1) + Size(b)
  <2>1. Edge(b - 1) = (b - 1) * s /\ Edge(b) = b * s
    BY <1>6, <1>8
  <2>2. n * s \in Nat /\ b * s <= length
    BY <1>8, <1>9
  <2>3. CASE b = n
    BY <1>5, <1>7, <1>8, <1>9, <2>1, <2>2, <2>3
  <2>4. CASE b # n
    BY <1>5, <1>7, <1>8, <1>9, <2>1, <2>2, <2>4
  <2>. QED
    BY <2>3, <2>4
<1>11. Edge(0) = 0 /\ 0 * s = 0
  BY <1>6, <1>8
<1>12. n \in 1 .. n /\ Edge(n - 1) + Size(n) = length
  <2>1. Edge(n - 1) = (n - 1) * s /\ n \in 1 .. n
    BY <1>6, <1>8
  <2>. QED
    BY <1>7, <1>8, <1>9, <2>1
<1>13. Blocks \subseteq Block!AllBlocks
  BY <1>2, <1>4, BlockAssumption DEF Block!AllBlocks
<1>14. Block!Own \in Nat \ {0} /\ Edge(Block!Own - 1) + Size(Block!Own) = length
  BY <1>4, <1>8, <1>12
<1>. QED
  BY <1>4, <1>10, <1>11, <1>13, <1>14

Results == {"none", "run", "ready", "broken", "ended", "ended broken"}

\* s is the beginning of a block after the first e elements, and does not throw.
Part(s, e, size) == /\ IsSeq(s) /\ Len(s) <= size
                    /\ \A k \in 1 .. Len(s) : s[k] = e + k /\ s[k] # bad

\* The threads: who has a result has worked on all of its block.
WorkInv ==
  /\ thread \in [Block!AllBlocks -> Results] /\ DOMAIN taken = Block!AllBlocks
  /\ \A b \in Block!AllBlocks :
       /\ thread[b] \in Results
       /\ thread[b] # "none" => b \in Blocks /\ b # Block!Own
       /\ thread[b] \in {"ready", "ended"} => Len(taken[b]) = Size(b)
       /\ thread[b] \in {"broken", "ended broken"} => bad # 0
       /\ IF b \in Blocks THEN Part(taken[b], Edge(b - 1), Size(b)) ELSE taken[b] = <<>>

\* The results added are those of the first e elements, in their order.
Added(s, e) == /\ IsSeq(s) /\ Len(s) = e
               /\ \A k \in 1 .. Len(s) : s[k] = k /\ k # bad

AllAdded == bad = 0 /\ total = [k \in 1 .. length |-> k]

CallerInv ==
  /\ caller \in {"spawn", "collect", "join", "returned", "thrown", "terminated"}
  /\ index \in 0 .. Block!Own + 1
  /\ caller = "spawn" => index \in 0 .. Block!Own - 1 /\ Added(total, 0)
  /\ caller = "collect" => \/ \E i \in Blocks : index = i /\ Added(total, Edge(i - 1))
                           \/ index = Block!Own + 1 /\ Added(total, length)
  /\ caller = "collect" => Len(taken[Block!Own]) = Size(Block!Own)
  /\ caller = "returned" => AllAdded
  /\ caller \in {"spawn", "collect", "returned"} => ~failed
  /\ caller \in {"join", "thrown", "terminated"} => bad # 0 \/ failed
  /\ caller = "terminated" => algorithm = "2.8" /\ Block!Started # {}

\* Of nothing there are no blocks.
NothingToDo == /\ caller = "returned" /\ index = 0 /\ total = <<>> /\ ~failed
               /\ thread = [b \in Block!AllBlocks |-> "none"]
               /\ taken = [b \in Block!AllBlocks |-> <<>>]

BlockInv ==
  /\ length \in 0 .. MaxLength /\ hardware \in 0 .. MaxHardware /\ bad \in 0 .. length
  /\ Block!NoThreadOutlivesTheCall
  /\ length = 0 => NothingToDo
  /\ length # 0 => WorkInv /\ CallerInv

LEMMA BlocksStay ==
  ASSUME length' = length, hardware' = hardware
  PROVE  /\ Block!Own' = Block!Own /\ Blocks' = Blocks
         /\ \A b \in Int : Edge(b)' = Edge(b) /\ Size(b)' = Size(b)
<1>1. Block!Own' = Block!Own /\ Block!block_size' = Block!block_size
  BY DEF Block!Own, Block!num_threads, Block!Least, Block!max_threads, Block!block_size
<1>2. Blocks' = Blocks /\ \A b \in Int : Edge(b)' = Edge(b)
  BY <1>1 DEF Blocks, Edge
<1>3. ASSUME NEW b \in Int PROVE Size(b)' = Size(b)
  BY <1>1 DEF Size, Edge
<1>. QED
  BY <1>1, <1>2, <1>3

LEMMA BlockInit == Block!Init => BlockInv
<1> SUFFICES ASSUME Block!Init PROVE BlockInv
  OBVIOUS
<1>1. /\ length \in 0 .. MaxLength /\ hardware \in 0 .. MaxHardware /\ bad \in 0 .. length
      /\ caller = IF length = 0 THEN "returned" ELSE "spawn"
      /\ index = 0 /\ total = <<>> /\ ~failed
      /\ thread = [b \in Block!AllBlocks |-> "none"]
      /\ taken = [b \in Block!AllBlocks |-> <<>>]
  BY DEF Block!Init
<1>2. Block!NoThreadOutlivesTheCall
  BY <1>1 DEF Block!NoThreadOutlivesTheCall, Block!Started
<1>3. ASSUME length # 0 PROVE WorkInv /\ CallerInv
  <2>1. length \in 1 .. MaxLength
    BY <1>1, <1>3, BlockAssumption
  <2>2. \A b \in Blocks : Part(<<>>, Edge(b - 1), Size(b))
    <3>1. <<>> \in Seq({}) /\ Len(<<>>) = 0
      OBVIOUS
    <3>. QED
      BY <1>1, <2>1, <3>1, BlocksMakeTheRange DEF Part, IsSeq
  <2>3. WorkInv
    BY <1>1, <2>2 DEF WorkInv, Results
  <2>4. Added(total, 0)
    <3>1. <<>> \in Seq({}) /\ Len(<<>>) = 0
      OBVIOUS
    <3>. QED
      BY <1>1, <3>1 DEF Added, IsSeq
  <2>5. CallerInv
    BY <1>1, <1>3, <2>1, <2>4, BlocksMakeTheRange DEF CallerInv
  <2>. QED
    BY <2>3, <2>5
<1>. QED
  BY <1>1, <1>2, <1>3 DEF BlockInv, NothingToDo

LEMMA BlocksHere ==
  BlockInv /\ length # 0 => Block!Own \in Nat \ {0} /\ Blocks \subseteq Block!AllBlocks
BY BlocksMakeTheRange, BlockAssumption DEF BlockInv

LEMMA BlocksStayHere ==
  BlockInv /\ length # 0 /\ length' = length /\ hardware' = hardware =>
    /\ Block!Own' = Block!Own /\ Blocks' = Blocks /\ Block!AllBlocks' = Block!AllBlocks
    /\ \A c \in Blocks : Edge(c - 1)' = Edge(c - 1) /\ Size(c)' = Size(c)
BY BlocksStay, BlocksHere DEF Blocks, Block!AllBlocks

\* A block is worked on in order, to its end.
LEMMA BlockTakes ==
  ASSUME BlockInv, WorkInv, length # 0, NEW b \in Blocks, Block!Take(b),
         thread[b] \notin {"ready", "ended"},
         UNCHANGED <<length, hardware, bad, thread>>
  PROVE  WorkInv'
<1> DEFINE s == taken[b]
           x == Block!First(b) + Len(s)
<1>1. /\ Block!Own \in Nat \ {0} /\ Blocks \subseteq Block!AllBlocks
      /\ Edge(b - 1) \in Nat /\ Size(b) \in Nat
      /\ Block!First(b) = Edge(b - 1) + 1 /\ Block!Last(b) = Edge(b - 1) + Size(b)
  BY BlocksMakeTheRange, BlockAssumption DEF BlockInv
<1>2. Part(s, Edge(b - 1), Size(b))
  BY <1>1 DEF WorkInv
<1>3. /\ x <= Block!Last(b) /\ x # bad
      /\ taken' = [taken EXCEPT ![b] = Append(taken[b], x)]
  BY DEF Block!Take, Block!Has, Block!Current
<1>4. /\ IsSeq(Append(s, x)) /\ Len(Append(s, x)) = Len(s) + 1 /\ Len(s) \in Nat
      /\ \A i \in 1 .. Len(s) : Append(s, x)[i] = s[i]
      /\ Append(s, x)[Len(s) + 1] = x
  BY <1>2, SeqAppend DEF Part
<1>5. Part(Append(s, x), Edge(b - 1), Size(b))
  <2>1. x = Edge(b - 1) + (Len(s) + 1) /\ Len(s) + 1 <= Size(b)
    BY <1>1, <1>3, <1>4
  <2> HIDE DEF x
  <2>2. \A i \in 1 .. Len(Append(s, x)) : i \in 1 .. Len(s) \/ i = Len(s) + 1
    BY <1>4
  <2>. QED
    BY <1>2, <1>3, <1>4, <2>1, <2>2 DEF Part
<1>. HIDE DEF x
<1>6. /\ taken'[b] = Append(s, x) /\ DOMAIN taken' = DOMAIN taken
      /\ \A c \in Block!AllBlocks : c # b => taken'[c] = taken[c]
  BY <1>1, <1>3 DEF WorkInv
<1>7. /\ Block!Own' = Block!Own /\ Blocks' = Blocks /\ Block!AllBlocks' = Block!AllBlocks
      /\ \A c \in Blocks : Edge(c - 1)' = Edge(c - 1) /\ Size(c)' = Size(c)
  BY BlocksStayHere, Zenon
<1>8. ASSUME NEW c \in Block!AllBlocks
      PROVE  /\ thread'[c] \in Results
             /\ thread'[c] # "none" => c \in Blocks' /\ c # Block!Own'
             /\ thread'[c] \in {"ready", "ended"} => Len(taken'[c]) = Size(c)'
             /\ thread'[c] \in {"broken", "ended broken"} => bad' # 0
             /\ IF c \in Blocks' THEN Part(taken[c], Edge(c - 1), Size(c))' ELSE taken'[c] = <<>>
  <2>1. CASE c = b
    <3>1. Part(taken[c], Edge(c - 1), Size(c))'
      BY <1>5, <1>6, <1>7, <2>1 DEF Part
    <3>. QED
      BY <1>7, <2>1, <3>1 DEF WorkInv
  <2>2. CASE c # b
    <3>1. taken'[c] = taken[c] /\ thread'[c] = thread[c]
      BY <1>6, <2>2
    <3>2. c \in Blocks => Part(taken[c], Edge(c - 1), Size(c))'
      BY <1>7, <3>1 DEF WorkInv, Part
    <3>3. c \notin Blocks => taken[c] = <<>>
      BY DEF WorkInv
    <3>4. /\ thread[c] # "none" => c \in Blocks /\ c # Block!Own
          /\ thread[c] \in {"ready", "ended"} => Len(taken[c]) = Size(c)
          /\ thread[c] \in {"broken", "ended broken"} => bad # 0
          /\ thread[c] \in Results
      BY DEF WorkInv
    <3>. QED
      BY <1>7, <3>1, <3>2, <3>3, <3>4
  <2>. QED
    BY <2>1, <2>2
<1>. QED
  BY <1>6, <1>7, <1>8 DEF WorkInv

\* A thread starts, gets a result when its block is done, or ends.
LEMMA BlockChanges ==
  ASSUME BlockInv, WorkInv, length # 0, NEW b \in Blocks, NEW r \in Results, b # Block!Own,
         thread' = [thread EXCEPT ![b] = r],
         r \in {"ready", "ended"} => Len(taken[b]) = Size(b),
         r \in {"broken", "ended broken"} => bad # 0,
         UNCHANGED <<length, hardware, bad, taken>>
  PROVE  WorkInv'
<1>1. Block!Own \in Nat \ {0} /\ Blocks \subseteq Block!AllBlocks
  BY BlocksHere
<1>2. /\ thread'[b] = r /\ thread' \in [Block!AllBlocks -> Results]
      /\ \A c \in Block!AllBlocks : c # b => thread'[c] = thread[c]
  BY <1>1 DEF WorkInv
<1>3. /\ Block!Own' = Block!Own /\ Blocks' = Blocks /\ Block!AllBlocks' = Block!AllBlocks
      /\ \A c \in Blocks : Edge(c - 1)' = Edge(c - 1) /\ Size(c)' = Size(c)
  BY BlocksStayHere, Zenon
<1>4. ASSUME NEW c \in Block!AllBlocks
      PROVE  /\ thread'[c] \in Results
             /\ thread'[c] # "none" => c \in Blocks' /\ c # Block!Own'
             /\ thread'[c] \in {"ready", "ended"} => Len(taken'[c]) = Size(c)'
             /\ thread'[c] \in {"broken", "ended broken"} => bad' # 0
             /\ IF c \in Blocks' THEN Part(taken[c], Edge(c - 1), Size(c))' ELSE taken'[c] = <<>>
  <2>1. c \in Blocks => Part(taken[c], Edge(c - 1), Size(c))'
    BY <1>3 DEF WorkInv, Part
  <2>2. c \notin Blocks => taken[c] = <<>>
    BY DEF WorkInv
  <2>3. CASE c = b
    BY <1>2, <1>3, <2>1, <2>3
  <2>4. CASE c # b
    <3>1. /\ thread[c] # "none" => c \in Blocks /\ c # Block!Own
          /\ thread[c] \in {"ready", "ended"} => Len(taken[c]) = Size(c)
          /\ thread[c] \in {"broken", "ended broken"} => bad # 0
          /\ thread[c] \in Results
      BY DEF WorkInv
    <3>2. thread'[c] = thread[c]
      BY <1>2, <2>4
    <3>. QED
      BY <1>3, <2>1, <2>2, <3>1, <3>2
  <2>. QED
    BY <2>3, <2>4
<1>. QED
  BY <1>2, <1>3, <1>4 DEF WorkInv

\* What the caller has and is to do stays as it was.
LEMMA AddedStays ==
  ASSUME BlockInv, length # 0, UNCHANGED <<length, hardware, bad, index, total>>
  PROVE  /\ Added(total, 0) => Added(total, 0)'
         /\ (\E i \in Blocks : index = i /\ Added(total, Edge(i - 1))) =>
              (\E i \in Blocks : index = i /\ Added(total, Edge(i - 1)))'
         /\ index = Block!Own + 1 /\ Added(total, length) =>
              (index = Block!Own + 1 /\ Added(total, length))'
<1>1. /\ Block!Own' = Block!Own /\ Blocks' = Blocks
      /\ \A c \in Blocks : Edge(c - 1)' = Edge(c - 1)
  BY BlocksStayHere
<1>2. (Added(total, 0) => Added(total, 0)') /\ (Added(total, length) => Added(total, length)')
  BY DEF Added
<1>3. ASSUME NEW i \in Blocks, index = i, Added(total, Edge(i - 1))
      PROVE  index' = i /\ Added(total, Edge(i - 1))'
  <2>1. Edge(i - 1)' = Edge(i - 1)
    BY <1>1
  <2>. QED
    BY <1>3, <2>1 DEF Added
<1>. QED
  BY <1>1, <1>2, <1>3

LEMMA CallerStays ==
  ASSUME BlockInv, CallerInv, length # 0, caller # "terminated",
         caller = "collect" => taken'[Block!Own] = taken[Block!Own],
         UNCHANGED <<algorithm, length, hardware, bad, caller, index, total, failed>>
  PROVE  CallerInv'
<1>1. Block!Own' = Block!Own /\ Size(Block!Own)' = Size(Block!Own)
  BY BlocksStayHere, BlocksHere DEF Blocks
<1>2. /\ caller' = "collect" => (\/ \E i \in Blocks : index = i /\ Added(total, Edge(i - 1))
                                 \/ index = Block!Own + 1 /\ Added(total, length))'
      /\ caller' = "spawn" => Added(total, 0)'
  BY AddedStays DEF CallerInv
<1>3. AllAdded => AllAdded'
  BY DEF AllAdded
<1>. QED
  BY <1>1, <1>2, <1>3 DEF CallerInv

\* An exception leaves the function.
LEMMA CallerUnwinds ==
  ASSUME BlockInv, CallerInv, length # 0, Block!Unwind, bad # 0 \/ failed',
         UNCHANGED <<algorithm, length, hardware, bad, index, thread>>
  PROVE  CallerInv'
<1>1. Block!Own' = Block!Own
  BY BlocksStayHere
<1>2. /\ caller' \in {"join", "thrown", "terminated"}
      /\ caller' = "terminated" => algorithm = "2.8" /\ Block!Started # {}
  BY DEF Block!Unwind
<1>3. Block!Started' = Block!Started
  BY DEF Block!Started, Block!AllBlocks
<1>4. index' \in 0 .. Block!Own' + 1
  BY <1>1 DEF CallerInv
<1>5. bad' # 0 \/ failed'
  OBVIOUS
<1>. QED
  BY <1>2, <1>3, <1>4, <1>5 DEF CallerInv

LEMMA BlockWorkers ==
  ASSUME BlockInv, WorkInv, CallerInv, length # 0, caller # "terminated",
         NEW b \in Block!AllBlocks, Block!Worker(b)
  PROVE  WorkInv' /\ CallerInv'
<1>1. thread[b] \in {"run", "ready", "broken"}
  BY DEF Block!Worker, Block!WorkOn, Block!Finish, Block!Throw, Block!End
<1>2. b \in Blocks /\ b # Block!Own
  BY <1>1 DEF WorkInv
<1>3. /\ Edge(b - 1) \in Nat /\ Size(b) \in Nat
      /\ Block!First(b) = Edge(b - 1) + 1 /\ Block!Last(b) = Edge(b - 1) + Size(b)
  BY <1>2, BlocksMakeTheRange, BlockAssumption DEF BlockInv
<1>4. Part(taken[b], Edge(b - 1), Size(b)) /\ Len(taken[b]) \in Nat
  BY <1>2, SeqDomain DEF WorkInv, Part
<1>5. CASE Block!WorkOn(b)
  <2>1. /\ Block!Take(b) /\ thread[b] = "run"
        /\ UNCHANGED <<algorithm, length, hardware, bad, caller, index, thread, total, failed>>
    BY <1>5 DEF Block!WorkOn, Block!input
  <2>2. WorkInv'
    BY <1>2, <2>1, BlockTakes
  <2>3. taken'[Block!Own] = taken[Block!Own]
    <3>1. taken' = [taken EXCEPT ![b] = Append(taken[b], Block!Current(b))]
      BY <1>5 DEF Block!WorkOn, Block!Take
    <3>2. Block!Own \in DOMAIN taken
      <4>1. Block!Own \in Blocks /\ Blocks \subseteq Block!AllBlocks
        BY BlocksHere DEF Blocks
      <4>. QED
        BY <4>1 DEF WorkInv
    <3>. QED
      BY <1>2, <3>1, <3>2
  <2>. QED
    BY <2>1, <2>2, <2>3, CallerStays
<1>6. CASE Block!Finish(b)
  <2>1. /\ thread' = [thread EXCEPT ![b] = "ready"] /\ ~Block!Has(b)
        /\ UNCHANGED <<algorithm, length, hardware, bad, caller, index, taken, total, failed>>
    BY <1>6 DEF Block!Finish, Block!input
  <2>2. Len(taken[b]) = Size(b)
    BY <1>3, <1>4, <2>1 DEF Part, Block!Has
  <2>3. WorkInv'
    BY <1>2, <2>1, <2>2, BlockChanges DEF Results
  <2>. QED
    BY <2>1, <2>3, CallerStays
<1>7. CASE Block!Throw(b)
  <2>1. /\ Block!Current(b) = bad /\ thread[b] = "run"
        /\ UNCHANGED <<algorithm, length, hardware, bad, index, taken, total, failed>>
    BY <1>7 DEF Block!Throw, Block!input
  <2>2. bad # 0
    BY <1>3, <1>4, <2>1 DEF Block!Current
  <2>3. CASE algorithm = "2.8"
    <3>1. caller' = "terminated" /\ thread' = thread
      BY <1>7, <2>3 DEF Block!Throw
    <3>2. WorkInv'
      <4>1. /\ Block!Own' = Block!Own /\ Blocks' = Blocks /\ Block!AllBlocks' = Block!AllBlocks
            /\ \A c \in Blocks : Edge(c - 1)' = Edge(c - 1) /\ Size(c)' = Size(c)
        BY <2>1, BlocksStayHere
      <4>. QED
        BY <2>1, <3>1, <4>1 DEF WorkInv, Part
    <3>3. b \in Block!Started'
      BY <2>1, <3>1 DEF Block!Started, Block!AllBlocks
    <3>4. Block!Own' = Block!Own
      BY <2>1, BlocksStayHere
    <3>5. CallerInv'
      BY <2>1, <2>2, <2>3, <3>1, <3>3, <3>4 DEF CallerInv
    <3>. QED
      BY <3>2, <3>5
  <2>4. CASE algorithm # "2.8"
    <3>1. caller' = caller /\ thread' = [thread EXCEPT ![b] = "broken"]
      BY <1>7, <2>4 DEF Block!Throw
    <3>2. WorkInv'
      BY <1>2, <2>1, <2>2, <3>1, BlockChanges DEF Results
    <3>. QED
      BY <2>1, <3>1, <3>2, CallerStays
  <2>. QED
    BY <2>3, <2>4
<1>8. CASE Block!End(b)
  <2>1. UNCHANGED <<algorithm, length, hardware, bad, caller, index, taken, total, failed>>
    BY <1>8 DEF Block!End, Block!input
  <2>2. PICK r \in {"ended", "ended broken"} :
          /\ thread' = [thread EXCEPT ![b] = r]
          /\ r = "ended" => thread[b] = "ready"
          /\ r = "ended broken" => thread[b] = "broken"
    <3>1. DOMAIN thread = Block!AllBlocks
      BY DEF WorkInv
    <3>. QED
      BY <1>8, <3>1 DEF Block!End
  <2>3. /\ r = "ended" => Len(taken[b]) = Size(b)
        /\ r = "ended broken" => bad # 0
    BY <2>2 DEF WorkInv
  <2>4. WorkInv'
    BY <1>2, <2>1, <2>2, <2>3, BlockChanges DEF Results
  <2>. QED
    BY <2>1, <2>4, CallerStays
<1>. QED
  BY <1>5, <1>6, <1>7, <1>8 DEF Block!Worker

\* The caller has added nothing when its own block is done.
LEMMA CallerEndsItsOwn ==
  ASSUME BlockInv, WorkInv, CallerInv, length # 0, Block!OwnEnds
  PROVE  CallerInv'
<1>1. /\ caller = "spawn" /\ caller' = "collect" /\ index' = 1
      /\ UNCHANGED <<algorithm, length, hardware, bad, thread, taken, total, failed>>
  BY DEF Block!OwnEnds, Block!input
<1>2. /\ Block!Own \in Nat \ {0} /\ Edge(0) = 0 /\ 1 \in Blocks /\ Block!Own \in Blocks
      /\ Blocks \subseteq Block!AllBlocks
  BY BlocksMakeTheRange, BlockAssumption DEF BlockInv, Blocks
<1>3. /\ Block!Own' = Block!Own /\ Blocks' = Blocks
      /\ \A c \in Blocks : Edge(c - 1)' = Edge(c - 1) /\ Size(c)' = Size(c)
  BY <1>1, BlocksStayHere
<1>4. Edge(1 - 1)' = 0
  BY <1>2, <1>3
<1>5. Added(total, Edge(1 - 1))'
  BY <1>1, <1>4 DEF Added, CallerInv
<1>6. Len(taken[Block!Own]) = Size(Block!Own)
  <2>1. /\ Edge(Block!Own - 1) \in Nat /\ Size(Block!Own) \in Nat
        /\ Block!First(Block!Own) = Edge(Block!Own - 1) + 1
        /\ Block!Last(Block!Own) = Edge(Block!Own - 1) + Size(Block!Own)
    BY <1>2, BlocksMakeTheRange, BlockAssumption DEF BlockInv
  <2>2. /\ Part(taken[Block!Own], Edge(Block!Own - 1), Size(Block!Own))
        /\ Len(taken[Block!Own]) \in Nat
    BY <1>2, SeqDomain DEF WorkInv, Part
  <2>. QED
    BY <2>1, <2>2 DEF Part, Block!OwnEnds, Block!Has
<1>7. Size(Block!Own)' = Size(Block!Own)
  BY <1>2, <1>3
<1>. QED
  BY <1>1, <1>2, <1>3, <1>5, <1>6, <1>7 DEF CallerInv

\* A block that is done is added to those before it.
LEMMA AddsABlock ==
  ASSUME NEW e \in Nat, NEW n \in Nat, NEW s, NEW t, Added(s, e), Part(t, e, n), Len(t) = n
  PROVE  Added(s \o t, e + n)
<1>1. /\ IsSeq(s \o t) /\ Len(s \o t) = e + n
      /\ \A k \in 1 .. Len(s \o t) : (s \o t)[k] = IF k <= e THEN s[k] ELSE t[k - e]
  BY SeqConcat DEF Added, Part
<1>2. ASSUME NEW k \in 1 .. Len(s \o t) PROVE (s \o t)[k] = k /\ k # bad
  <2>1. CASE k <= e
    <3>1. k \in 1 .. Len(s)
      BY <1>1, <2>1 DEF Added
    <3>. QED
      BY <1>1, <2>1, <3>1 DEF Added
  <2>2. CASE k > e
    <3>1. k - e \in 1 .. Len(t)
      BY <1>1, <2>2
    <3>2. t[k - e] = e + (k - e) /\ t[k - e] # bad
      BY <3>1 DEF Part
    <3>. QED
      BY <1>1, <2>2, <3>2
  <2>. QED
    BY <1>1, <2>1, <2>2
<1>. QED
  BY <1>1, <1>2 DEF Added

LEMMA CallerAddsTheNext ==
  ASSUME BlockInv, WorkInv, CallerInv, length # 0, Block!Collect
  PROVE  CallerInv'
<1>1. PICK i \in Blocks : index = i /\ Added(total, Edge(i - 1))
  BY BlocksHere DEF CallerInv, Block!Collect, Block!Own
<1>2. /\ caller = "collect" /\ i < Block!Own /\ thread[i] \in {"ready", "ended"}
      /\ total' = total \o taken[i] /\ index' = i + 1
      /\ UNCHANGED <<algorithm, length, hardware, bad, caller, taken, failed>>
  BY <1>1 DEF Block!Collect, Block!input, Block!Own
<1>3. /\ Block!Own \in Nat \ {0} /\ Blocks \subseteq Block!AllBlocks
      /\ i + 1 \in Blocks /\ i \in Nat /\ i # Block!Own /\ Block!Own \in Blocks
  BY <1>2, BlocksHere DEF Blocks
<1>4. Edge(i - 1) \in Nat /\ Size(i) \in Nat /\ Edge(i) = Edge(i - 1) + Size(i)
  BY <1>3, BlocksMakeTheRange, BlockAssumption DEF BlockInv
<1>5. Part(taken[i], Edge(i - 1), Size(i)) /\ Len(taken[i]) = Size(i)
  BY <1>2, <1>3 DEF WorkInv
<1>6. \A e, n \in Nat : \A r, t : Added(r, e) /\ Part(t, e, n) /\ Len(t) = n =>
        Added(r \o t, e + n)
  BY AddsABlock
<1>7. Added(total', Edge(i - 1) + Size(i))
  BY <1>1, <1>2, <1>4, <1>5, <1>6
<1>8. /\ Block!Own' = Block!Own /\ Blocks' = Blocks /\ Size(Block!Own)' = Size(Block!Own)
      /\ \A c \in Blocks : Edge(c - 1)' = Edge(c - 1)
  BY <1>2, <1>3, BlocksStayHere
<1>9. PICK j \in Blocks : j = i + 1
  BY <1>3
<1>10. Edge(j - 1)' = Edge(i - 1) + Size(i)
  <2>1. j - 1 = i
    BY <1>3, <1>9
  <2>. QED
    BY <1>4, <1>8, <2>1
<1>11. Added(total, Edge(j - 1))'
  BY <1>2, <1>7, <1>10 DEF Added
<1>12. index' = j /\ index' \in 0 .. Block!Own + 1
  BY <1>2, <1>3, <1>9
<1>. QED
  BY <1>2, <1>8, <1>11, <1>12 DEF CallerInv

\* The last block is its own, which makes the range.
LEMMA CallerAddsItsOwn ==
  ASSUME BlockInv, WorkInv, CallerInv, length # 0, Block!AddOwn
  PROVE  CallerInv'
<1>1. /\ caller = "collect" /\ index = Block!Own
      /\ total' = total \o taken[Block!Own] /\ index' = Block!Own + 1
      /\ UNCHANGED <<algorithm, length, hardware, bad, caller, taken, failed>>
  BY DEF Block!AddOwn, Block!input, Block!Own
<1>2. /\ Block!Own \in Nat \ {0} /\ Block!Own \in Blocks /\ Blocks \subseteq Block!AllBlocks
      /\ Edge(Block!Own - 1) + Size(Block!Own) = length
  BY BlocksMakeTheRange, BlockAssumption DEF BlockInv, Blocks
<1>3. /\ Edge(Block!Own - 1) \in Nat /\ Size(Block!Own) \in Nat
      /\ Block!First(Block!Own) = Edge(Block!Own - 1) + 1
      /\ Block!Last(Block!Own) = Edge(Block!Own - 1) + Size(Block!Own)
  BY <1>2, BlocksMakeTheRange, BlockAssumption DEF BlockInv
<1>4. Added(total, Edge(Block!Own - 1))
  BY <1>1, <1>2 DEF CallerInv
<1>5. Part(taken[Block!Own], Edge(Block!Own - 1), Size(Block!Own))
  BY <1>2 DEF WorkInv
<1>6. Len(taken[Block!Own]) = Size(Block!Own)
  BY <1>1 DEF CallerInv
<1>7. \A e, n \in Nat : \A r, t : Added(r, e) /\ Part(t, e, n) /\ Len(t) = n =>
        Added(r \o t, e + n)
  BY AddsABlock
<1>8. Added(total, length)'
  <2>1. Added(total', length)
    BY <1>1, <1>2, <1>3, <1>4, <1>5, <1>6, <1>7
  <2>. QED
    BY <1>1, <2>1 DEF Added
<1>9. Block!Own' = Block!Own /\ Size(Block!Own)' = Size(Block!Own)
  BY <1>1, <1>2, BlocksStayHere
<1>10. index' = Block!Own' + 1 /\ index' \in 0 .. Block!Own' + 1
  BY <1>1, <1>2, <1>9
<1>. QED
  BY <1>1, <1>6, <1>8, <1>9, <1>10 DEF CallerInv

\* What has been added is the range.
LEMMA AllOfTheRange ==
  ASSUME BlockInv, CallerInv, length # 0, caller = "collect", index > Block!Own
  PROVE  AllAdded
<1>1. Block!Own \in Nat
  BY BlocksHere
<1>2. IsSeq(total) /\ Len(total) = length /\ \A k \in 1 .. Len(total) : total[k] = k /\ k # bad
  BY <1>1 DEF CallerInv, Added, Blocks
<1>3. bad = 0
  <2>1. \A k \in 1 .. length : k # bad
    BY <1>2
  <2>. QED
    BY <2>1, BlockAssumption DEF BlockInv
<1>4. DOMAIN total = 1 .. length
  BY <1>2, SeqDomain
<1>5. PICK U : total \in Seq(U)
  BY <1>2 DEF IsSeq
<1>6. total = [k \in DOMAIN total |-> total[k]]
  BY <1>5, SeqDef
<1>. QED
  BY <1>2, <1>3, <1>4, <1>6 DEF AllAdded

LEMMA BlockCaller ==
  ASSUME BlockInv, WorkInv, CallerInv, length # 0, Block!Caller
  PROVE  WorkInv' /\ CallerInv'
<1>1. /\ Block!Own \in Nat \ {0} /\ Blocks \subseteq Block!AllBlocks /\ Block!Own \in Blocks
      /\ Block!Own = Block!num_threads
  BY BlocksHere DEF Blocks, Block!Own
<1>2. ASSUME UNCHANGED <<length, hardware, bad, thread, taken>> PROVE WorkInv'
  <2>1. /\ Block!Own' = Block!Own /\ Blocks' = Blocks /\ Block!AllBlocks' = Block!AllBlocks
        /\ \A c \in Blocks : Edge(c - 1)' = Edge(c - 1) /\ Size(c)' = Size(c)
    BY <1>2, BlocksStayHere
  <2>. QED
    BY <1>2, <2>1 DEF WorkInv, Part
<1>3. CASE Block!Spawn
  <2>1. /\ caller = "spawn" /\ index < Block!Own - 1
        /\ thread' = [thread EXCEPT ![index + 1] = "run"] /\ index' = index + 1
        /\ UNCHANGED <<algorithm, length, hardware, bad, caller, taken, total, failed>>
    BY <1>1, <1>3 DEF Block!Spawn, Block!input
  <2>2. index \in Nat /\ index + 1 \in Blocks /\ index + 1 # Block!Own
    BY <1>1, <2>1 DEF CallerInv, Blocks
  <2>3. PICK b \in Blocks : b = index + 1
    BY <2>2
  <2>4. WorkInv'
    BY <2>1, <2>2, <2>3, BlockChanges DEF Results
  <2>5. Block!Own' = Block!Own
    BY <2>1, BlocksStayHere
  <2>6. index' \in 0 .. Block!Own' - 1
    BY <1>1, <2>1, <2>2, <2>5
  <2>7. Added(total, 0)'
    BY <2>1 DEF Added, CallerInv
  <2>8. CallerInv'
    BY <1>1, <2>1, <2>5, <2>6, <2>7 DEF CallerInv
  <2>. QED
    BY <2>4, <2>8
<1>4. CASE Block!SpawnFails
  <2>1. Block!Unwind /\ failed' /\ UNCHANGED <<algorithm, length, hardware, bad, index, thread, taken>>
    BY <1>4 DEF Block!SpawnFails, Block!input
  <2>. QED
    BY <1>2, <2>1, CallerUnwinds
<1>5. CASE Block!OwnBlock
  <2>1. /\ Block!Take(Block!Own) /\ caller = "spawn"
        /\ UNCHANGED <<algorithm, length, hardware, bad, caller, index, thread, total, failed>>
    BY <1>1, <1>5 DEF Block!OwnBlock, Block!input
  <2>2. thread[Block!Own] = "none"
    BY <1>1 DEF WorkInv
  <2>3. WorkInv'
    BY <1>1, <2>1, <2>2, BlockTakes
  <2>. QED
    BY <2>1, <2>3, CallerStays
<1>6. CASE Block!OwnThrows
  <2>1. /\ Block!Unwind /\ Block!Current(Block!Own) = bad
        /\ UNCHANGED <<algorithm, length, hardware, bad, index, thread, taken, failed>>
    BY <1>6 DEF Block!OwnThrows, Block!input
  <2>2. /\ Block!First(Block!Own) = Edge(Block!Own - 1) + 1 /\ Edge(Block!Own - 1) \in Nat
        /\ Len(taken[Block!Own]) \in Nat
    <3>1. Part(taken[Block!Own], Edge(Block!Own - 1), Size(Block!Own))
      BY <1>1 DEF WorkInv
    <3>2. Len(taken[Block!Own]) \in Nat
      BY <3>1, SeqDomain DEF Part
    <3>. QED
      BY <1>1, <3>2, BlocksMakeTheRange, BlockAssumption DEF BlockInv
  <2>3. bad # 0
    BY <2>1, <2>2 DEF Block!Current
  <2>. QED
    BY <1>2, <2>1, <2>3, CallerUnwinds
<1>7. CASE Block!OwnEnds
  <2>1. UNCHANGED <<length, hardware, bad, thread, taken>>
    BY <1>7 DEF Block!OwnEnds, Block!input
  <2>. QED
    BY <1>2, <1>7, <2>1, CallerEndsItsOwn
<1>8. CASE Block!Collect
  <2>1. UNCHANGED <<length, hardware, bad, thread, taken>>
    BY <1>8 DEF Block!Collect, Block!input
  <2>. QED
    BY <1>2, <1>8, <2>1, CallerAddsTheNext
<1>9. CASE Block!GetThrows
  <2>1. /\ Block!Unwind /\ caller = "collect" /\ index < Block!Own
        /\ thread[index] \in {"broken", "ended broken"}
        /\ UNCHANGED <<algorithm, length, hardware, bad, index, thread, taken, failed>>
    BY <1>1, <1>9 DEF Block!GetThrows, Block!input
  <2>2. index \in Block!AllBlocks
    <3>1. index \in 0 .. Block!Own + 1 /\ (index \in Blocks \/ index = Block!Own + 1)
      BY <2>1, Zenon DEF CallerInv
    <3>2. index < Block!Own
      BY <2>1, Zenon
    <3>. QED
      BY <1>1, <3>1, <3>2
  <2>3. bad # 0
    BY <2>1, <2>2 DEF WorkInv
  <2>. QED
    BY <1>2, <2>1, <2>3, CallerUnwinds
<1>10. CASE Block!AddOwn
  <2>1. UNCHANGED <<length, hardware, bad, thread, taken>>
    BY <1>10 DEF Block!AddOwn, Block!input
  <2>. QED
    BY <1>2, <1>10, <2>1, CallerAddsItsOwn
<1>11. CASE Block!Leave
  <2>1. UNCHANGED <<algorithm, length, hardware, bad, index, thread, taken, total, failed>>
    BY <1>11 DEF Block!Leave, Block!input
  <2>2. \/ caller = "join" /\ caller' = "thrown"
        \/ caller = "collect" /\ index > Block!Own /\ caller' = "returned"
    BY <1>1, <1>11 DEF Block!Leave
  <2>3. Block!Own' = Block!Own
    BY <2>1, BlocksStayHere
  <2>4. ASSUME caller = "join", caller' = "thrown" PROVE CallerInv'
    <3>1. index' \in 0 .. Block!Own' + 1 /\ (bad' # 0 \/ failed')
      BY <2>1, <2>3, <2>4 DEF CallerInv
    <3>. QED
      BY <2>4, <3>1 DEF CallerInv
  <2>5. ASSUME caller = "collect", index > Block!Own, caller' = "returned" PROVE CallerInv'
    <3>1. AllAdded
      BY <2>5, AllOfTheRange
    <3>2. AllAdded'
      BY <2>1, <3>1 DEF AllAdded
    <3>3. index' \in 0 .. Block!Own' + 1 /\ ~failed'
      BY <2>1, <2>3, <2>5 DEF CallerInv
    <3>. QED
      BY <2>5, <3>2, <3>3 DEF CallerInv
  <2>6. CallerInv'
    BY <2>2, <2>4, <2>5
  <2>. QED
    BY <1>2, <2>1, <2>6
<1>. QED
  BY <1>3, <1>4, <1>5, <1>6, <1>7, <1>8, <1>9, <1>10, <1>11 DEF Block!Caller

\* The call ends when it has joined its threads, or before it has started one.
LEMMA BlockStepJoins ==
  Block!NoThreadOutlivesTheCall /\ [Block!Next]_blockVars => Block!NoThreadOutlivesTheCall'
<1> SUFFICES ASSUME Block!NoThreadOutlivesTheCall, [Block!Next]_blockVars,
                    caller' \in {"returned", "thrown"}
             PROVE  (\A b \in Block!Started : thread[b] \in {"ended", "ended broken"})'
  BY DEF Block!NoThreadOutlivesTheCall
<1> DEFINE Ended == \A b \in Block!Started : thread[b] \in {"ended", "ended broken"}
<1>1. CASE thread' = thread /\ Ended
  BY <1>1 DEF Block!Started, Block!AllBlocks
<1>2. CASE UNCHANGED blockVars
  BY <1>1, <1>2 DEF blockVars, Block!NoThreadOutlivesTheCall
<1>3. CASE Block!Caller
  <2>1. CASE Block!Spawn \/ Block!OwnBlock \/ Block!OwnEnds \/ Block!Collect \/ Block!AddOwn
    BY <2>1 DEF Block!Spawn, Block!OwnBlock, Block!OwnEnds, Block!Collect, Block!AddOwn
  <2>2. CASE Block!SpawnFails \/ Block!OwnThrows \/ Block!GetThrows
    <3>1. thread' = thread /\ Block!Unwind
      BY <2>2 DEF Block!SpawnFails, Block!OwnThrows, Block!GetThrows
    <3>2. Block!Started = {}
      BY <3>1 DEF Block!Unwind
    <3>. QED
      BY <1>1, <3>1, <3>2
  <2>3. CASE Block!Leave
    BY <1>1, <2>3 DEF Block!Leave
  <2>. QED
    BY <1>3, <2>1, <2>2, <2>3 DEF Block!Caller
<1>4. ASSUME NEW b \in Block!AllBlocks, Block!Worker(b) PROVE (Ended)'
  <2>1. /\ thread[b] \in {"run", "ready", "broken"}
        /\ caller' = caller \/ caller' = "terminated"
    BY <1>4 DEF Block!Worker, Block!WorkOn, Block!Finish, Block!Throw, Block!End
  <2>2. caller \in {"returned", "thrown"} /\ b \in Block!Started
    BY <2>1 DEF Block!Started
  <2>3. thread[b] \in {"ended", "ended broken"}
    BY <2>2 DEF Block!NoThreadOutlivesTheCall
  <2>. QED
    BY <2>1, <2>3
<1>. QED
  BY <1>2, <1>3, <1>4 DEF Block!Next

LEMMA BlockStep == BlockInv /\ [Block!Next]_blockVars => BlockInv'
<1> SUFFICES ASSUME BlockInv, [Block!Next]_blockVars PROVE BlockInv'
  OBVIOUS
<1>1. Block!NoThreadOutlivesTheCall'
  BY BlockStepJoins DEF BlockInv
<1>2. CASE UNCHANGED blockVars
  <2>1. UNCHANGED <<algorithm, length, hardware, bad, caller, index, thread, taken, total, failed>>
    BY <1>2 DEF blockVars
  <2>2. NothingToDo => NothingToDo'
    BY <2>1 DEF NothingToDo, Block!AllBlocks
  <2>3. ASSUME length # 0, WorkInv, CallerInv PROVE WorkInv' /\ CallerInv'
    <3>1. /\ Block!Own' = Block!Own /\ Blocks' = Blocks /\ Block!AllBlocks' = Block!AllBlocks
          /\ \A c \in Blocks : Edge(c - 1)' = Edge(c - 1) /\ Size(c)' = Size(c)
      BY <2>1, <2>3, BlocksStayHere
    <3>2. WorkInv'
      BY <2>1, <2>3, <3>1 DEF WorkInv, Part
    <3>3. /\ caller' = "collect" => (\/ \E i \in Blocks : index = i /\ Added(total, Edge(i - 1))
                                     \/ index = Block!Own + 1 /\ Added(total, length))'
          /\ caller' = "spawn" => Added(total, 0)'
      BY <2>1, <2>3, AddedStays DEF CallerInv
    <3>4. AllAdded => AllAdded'
      BY <2>1 DEF AllAdded
    <3>5. Block!Started' = Block!Started
      BY <2>1 DEF Block!Started, Block!AllBlocks
    <3>6. Size(Block!Own)' = Size(Block!Own)
      BY <2>1, <2>3, <3>1, BlocksHere DEF Blocks
    <3>7. CallerInv'
      BY <2>1, <2>3, <3>1, <3>3, <3>4, <3>5, <3>6 DEF CallerInv
    <3>. QED
      BY <3>2, <3>7
  <2>. QED
    BY <1>1, <2>1, <2>2, <2>3 DEF BlockInv
<1>3. CASE Block!Next
  <2>1. UNCHANGED <<algorithm, length, hardware, bad>>
    BY <1>3 DEF Block!Next, Block!Caller, Block!Spawn, Block!SpawnFails, Block!OwnBlock,
      Block!OwnThrows, Block!OwnEnds, Block!Collect, Block!AddOwn, Block!GetThrows, Block!Leave, Block!Worker,
      Block!WorkOn, Block!Finish, Block!Throw, Block!End, Block!input
  <2>2. CASE length = 0
    <3>1. NothingToDo
      BY <2>2 DEF BlockInv
    <3>2. ~Block!Caller
      BY <3>1 DEF NothingToDo, Block!Caller, Block!Spawn, Block!SpawnFails, Block!OwnBlock,
        Block!OwnThrows, Block!OwnEnds, Block!Collect, Block!AddOwn, Block!GetThrows, Block!Leave
    <3>3. ASSUME NEW b \in Block!AllBlocks PROVE ~Block!Worker(b)
      BY <3>1 DEF NothingToDo, Block!Worker, Block!WorkOn, Block!Finish, Block!Throw, Block!End
    <3>. QED
      BY <1>3, <3>2, <3>3 DEF Block!Next
  <2>3. CASE length # 0
    <3>1. WorkInv /\ CallerInv /\ caller # "terminated"
      BY <1>3, <2>3 DEF BlockInv, Block!Next
    <3>2. WorkInv' /\ CallerInv'
      BY <1>3, <2>3, <3>1, BlockCaller, BlockWorkers DEF Block!Next
    <3>. QED
      BY <1>1, <2>1, <2>3, <3>2 DEF BlockInv
  <2>. QED
    BY <2>2, <2>3
<1>. QED
  BY <1>2, <1>3

LEMMA BlockInvSuffices == BlockInv => Block!ResultIsRight /\ Block!TypeOK
<1> SUFFICES ASSUME BlockInv PROVE Block!ResultIsRight /\ Block!TypeOK
  OBVIOUS
<1>1. CASE length = 0
  <2>1. NothingToDo /\ bad = 0
    BY <1>1, BlockAssumption DEF BlockInv
  <2>2. <<>> \in Seq(1 .. MaxLength) /\ Len(<<>>) = 0 /\ 1 .. 0 = {}
    OBVIOUS
  <2>3. Block!ResultIsRight
    <3>1. <<>> = [k \in 1 .. length |-> k]
      BY <1>1
    <3>. QED
      BY <1>1, <2>1, <3>1 DEF NothingToDo, Block!ResultIsRight
  <2>4. Block!TypeOK
    BY <2>1, <2>2, BlockAssumption DEF NothingToDo, Block!TypeOK
  <2>. QED
    BY <2>3, <2>4
<1>2. CASE length # 0
  <2>1. WorkInv /\ CallerInv
    BY <1>2 DEF BlockInv
  <2>2. Block!ResultIsRight
    BY <2>1 DEF CallerInv, AllAdded, Block!ResultIsRight
  <2>3. index \in 0 .. MaxHardware + 3
    <3>1. Block!Own \in 1 .. MaxHardware + 2
      BY <1>2, BlocksHere, BlockAssumption DEF Blocks, Block!AllBlocks
    <3>. QED
      BY <2>1, <3>1, BlockAssumption DEF CallerInv
  <2>4. ASSUME NEW b \in Block!AllBlocks PROVE taken[b] \in Seq(1 .. MaxLength)
    <3>1. CASE b \in Blocks
      <4>1. /\ Edge(b - 1) \in Nat /\ Size(b) \in Nat /\ Edge(b - 1) + Size(b) <= length
            /\ length \in Nat /\ length <= MaxLength
        BY <1>2, <3>1, BlocksMakeTheRange, BlockAssumption DEF BlockInv
      <4>2. Part(taken[b], Edge(b - 1), Size(b))
        BY <2>1, <3>1 DEF WorkInv
      <4>3. PICK U : taken[b] \in Seq(U)
        BY <4>2 DEF Part, IsSeq
      <4>4. \A k \in 1 .. Len(taken[b]) : taken[b][k] \in 1 .. MaxLength
        BY <4>1, <4>2, <4>3, BlockAssumption DEF Part
      <4>5. Len(taken[b]) \in Nat /\ taken[b] \in [1 .. Len(taken[b]) -> 1 .. MaxLength]
        BY <4>3, <4>4
      <4>. QED
        BY <4>5, SeqDef
    <3>2. CASE b \notin Blocks
      <4>1. taken[b] = <<>>
        BY <2>1, <3>2 DEF WorkInv
      <4>2. <<>> \in Seq(1 .. MaxLength)
        OBVIOUS
      <4>. QED
        BY <4>1, <4>2
    <3>. QED
      BY <3>1, <3>2
  <2>5. thread \in [Block!AllBlocks -> Results]
    BY <2>1 DEF WorkInv
  <2>6. Block!TypeOK
    BY <2>1, <2>3, <2>4, <2>5 DEF CallerInv, Block!TypeOK, Results
  <2>. QED
    BY <2>2, <2>6
<1>. QED
  BY <1>1, <1>2

-----------------------------------------------------------------------------
(* The algorithms with std::async *)

Paths == Seq({0, 1})

LEMMA PathsApart ==
  /\ <<>> \in Paths
  /\ \A p \in Paths : /\ Async!Task(p) \in Paths /\ Async!Recursive(p) \in Paths
                      /\ Async!Task(p) # <<>> /\ Async!Recursive(p) # <<>>
                      /\ Async!Front(Async!Task(p)) = p
                      /\ Async!Task(p) # p /\ Async!Recursive(p) # p
  /\ \A p, q \in Paths : /\ Async!Task(p) = Async!Task(q) => p = q
                         /\ Async!Recursive(p) = Async!Recursive(q) => p = q
                         /\ Async!Task(p) # Async!Recursive(q)
<1>1. ASSUME NEW p \in Paths, NEW x \in {0, 1}
      PROVE  LET r == p \o <<x>>
             IN /\ r \in Paths /\ Len(r) = Len(p) + 1 /\ r[Len(r)] = x /\ r # <<>> /\ r # p
                /\ Async!Front(r) = p
  <2> DEFINE r == p \o <<x>>
             f == SubSeq(r, 1, Len(p))
  <2>1. p \in Seq({0, 1}) /\ <<x>> \in Seq({0, 1}) /\ Len(p) \in Nat
    BY DEF Paths
  <2>2. /\ r \in Seq({0, 1}) /\ Len(r) = Len(p) + 1 /\ r[Len(p) + 1] = x
        /\ \A i \in 1 .. Len(p) : r[i] = p[i]
    BY <2>1
  <2>. HIDE DEF r
  <2>3. f \in Seq({0, 1}) /\ Len(f) = Len(p) /\ \A i \in 1 .. Len(p) : f[i] = r[i]
    BY <2>1, <2>2
  <2>. HIDE DEF f
  <2>4. f = p
    BY <2>1, <2>2, <2>3, SeqEqual
  <2>5. Len(r) - 1 = Len(p)
    BY <2>1, <2>2
  <2>6. Async!Front(r) = f
    BY <2>5 DEF Async!Front, f
  <2>7. r # <<>> /\ r # p
    BY <2>1, <2>2
  <2>. QED
    BY <2>2, <2>4, <2>6, <2>7 DEF r, Paths
<1>2. <<>> \in Paths
  BY DEF Paths
<1>3. ASSUME NEW p \in Paths, NEW q \in Paths
      PROVE  /\ p \o <<0>> = q \o <<0>> => p = q
             /\ p \o <<1>> = q \o <<1>> => p = q
             /\ p \o <<0>> # q \o <<1>>
  <2> DEFINE a(k) == k \o <<0>>
             b(k) == k \o <<1>>
  <2>1. /\ Async!Front(a(p)) = p /\ Async!Front(a(q)) = q
        /\ Async!Front(b(p)) = p /\ Async!Front(b(q)) = q
        /\ a(p)[Len(a(p))] = 0 /\ b(q)[Len(b(q))] = 1
    BY <1>1
  <2>. HIDE DEF a, b
  <2>2. (a(p) = a(q) => p = q) /\ (b(p) = b(q) => p = q) /\ a(p) # b(q)
    BY <2>1
  <2>. QED
    BY <2>2 DEF a, b
<1>. QED
  BY <1>1, <1>2, <1>3 DEF Async!Task, Async!Recursive

IsCall(c) == c = [chunk |-> c.chunk, launch |-> c.launch, at |-> c.at,
                  result |-> c.result, threw |-> c.threw]

\* A task that has ended, or that get() was to run and never will.
Over(p) == \/ call[p].at = "ended"
           \/ call[p].launch = "deferred" /\ call[p].at = "start"

AsyncInv ==
  /\ DOMAIN call \subseteq Paths
  /\ \A p \in DOMAIN call : IsCall(call[p])
  /\ \A p \in Paths : Async!Task(p) \in DOMAIN call \/ Async!Recursive(p) \in DOMAIN call
                        => p \in DOMAIN call
  /\ \A p \in DOMAIN call :
       call[p].at = "start" => /\ Async!Task(p) \notin DOMAIN call
                               /\ Async!Recursive(p) \notin DOMAIN call
  /\ \A p \in DOMAIN call : Async!Task(p) \in DOMAIN call =>
       /\ call[Async!Task(p)].launch \in {"thread", "deferred"}
       /\ call[p].at \in {"own", "unwind"} /\ call[Async!Task(p)].launch = "deferred"
            => call[Async!Task(p)].at = "start"
       /\ call[p].at = "ended" => Over(Async!Task(p))

LEMMA AsyncInvSuffices == AsyncInv => Async!NoCallOutlivesItsCaller
BY DEF AsyncInv, Async!NoCallOutlivesItsCaller, Over

LEMMA AsyncInit == Async!Init => AsyncInv
<1> SUFFICES ASSUME Async!Init PROVE AsyncInv
  OBVIOUS
<1>1. PICK chunk : call = [p \in {<<>>} |-> Async!New(chunk, "call")]
  BY DEF Async!Init
<1>2. DOMAIN call = {<<>>} /\ IsCall(call[<<>>])
  BY <1>1 DEF Async!New, IsCall
<1>. QED
  BY <1>2, PathsApart DEF AsyncInv

\* A step of one call that starts no others.
LEMMA AsyncMoves ==
  ASSUME AsyncInv, NEW p \in DOMAIN call, NEW c, call' = [call EXCEPT ![p] = c], IsCall(c),
         c.launch = call[p].launch, c.at # "start", call[p].at # "ended",
         call[p].at = "start" => Async!Active(p),
         Async!Task(p) \in DOMAIN call =>
           /\ c.at \in {"own", "unwind"} /\ call[Async!Task(p)].launch = "deferred"
                => call[Async!Task(p)].at = "start"
           /\ c.at = "ended" => Over(Async!Task(p))
  PROVE  AsyncInv'
<1> USE PathsApart
<1>1. /\ DOMAIN call' = DOMAIN call /\ call'[p] = c
      /\ \A q \in DOMAIN call : q # p => call'[q] = call[q]
  OBVIOUS
<1>2. DOMAIN call \subseteq Paths
  BY DEF AsyncInv
<1>3. \A q \in DOMAIN call : IsCall(call'[q])
  BY <1>1 DEF AsyncInv
<1>4. \A q \in DOMAIN call : call'[q].launch = call[q].launch
  BY <1>1
<1>5. \A q \in DOMAIN call :
        call'[q].at = "start" => /\ Async!Task(q) \notin DOMAIN call
                                 /\ Async!Recursive(q) \notin DOMAIN call
  BY <1>1 DEF AsyncInv
<1>6. ASSUME NEW q \in DOMAIN call, Async!Task(q) \in DOMAIN call
      PROVE  /\ call'[Async!Task(q)].launch \in {"thread", "deferred"}
             /\ call'[q].at \in {"own", "unwind"} /\ call'[Async!Task(q)].launch = "deferred"
                  => call'[Async!Task(q)].at = "start"
             /\ call'[q].at = "ended" => Over(Async!Task(q))'
  <2>1. /\ call[Async!Task(q)].launch \in {"thread", "deferred"}
        /\ call[q].at \in {"own", "unwind"} /\ call[Async!Task(q)].launch = "deferred"
             => call[Async!Task(q)].at = "start"
        /\ call[q].at = "ended" => Over(Async!Task(q))
    BY <1>6 DEF AsyncInv
  <2>2. Async!Task(q) # q /\ q \in Paths
    BY <1>2
  <2>3. CASE q = p
    <3>1. call'[Async!Task(q)] = call[Async!Task(q)] /\ call'[q] = c
      BY <1>1, <1>6, <2>2, <2>3
    <3>. QED
      BY <1>6, <2>1, <2>3, <3>1 DEF Over
  <2>4. CASE Async!Task(q) = p
    <3>1. call'[q] = call[q] /\ call'[p] = c
      BY <1>1, <2>2, <2>4
    <3>2. ASSUME call[q].at \in {"own", "unwind"} \/ call[q].at = "ended",
                 call[p].launch = "deferred"
          PROVE  FALSE
      <4>1. call[p].at = "start"
        BY <2>1, <2>4, <3>2 DEF Over
      <4>2. call[q].at = "get"
        <5>1. Async!Front(p) = q
          BY <2>2, <2>4
        <5>. QED
          BY <3>2, <4>1, <5>1 DEF Async!Active
      <4>. QED
        BY <3>2, <4>2
    <3>3. ASSUME call[q].at = "ended" PROVE FALSE
      BY <2>1, <2>4, <3>2, <3>3 DEF Over
    <3>. QED
      BY <1>4, <1>6, <2>1, <2>4, <3>1, <3>2, <3>3
  <2>5. CASE q # p /\ Async!Task(q) # p
    <3>1. call'[q] = call[q] /\ call'[Async!Task(q)] = call[Async!Task(q)]
      BY <1>1, <1>6, <2>5
    <3>. QED
      BY <2>1, <3>1 DEF Over
  <2>. QED
    BY <2>3, <2>4, <2>5
<1>. QED
  BY <1>1, <1>2, <1>3, <1>5, <1>6 DEF AsyncInv, Over

\* A call starts a task, and in the sort a recursive call.
LEMMA AsyncSplit ==
  ASSUME AsyncInv, NEW p \in DOMAIN call, Async!Split(p)
  PROVE  AsyncInv'
<1> USE PathsApart
<1> DEFINE D == DOMAIN call
           tp == Async!Task(p)
           rp == Async!Recursive(p)
           R == IF recursion = "sort" THEN {rp} ELSE {}
           x == Async!TaskPart(call[p].chunk)
           y == Async!OwnPart(call[p].chunk)
<1>1. D \subseteq Paths /\ p \in Paths /\ tp \in Paths /\ rp \in Paths /\ tp # p /\ rp # p /\ tp # rp
  BY DEF AsyncInv
<1>2. call[p].at = "start" /\ tp \notin D /\ rp \notin D
  BY DEF AsyncInv, Async!Split
<1>3. PICK launch \in {"thread", "deferred"} :
        call' = [q \in D \cup {tp} \cup R |->
                   IF q = tp THEN Async!New(x, launch)
                   ELSE IF q \in R THEN Async!New(y, "call")
                   ELSE IF q = p THEN [call[p] EXCEPT !.at = "own"]
                   ELSE call[q]]
  BY DEF Async!Split
<1>4. R \subseteq {rp} /\ R \cap D = {} /\ tp \notin R /\ p \notin R
  BY <1>1, <1>2
<1>5. IsCall(call[p])
  BY DEF AsyncInv
<1> DEFINE n == Async!New(x, launch)
           o == Async!New(y, "call")
           e == [call[p] EXCEPT !.at = "own"]
<1>6. /\ IsCall(n) /\ n.launch = launch /\ n.at = "start"
      /\ IsCall(o) /\ o.at = "start"
  BY DEF IsCall, Async!New
<1>7. IsCall(e) /\ e.at = "own"
  <2>1. IsCall(e)
    BY <1>5 DEF IsCall
  <2>2. e.at = "own"
    BY <1>5 DEF IsCall
  <2>. QED
    BY <2>1, <2>2
<1>. HIDE DEF R, n, o, e, tp, rp, x, y
<1>8. /\ DOMAIN call' = D \cup {tp} \cup R
      /\ call'[tp] = n /\ call'[p] = e
      /\ \A q \in R : call'[q] = o
      /\ \A q \in D : q # p => call'[q] = call[q]
  BY <1>1, <1>2, <1>3, <1>4 DEF n, o, e
<1>9. DOMAIN call' \subseteq Paths
  BY <1>1, <1>4, <1>8
<1>10. \A q \in DOMAIN call' : IsCall(call'[q])
  BY <1>4, <1>6, <1>7, <1>8 DEF AsyncInv
<1>11. \A q \in Paths : Async!Task(q) \in DOMAIN call' => q = p \/ (Async!Task(q) \in D /\ q \in D)
  <2> SUFFICES ASSUME NEW q \in Paths, Async!Task(q) \in DOMAIN call'
               PROVE  q = p \/ (Async!Task(q) \in D /\ q \in D)
    OBVIOUS
  <2>1. Async!Task(q) # rp
    BY <1>1 DEF rp
  <2>2. Async!Task(q) = tp => q = p
    BY <1>1 DEF tp
  <2>3. Async!Task(q) \in D => q \in D
    BY DEF AsyncInv
  <2>. QED
    BY <1>4, <1>8, <2>1, <2>2, <2>3
<1>12. \A q \in Paths : Async!Recursive(q) \in DOMAIN call' => q = p \/ (Async!Recursive(q) \in D /\ q \in D)
  <2> SUFFICES ASSUME NEW q \in Paths, Async!Recursive(q) \in DOMAIN call'
               PROVE  q = p \/ (Async!Recursive(q) \in D /\ q \in D)
    OBVIOUS
  <2>1. Async!Recursive(q) # tp
    BY <1>1 DEF tp
  <2>2. Async!Recursive(q) = rp => q = p
    BY <1>1 DEF rp
  <2>3. Async!Recursive(q) \in D => q \in D
    BY DEF AsyncInv
  <2>. QED
    BY <1>4, <1>8, <2>1, <2>2, <2>3
<1>13. ASSUME NEW q \in DOMAIN call', call'[q].at = "start"
       PROVE  Async!Task(q) \notin DOMAIN call' /\ Async!Recursive(q) \notin DOMAIN call'
  <2>1. q # p /\ q \in Paths
    BY <1>7, <1>8, <1>9, <1>13
  <2>2. CASE q \in D
    <3>1. call[q].at = "start"
      BY <1>8, <1>13, <2>1, <2>2
    <3>2. Async!Task(q) \notin D /\ Async!Recursive(q) \notin D
      BY <2>2, <3>1 DEF AsyncInv
    <3>. QED
      BY <1>11, <1>12, <2>1, <3>2
  <2>3. CASE q \notin D
    <3>1. Async!Task(q) \notin DOMAIN call'
      BY <1>11, <2>1, <2>3
    <3>2. Async!Recursive(q) \notin DOMAIN call'
      BY <1>12, <2>1, <2>3
    <3>. QED
      BY <3>1, <3>2
  <2>. QED
    BY <2>2, <2>3
<1>14. ASSUME NEW q \in DOMAIN call', Async!Task(q) \in DOMAIN call'
       PROVE  /\ call'[Async!Task(q)].launch \in {"thread", "deferred"}
              /\ call'[q].at \in {"own", "unwind"} /\ call'[Async!Task(q)].launch = "deferred"
                   => call'[Async!Task(q)].at = "start"
              /\ call'[q].at = "ended" => Over(Async!Task(q))'
  <2>1. q \in Paths
    BY <1>9
  <2>2. CASE q = p
    BY <1>6, <1>7, <1>8, <2>2 DEF tp
  <2>3. CASE q # p /\ Async!Task(q) \in D /\ q \in D
    <3>1. /\ call[Async!Task(q)].launch \in {"thread", "deferred"}
          /\ call[q].at \in {"own", "unwind"} /\ call[Async!Task(q)].launch = "deferred"
               => call[Async!Task(q)].at = "start"
          /\ call[q].at = "ended" => Over(Async!Task(q))
      BY <2>3 DEF AsyncInv
    <3>2. call'[q] = call[q]
      BY <1>8, <2>3
    <3>3. CASE Async!Task(q) # p
      <4>1. call'[Async!Task(q)] = call[Async!Task(q)]
        BY <1>8, <2>3, <3>3
      <4>. QED
        BY <3>1, <3>2, <4>1 DEF Over
    <3>4. CASE Async!Task(q) = p
      <4>1. Async!Active(p)
        BY DEF Async!Split
      <4>2. Async!Front(p) = q
        BY <2>1, <3>4
      <4>3. call[p].launch = "deferred" => call[q].at = "get"
        BY <4>1, <4>2 DEF Async!Active
      <4>4. e.launch = call[p].launch
        BY <1>5 DEF IsCall, e
      <4>5. ~(call[q].at = "ended")
        BY <1>2, <3>1, <3>4, <4>3 DEF Over
      <4>. QED
        BY <1>8, <3>1, <3>2, <3>4, <4>3, <4>4, <4>5
    <3>. QED
      BY <3>3, <3>4
  <2>. QED
    BY <1>11, <1>14, <2>1, <2>2, <2>3
<1>15. \A q \in Paths : Async!Task(q) \in DOMAIN call' \/ Async!Recursive(q) \in DOMAIN call'
                          => q \in DOMAIN call'
  BY <1>8, <1>11, <1>12
<1>16. DOMAIN call' \subseteq Paths /\ \A q \in DOMAIN call' : IsCall(call'[q])
  BY <1>9, <1>10
<1>. QED
  BY <1>13, <1>14, <1>15, <1>16 DEF AsyncInv, Over

LEMMA AsyncStep == AsyncInv /\ [Async!Next]_asyncVars => AsyncInv'
<1> SUFFICES ASSUME AsyncInv, [Async!Next]_asyncVars PROVE AsyncInv'
  OBVIOUS
<1>1. CASE UNCHANGED asyncVars
  BY <1>1 DEF asyncVars, AsyncInv, Over
<1>2. ASSUME NEW p \in DOMAIN call, Async!Split(p) PROVE AsyncInv'
  BY <1>2, AsyncSplit
<1>3. ASSUME NEW p \in DOMAIN call,
             Async!Sequential(p) \/ Async!Own(p) \/ Async!Get(p) \/ Async!Unwind(p)
      PROVE  AsyncInv'
  <2> DEFINE c == call'[p]
  <2>1. IsCall(call[p])
    BY DEF AsyncInv
  <2>2. \E d : call' = [call EXCEPT ![p] = d]
    BY <1>3 DEF Async!Sequential, Async!Own, Async!Get, Async!Unwind, Async!Becomes,
      Async!Goes, Async!Returns, Async!EndsBadly
  <2>3. call' = [call EXCEPT ![p] = c]
    BY <2>2
  <2>4. ASSUME NEW v \in {"get", "unwind"}, Async!Goes(p, v)
        PROVE  IsCall(c) /\ c.launch = call[p].launch /\ c.at = v
    <3>1. c = [call[p] EXCEPT !.at = v]
      BY <2>4 DEF Async!Goes, Async!Becomes
    <3>. HIDE DEF c
    <3>2. IsCall(c)
      BY <2>1, <3>1 DEF IsCall
    <3>3. c.launch = call[p].launch /\ c.at = v
      BY <2>1, <3>1 DEF IsCall
    <3>. QED
      BY <3>2, <3>3
  <2>5. ASSUME NEW v, Async!Returns(p, v)
        PROVE  IsCall(c) /\ c.launch = call[p].launch /\ c.at = "ended"
    <3>1. c = [call[p] EXCEPT !.at = "ended", !.result = v]
      BY <2>5 DEF Async!Returns, Async!Becomes
    <3>. HIDE DEF c
    <3>2. IsCall(c)
      BY <2>1, <3>1 DEF IsCall
    <3>3. c.launch = call[p].launch /\ c.at = "ended"
      BY <2>1, <3>1 DEF IsCall
    <3>. QED
      BY <3>2, <3>3
  <2>6. ASSUME Async!EndsBadly(p)
        PROVE  IsCall(c) /\ c.launch = call[p].launch /\ c.at = "ended"
    <3>1. c = [call[p] EXCEPT !.at = "ended", !.threw = TRUE]
      BY <2>6 DEF Async!EndsBadly, Async!Becomes
    <3>. HIDE DEF c
    <3>2. IsCall(c)
      BY <2>1, <3>1 DEF IsCall
    <3>3. c.launch = call[p].launch /\ c.at = "ended"
      BY <2>1, <3>1 DEF IsCall
    <3>. QED
      BY <3>2, <3>3
  <2>. HIDE DEF c
  <2>7. CASE Async!Sequential(p)
    <3>1. /\ call[p].at = "start" /\ Async!Active(p)
          /\ Async!EndsBadly(p) \/ Async!Returns(p, Async!Whole(call[p].chunk))
      BY <2>7 DEF Async!Sequential
    <3>2. IsCall(c) /\ c.launch = call[p].launch /\ c.at = "ended"
      BY <2>5, <2>6, <3>1
    <3>3. Async!Task(p) \notin DOMAIN call
      BY <3>1 DEF AsyncInv
    <3>. QED
      BY <2>3, <3>1, <3>2, <3>3, AsyncMoves
  <2>8. CASE Async!Own(p)
    <3>1. call[p].at = "own" /\ \E v \in {"get", "unwind"} : Async!Goes(p, v)
      BY <2>8 DEF Async!Own
    <3>2. IsCall(c) /\ c.launch = call[p].launch /\ c.at \in {"get", "unwind"}
      BY <2>4, <3>1
    <3>3. Async!Task(p) \in DOMAIN call /\ call[Async!Task(p)].launch = "deferred"
            => call[Async!Task(p)].at = "start"
      BY <3>1 DEF AsyncInv
    <3>. QED
      BY <2>3, <3>1, <3>2, <3>3, AsyncMoves
  <2>9. CASE Async!Get(p)
    <3>1. /\ call[p].at = "get" /\ Over(Async!Task(p))
          /\ Async!EndsBadly(p) \/ Async!Returns(p, Async!Combine(p))
      BY <2>9 DEF Async!Get, Over
    <3>2. IsCall(c) /\ c.launch = call[p].launch /\ c.at = "ended"
      BY <2>5, <2>6, <3>1
    <3>. QED
      BY <2>3, <3>1, <3>2, AsyncMoves
  <2>10. CASE Async!Unwind(p)
    <3>1. /\ call[p].at = "unwind" /\ Async!EndsBadly(p)
          /\ call[Async!Task(p)].launch = "thread" => call[Async!Task(p)].at = "ended"
      BY <2>10 DEF Async!Unwind
    <3>2. IsCall(c) /\ c.launch = call[p].launch /\ c.at = "ended"
      BY <2>6, <3>1
    <3>3. Async!Task(p) \in DOMAIN call => Over(Async!Task(p))
      BY <3>1 DEF AsyncInv, Over
    <3>. QED
      BY <2>3, <3>1, <3>2, <3>3, AsyncMoves
  <2>. QED
    BY <1>3, <2>7, <2>8, <2>9, <2>10
<1>. QED
  BY <1>1, <1>2, <1>3 DEF Async!Next

-----------------------------------------------------------------------------
(* The results of those algorithms *)

\* The library that Async sees is the one that is seen here.
LEMMA SameCardinality == ASSUME NEW S PROVE Async!Cardinality(S) = Cardinality(S)
BY DEF Async!Cardinality, Cardinality

LEMMA SameOrder == ASSUME NEW S PROVE Async!SetToSeq(S) = SetToSeq(S)
<1>1. Async!Cardinality(S) = Cardinality(S)
  BY SameCardinality
<1>2. \A f : Async!IsInjective(f) <=> IsInjective(f)
  BY DEF Async!IsInjective, IsInjective
<1>. QED
  BY <1>1, <1>2 DEF Async!SetToSeq, SetToSeq

LEMMA SameBag == ASSUME NEW s PROVE Async!ToBag(s) = ToBag(s)
<1>1. Async!Range(s) = Range(s)
  BY DEF Async!Range, Range
<1>2. \A x : Async!Cardinality({i \in DOMAIN s : s[i] = x})
               = Cardinality({i \in DOMAIN s : s[i] = x})
  BY SameCardinality
<1>. QED
  BY <1>1, <1>2 DEF Async!ToBag, ToBag

\* The two parts of a list.
TaskOf(recurs, s) == IF recurs = "sort" THEN Lower(s) ELSE SubSeq(s, 1, Len(s) \div 2)
OwnOf(recurs, s) ==
  IF recurs = "sort" THEN Higher(s) ELSE SubSeq(s, (Len(s) \div 2) + 1, Len(s))

LEMMA PartsOf ==
  ASSUME NEW s
  PROVE  /\ Async!TaskPart(s) = TaskOf(recursion, s)
         /\ Async!OwnPart(s) = OwnOf(recursion, s)
<1>1. ASSUME NEW S PROVE Async!Selected(s, S) = Selected(s, S)
  BY SameOrder DEF Async!Selected, Selected
<1>. QED
  BY <1>1 DEF Async!TaskPart, Async!OwnPart, Async!Below, Async!NotBelow, Async!half,
    TaskOf, OwnOf, Lower, Higher

LEMMA PartsAreLists ==
  ASSUME NEW recurs, NEW s \in Seq(Nat), recurs = "sort" => s # <<>>
  PROVE  TaskOf(recurs, s) \in Seq(Nat) /\ OwnOf(recurs, s) \in Seq(Nat)
<1>1. CASE recurs = "sort"
  BY <1>1, PartsMakeTheList DEF TaskOf, OwnOf
<1>2. CASE recurs # "sort"
  <2>1. Len(s) \in Nat /\ Len(s) \div 2 \in 0 .. Len(s)
    OBVIOUS
  <2>. QED
    BY <1>2, <2>1 DEF TaskOf, OwnOf
<1>. QED
  BY <1>1, <1>2

LEMMA HalvesMakeTheChunk ==
  ASSUME NEW recurs, recurs # "sort", NEW s \in Seq(Nat)
  PROVE  TaskOf(recurs, s) \o OwnOf(recurs, s) = s
<1> DEFINE n == Len(s)
           h == n \div 2
           a == SubSeq(s, 1, h)
           b == SubSeq(s, h + 1, n)
<1>1. n \in Nat /\ h \in 0 .. n
  OBVIOUS
<1>2. /\ a \in Seq(Nat) /\ Len(a) = h /\ \A i \in 1 .. h : a[i] = s[i]
      /\ b \in Seq(Nat) /\ Len(b) = n - h /\ \A i \in 1 .. n - h : b[i] = s[h + i]
  <2>. HIDE DEF h
  <2>. QED
    BY <1>1
<1>. HIDE DEF a, b, h
<1>3. /\ Len(a \o b) = Len(a) + Len(b)
      /\ \A i \in 1 .. Len(a) + Len(b) : (a \o b)[i] = IF i <= Len(a) THEN a[i] ELSE b[i - Len(a)]
  BY <1>2, ElementsOfConcat
<1>4. a \o b \in Seq(Nat) /\ Len(a \o b) = n
  BY <1>1, <1>2, <1>3
<1>5. ASSUME NEW i \in 1 .. n PROVE (a \o b)[i] = s[i]
  <2>1. CASE i <= h
    BY <1>1, <1>2, <1>3, <2>1
  <2>2. CASE ~(i <= h)
    <3>1. i - h \in 1 .. n - h /\ h + (i - h) = i
      BY <1>1, <2>2
    <3>. QED
      BY <1>1, <1>2, <1>3, <2>2, <3>1
  <2>. QED
    BY <2>1, <2>2
<1>6. a \o b = s
  BY <1>4, <1>5, SeqEqual
<1>. QED
  BY <1>6 DEF TaskOf, OwnOf, a, b, h

LEMMA InitIsFirst ==
  ASSUME NEW a \in Seq(Nat), NEW b \in Seq(Nat)
  PROVE  (<<0>> \o a) \o b = <<0>> \o (a \o b)
<1>1. <<0>> \in Seq(Nat)
  OBVIOUS
<1>. QED
  BY <1>1

\* The element that throws is in the list.
Throwing(thrown, s) == thrown # 0 /\ \E i \in 1 .. Len(s) : s[i] = thrown

LEMMA ThrowsOf == ASSUME NEW s PROVE Async!Throws(s) <=> Throwing(thrower, s)
BY DEF Async!Throws, Async!Contains, Throwing

LEMMA ThrowsInAPart ==
  ASSUME NEW recurs, recurs # "sort", NEW s \in Seq(Nat), NEW thrown
  PROVE  Throwing(thrown, s) <=> (\/ Throwing(thrown, TaskOf(recurs, s))
                                  \/ Throwing(thrown, OwnOf(recurs, s)))
<1> DEFINE a == TaskOf(recurs, s)
           b == OwnOf(recurs, s)
<1>1. a \in Seq(Nat) /\ b \in Seq(Nat) /\ a \o b = s
  BY PartsAreLists, HalvesMakeTheChunk
<1>. HIDE DEF a, b
<1>2. /\ Len(a) \in Nat /\ Len(b) \in Nat /\ Len(s) = Len(a) + Len(b)
      /\ \A i \in 1 .. Len(a) : s[i] = a[i]
      /\ \A i \in 1 .. Len(b) : s[Len(a) + i] = b[i]
      /\ \A i \in 1 .. Len(a) + Len(b) : s[i] = IF i <= Len(a) THEN a[i] ELSE b[i - Len(a)]
  BY <1>1, ElementsOfConcat
<1>3. ASSUME NEW i \in 1 .. Len(a) PROVE i \in 1 .. Len(s)
  BY <1>2
<1>4. ASSUME NEW i \in 1 .. Len(b) PROVE Len(a) + i \in 1 .. Len(s)
  BY <1>2
<1>5. ASSUME NEW i \in 1 .. Len(s)
      PROVE  (\E j \in 1 .. Len(a) : a[j] = s[i]) \/ \E j \in 1 .. Len(b) : b[j] = s[i]
  <2>1. CASE i <= Len(a)
    BY <1>2, <2>1
  <2>2. CASE ~(i <= Len(a))
    <3>1. i - Len(a) \in 1 .. Len(b)
      BY <1>2, <2>2
    <3>. QED
      BY <1>2, <2>2, <3>1
  <2>. QED
    BY <2>1, <2>2
<1>. QED
  BY <1>2, <1>3, <1>4, <1>5 DEF Throwing, a, b

Came(recurs, r, s) == IF recurs = "sort" THEN SortOf(r, s) ELSE r = <<0>> \o s

\* What a call knows of its list and has come to.
CallRight(recurs, thrown, c) ==
  /\ c.chunk \in Seq(Nat) /\ c.threw \in BOOLEAN
  /\ c.at # "ended" => ~c.threw
  /\ c.at = "get" => ~Throwing(thrown, OwnOf(recurs, c.chunk))
  /\ c.at = "unwind" => Throwing(thrown, OwnOf(recurs, c.chunk))
  /\ c.at = "ended" => /\ c.threw <=> Throwing(thrown, c.chunk)
                       /\ ~c.threw => Came(recurs, c.result, c.chunk)

\* The calls that the call at p of C has made have the parts of its list.
PartsGiven(recurs, C, p) ==
  /\ recurs = "sort" => C[p].chunk # <<>>
  /\ Async!Task(p) \in DOMAIN C /\ C[Async!Task(p)].chunk = TaskOf(recurs, C[p].chunk)
  /\ recurs = "sort" =>
       /\ Async!Recursive(p) \in DOMAIN C
       /\ C[Async!Recursive(p)].chunk = OwnOf(recurs, C[p].chunk)
       /\ C[p].at = "get" => C[Async!Recursive(p)].at = "ended"

Divides == {"own", "get", "unwind"}

ResultInv ==
  /\ recursion = "sort" => thrower = 0
  /\ <<>> \in DOMAIN call /\ (thrower # 0 <=> Throwing(thrower, call[<<>>].chunk))
  /\ \A p \in DOMAIN call : CallRight(recursion, thrower, call[p])
  /\ \A p \in DOMAIN call : call[p].at \in Divides => PartsGiven(recursion, call, p)

LEMMA ResultInvSuffices == ResultInv => Async!ResultIsRight
<1> SUFFICES ASSUME ResultInv, call[<<>>].at = "ended"
             PROVE  /\ call[<<>>].threw <=> thrower # 0
                    /\ ~call[<<>>].threw => IF recursion = "sort"
                         THEN /\ Async!InOrder(call[<<>>].result)
                              /\ Async!ToBag(call[<<>>].result) = Async!ToBag(call[<<>>].chunk)
                         ELSE call[<<>>].result = <<0>> \o call[<<>>].chunk
  BY DEF Async!ResultIsRight
<1> DEFINE c == call[<<>>]
<1>1. /\ thrower # 0 <=> Throwing(thrower, c.chunk)
      /\ CallRight(recursion, thrower, c)
  BY DEF ResultInv
<1>. HIDE DEF c
<1>2. /\ c.threw <=> thrower # 0
      /\ c.chunk \in Seq(Nat)
      /\ ~c.threw => Came(recursion, c.result, c.chunk)
  BY <1>1 DEF CallRight, c
<1>3. ASSUME recursion = "sort", ~c.threw
      PROVE  /\ Async!InOrder(c.result) /\ Async!ToBag(c.result) = Async!ToBag(c.chunk)
  <2>1. SortOf(c.result, c.chunk)
    BY <1>2, <1>3 DEF Came
  <2>2. /\ \A i, j \in 1 .. Len(c.result) : i <= j => c.result[i] <= c.result[j]
        /\ ToBag(c.result) = ToBag(c.chunk)
    BY <1>2, <2>1, SortedIsTheBag
  <2>. QED
    BY <2>2, SameBag DEF Async!InOrder
<1>4. ASSUME recursion # "sort", ~c.threw PROVE c.result = <<0>> \o c.chunk
  BY <1>2, <1>4 DEF Came
<1>. QED
  BY <1>2, <1>3, <1>4 DEF c

LEMMA ResultInit == Async!Init => ResultInv
<1> SUFFICES ASSUME Async!Init PROVE ResultInv
  OBVIOUS
<1>1. PICK list \in IF recursion = "sort" THEN UpToFour ELSE Ranges :
        /\ call = [p \in {<<>>} |-> Async!New(list, "call")]
        /\ thrower \in IF recursion = "sort" THEN {0} ELSE 0 .. Len(list)
  BY DEF Async!Init
<1>2. list \in Seq(Nat) /\ (recursion = "sort" \/ \A i \in 1 .. Len(list) : list[i] = i)
  <2>1. CASE recursion = "sort"
    <3>1. PICK n \in 0 .. 4 : list \in [1 .. n -> 1 .. 3]
      BY <1>1, <2>1 DEF UpToFour, ListsOf
    <3>2. \A i \in 1 .. n : list[i] \in Nat
      BY <3>1
    <3>3. list = [i \in 1 .. n |-> list[i]] /\ n \in Nat
      BY <3>1
    <3>4. list \in [1 .. n -> Nat]
      BY <3>2, <3>3
    <3>. QED
      BY <2>1, <3>3, <3>4
  <2>2. CASE recursion # "sort"
    <3>1. PICK n \in 0 .. MaxRange : list = [i \in 1 .. n |-> i]
      BY <1>1, <2>2 DEF Ranges
    <3>2. n \in Nat
      BY AsyncAssumption DEF AsyncAssumption
    <3>. QED
      BY <3>1, <3>2
  <2>. QED
    BY <2>1, <2>2
<1>3. recursion = "sort" => thrower = 0
  BY <1>1
<1>4. thrower # 0 <=> Throwing(thrower, list)
  <2>1. Len(list) \in Nat
    BY <1>2
  <2>2. thrower # 0 => recursion # "sort" /\ thrower \in 1 .. Len(list)
    BY <1>1, <2>1
  <2>3. thrower # 0 => list[thrower] = thrower
    BY <1>2, <2>2
  <2>. QED
    BY <2>2, <2>3 DEF Throwing
<1>5. /\ DOMAIN call = {<<>>} /\ call[<<>>].chunk = list
      /\ call[<<>>].at = "start" /\ call[<<>>].threw = FALSE
  BY <1>1 DEF Async!New
<1>6. CallRight(recursion, thrower, call[<<>>])
  BY <1>2, <1>5 DEF CallRight
<1>7. "start" \notin Divides
  BY DEF Divides
<1>. QED
  BY <1>3, <1>4, <1>5, <1>6, <1>7 DEF ResultInv

\* A step of one call that starts no others.
LEMMA ResultMoves ==
  ASSUME AsyncInv, ResultInv, NEW p \in DOMAIN call, NEW c, call' = [call EXCEPT ![p] = c],
         UNCHANGED <<recursion, thrower>>,
         c.chunk = call[p].chunk, call[p].at # "ended", CallRight(recursion, thrower, c),
         c.at \in Divides => call[p].at \in Divides,
         recursion = "sort" /\ c.at = "get" => call[Async!Recursive(p)].at = "ended"
  PROVE  ResultInv'
<1> USE PathsApart
<1>1. /\ DOMAIN call' = DOMAIN call /\ call'[p] = c
      /\ \A q \in DOMAIN call : q # p => call'[q] = call[q]
      /\ recursion' = recursion /\ thrower' = thrower
  OBVIOUS
<1>2. /\ \A q \in DOMAIN call : call'[q].chunk = call[q].chunk
      /\ \A q \in DOMAIN call : call[q].at = "ended" => call'[q].at = "ended"
  BY <1>1
<1>3. \A q \in DOMAIN call : CallRight(recursion, thrower, call'[q])
  BY <1>1 DEF ResultInv
<1>4. ASSUME NEW q \in DOMAIN call, call'[q].at \in Divides
      PROVE  PartsGiven(recursion, call', q)
  <2>1. call[q].at \in Divides /\ PartsGiven(recursion, call, q)
    BY <1>1, <1>4 DEF ResultInv
  <2>2. recursion = "sort" /\ call'[q].at = "get" => call'[Async!Recursive(q)].at = "ended"
    <3>1. CASE q = p
      BY <1>1, <1>2, <2>1, <3>1 DEF PartsGiven
    <3>2. CASE q # p
      BY <1>1, <1>2, <2>1, <3>2 DEF PartsGiven
    <3>. QED
      BY <3>1, <3>2
  <2>3. call'[q].chunk = call[q].chunk
    BY <1>2
  <2>. QED
    BY <1>1, <1>2, <2>1, <2>2, <2>3 DEF PartsGiven
<1>5. <<>> \in DOMAIN call /\ (thrower # 0 <=> Throwing(thrower, call'[<<>>].chunk))
  BY <1>2 DEF ResultInv
<1>6. recursion = "sort" => thrower = 0
  BY DEF ResultInv
<1>. QED
  BY <1>1, <1>3, <1>4, <1>5, <1>6 DEF ResultInv

\* A call gives the parts of its list to the calls that it makes.
LEMMA ResultSplit ==
  ASSUME AsyncInv, ResultInv, NEW p \in DOMAIN call, Async!Split(p)
  PROVE  ResultInv'
<1> USE PathsApart
<1> DEFINE D == DOMAIN call
           tp == Async!Task(p)
           rp == Async!Recursive(p)
           R == IF recursion = "sort" THEN {rp} ELSE {}
           s == call[p].chunk
           x == TaskOf(recursion, s)
           y == OwnOf(recursion, s)
<1>1. /\ D \subseteq Paths /\ p \in Paths /\ tp \in Paths /\ rp \in Paths
      /\ tp # p /\ rp # p /\ tp # rp
  BY DEF AsyncInv
<1>2. call[p].at = "start" /\ tp \notin D /\ rp \notin D
  BY DEF AsyncInv, Async!Split
<1>3. Async!TaskPart(s) = x /\ Async!OwnPart(s) = y
  BY PartsOf
<1>4. PICK launch :
        call' = [q \in D \cup {tp} \cup R |->
                   IF q = tp THEN Async!New(x, launch)
                   ELSE IF q \in R THEN Async!New(y, "call")
                   ELSE IF q = p THEN [call[p] EXCEPT !.at = "own"]
                   ELSE call[q]]
  BY <1>3 DEF Async!Split
<1>5. R \subseteq {rp} /\ R \cap D = {} /\ tp \notin R /\ p \notin R
  BY <1>1, <1>2
<1>6. IsCall(call[p]) /\ CallRight(recursion, thrower, call[p])
  BY DEF AsyncInv, ResultInv
<1>7. s \in Seq(Nat) /\ (recursion = "sort" => s # <<>>)
  <2>1. ~Async!Small(s)
    BY DEF Async!Split
  <2>. QED
    BY <1>6, <2>1 DEF Async!Small, CallRight
<1>8. x \in Seq(Nat) /\ y \in Seq(Nat)
  BY <1>7, PartsAreLists
<1> DEFINE n == Async!New(x, launch)
           o == Async!New(y, "call")
           e == [call[p] EXCEPT !.at = "own"]
<1>9. /\ n.chunk = x /\ n.at = "start" /\ n.threw = FALSE
      /\ o.chunk = y /\ o.at = "start" /\ o.threw = FALSE
  BY DEF Async!New
<1>10. e.chunk = s /\ e.at = "own" /\ e.threw = call[p].threw
  BY <1>6 DEF IsCall
<1>. HIDE DEF R, n, o, e, tp, rp, x, y, s
<1>11. /\ DOMAIN call' = D \cup {tp} \cup R
       /\ call'[tp] = n /\ call'[p] = e
       /\ \A q \in R : call'[q] = o
       /\ \A q \in D : q # p => call'[q] = call[q]
       /\ recursion' = recursion /\ thrower' = thrower
  <2>1. recursion' = recursion /\ thrower' = thrower
    BY DEF Async!Split
  <2>. QED
    BY <1>1, <1>2, <1>4, <1>5, <2>1 DEF n, o, e
<1>12. /\ CallRight(recursion, thrower, n) /\ CallRight(recursion, thrower, o)
       /\ CallRight(recursion, thrower, e)
  <2>1. CallRight(recursion, thrower, n) /\ CallRight(recursion, thrower, o)
    BY <1>8, <1>9 DEF CallRight
  <2>2. call[p].threw = FALSE
    BY <1>2, <1>6 DEF CallRight
  <2>. QED
    BY <1>7, <1>10, <2>1, <2>2 DEF CallRight
<1>13. \A q \in DOMAIN call' : CallRight(recursion, thrower, call'[q])
  BY <1>5, <1>11, <1>12 DEF ResultInv
<1>14. PartsGiven(recursion, call', p)
  <2>1. call'[p].chunk = s /\ call'[p].at = "own"
    BY <1>10, <1>11
  <2>2. recursion = "sort" => s # <<>>
    BY <1>7
  <2>3. tp \in DOMAIN call' /\ call'[tp].chunk = x
    BY <1>9, <1>11
  <2>4. recursion = "sort" => rp \in DOMAIN call' /\ call'[rp].chunk = y
    BY <1>9, <1>11 DEF R
  <2>. QED
    BY <2>1, <2>2, <2>3, <2>4 DEF PartsGiven, tp, rp, x, y
<1>15. \A q \in D : /\ call'[q].chunk = call[q].chunk
                    /\ call[q].at = "ended" => call'[q].at = "ended"
  BY <1>2, <1>10, <1>11 DEF s
<1>16. ASSUME NEW q \in DOMAIN call', call'[q].at \in Divides
       PROVE  PartsGiven(recursion, call', q)
  <2>1. CASE q = p
    BY <1>14, <2>1
  <2>2. CASE q # p
    <3>1. q \in D
      BY <1>5, <1>9, <1>11, <1>16, <2>2 DEF Divides
    <3>2. call'[q] = call[q] /\ PartsGiven(recursion, call, q)
      BY <1>11, <1>16, <2>2, <3>1 DEF ResultInv
    <3>. QED
      BY <1>11, <1>15, <3>2 DEF PartsGiven
  <2>. QED
    BY <2>1, <2>2
<1>17. <<>> \in DOMAIN call' /\ (thrower # 0 <=> Throwing(thrower, call'[<<>>].chunk))
  BY <1>11, <1>15 DEF ResultInv
<1>18. recursion = "sort" => thrower = 0
  BY DEF ResultInv
<1>. QED
  BY <1>11, <1>13, <1>16, <1>17, <1>18 DEF ResultInv

\* What a call returns from what its task and, in the sort, its own call came to.
LEMMA ResultsCombine ==
  ASSUME AsyncInv, ResultInv, NEW p \in DOMAIN call, call[p].at = "get",
         call[Async!Task(p)].at = "ended"
  PROVE  LET s == call[p].chunk
         IN IF call[Async!Task(p)].threw THEN Throwing(thrower, s)
            ELSE ~Throwing(thrower, s) /\ Came(recursion, Async!Combine(p), s)
<1> DEFINE tp == Async!Task(p)
           rp == Async!Recursive(p)
           s == call[p].chunk
           t == call[tp].result
<1>1. PartsGiven(recursion, call, p) /\ CallRight(recursion, thrower, call[p])
  BY DEF ResultInv, Divides
<1>2. /\ s \in Seq(Nat) /\ ~Throwing(thrower, OwnOf(recursion, s))
      /\ recursion = "sort" => s # <<>>
  BY <1>1 DEF CallRight, PartsGiven
<1>3. tp \in DOMAIN call /\ call[tp].chunk = TaskOf(recursion, s)
  BY <1>1 DEF PartsGiven
<1>4. CallRight(recursion, thrower, call[tp])
  BY <1>3 DEF ResultInv
<1>5. /\ call[tp].threw <=> Throwing(thrower, TaskOf(recursion, s))
      /\ ~call[tp].threw => Came(recursion, t, TaskOf(recursion, s))
  BY <1>3, <1>4 DEF CallRight
<1>6. CASE recursion = "sort"
  <2>1. ~Throwing(thrower, s) /\ ~call[tp].threw
    BY <1>5, <1>6 DEF ResultInv, Throwing
  <2>2. rp \in DOMAIN call /\ call[rp].chunk = OwnOf(recursion, s) /\ call[rp].at = "ended"
    BY <1>1, <1>6 DEF PartsGiven
  <2>3. CallRight(recursion, thrower, call[rp])
    BY <2>2 DEF ResultInv
  <2>4. ~Throwing(thrower, call[rp].chunk)
    BY <1>6 DEF ResultInv, Throwing
  <2>5. SortOf(call[rp].result, Higher(s))
    BY <1>6, <2>2, <2>3, <2>4 DEF CallRight, Came, OwnOf
  <2>6. SortOf(t, Lower(s))
    BY <1>5, <1>6, <2>1 DEF Came, TaskOf
  <2>7. SortOf(t \o <<Head(s)>> \o call[rp].result, s)
    BY <1>2, <1>6, <2>5, <2>6, SortedPartsMakeTheSort
  <2>8. Async!Combine(p) = t \o <<Head(s)>> \o call[rp].result
    BY <1>6 DEF Async!Combine
  <2>. QED
    BY <1>6, <2>1, <2>7, <2>8 DEF Came
<1>7. CASE recursion # "sort"
  <2> DEFINE a == TaskOf(recursion, s)
             b == OwnOf(recursion, s)
  <2>1. Throwing(thrower, s) <=> Throwing(thrower, a) \/ Throwing(thrower, b)
    BY <1>2, <1>7, ThrowsInAPart
  <2>2. a \in Seq(Nat) /\ b \in Seq(Nat) /\ a \o b = s
    BY <1>2, <1>7, PartsAreLists, HalvesMakeTheChunk
  <2>3. Async!Combine(p) = t \o b
    BY <1>7, PartsOf DEF Async!Combine
  <2>4. ASSUME ~call[tp].threw PROVE Async!Combine(p) = <<0>> \o s
    <3>1. t = <<0>> \o a
      BY <1>5, <1>7, <2>4 DEF Came
    <3>. HIDE DEF a, b, t
    <3>2. (<<0>> \o a) \o b = <<0>> \o (a \o b)
      BY <2>2, InitIsFirst
    <3>. QED
      BY <2>2, <2>3, <3>1, <3>2
  <2>. HIDE DEF a, b
  <2>5. ~call[tp].threw => Came(recursion, Async!Combine(p), s)
    BY <1>7, <2>4 DEF Came
  <2>. QED
    BY <1>2, <1>5, <2>1, <2>5 DEF a, b
<1>. QED
  BY <1>6, <1>7

LEMMA ResultStep == AsyncInv /\ ResultInv /\ [Async!Next]_asyncVars => ResultInv'
<1> SUFFICES ASSUME AsyncInv, ResultInv, [Async!Next]_asyncVars PROVE ResultInv'
  OBVIOUS
<1>1. CASE UNCHANGED asyncVars
  BY <1>1 DEF asyncVars, ResultInv
<1>2. ASSUME NEW p \in DOMAIN call, Async!Split(p) PROVE ResultInv'
  BY <1>2, ResultSplit
<1>3. ASSUME NEW p \in DOMAIN call,
             Async!Sequential(p) \/ Async!Own(p) \/ Async!Get(p) \/ Async!Unwind(p)
      PROVE  ResultInv'
  <2> DEFINE c == call'[p]
             s == call[p].chunk
  <2>1. /\ IsCall(call[p]) /\ CallRight(recursion, thrower, call[p])
        /\ call[p].at \in Divides => PartsGiven(recursion, call, p)
        /\ recursion = "sort" => thrower = 0
    BY DEF AsyncInv, ResultInv
  <2>2. s \in Seq(Nat) /\ (call[p].at # "ended" => call[p].threw = FALSE)
    BY <2>1 DEF CallRight
  <2>3. /\ \E d : call' = [call EXCEPT ![p] = d]
        /\ UNCHANGED <<recursion, thrower>>
    BY <1>3 DEF Async!Sequential, Async!Own, Async!Get, Async!Unwind, Async!Becomes,
      Async!Goes, Async!Returns, Async!EndsBadly
  <2>4. call' = [call EXCEPT ![p] = c]
    BY <2>3
  <2>5. ASSUME NEW v \in {"get", "unwind"}, Async!Goes(p, v)
        PROVE  c.chunk = s /\ c.at = v /\ c.threw = call[p].threw
    <3>1. c = [call[p] EXCEPT !.at = v]
      BY <2>5 DEF Async!Goes, Async!Becomes
    <3>. HIDE DEF c
    <3>. QED
      BY <2>1, <3>1 DEF IsCall
  <2>6. ASSUME NEW v, Async!Returns(p, v)
        PROVE  c.chunk = s /\ c.at = "ended" /\ c.threw = call[p].threw /\ c.result = v
    <3>1. c = [call[p] EXCEPT !.at = "ended", !.result = v]
      BY <2>6 DEF Async!Returns, Async!Becomes
    <3>. HIDE DEF c
    <3>. QED
      BY <2>1, <3>1 DEF IsCall
  <2>7. ASSUME Async!EndsBadly(p)
        PROVE  c.chunk = s /\ c.at = "ended" /\ c.threw = TRUE
    <3>1. c = [call[p] EXCEPT !.at = "ended", !.threw = TRUE]
      BY <2>7 DEF Async!EndsBadly, Async!Becomes
    <3>. HIDE DEF c
    <3>. QED
      BY <2>1, <3>1 DEF IsCall
  <2>. HIDE DEF c
  <2>8. ASSUME call[p].at # "ended", c.chunk = s, c.at = "ended",
               \/ c.threw = TRUE /\ Throwing(thrower, s)
               \/ c.threw = FALSE /\ ~Throwing(thrower, s) /\ Came(recursion, c.result, s)
        PROVE  ResultInv'
    <3>1. CallRight(recursion, thrower, c)
      BY <2>2, <2>8 DEF CallRight
    <3>2. c.at \notin Divides /\ c.at # "get"
      BY <2>8 DEF Divides
    <3>. QED
      BY <2>3, <2>4, <2>8, <3>1, <3>2, ResultMoves
  <2>9. CASE Async!Sequential(p)
    <3>1. /\ call[p].at = "start" /\ Async!Small(s)
          /\ IF Async!Throws(s) THEN Async!EndsBadly(p) ELSE Async!Returns(p, Async!Whole(s))
      BY <2>9 DEF Async!Sequential
    <3>2. Async!Throws(s) <=> Throwing(thrower, s)
      BY ThrowsOf
    <3>3. Came(recursion, Async!Whole(s), s)
      BY <3>1, EmptyIsSorted DEF Async!Small, Async!Whole, Came
    <3>4. CASE Async!Throws(s)
      <4>1. c.chunk = s /\ c.at = "ended" /\ c.threw = TRUE
        BY <2>7, <3>1, <3>4
      <4>. QED
        BY <2>8, <3>1, <3>2, <3>4, <4>1
    <3>5. CASE ~Async!Throws(s)
      <4>1. c.chunk = s /\ c.at = "ended" /\ c.threw = FALSE /\ c.result = Async!Whole(s)
        BY <2>2, <2>6, <3>1, <3>5
      <4>. QED
        BY <2>8, <3>1, <3>2, <3>3, <3>5, <4>1
    <3>. QED
      BY <3>4, <3>5
  <2>10. CASE Async!Own(p)
    <3>1. call[p].at = "own" /\ PartsGiven(recursion, call, p)
      BY <2>1, <2>10 DEF Async!Own, Divides
    <3>2. Async!OwnPart(s) = OwnOf(recursion, s)
      BY PartsOf
    <3>3. PICK v \in {"get", "unwind"} :
            /\ Async!Goes(p, v)
            /\ recursion = "sort" => v = "get" /\ call[Async!Recursive(p)].at = "ended"
            /\ recursion # "sort" => (v = "unwind" <=> Async!Throws(OwnOf(recursion, s)))
      <4>1. CASE recursion = "sort"
        BY <2>10, <4>1 DEF Async!Own
      <4>2. CASE recursion # "sort"
        BY <2>10, <3>2, <4>2 DEF Async!Own
      <4>. QED
        BY <4>1, <4>2
    <3>4. v = "unwind" <=> Throwing(thrower, OwnOf(recursion, s))
      BY <2>1, <3>3, ThrowsOf DEF Throwing
    <3>5. c.chunk = s /\ c.at = v /\ c.threw = FALSE
      BY <2>2, <2>5, <3>1, <3>3
    <3>6. CallRight(recursion, thrower, c)
      BY <2>2, <3>3, <3>4, <3>5 DEF CallRight
    <3>. QED
      BY <2>3, <2>4, <3>1, <3>3, <3>5, <3>6, ResultMoves DEF Divides
  <2>11. CASE Async!Get(p)
    <3>1. /\ call[p].at = "get" /\ call[Async!Task(p)].at = "ended"
          /\ IF call[Async!Task(p)].threw THEN Async!EndsBadly(p)
             ELSE Async!Returns(p, Async!Combine(p))
      BY <2>11 DEF Async!Get
    <3>2. IF call[Async!Task(p)].threw THEN Throwing(thrower, s)
          ELSE ~Throwing(thrower, s) /\ Came(recursion, Async!Combine(p), s)
      BY <3>1, ResultsCombine
    <3>3. CASE call[Async!Task(p)].threw
      <4>1. c.chunk = s /\ c.at = "ended" /\ c.threw = TRUE
        BY <2>7, <3>1, <3>3
      <4>. QED
        BY <2>8, <3>1, <3>2, <3>3, <4>1
    <3>4. CASE ~call[Async!Task(p)].threw
      <4>1. c.chunk = s /\ c.at = "ended" /\ c.threw = FALSE /\ c.result = Async!Combine(p)
        BY <2>2, <2>6, <3>1, <3>4
      <4>. QED
        BY <2>8, <3>1, <3>2, <3>4, <4>1
    <3>. QED
      BY <3>3, <3>4
  <2>12. CASE Async!Unwind(p)
    <3>1. call[p].at = "unwind" /\ Async!EndsBadly(p)
      BY <2>12 DEF Async!Unwind
    <3>2. Throwing(thrower, OwnOf(recursion, s))
      BY <2>1, <3>1 DEF CallRight
    <3>3. recursion # "sort"
      BY <2>1, <3>2 DEF Throwing
    <3>4. Throwing(thrower, s)
      BY <2>2, <3>2, <3>3, ThrowsInAPart
    <3>5. c.chunk = s /\ c.at = "ended" /\ c.threw = TRUE
      BY <2>7, <3>1
    <3>. QED
      BY <2>8, <3>1, <3>4, <3>5
  <2>. QED
    BY <1>3, <2>9, <2>10, <2>11, <2>12
<1>. QED
  BY <1>1, <1>2, <1>3 DEF Async!Next

-----------------------------------------------------------------------------
(* The sequential sort *)

\* What the sort makes of a list when it makes g of its parts; a g for the
\* lists that are not longer than n.
SortBody(g, s) == IF s = <<>> THEN <<>> ELSE g[Lower(s)] \o <<Head(s)>> \o g[Higher(s)]

Short(n) == {s \in Seq(Nat) : Len(s) <= n}

SortsShort(g, n) == g = [s \in Short(n) |-> SortBody(g, s)]

LEMMA PartsAreShorter ==
  ASSUME NEW s \in Seq(Nat), s # <<>>
  PROVE  /\ Lower(s) \in Seq(Nat) /\ Len(Lower(s)) \in Nat /\ Len(Lower(s)) < Len(s)
         /\ Higher(s) \in Seq(Nat) /\ Len(Higher(s)) \in Nat /\ Len(Higher(s)) < Len(s)
<1>1. /\ Lower(s) \in Seq(Nat) /\ Higher(s) \in Seq(Nat)
      /\ Len(s) = Len(Lower(s)) + 1 + Len(Higher(s))
  BY PartsMakeTheList
<1>2. Len(Lower(s)) \in Nat /\ Len(Higher(s)) \in Nat
  BY <1>1
<1>. QED
  BY <1>1, <1>2

\* A list of which something holds that holds of no shorter one.
LEMMA ShortestList ==
  ASSUME NEW B, B \subseteq Seq(Nat), B # {}
  PROVE  \E s \in B : \A r \in B : Len(s) <= Len(r)
<1> DEFINE N == {Len(s) : s \in B}
<1>1. N \subseteq Nat /\ N # {}
  <2>1. \A s \in B : Len(s) \in Nat
    OBVIOUS
  <2>2. N \subseteq Nat
    BY <2>1
  <2>3. N # {}
    OBVIOUS
  <2>. QED
    BY <2>2, <2>3
<1>2. PICK n \in N : \A k \in N : n <= k
  <2>. HIDE DEF N
  <2>. QED
    BY <1>1, LeastNumber
<1>. QED
  BY <1>2

LEMMA ShortSortsAgree ==
  ASSUME NEW n \in Nat, NEW k \in Nat, NEW g, NEW h, SortsShort(g, n), SortsShort(h, k)
  PROVE  \A s \in Seq(Nat) : Len(s) <= n /\ Len(s) <= k => g[s] = h[s]
<1> DEFINE B == {s \in Seq(Nat) : Len(s) <= n /\ Len(s) <= k /\ g[s] # h[s]}
<1>1. SUFFICES ASSUME B # {} PROVE FALSE
  OBVIOUS
<1>2. PICK s \in B : \A r \in B : Len(s) <= Len(r)
  <2>1. B \subseteq Seq(Nat)
    OBVIOUS
  <2>. HIDE DEF B
  <2>. QED
    BY <1>1, <2>1, ShortestList
<1>3. s \in Seq(Nat) /\ Len(s) \in Nat /\ Len(s) <= n /\ Len(s) <= k /\ g[s] # h[s]
  BY <1>2
<1>4. g[s] = SortBody(g, s) /\ h[s] = SortBody(h, s)
  BY <1>3 DEF SortsShort, Short
<1>5. s # <<>>
  BY <1>3, <1>4 DEF SortBody
<1>6. /\ Lower(s) \in Seq(Nat) /\ Len(Lower(s)) \in Nat /\ Len(Lower(s)) < Len(s)
      /\ Higher(s) \in Seq(Nat) /\ Len(Higher(s)) \in Nat /\ Len(Higher(s)) < Len(s)
  BY <1>3, <1>5, PartsAreShorter
<1>7. Lower(s) \notin B /\ Higher(s) \notin B
  <2>. HIDE DEF B
  <2>. QED
    BY <1>2, <1>3, <1>6
<1>8. g[Lower(s)] = h[Lower(s)] /\ g[Higher(s)] = h[Higher(s)]
  BY <1>3, <1>6, <1>7
<1>. QED
  BY <1>3, <1>4, <1>8 DEF SortBody

LEMMA ShortSortExists == \A n \in Nat : \E g : SortsShort(g, n)
<1> DEFINE N == {n \in Nat : ~ \E g : SortsShort(g, n)}
<1>1. SUFFICES ASSUME N # {} PROVE FALSE
  OBVIOUS
<1>2. PICK n \in N : \A k \in N : n <= k
  <2>1. N \subseteq Nat
    OBVIOUS
  <2>. HIDE DEF N
  <2>. QED
    BY <1>1, <2>1, LeastNumber
<1>3. n \in Nat /\ \A g : ~ SortsShort(g, n)
  BY <1>2
<1>4. CASE n = 0
  <2> DEFINE g == [s \in Short(n) |-> <<>>]
  <2>1. \A s \in Short(n) : s = <<>>
    BY <1>4 DEF Short
  <2>2. \A s \in Short(n) : SortBody(g, s) = <<>>
    BY <2>1 DEF SortBody
  <2>3. g = [s \in Short(n) |-> SortBody(g, s)]
    BY <2>2
  <2>. QED
    BY <1>3, <2>3 DEF SortsShort
<1>5. CASE n # 0
  <2>1. n - 1 \in Nat /\ n - 1 < n
    BY <1>3, <1>5
  <2>2. PICK g : SortsShort(g, n - 1)
    <3>1. n - 1 \notin N
      <4>. HIDE DEF N
      <4>. QED
        BY <1>2, <1>3, <2>1
    <3>. QED
      BY <2>1, <3>1
  <2> DEFINE h == [s \in Short(n) |-> SortBody(g, s)]
  <2>3. ASSUME NEW s \in Short(n) PROVE SortBody(h, s) = SortBody(g, s)
    <3>1. CASE s = <<>>
      BY <3>1 DEF SortBody
    <3>2. CASE s # <<>>
      <4>1. s \in Seq(Nat) /\ Len(s) \in Nat /\ Len(s) <= n
        BY <2>3 DEF Short
      <4>2. /\ Lower(s) \in Short(n) /\ Lower(s) \in Short(n - 1)
            /\ Higher(s) \in Short(n) /\ Higher(s) \in Short(n - 1)
        BY <1>3, <3>2, <4>1, PartsAreShorter DEF Short
      <4>3. h[Lower(s)] = SortBody(g, Lower(s)) /\ h[Higher(s)] = SortBody(g, Higher(s))
        BY <4>2
      <4>4. g[Lower(s)] = SortBody(g, Lower(s)) /\ g[Higher(s)] = SortBody(g, Higher(s))
        BY <2>2, <4>2 DEF SortsShort
      <4>. HIDE DEF h
      <4>. QED
        BY <3>2, <4>3, <4>4 DEF SortBody
    <3>. QED
      BY <3>1, <3>2
  <2>4. h = [s \in Short(n) |-> SortBody(h, s)]
    BY <2>3
  <2>. HIDE DEF h
  <2>. QED
    BY <1>3, <2>4 DEF SortsShort
<1>. QED
  BY <1>4, <1>5

LEMMA SortOfAllExists == \E f : f = [s \in Seq(Nat) |-> SortBody(f, s)]
<1> DEFINE G(n) == CHOOSE g : SortsShort(g, n)
           f == [s \in Seq(Nat) |-> G(Len(s))[s]]
<1>1. \A n \in Nat : SortsShort(G(n), n)
  BY ShortSortExists
<1>. HIDE DEF G
<1>2. ASSUME NEW s \in Seq(Nat) PROVE f[s] = SortBody(f, s)
  <2> DEFINE g == G(Len(s))
  <2>1. Len(s) \in Nat /\ SortsShort(g, Len(s)) /\ s \in Short(Len(s))
    BY <1>1 DEF Short
  <2>2. f[s] = g[s]
    OBVIOUS
  <2>. HIDE DEF g
  <2>3. g[s] = SortBody(g, s)
    BY <2>1 DEF SortsShort
  <2>4. ASSUME NEW r \in Seq(Nat), Len(r) \in Nat, Len(r) <= Len(s) PROVE f[r] = g[r]
    <3>1. SortsShort(G(Len(r)), Len(r))
      BY <1>1, <2>4
    <3>2. G(Len(r))[r] = g[r]
      BY <2>1, <2>4, <3>1, ShortSortsAgree
    <3>. QED
      BY <3>2
  <2>. HIDE DEF f
  <2>5. SortBody(f, s) = SortBody(g, s)
    <3>1. CASE s = <<>>
      BY <3>1 DEF SortBody
    <3>2. CASE s # <<>>
      <4>1. f[Lower(s)] = g[Lower(s)] /\ f[Higher(s)] = g[Higher(s)]
        BY <2>1, <2>4, <3>2, PartsAreShorter
      <4>. QED
        BY <3>2, <4>1 DEF SortBody
    <3>. QED
      BY <3>1, <3>2
  <2>. QED
    BY <2>2, <2>3, <2>5
<1>3. f = [s \in Seq(Nat) |-> SortBody(f, s)]
  <2>1. DOMAIN f = Seq(Nat) /\ f = [s \in Seq(Nat) |-> f[s]]
    OBVIOUS
  <2>. HIDE DEF f
  <2>. QED
    BY <1>2, <2>1
<1>. QED
  BY <1>3

LEMMA SequentialSort ==
  Async!sequential_quick_sort
    = [s \in Seq(Nat) |-> SortBody(Async!sequential_quick_sort, s)]
<1>1. ASSUME NEW s PROVE Async!Below(s) = Lower(s) /\ Async!NotBelow(s) = Higher(s)
  BY SameOrder DEF Async!Below, Async!NotBelow, Async!Selected, Lower, Higher, Selected
<1> DEFINE Of(f) == [s \in Seq(Nat) |->
                       IF s = <<>> THEN <<>>
                       ELSE f[Async!Below(s)] \o <<Head(s)>> \o f[Async!NotBelow(s)]]
<1>2. \A f : Of(f) = [s \in Seq(Nat) |-> SortBody(f, s)]
  BY <1>1 DEF SortBody
<1>3. Async!sequential_quick_sort = CHOOSE f : f = Of(f)
  BY DEF Async!sequential_quick_sort
<1>. HIDE DEF Of
<1>4. \E f : f = Of(f)
  BY <1>2, SortOfAllExists
<1>5. Async!sequential_quick_sort = Of(Async!sequential_quick_sort)
  BY <1>3, <1>4
<1>. QED
  BY <1>2, <1>5

\* It returns its list in order, whatever the list.
LEMMA SequentialSortSorts ==
  \A s \in Seq(Nat) : SortOf(Async!sequential_quick_sort[s], s)
<1> DEFINE f == Async!sequential_quick_sort
           B == {s \in Seq(Nat) : ~SortOf(f[s], s)}
<1>1. \A s \in Seq(Nat) : f[s] = SortBody(f, s)
  BY SequentialSort
<1>. HIDE DEF f
<1>2. SUFFICES ASSUME B # {} PROVE FALSE
  BY DEF f
<1>3. PICK s \in B : \A r \in B : Len(s) <= Len(r)
  <2>1. B \subseteq Seq(Nat)
    OBVIOUS
  <2>. HIDE DEF B
  <2>. QED
    BY <1>2, <2>1, ShortestList
<1>4. s \in Seq(Nat) /\ Len(s) \in Nat /\ ~SortOf(f[s], s) /\ f[s] = SortBody(f, s)
  BY <1>1, <1>3
<1>5. s # <<>>
  BY <1>4, EmptyIsSorted DEF SortBody
<1>6. /\ Lower(s) \in Seq(Nat) /\ Len(Lower(s)) \in Nat /\ Len(Lower(s)) < Len(s)
      /\ Higher(s) \in Seq(Nat) /\ Len(Higher(s)) \in Nat /\ Len(Higher(s)) < Len(s)
  BY <1>4, <1>5, PartsAreShorter
<1>7. Lower(s) \notin B /\ Higher(s) \notin B
  <2>. HIDE DEF B
  <2>. QED
    BY <1>3, <1>4, <1>6
<1>8. SortOf(f[Lower(s)], Lower(s)) /\ SortOf(f[Higher(s)], Higher(s))
  BY <1>6, <1>7
<1>9. SortOf(f[Lower(s)] \o <<Head(s)>> \o f[Higher(s)], s)
  BY <1>4, <1>5, <1>8, SortedPartsMakeTheSort
<1>. QED
  BY <1>4, <1>5, <1>9 DEF SortBody

\* A smaller element than the other has in the first place where they differ
\* would be there more often.
LEMMA SortsDiffer ==
  ASSUME NEW r \in Seq(Nat), NEW q \in Seq(Nat), InOrder(q), Len(r) = Len(q),
         NEW i \in 1 .. Len(r), r[i] < q[i], \A j \in 1 .. i - 1 : r[j] = q[j]
  PROVE  Count(q, r[i]) # Count(r, r[i])
<1> DEFINE n == Len(r)
           v == r[i]
           Q == {j \in 1 .. n : q[j] = v}
           R == {j \in 1 .. n : r[j] = v}
<1>1. n \in Nat /\ \A j \in 1 .. n : r[j] \in Nat /\ q[j] \in Nat
  OBVIOUS
<1>2. ASSUME NEW j \in 1 .. n, q[j] = v PROVE r[j] = v /\ j # i
  <2>1. j < i
    <3>1. i <= j => q[i] <= q[j]
      BY <1>2 DEF InOrder
    <3>. QED
      BY <1>1, <1>2, <3>1
  <2>. QED
    BY <1>1, <1>2, <2>1
<1>3. Q \subseteq R \ {i} /\ i \in R
  BY <1>2
<1>4. R \in SUBSET (1 .. n)
  OBVIOUS
<1>. HIDE DEF Q, R
<1>5. IsFiniteSet(R) /\ Cardinality(R) \in Nat
  BY <1>1, <1>4, SomeOf
<1>6. IsFiniteSet(R \ {i}) /\ Cardinality(R \ {i}) = Cardinality(R) - 1
  BY <1>3, <1>5, FS_RemoveElement
<1>7. Cardinality(Q) \in Nat /\ Cardinality(Q) <= Cardinality(R \ {i})
  BY <1>3, <1>6, FS_Subset, FS_CardinalityType
<1>8. Cardinality(Q) # Cardinality(R)
  BY <1>5, <1>6, <1>7
<1>. QED
  BY <1>8 DEF Count, Q, R

LEMMA OneSort ==
  ASSUME NEW s \in Seq(Nat), NEW r, NEW q, SortOf(r, s), SortOf(q, s)
  PROVE  r = q
<1> DEFINE D == {i \in 1 .. Len(r) : r[i] # q[i]}
<1>1. /\ r \in Seq(Nat) /\ q \in Seq(Nat) /\ Len(r) = Len(q) /\ Len(r) \in Nat
      /\ InOrder(r) /\ InOrder(q)
      /\ \A v \in Nat : Count(r, v) = Count(q, v)
      /\ \A i \in 1 .. Len(r) : r[i] \in Nat /\ q[i] \in Nat
  <2>1. /\ r \in Seq(Nat) /\ q \in Seq(Nat) /\ Len(r) = Len(q)
        /\ InOrder(r) /\ InOrder(q)
    BY DEF SortOf
  <2>2. \A v \in Nat : Count(r, v) = Count(q, v)
    BY DEF SortOf
  <2>3. Len(r) \in Nat /\ \A i \in 1 .. Len(r) : r[i] \in Nat /\ q[i] \in Nat
    BY <2>1
  <2>. QED
    BY <2>1, <2>2, <2>3
<1>2. SUFFICES ASSUME D # {} PROVE FALSE
  <2>1. D = {} => \A i \in 1 .. Len(r) : r[i] = q[i]
    OBVIOUS
  <2>. QED
    BY <1>1, <2>1, SeqEqual
<1>3. PICK i \in D : \A j \in D : i <= j
  <2>1. D \subseteq Nat
    OBVIOUS
  <2>. HIDE DEF D
  <2>. QED
    BY <1>2, <2>1, LeastNumber
<1>4. i \in 1 .. Len(r) /\ r[i] # q[i]
  BY <1>3
<1>5. \A j \in 1 .. i - 1 : r[j] = q[j]
  <2> SUFFICES ASSUME NEW j \in 1 .. i - 1, r[j] # q[j] PROVE FALSE
    OBVIOUS
  <2>1. j \in D /\ j < i
    BY <1>1, <1>4
  <2>. HIDE DEF D
  <2>. QED
    BY <1>1, <1>3, <1>4, <2>1
<1>6. \A j \in 1 .. i - 1 : q[j] = r[j]
  BY <1>5
<1>7. r[i] < q[i] \/ q[i] < r[i]
  BY <1>1, <1>4
<1>8. CASE r[i] < q[i]
  BY <1>1, <1>4, <1>5, <1>8, SortsDiffer
<1>9. CASE q[i] < r[i]
  BY <1>1, <1>4, <1>6, <1>9, SortsDiffer
<1>. QED
  BY <1>7, <1>8, <1>9

LEMMA ResultsAgree == ResultInv => Async!SortsAgree
<1> SUFFICES ASSUME ResultInv, recursion = "sort", call[<<>>].at = "ended"
             PROVE  Async!sequential_quick_sort[call[<<>>].chunk] = call[<<>>].result
  BY DEF Async!SortsAgree
<1> DEFINE c == call[<<>>]
<1>1. CallRight(recursion, thrower, c) /\ thrower = 0
  BY DEF ResultInv
<1>. HIDE DEF c
<1>2. c.chunk \in Seq(Nat) /\ SortOf(c.result, c.chunk)
  BY <1>1 DEF CallRight, Came, Throwing, c
<1>3. SortOf(Async!sequential_quick_sort[c.chunk], c.chunk)
  BY <1>2, SequentialSortSorts
<1>4. Async!sequential_quick_sort[c.chunk] = c.result
  BY <1>2, <1>3, OneSort
<1>. QED
  BY <1>4 DEF c

-----------------------------------------------------------------------------
(* The types of the variables *)

PoolRest == /\ running \subseteq Workers /\ done \in BOOLEAN
            /\ main \in {"sort", "destroy", "join", "return"}

LEMMA RestInit == Init => PoolRest
BY DEF Init, PoolRest

LEMMA RestStep == PoolRest /\ [Next]_vars => PoolRest'
<1> SUFFICES ASSUME PoolRest, [Next]_vars PROVE PoolRest'
  OBVIOUS
<1>1. CASE UNCHANGED vars
  BY <1>1 DEF vars, PoolRest
<1>2. ASSUME NEW t \in Threads, Step(t) PROVE PoolRest'
  <2>1. CASE RunLocal(t) \/ RunShared(t) \/ Yield(t) \/ Split(t) \/ Wait(t)
    <3>1. UNCHANGED <<running, done, main>>
      BY <2>1 DEF RunLocal, RunShared, Run, Yield, Split, Wait
    <3>. QED
      BY <3>1 DEF PoolRest
  <2>2. ASSUME NEW v, Return(t, v) PROVE PoolRest'
    <3>1. UNCHANGED <<running, done>> /\ (main' = main \/ main' = "destroy")
      BY <2>2 DEF Return
    <3>. QED
      BY <3>1 DEF PoolRest
  <2>3. CASE ReturnEmpty(t) \/ Join(t)
    BY <2>2, <2>3 DEF ReturnEmpty, Join
  <2>. QED
    BY <1>2, <2>1, <2>3 DEF Step
<1>3. ASSUME NEW w \in Workers, CheckDone(w) PROVE PoolRest'
  BY <1>3 DEF PoolRest, CheckDone
<1>4. CASE Destroy \/ JoinThreads
  BY <1>4 DEF PoolRest, Destroy, JoinThreads
<1>. QED
  BY <1>1, <1>2, <1>3, <1>4 DEF Next

LEMMA PoolTyped == PoolInv /\ PoolRest => TypeOK
<1> SUFFICES ASSUME PoolInv, PoolRest PROVE TypeOK
  OBVIOUS
<1>1. ASSUME NEW t \in Threads, NEW i \in 1 .. Len(stack[t])
      PROVE  /\ stack[t][i].at \in {"start", "sort", "wait", "end"}
             /\ stack[t][i].task \in 0 .. Len(future)
  <2>1. FrameOK(stack[t], i, Len(future))
    BY DEF PoolInv, PoolTypes, StackOK
  <2>. QED
    BY <2>1 DEF FrameOK
<1>. QED
  BY <1>1 DEF TypeOK, PoolInv, PoolTypes, PoolRest

CallTyped(c) == c.launch \in {"call", "thread", "deferred"} /\ c.at \in Async!Points

CallsTyped == \A p \in DOMAIN call : CallTyped(call[p])

LEMMA CallsTypedSuffices == ResultInv /\ CallsTyped => Async!TypeOK
BY DEF ResultInv, CallRight, CallsTyped, CallTyped, Async!TypeOK

LEMMA CallsTypedInit == Async!Init => CallsTyped
BY DEF Async!Init, Async!New, CallsTyped, CallTyped, Async!Points

LEMMA CallsTypedStep == AsyncInv /\ CallsTyped /\ [Async!Next]_asyncVars => CallsTyped'
<1> SUFFICES ASSUME AsyncInv, CallsTyped, [Async!Next]_asyncVars PROVE CallsTyped'
  OBVIOUS
<1>1. CASE UNCHANGED asyncVars
  BY <1>1 DEF asyncVars, CallsTyped
<1>2. ASSUME NEW p \in DOMAIN call, NEW c, CallTyped(c), call' = [call EXCEPT ![p] = c]
      PROVE  CallsTyped'
  BY <1>2 DEF CallsTyped
<1>3. ASSUME NEW p \in DOMAIN call, NEW v \in Async!Points
      PROVE  /\ Async!Goes(p, v) => CallsTyped'
             /\ \A r : Async!Returns(p, r) => CallsTyped'
             /\ Async!EndsBadly(p) => CallsTyped'
  <2>1. IsCall(call[p]) /\ call[p].launch \in {"call", "thread", "deferred"}
    BY DEF AsyncInv, CallsTyped, CallTyped
  <2>2. CallTyped([call[p] EXCEPT !.at = v])
    BY <2>1 DEF IsCall, CallTyped
  <2>3. \A r : CallTyped([call[p] EXCEPT !.at = "ended", !.result = r])
    BY <2>1 DEF IsCall, CallTyped, Async!Points
  <2>4. CallTyped([call[p] EXCEPT !.at = "ended", !.threw = TRUE])
    BY <2>1 DEF IsCall, CallTyped, Async!Points
  <2>. QED
    BY <1>2, <2>2, <2>3, <2>4 DEF Async!Goes, Async!Returns, Async!EndsBadly, Async!Becomes
<1>4. ASSUME NEW p \in DOMAIN call, Async!Split(p) PROVE CallsTyped'
  <2>1. IsCall(call[p]) /\ call[p].launch \in {"call", "thread", "deferred"}
    BY DEF AsyncInv, CallsTyped, CallTyped
  <2>2. CallTyped([call[p] EXCEPT !.at = "own"])
    BY <2>1 DEF IsCall, CallTyped, Async!Points
  <2>3. \A r : \A l \in {"call", "thread", "deferred"} : CallTyped(Async!New(r, l))
    BY DEF Async!New, CallTyped, Async!Points
  <2> DEFINE R == IF recursion = "sort" THEN {Async!Recursive(p)} ELSE {}
             s == call[p].chunk
  <2>4. PICK l \in {"thread", "deferred"} :
          call' = [q \in DOMAIN call \cup {Async!Task(p)} \cup R |->
                     IF q = Async!Task(p) THEN Async!New(Async!TaskPart(s), l)
                     ELSE IF q \in R THEN Async!New(Async!OwnPart(s), "call")
                     ELSE IF q = p THEN [call[p] EXCEPT !.at = "own"]
                     ELSE call[q]]
    BY <1>4 DEF Async!Split
  <2>. HIDE DEF R, s
  <2>5. ASSUME NEW q \in DOMAIN call' PROVE CallTyped(call'[q])
    <3>1. CASE q = Async!Task(p)
      BY <2>3, <2>4, <3>1
    <3>2. CASE q # Async!Task(p) /\ q \in R
      BY <2>3, <2>4, <3>2
    <3>3. CASE q # Async!Task(p) /\ q \notin R /\ q = p
      BY <2>2, <2>4, <3>3
    <3>4. CASE q # Async!Task(p) /\ q \notin R /\ q # p
      BY <2>4, <2>5, <3>4 DEF CallsTyped
    <3>. QED
      BY <3>1, <3>2, <3>3, <3>4
  <2>. QED
    BY <2>5 DEF CallsTyped
<1>5. ASSUME NEW p \in DOMAIN call,
             Async!Sequential(p) \/ Async!Own(p) \/ Async!Get(p) \/ Async!Unwind(p)
      PROVE  CallsTyped'
  <2>1. \/ \E v \in Async!Points : Async!Goes(p, v)
        \/ \E r : Async!Returns(p, r)
        \/ Async!EndsBadly(p)
    BY <1>5 DEF Async!Sequential, Async!Own, Async!Get, Async!Unwind, Async!Points
  <2>2. "ended" \in Async!Points
    BY DEF Async!Points
  <2>. QED
    BY <1>3, <2>1, <2>2
<1>. QED
  BY <1>1, <1>4, <1>5 DEF Async!Next

-----------------------------------------------------------------------------
(* The executions of MCAlgorithms *)

AlgorithmsInv == /\ PoolInv /\ PoolRest /\ SortInv
                 /\ AsyncInv /\ ResultInv /\ CallsTyped
                 /\ SimpleInv /\ BlockInv

LEMMA AlgorithmsKeepInv == FairAlgorithmsSpec => []AlgorithmsInv
<1>1. AlgorithmsInit => AlgorithmsInv
  BY PoolInit, RestInit, SortInit, AsyncInit, ResultInit, CallsTypedInit, SimpleInit, BlockInit
  DEF AlgorithmsInit, AlgorithmsInv
<1>2. AlgorithmsInv
      /\ [PoolNext \/ BlockNext \/ AsyncNext \/ SimpleNext]_<<program, vars, blockVars, asyncVars, simpleVars>>
      => AlgorithmsInv'
  <2> SUFFICES ASSUME AlgorithmsInv,
                      [PoolNext \/ BlockNext \/ AsyncNext \/ SimpleNext]_<<program, vars, blockVars, asyncVars, simpleVars>>
               PROVE  AlgorithmsInv'
    OBVIOUS
  <2>1. [Next]_vars
    BY DEF PoolNext, BlockNext, AsyncNext, SimpleNext
  <2>2. [Block!Next]_blockVars
    BY DEF PoolNext, BlockNext, AsyncNext, SimpleNext
  <2>3. [Async!Next]_asyncVars
    BY DEF PoolNext, BlockNext, AsyncNext, SimpleNext
  <2>4. [Simple!Next]_simpleVars
    BY DEF PoolNext, BlockNext, AsyncNext, SimpleNext
  <2>. QED
    BY <2>1, <2>2, <2>3, <2>4, PoolStep, RestStep, SortStep, BlockStep, AsyncStep, ResultStep,
      CallsTypedStep, SimpleStep
    DEF AlgorithmsInv
<1>. QED
  BY <1>1, <1>2, PTL DEF FairAlgorithmsSpec

\* Until the sort of the pool ends some thread has something to do
\* (thread_pool.hpp, the wait for new_lower in do_sort).
THEOREM SomebodyHasWork == FairAlgorithmsSpec => []SomeoneHasWork
<1>1. AlgorithmsInv => SomeoneHasWork
  BY SomeoneWorks DEF AlgorithmsInv
<1>. QED
  BY <1>1, AlgorithmsKeepInv, PTL

\* A call that ends leaves behind no task and no thread that would use what
\* goes with it: ~thread_pool(), ~join_threads(), the destructors of futures.
THEOREM CallsCleanUp == FairAlgorithmsSpec => []NothingIsLeftBehind
<1>1. AlgorithmsInv => NothingIsLeftBehind
  BY NothingDropped, AsyncInvSuffices DEF AlgorithmsInv, NothingIsLeftBehind,
    SimpleInv, BlockInv
<1>. QED
  BY <1>1, AlgorithmsKeepInv, PTL

\* Each task of the simple pool is run once, unless the destructor drops it; those
\* it drops are the last that were submitted (thread_pool_simple).
THEOREM EachTaskRunsOnce == FairAlgorithmsSpec => []Simple!TasksRunOnce
<1>1. AlgorithmsInv => Simple!TasksRunOnce
  BY SimpleInvSuffices DEF AlgorithmsInv
<1>. QED
  BY <1>1, AlgorithmsKeepInv, PTL

\* A call that returns has worked on each element once, in one of its blocks,
\* and has added each block; it throws only what was thrown
\* (parallel_accumulate of 2.8 and 8.4, parallel_for_each of 8.7).
THEOREM BlocksMakeTheResult == FairAlgorithmsSpec => []Block!ResultIsRight
<1>1. AlgorithmsInv => Block!ResultIsRight
  BY BlockInvSuffices DEF AlgorithmsInv
<1>. QED
  BY <1>1, AlgorithmsKeepInv, PTL

\* The parallel sort of the pool returns the list it was given, in order,
\* whichever threads ran which parts (sorter_using_tp::do_sort).
THEOREM ListsAreSorted == FairAlgorithmsSpec => []SortIsCorrect
<1>1. AlgorithmsInv => SortIsCorrect
  BY SortInvSuffices DEF AlgorithmsInv
<1>. QED
  BY <1>1, AlgorithmsKeepInv, PTL

\* What the first call returns, with whichever of its tasks deferred or on
\* threads of their own: the list in order, the sum with `init` and each element
\* once, or what an element threw (parallel_quick_sort of 4.x3, parallel_accumulate
\* of 8.5).
THEOREM CallsMakeTheResult == FairAlgorithmsSpec => []Async!ResultIsRight
<1>1. AlgorithmsInv => Async!ResultIsRight
  BY ResultInvSuffices DEF AlgorithmsInv
<1>. QED
  BY <1>1, AlgorithmsKeepInv, PTL

\* All that the programs promise of their results: those above, the sequential
\* sort of 4.x3 gives what the parallel one does, and no variable leaves its type.
THEOREM ResultsRight == FairAlgorithmsSpec => []ResultsAreRight
<1>1. AlgorithmsInv => TypesOK
  BY PoolTyped, CallsTypedSuffices, BlockInvSuffices DEF AlgorithmsInv, TypesOK
<1>2. AlgorithmsInv => Simple!TasksRunOnce /\ SortIsCorrect /\ Block!ResultIsRight
  BY SimpleInvSuffices, SortInvSuffices, BlockInvSuffices DEF AlgorithmsInv
<1>3. AlgorithmsInv => Async!ResultIsRight /\ Async!SortsAgree
  BY ResultInvSuffices, ResultsAgree DEF AlgorithmsInv
<1>4. AlgorithmsInv => ResultsAreRight
  BY <1>1, <1>2, <1>3 DEF ResultsAreRight
<1>. QED
  BY <1>4, AlgorithmsKeepInv, PTL
===============================================================================
