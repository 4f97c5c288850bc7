--------------------------- MODULE ContainersProofs ---------------------------
(***************************************************************************)
(* The containers with locks, in the executions of MCContainers, for every *)
(* number of threads, nodes and values: the linked list of ThreadsafeQueue *)
(* is safe, and each call takes effect at one instant.                     *)
(***************************************************************************)
EXTENDS MCContainers, FiniteSetTheorems, TLAPS

-----------------------------------------------------------------------------
(* threadsafe_queue *)

Filling == {"lockTail", "link", "setTail"}

Holding == Filling \cup {"return"}

\* A thread between `new node` and the end of push(), or between pop_head()
\* and the end of its pop, owns a node that is not in the list; only one
\* thread owns it.
LocalNodesAreOwned ==
  /\ InList \subseteq heap
  /\ \A t \in Threads : pc[t] \in Holding =>
       /\ node[t] \in heap \ InList
       /\ \A u \in Threads : pc[u] \in Holding /\ node[u] = node[t] => u = t

\* push() publishes the value and the new dummy before it moves _tail.
PushIsUnderWay ==
  \A t \in Threads :
    /\ pc[t] \in Filling => val[t] # Null
    /\ pc[t] = "setTail" => next[tail] = node[t] /\ data[tail] # Null

IInv == /\ TypeOK
        /\ MutexesAreHeldByTheirSections
        /\ ListIsWellFormed
        /\ LocalNodesAreOwned
        /\ PushIsUnderWay
        /\ StaleTailIsLive

IInvSpec == IInv /\ [][Next]_vars

-----------------------------------------------------------------------------
(* Appending to and removing the head of the auxiliary chain *)

\* What SetTail does to the chain.
LEMMA ChainAppend ==
  ASSUME NEW c \in Seq(Nodes), NEW n \in Nodes
  PROVE  /\ Append(c, n) \in Seq(Nodes)
         /\ Len(Append(c, n)) = Len(c) + 1
         /\ \A i \in 1 .. Len(c) : Append(c, n)[i] = c[i]
         /\ Append(c, n)[Len(c) + 1] = n
OBVIOUS

\* What PopHead does to the chain.
LEMMA ChainTail ==
  ASSUME NEW c \in Seq(Nodes), Len(c) > 1
  PROVE  /\ Tail(c) \in Seq(Nodes)
         /\ Len(Tail(c)) = Len(c) - 1
         /\ \A i \in 1 .. Len(c) - 1 : Tail(c)[i] = c[i + 1]
OBVIOUS

\* The initial dummy node is head, tail and the whole list.
LEMMA InitIInv == Init => IInv
<1> SUFFICES ASSUME Init PROVE IInv
  OBVIOUS
<1>1. PICK front \in Nodes : /\ head = front /\ tail = front
                             /\ chain = <<front>> /\ heap = {front}
  BY DEF Init
<1>2. /\ chain \in Seq(Nodes) /\ Len(chain) = 1 /\ chain[1] = front
      /\ InList = {front}
  BY <1>1 DEF InList
<1>3. TypeOK
  BY <1>1, <1>2 DEF Init, TypeOK, Nullable
<1>4. MutexesAreHeldByTheirSections
  BY QueueAssumption DEF Init, MutexesAreHeldByTheirSections
<1>5. ListIsWellFormed
  BY <1>1, <1>2 DEF ListIsWellFormed
<1>6. LocalNodesAreOwned /\ PushIsUnderWay /\ StaleTailIsLive
  BY <1>1, <1>2 DEF Init, LocalNodesAreOwned, PushIsUnderWay, StaleTailIsLive,
                    Filling, Holding
<1>. QED
  BY <1>3, <1>4, <1>5, <1>6 DEF IInv

-----------------------------------------------------------------------------
(* One step preserves the invariant *)

\* Each action keeps the shape of the list, the ownership of the nodes and
\* the discipline of the mutexes.
LEMMA StepIInv == IInv /\ [Next]_vars => IInv'
<1> SUFFICES ASSUME TypeOK, MutexesAreHeldByTheirSections, ListIsWellFormed,
                    LocalNodesAreOwned, PushIsUnderWay, StaleTailIsLive,
                    [Next]_vars
             PROVE  IInv'
  BY DEF IInv
<1> USE QueueAssumption DEF list, locals, Goto, Nullable, Filling, Holding
<1>a. chain \in Seq(Nodes) /\ Len(chain) \in Nat /\ Len(chain) >= 1
  <2>1. chain \in Seq(Nodes)
    BY DEF TypeOK
  <2>. QED
    BY <2>1 DEF ListIsWellFormed
<1>b. \A i \in 1 .. Len(chain) : chain[i] \in Nodes /\ chain[i] \in InList
  BY <1>a DEF InList
<1>c. head \in InList /\ tail \in InList
  BY <1>a, <1>b DEF ListIsWellFormed
<1>d. InList \subseteq heap /\ heap \subseteq Nodes
  BY DEF LocalNodesAreOwned, TypeOK
<1>f. next \in [Nodes -> Nodes \cup {Null}] /\ data \in [Nodes -> Values \cup {Null}]
  BY DEF TypeOK
<1>e. chain' = chain => InList' = InList
  BY DEF InList
<1>1. ASSUME NEW t \in Threads, PushCall(t) PROVE IInv'
  <2>0. PICK v \in Values, n \in Nodes \ heap :
         /\ val' = [val EXCEPT ![t] = v]
         /\ node' = [node EXCEPT ![t] = n]
         /\ heap' = heap \cup {n}
         /\ next' = [next EXCEPT ![n] = Null]
         /\ data' = [data EXCEPT ![n] = Null]
    BY <1>1 DEF PushCall
  <2>1. InList' = InList
    BY <1>1, <1>e DEF PushCall
  <2>2. TypeOK'
    BY <1>1, <2>0 DEF PushCall, TypeOK
  <2>a. n \notin InList /\ n # head /\ n # tail /\ v # Null /\ n # Null
    BY <1>c, <1>d, <2>0 DEF Nullable
  <2>b. /\ chain' = chain /\ head' = head /\ tail' = tail
       /\ \A i \in 1 .. Len(chain) : /\ next'[chain[i]] = next[chain[i]]
                                      /\ data'[chain[i]] = data[chain[i]]
    <3>1. ASSUME NEW i \in 1 .. Len(chain)
          PROVE  /\ next'[chain[i]] = next[chain[i]]
                 /\ data'[chain[i]] = data[chain[i]]
      BY <1>b, <1>f, <2>0, <2>a
    <3>. QED
      BY <1>1, <3>1 DEF PushCall
  <2>3. ListIsWellFormed'
    BY <1>a, <2>b DEF ListIsWellFormed
  <2>4. MutexesAreHeldByTheirSections'
    BY <1>1 DEF PushCall, TypeOK, MutexesAreHeldByTheirSections
  <2>5. LocalNodesAreOwned'
    <3>1. /\ pc'[t] = "lockTail" /\ node'[t] = n
          /\ \A u \in Threads \ {t} : pc'[u] = pc[u] /\ node'[u] = node[u]
      BY <1>1, <2>0 DEF PushCall, TypeOK
    <3>2. InList' \subseteq heap'
      BY <1>d, <2>0, <2>1
    <3>3. ASSUME NEW u \in Threads, u # t, pc'[u] \in Holding
          PROVE  /\ node'[u] = node[u] /\ pc'[u] = pc[u] /\ node'[u] # n
                 /\ node'[u] \in heap' \ InList'
      <4>1. node'[u] = node[u] /\ pc'[u] = pc[u]
        BY <3>1, <3>3
      <4>2. node[u] \in heap \ InList
        BY <3>3, <4>1 DEF LocalNodesAreOwned
      <4>. QED
        BY <2>0, <2>1, <4>1, <4>2
    <3>4. pc'[t] = "lockTail" /\ node'[t] = n /\ n \in heap' \ InList'
      BY <2>0, <2>1, <2>a, <3>1
    <3>. QED
      <4>1. ASSUME NEW u \in Threads, NEW w \in Threads, pc'[u] \in Holding,
                   pc'[w] \in Holding, node'[u] = node'[w]
            PROVE  u = w
        BY <3>3, <3>4, <4>1 DEF LocalNodesAreOwned
      <4>. QED
        BY <3>2, <3>3, <3>4, <4>1 DEF LocalNodesAreOwned
  <2>6. PushIsUnderWay'
    BY <1>1, <2>0, <2>a DEF PushCall, TypeOK, PushIsUnderWay
  <2>7. StaleTailIsLive'
    BY <1>1, <2>1 DEF PushCall, TypeOK, StaleTailIsLive
  <2>. QED
    BY <2>2, <2>3, <2>4, <2>5, <2>6, <2>7 DEF IInv
<1>2. ASSUME NEW t \in Threads, LockTail(t) PROVE IInv'
  <2>1. InList' = InList
    BY <1>2, <1>e DEF LockTail
  <2>2. TypeOK'
    BY <1>2 DEF LockTail, TypeOK
  <2>3. ListIsWellFormed'
    BY <1>2 DEF LockTail, ListIsWellFormed
  <2>4. MutexesAreHeldByTheirSections'
    BY <1>2 DEF LockTail, TypeOK, MutexesAreHeldByTheirSections
  <2>5. LocalNodesAreOwned' /\ PushIsUnderWay'
    BY <1>2, <2>1 DEF LockTail, TypeOK, LocalNodesAreOwned, PushIsUnderWay
  <2>6. StaleTailIsLive'
    BY <1>2, <2>1 DEF LockTail, TypeOK, StaleTailIsLive
  <2>. QED
    BY <2>2, <2>3, <2>4, <2>5, <2>6 DEF IInv
<1>3. ASSUME NEW t \in Threads, Link(t) PROVE IInv'
  <2>1. InList' = InList
    BY <1>3, <1>e DEF Link
  <2>2. TypeOK'
    BY <1>3 DEF Link, TypeOK
  <2>b. /\ chain' = chain /\ head' = head /\ tail' = tail
       /\ \A i \in 1 .. Len(chain) - 1 :
            /\ chain[i] # tail
            /\ next'[chain[i]] = next[chain[i]]
            /\ data'[chain[i]] = data[chain[i]]
    <3>1. /\ chain' = chain /\ head' = head /\ tail' = tail
          /\ next' = [next EXCEPT ![tail] = node[t]]
          /\ data' = [data EXCEPT ![tail] = val[t]]
      BY <1>3 DEF Link
    <3>2. tail = chain[Len(chain)]
      BY DEF ListIsWellFormed
    <3>3. \A i \in 1 .. Len(chain) - 1 : chain[i] # tail
      BY <1>a, <3>2 DEF ListIsWellFormed
    <3>4. \A i \in 1 .. Len(chain) - 1 : chain[i] \in Nodes
      BY <1>a, <1>b
    <3>. QED
      BY <1>f, <3>1, <3>3, <3>4
  <2>3. ListIsWellFormed'
    BY <1>a, <2>b DEF ListIsWellFormed
  <2>4. MutexesAreHeldByTheirSections'
    BY <1>3 DEF Link, TypeOK, MutexesAreHeldByTheirSections
  <2>5. LocalNodesAreOwned'
    BY <1>3, <2>1 DEF Link, TypeOK, LocalNodesAreOwned
  <2>6. PushIsUnderWay'
    BY <1>3 DEF Link, TypeOK, PushIsUnderWay, MutexesAreHeldByTheirSections
  <2>7. StaleTailIsLive'
    BY <1>3, <2>1 DEF Link, TypeOK, StaleTailIsLive
  <2>. QED
    BY <2>2, <2>3, <2>4, <2>5, <2>6, <2>7 DEF IInv
<1>4. ASSUME NEW t \in Threads, SetTail(t) PROVE IInv'
  <2>0. node[t] \in Nodes /\ node[t] \notin InList
    BY <1>4, <1>d DEF SetTail, LocalNodesAreOwned
  <2>1. /\ chain' \in Seq(Nodes) /\ Len(chain') = Len(chain) + 1
       /\ \A i \in 1 .. Len(chain) : chain'[i] = chain[i]
       /\ chain'[Len(chain) + 1] = node[t]
    BY <1>4, <1>a, <2>0, ChainAppend DEF SetTail
  <2>2. InList' = InList \cup {node[t]}
    BY <1>a, <2>1 DEF InList
  <2>3. TypeOK'
    BY <1>4, <2>0, <2>1 DEF SetTail, TypeOK
  <2>a. /\ head' = head /\ tail' = node[t] /\ next' = next /\ data' = data
       /\ next[tail] = node[t] /\ data[tail] # Null
    BY <1>4 DEF SetTail, PushIsUnderWay
  <2>b. \A i \in 1 .. Len(chain) : chain[i] # node[t]
    BY <1>b, <2>0 DEF Holding
  <2>4. ListIsWellFormed'
    <3>1. Len(chain') >= 1 /\ head' = chain'[1] /\ tail' = chain'[Len(chain')]
      BY <1>a, <2>1, <2>a DEF ListIsWellFormed
    <3>2. ASSUME NEW i \in 1 .. Len(chain'), NEW j \in 1 .. Len(chain'),
                 chain'[i] = chain'[j]
          PROVE  i = j
      BY <1>a, <2>1, <2>b, <3>2 DEF ListIsWellFormed
    <3>3. ASSUME NEW i \in 1 .. Len(chain') - 1
          PROVE  next'[chain'[i]] = chain'[i + 1] /\ data'[chain'[i]] # Null
      <4>1. CASE i = Len(chain)
        BY <1>a, <2>1, <2>a, <4>1 DEF ListIsWellFormed
      <4>2. CASE i \in 1 .. Len(chain) - 1
        BY <1>a, <2>1, <2>a, <4>2 DEF ListIsWellFormed
      <4>. QED
        BY <1>a, <2>1, <4>1, <4>2
    <3>. QED
      BY <3>1, <3>2, <3>3 DEF ListIsWellFormed
  <2>5. MutexesAreHeldByTheirSections'
    BY <1>4 DEF SetTail, TypeOK, MutexesAreHeldByTheirSections
  <2>6. LocalNodesAreOwned'
    BY <1>4, <2>2 DEF SetTail, TypeOK, LocalNodesAreOwned
  <2>7. PushIsUnderWay'
    BY <1>4 DEF SetTail, TypeOK, PushIsUnderWay, MutexesAreHeldByTheirSections
  <2>8. StaleTailIsLive'
    BY <1>4, <2>2 DEF SetTail, TypeOK, StaleTailIsLive
  <2>. QED
    BY <2>3, <2>4, <2>5, <2>6, <2>7, <2>8 DEF IInv
<1>5. ASSUME NEW t \in Threads, Notify(t) PROVE IInv'
  <2>1. InList' = InList
    BY <1>5, <1>e DEF Notify
  <2>2. TypeOK'
    BY <1>5 DEF Notify, TypeOK
  <2>3. ListIsWellFormed'
    BY <1>5 DEF Notify, ListIsWellFormed
  <2>4. MutexesAreHeldByTheirSections'
    BY <1>5 DEF Notify, TypeOK, MutexesAreHeldByTheirSections
  <2>5. LocalNodesAreOwned' /\ PushIsUnderWay'
    BY <1>5, <2>1 DEF Notify, TypeOK, LocalNodesAreOwned, PushIsUnderWay
  <2>6. StaleTailIsLive'
    BY <1>5, <2>1 DEF Notify, TypeOK, StaleTailIsLive
  <2>. QED
    BY <2>2, <2>3, <2>4, <2>5, <2>6 DEF IInv
<1>6. ASSUME NEW t \in Threads, PopCall(t) PROVE IInv'
  <2>1. InList' = InList
    BY <1>6, <1>e DEF PopCall
  <2>2. TypeOK'
    BY <1>6 DEF PopCall, TypeOK
  <2>3. ListIsWellFormed'
    BY <1>6 DEF PopCall, ListIsWellFormed
  <2>4. MutexesAreHeldByTheirSections'
    BY <1>6 DEF PopCall, TypeOK, MutexesAreHeldByTheirSections
  <2>5. LocalNodesAreOwned' /\ PushIsUnderWay'
    BY <1>6, <2>1 DEF PopCall, TypeOK, LocalNodesAreOwned, PushIsUnderWay
  <2>6. StaleTailIsLive'
    BY <1>6, <2>1 DEF PopCall, TypeOK, StaleTailIsLive
  <2>. QED
    BY <2>2, <2>3, <2>4, <2>5, <2>6 DEF IInv
<1>7. ASSUME NEW t \in Threads, LockHead(t) PROVE IInv'
  <2>1. InList' = InList
    BY <1>7, <1>e DEF LockHead
  <2>2. TypeOK'
    BY <1>7 DEF LockHead, TypeOK
  <2>3. ListIsWellFormed'
    BY <1>7 DEF LockHead, ListIsWellFormed
  <2>4. MutexesAreHeldByTheirSections'
    BY <1>7 DEF LockHead, TypeOK, MutexesAreHeldByTheirSections
  <2>5. LocalNodesAreOwned' /\ PushIsUnderWay'
    BY <1>7, <2>1 DEF LockHead, TypeOK, LocalNodesAreOwned, PushIsUnderWay
  <2>6. StaleTailIsLive'
    BY <1>7, <2>1 DEF LockHead, TypeOK, StaleTailIsLive
  <2>. QED
    BY <2>2, <2>3, <2>4, <2>5, <2>6 DEF IInv
<1>8. ASSUME NEW t \in Threads, GetTail(t) PROVE IInv'
  <2>1. InList' = InList
    BY <1>8, <1>e DEF GetTail
  <2>2. TypeOK'
    BY <1>8 DEF GetTail, TypeOK
  <2>3. ListIsWellFormed'
    BY <1>8 DEF GetTail, ListIsWellFormed
  <2>4. MutexesAreHeldByTheirSections'
    BY <1>8 DEF GetTail, TypeOK, MutexesAreHeldByTheirSections
  <2>5. LocalNodesAreOwned' /\ PushIsUnderWay'
    BY <1>8, <2>1 DEF GetTail, TypeOK, LocalNodesAreOwned, PushIsUnderWay
  <2>6. StaleTailIsLive'
    BY <1>8, <2>1, <1>c DEF GetTail, TypeOK, StaleTailIsLive
  <2>. QED
    BY <2>2, <2>3, <2>4, <2>5, <2>6 DEF IInv
<1>9. ASSUME NEW t \in Threads, Wait(t) PROVE IInv'
  <2>1. InList' = InList
    BY <1>9, <1>e DEF Wait
  <2>2. TypeOK'
    BY <1>9 DEF Wait, TypeOK
  <2>3. ListIsWellFormed'
    BY <1>9 DEF Wait, ListIsWellFormed
  <2>4. MutexesAreHeldByTheirSections'
    BY <1>9 DEF Wait, TypeOK, MutexesAreHeldByTheirSections
  <2>5. LocalNodesAreOwned' /\ PushIsUnderWay'
    BY <1>9, <2>1 DEF Wait, TypeOK, LocalNodesAreOwned, PushIsUnderWay
  <2>6. StaleTailIsLive'
    BY <1>9, <2>1 DEF Wait, TypeOK, StaleTailIsLive
  <2>. QED
    BY <2>2, <2>3, <2>4, <2>5, <2>6 DEF IInv
<1>10. ASSUME NEW t \in Threads, Wakeup(t) PROVE IInv'
  <2>1. InList' = InList
    BY <1>10, <1>e DEF Wakeup
  <2>2. TypeOK'
    BY <1>10 DEF Wakeup, TypeOK
  <2>3. ListIsWellFormed'
    BY <1>10 DEF Wakeup, ListIsWellFormed
  <2>4. MutexesAreHeldByTheirSections'
    BY <1>10 DEF Wakeup, TypeOK, MutexesAreHeldByTheirSections
  <2>5. LocalNodesAreOwned' /\ PushIsUnderWay'
    BY <1>10, <2>1 DEF Wakeup, TypeOK, LocalNodesAreOwned, PushIsUnderWay
  <2>6. StaleTailIsLive'
    BY <1>10, <2>1 DEF Wakeup, TypeOK, StaleTailIsLive
  <2>. QED
    BY <2>2, <2>3, <2>4, <2>5, <2>6 DEF IInv
<1>11. ASSUME NEW t \in Threads, ReturnNothing(t) PROVE IInv'
  <2>1. InList' = InList
    BY <1>11, <1>e DEF ReturnNothing
  <2>2. TypeOK'
    BY <1>11 DEF ReturnNothing, TypeOK
  <2>3. ListIsWellFormed'
    BY <1>11 DEF ReturnNothing, ListIsWellFormed
  <2>4. MutexesAreHeldByTheirSections'
    BY <1>11 DEF ReturnNothing, TypeOK, MutexesAreHeldByTheirSections
  <2>5. LocalNodesAreOwned' /\ PushIsUnderWay'
    BY <1>11, <2>1 DEF ReturnNothing, TypeOK, LocalNodesAreOwned, PushIsUnderWay
  <2>6. StaleTailIsLive'
    BY <1>11, <2>1 DEF ReturnNothing, TypeOK, StaleTailIsLive
  <2>. QED
    BY <2>2, <2>3, <2>4, <2>5, <2>6 DEF IInv
<1>12. ASSUME NEW t \in Threads, PopHead(t) PROVE IInv'
  <2>0. Len(chain) > 1
    BY <1>12, <1>a DEF PopHead, Empty, InList, ListIsWellFormed, StaleTailIsLive
  <2>1. /\ chain' \in Seq(Nodes) /\ Len(chain') = Len(chain) - 1
       /\ \A i \in 1 .. Len(chain) - 1 : chain'[i] = chain[i + 1]
    BY <1>12, <1>a, <2>0, ChainTail DEF PopHead
  <2>c. \A i, j \in 1 .. Len(chain) : chain[i] = chain[j] => i = j
    BY <1>a DEF ListIsWellFormed
  <2>d. head = chain[1] /\ \A i \in 2 .. Len(chain) : chain[i] # head
    BY <1>a, <2>c DEF ListIsWellFormed
  <2>e. \A n \in InList \ {head} : \E i \in 1 .. Len(chain) - 1 : n = chain[i + 1]
    BY <1>a, <2>d DEF InList
  <2>f. {chain'[i] : i \in 1 .. Len(chain')} = {chain[i + 1] : i \in 1 .. Len(chain) - 1}
    BY <1>a, <2>1 DEF Holding
  <2>2. InList' = InList \ {head}
    <3>1. InList' = {chain[i + 1] : i \in 1 .. Len(chain) - 1}
      BY <2>f DEF InList
    <3>2. \A i \in 1 .. Len(chain) - 1 : i + 1 \in 2 .. Len(chain)
      BY <1>a
    <3>3. \A i \in 1 .. Len(chain) - 1 : chain[i + 1] \in InList /\ chain[i + 1] # head
      BY <1>a, <1>b, <2>d, <3>2
    <3>. QED
      BY <2>e, <3>1, <3>3
  <2>3. next[head] = chain[2] /\ head # tail /\ chain[2] \in Nodes
    BY <1>a, <1>b, <2>0 DEF ListIsWellFormed
  <2>4. TypeOK'
    BY <1>12, <1>c, <1>d, <2>1, <2>3 DEF PopHead, TypeOK
  <2>b. /\ head' = chain[2] /\ tail' = tail /\ data' = data
       /\ \A i \in 2 .. Len(chain) : next'[chain[i]] = next[chain[i]]
    <3>1. /\ head' = next[head] /\ tail' = tail /\ data' = data
          /\ next' = [next EXCEPT ![head] = Null]
      BY <1>12 DEF PopHead
    <3>2. ASSUME NEW i \in 2 .. Len(chain)
          PROVE  next'[chain[i]] = next[chain[i]]
      BY <1>a, <1>b, <1>f, <2>d, <3>1
    <3>. QED
      BY <2>3, <3>1, <3>2
  <2>5. ListIsWellFormed'
    <3>1. Len(chain') >= 1 /\ head' = chain'[1] /\ tail' = chain'[Len(chain')]
      BY <1>a, <2>0, <2>1, <2>b DEF ListIsWellFormed
    <3>2. ASSUME NEW i \in 1 .. Len(chain'), NEW j \in 1 .. Len(chain'),
                 chain'[i] = chain'[j]
          PROVE  i = j
      BY <1>a, <2>0, <2>1, <2>c, <3>2
    <3>3. ASSUME NEW i \in 1 .. Len(chain') - 1
          PROVE  next'[chain'[i]] = chain'[i + 1] /\ data'[chain'[i]] # Null
      <4>1. /\ i + 1 \in 2 .. Len(chain) - 1 /\ i \in 1 .. Len(chain) - 1
            /\ i + 1 \in 1 .. Len(chain) - 1
        BY <1>a, <2>0, <2>1
      <4>2. /\ chain'[i] = chain[i + 1] /\ chain'[i + 1] = chain[i + 1 + 1]
            /\ next'[chain[i + 1]] = next[chain[i + 1]]
        BY <1>a, <2>1, <2>b, <4>1
      <4>3. next[chain[i + 1]] = chain[i + 1 + 1] /\ data[chain[i + 1]] # Null
        BY <4>1 DEF ListIsWellFormed
      <4>. QED
        BY <2>b, <4>2, <4>3
    <3>. QED
      BY <3>1, <3>2, <3>3 DEF ListIsWellFormed
  <2>6. MutexesAreHeldByTheirSections'
    BY <1>12 DEF PopHead, TypeOK, MutexesAreHeldByTheirSections
  <2>7. LocalNodesAreOwned'
    BY <1>12, <1>c, <1>d, <2>2 DEF PopHead, TypeOK, LocalNodesAreOwned
  <2>8. PushIsUnderWay'
    BY <1>12, <2>3 DEF PopHead, TypeOK, PushIsUnderWay
  <2>9. StaleTailIsLive'
    BY <1>12, <2>2 DEF PopHead, TypeOK, StaleTailIsLive, MutexesAreHeldByTheirSections
  <2>. QED
    BY <2>4, <2>5, <2>6, <2>7, <2>8, <2>9 DEF IInv
<1>13. ASSUME NEW t \in Threads, Return(t) PROVE IInv'
  <2>1. InList' = InList
    BY <1>13, <1>e DEF Return
  <2>2. TypeOK'
    BY <1>13 DEF Return, TypeOK
  <2>3. ListIsWellFormed'
    BY <1>13 DEF Return, ListIsWellFormed
  <2>4. MutexesAreHeldByTheirSections'
    BY <1>13 DEF Return, TypeOK, MutexesAreHeldByTheirSections
  <2>5. LocalNodesAreOwned'
    BY <1>13, <1>d, <2>1 DEF Return, TypeOK, LocalNodesAreOwned
  <2>6. PushIsUnderWay'
    BY <1>13 DEF Return, TypeOK, PushIsUnderWay
  <2>7. StaleTailIsLive'
    BY <1>13, <2>1 DEF Return, TypeOK, StaleTailIsLive
  <2>. QED
    BY <2>2, <2>3, <2>4, <2>5, <2>6, <2>7 DEF IInv
<1>14. ASSUME NEW t \in Threads, SpuriousWakeup(t) PROVE IInv'
  <2>1. InList' = InList
    BY <1>14, <1>e DEF SpuriousWakeup
  <2>2. TypeOK' /\ ListIsWellFormed' /\ MutexesAreHeldByTheirSections'
    BY <1>14 DEF SpuriousWakeup, TypeOK, ListIsWellFormed,
                 MutexesAreHeldByTheirSections
  <2>3. LocalNodesAreOwned' /\ PushIsUnderWay' /\ StaleTailIsLive'
    BY <1>14, <2>1 DEF SpuriousWakeup, LocalNodesAreOwned, PushIsUnderWay,
                       StaleTailIsLive
  <2>. QED
    BY <2>2, <2>3 DEF IInv
<1>15. CASE UNCHANGED vars
  <2>1. InList' = InList
    BY <1>15, <1>e DEF vars
  <2>2. TypeOK' /\ ListIsWellFormed' /\ MutexesAreHeldByTheirSections'
    BY <1>15 DEF vars, TypeOK, ListIsWellFormed, MutexesAreHeldByTheirSections
  <2>3. LocalNodesAreOwned' /\ PushIsUnderWay' /\ StaleTailIsLive'
    BY <1>15, <2>1 DEF vars, LocalNodesAreOwned, PushIsUnderWay, StaleTailIsLive
  <2>. QED
    BY <2>2, <2>3 DEF IInv
<1>. QED
  BY <1>1, <1>2, <1>3, <1>4, <1>5, <1>6, <1>7, <1>8, <1>9, <1>10, <1>11,
     <1>12, <1>13, <1>14, <1>15 DEF Next, Call, Push, Pop

-----------------------------------------------------------------------------
(* What holds of every reachable state *)

\* The invariant holds throughout.
LEMMA IInvInvariant == Spec => []IInv
BY InitIInv, StepIInv, PTL DEF Spec

\* Type correctness, for any numbers of producers, consumers and nodes.
THEOREM TypeCorrect == Spec => []TypeOK
<1>1. IInv => TypeOK
  BY DEF IInv
<1>. QED
  BY IInvInvariant, <1>1, PTL

\* The list between _head and _tail never breaks, however pushes and pops
\* interleave (lines 284-289 and 359-374).
THEOREM ListShape == Spec => []ListIsWellFormed
<1>1. IInv => ListIsWellFormed
  BY DEF IInv
<1>. QED
  BY IInvInvariant, <1>1, PTL

\* The address a pop compares with _head after get_tail() is that of a node
\* of the list (line 294).
THEOREM StaleTail == Spec => []StaleTailIsLive
<1>1. IInv => StaleTailIsLive
  BY DEF IInv
<1>. QED
  BY IInvInvariant, <1>1, PTL

\* A pop under _head_mutex and a push under _tail_mutex never touch the same
\* node: the pop finds at least two nodes, so that _head is not _tail.
THEOREM TwoLocksSuffice == Spec => []EndsAreDisjoint
<1>1. ASSUME IInv PROVE EndsAreDisjoint
  <2> USE <1>1 DEF IInv
  <2>1. SUFFICES ASSUME NEW c \in Threads, pc[c] = "test", ~Empty(c)
                 PROVE  head # tail /\ next[head] # Null /\ data[head] # Null
    BY DEF EndsAreDisjoint
  <2>2. chain \in Seq(Nodes) /\ seen[c] \in InList /\ head # seen[c]
    BY <2>1 DEF TypeOK, StaleTailIsLive, Empty
  <2>3. Len(chain) > 1
    BY <2>2 DEF InList, ListIsWellFormed
  <2>4. head = chain[1] /\ next[chain[1]] = chain[2] /\ data[chain[1]] # Null
    BY <2>2, <2>3 DEF ListIsWellFormed
  <2>5. chain[1] # chain[Len(chain)] /\ chain[2] \in Nodes
    BY <2>2, <2>3 DEF ListIsWellFormed
  <2>. QED
    BY <2>4, <2>5, QueueAssumption DEF ListIsWellFormed
<1>. QED
  BY IInvInvariant, <1>1, PTL

-----------------------------------------------------------------------------
(* ThreadsafeQueue implements WaitableQueue: each step of a call is a step of
   the abstract call or changes nothing of it *)

Pushing == Filling \cup {"notify"}
BeforePop == {"lockHead", "getTail", "test", "wait"}

\* What a call keeps in its locals until it takes effect.
CallsKeepTheirArguments ==
  \A t \in Threads :
    /\ pc[t] \in Pushing => method[t] = "push"
    /\ pc[t] \in BeforePop \cup {"return"} => method[t] # "push"
    /\ pc[t] \in BeforePop \cup {"idle"} => val[t] = Null
    /\ pc[t] = "setTail" => data[tail] = val[t]

RInv == IInv /\ CallsKeepTheirArguments

LEMMA InitArguments == Init => CallsKeepTheirArguments
BY DEF Init, CallsKeepTheirArguments, Pushing, Filling, BeforePop

\* Only the thread with the tail mutex writes to the node that tail is.
LEMMA TailDataStays ==
  ASSUME IInv, NEW t \in Threads, Call(t) \/ Push(t) \/ Pop(t) \/ SpuriousWakeup(t),
         NEW u \in Threads, u # t, pc[u] = "setTail"
  PROVE  data'[tail'] = data[tail]
<1>1. /\ data \in [Nodes -> Nullable(Values)] /\ tail \in Nodes /\ tail \in heap
  <2>1. chain \in Seq(Nodes) /\ Len(chain) >= 1 /\ tail = chain[Len(chain)]
    BY DEF IInv, TypeOK, ListIsWellFormed
  <2>2. tail \in InList
    BY <2>1 DEF InList
  <2>. QED
    BY <2>2 DEF IInv, TypeOK, LocalNodesAreOwned
<1>2. pc[t] \notin {"link", "setTail"}
  BY DEF IInv, MutexesAreHeldByTheirSections
<1>3. CASE PushCall(t)
  <2>1. PICK n \in Nodes \ heap : data' = [data EXCEPT ![n] = Null] /\ tail' = tail
    BY <1>3 DEF PushCall
  <2>. QED
    BY <1>1, <2>1
<1>4. CASE ~PushCall(t)
  <2>1. tail' = tail /\ data' = data
    BY <1>2, <1>4 DEF Call, Push, Pop, SpuriousWakeup, LockTail, Link, SetTail, Notify,
       PopCall, LockHead, GetTail, Wait, Wakeup, ReturnNothing, PopHead, Return, Goto, list
  <2>. QED
    BY <2>1
<1>. QED
  BY <1>3, <1>4

\* The arguments stay, one case for each action.
LEMMA StepArguments ==
  ASSUME IInv, CallsKeepTheirArguments, NEW t \in Threads,
         Call(t) \/ Push(t) \/ Pop(t) \/ SpuriousWakeup(t)
  PROVE  CallsKeepTheirArguments'
<1> DEFINE Kept(u) ==
     /\ pc'[u] \in Pushing => method'[u] = "push"
     /\ pc'[u] \in BeforePop \cup {"return"} => method'[u] # "push"
     /\ pc'[u] \in BeforePop \cup {"idle"} => val'[u] = Null
     /\ pc'[u] = "setTail" => data'[tail'] = val'[u]
<1>1. /\ pc \in [Threads -> {"idle", "lockTail", "link", "setTail", "notify",
                        "lockHead", "getTail", "test", "wait", "return"}]
      /\ method \in [Threads -> {"push", "wait_and_pop", "try_pop"}]
      /\ val \in [Threads -> Nullable(Values)]
      /\ data \in [Nodes -> Nullable(Values)] /\ tail \in Nodes
  BY DEF IInv, TypeOK
<1>2. ASSUME NEW u \in Threads, u # t PROVE Kept(u)
  <2>1. pc'[u] = pc[u] /\ method'[u] = method[u] /\ val'[u] = val[u]
    BY <1>1, <1>2 DEF Call, Push, Pop, SpuriousWakeup, PushCall, LockTail, Link, SetTail,
       Notify, PopCall, LockHead, GetTail, Wait, Wakeup, ReturnNothing, PopHead, Return,
       Goto, list, locals
  <2>. QED
    BY <1>2, <2>1, TailDataStays DEF CallsKeepTheirArguments
<1>3. Kept(t)
  <2> USE <1>1 DEF Goto, list, locals, CallsKeepTheirArguments, Pushing, Filling, BeforePop
  <2>1. CASE PushCall(t)
    BY <2>1 DEF PushCall
  <2>2. CASE LockTail(t)
    BY <2>2 DEF LockTail
  <2>3. CASE Link(t)
    BY <2>3 DEF Link
  <2>4. CASE SetTail(t)
    BY <2>4 DEF SetTail
  <2>5. CASE Notify(t)
    BY <2>5 DEF Notify
  <2>6. CASE PopCall(t)
    BY <2>6 DEF PopCall
  <2>7. CASE LockHead(t) \/ Wakeup(t)
    BY <2>7 DEF LockHead, Wakeup
  <2>8. CASE GetTail(t)
    BY <2>8 DEF GetTail
  <2>9. CASE Wait(t) \/ ReturnNothing(t)
    BY <2>9 DEF Wait, ReturnNothing
  <2>10. CASE PopHead(t)
    BY <2>10 DEF PopHead
  <2>11. CASE Return(t)
    BY <2>11 DEF Return
  <2>12. CASE SpuriousWakeup(t)
    BY <2>12 DEF SpuriousWakeup
  <2>. QED
    BY <2>1, <2>2, <2>3, <2>4, <2>5, <2>6, <2>7, <2>8, <2>9, <2>10, <2>11, <2>12
    DEF Call, Push, Pop
<1>. QED
  BY <1>2, <1>3 DEF CallsKeepTheirArguments

LEMMA RInvInvariant == Spec => []RInv
<1>1. CallsKeepTheirArguments /\ UNCHANGED vars => CallsKeepTheirArguments'
  BY DEF CallsKeepTheirArguments, vars, list, locals
<1>2. IInv /\ CallsKeepTheirArguments /\ [Next]_vars => CallsKeepTheirArguments'
  BY <1>1, StepArguments DEF Next
<1>. QED
  BY <1>2, InitArguments, IInvInvariant, PTL DEF Spec, RInv

-----------------------------------------------------------------------------
(* What a step changes of the abstract queue *)

Step(t) == Call(t) \/ Push(t) \/ Pop(t) \/ SpuriousWakeup(t)

PhaseOf(t) == IF pc[t] = "idle" THEN "idle" ELSE IF Effective(t) THEN "done" ELSE "called"

\* Only a pop under the head mutex moves _head.
LEMMA HeadStays ==
  ASSUME IInv, NEW t \in Threads, Step(t), NEW u \in Threads, u # t, pc[u] = "test"
  PROVE  head' = head
<1>1. pc[t] # "test"
  BY DEF IInv, MutexesAreHeldByTheirSections
<1>. QED
  BY <1>1 DEF Step, Call, Push, Pop, SpuriousWakeup, PushCall, LockTail, Link, SetTail,
     Notify, PopCall, LockHead, GetTail, Wait, Wakeup, ReturnNothing, PopHead, Return,
     Goto, list

\* The node that a pop has taken out keeps its value.
LEMMA PoppedDataStays ==
  ASSUME IInv, NEW t \in Threads, Step(t), NEW n \in heap \ InList
  PROVE  data'[n] = data[n]
<1>1. data \in [Nodes -> Nullable(Values)] /\ n \in Nodes
  BY DEF IInv, TypeOK
<1>2. tail \in InList /\ tail \in Nodes
  <2>1. chain \in Seq(Nodes) /\ Len(chain) >= 1 /\ tail = chain[Len(chain)]
    BY DEF IInv, TypeOK, ListIsWellFormed
  <2>. QED
    BY <2>1 DEF InList
<1>3. CASE PushCall(t)
  <2>1. PICK m \in Nodes \ heap : data' = [data EXCEPT ![m] = Null]
    BY <1>3 DEF PushCall
  <2>. QED
    BY <1>1, <2>1
<1>4. CASE Link(t)
  BY <1>1, <1>2, <1>4 DEF Link
<1>5. CASE ~PushCall(t) /\ ~Link(t)
  <2>1. data' = data
    BY <1>5 DEF Step, Call, Push, Pop, SpuriousWakeup, LockTail, SetTail, Notify, PopCall,
       LockHead, GetTail, Wait, Wakeup, ReturnNothing, PopHead, Return, list
  <2>. QED
    BY <2>1
<1>. QED
  BY <1>3, <1>4, <1>5

\* A step of a thread is no step of another one's call.
LEMMA OthersStay ==
  ASSUME IInv, NEW t \in Threads, Step(t), NEW u \in Threads, u # t
  PROVE  PhaseOf(u)' = PhaseOf(u) /\ Result(u)' = Result(u)
<1>1. /\ pc'[u] = pc[u] /\ method'[u] = method[u] /\ seen'[u] = seen[u]
      /\ byRef'[u] = byRef[u] /\ node'[u] = node[u] /\ val'[u] = val[u]
  BY DEF IInv, TypeOK, Step, Call, Push, Pop, SpuriousWakeup, PushCall, LockTail, Link,
     SetTail, Notify, PopCall, LockHead, GetTail, Wait, Wakeup, ReturnNothing, PopHead,
     Return, Goto, list, locals
<1>2. pc[u] = "test" => head' = head
  BY HeadStays
<1>3. pc[u] = "return" => data'[node[u]] = data[node[u]]
  BY PoppedDataStays DEF IInv, LocalNodesAreOwned, Holding
<1>4. Effective(u)' <=> Effective(u)
  BY <1>1, <1>2 DEF Effective, Empty
<1>. QED
  BY <1>1, <1>3, <1>4 DEF PhaseOf, Result

LEMMA StepChangesOne ==
  ASSUME IInv, NEW t \in Threads, Step(t)
  PROVE  /\ Phases' = [Phases EXCEPT ![t] = PhaseOf(t)']
         /\ Results' = [Results EXCEPT ![t] = Result(t)']
         /\ Phases[t] = PhaseOf(t) /\ Results[t] = Result(t)
<1>1. Phases = [u \in Threads |-> PhaseOf(u)] /\ Results = [u \in Threads |-> Result(u)]
  BY DEF Phases, PhaseOf, Results
<1>2. Phases' = [u \in Threads |-> PhaseOf(u)'] /\ Results' = [u \in Threads |-> Result(u)']
  BY DEF Phases, PhaseOf, Results
<1>3. \A u \in Threads : u # t => PhaseOf(u)' = PhaseOf(u) /\ Result(u)' = Result(u)
  BY OthersStay
<1>. QED
  BY <1>1, <1>2, <1>3

-----------------------------------------------------------------------------
(* The queued values *)

\* The values are those of the nodes before the dummy.
LEMMA ItemsAreValues ==
  ASSUME IInv
  PROVE  /\ Items \in Seq(Values) /\ Len(Items) = Len(chain) - 1
         /\ chain \in Seq(Nodes) /\ Len(chain) \in Nat /\ Len(chain) >= 1
         /\ \A i \in 1 .. Len(chain) - 1 : Items[i] = data[chain[i]]
<1>1. chain \in Seq(Nodes) /\ Len(chain) \in Nat /\ Len(chain) >= 1
  BY DEF IInv, TypeOK, ListIsWellFormed
<1>2. ASSUME NEW i \in 1 .. Len(chain) - 1 PROVE data[chain[i]] \in Values
  BY <1>1, <1>2 DEF IInv, TypeOK, ListIsWellFormed, Nullable
<1>3. PICK n \in Nat : n = Len(chain) - 1
  BY <1>1
<1>4. Items \in [1 .. n -> Values]
  BY <1>2, <1>3 DEF Items
<1>5. Items \in Seq(Values) /\ Len(Items) = n
  BY <1>4
<1>. QED
  BY <1>1, <1>3, <1>5 DEF Items

\* They stay while their nodes keep their values.
LEMMA ItemsStay ==
  ASSUME IInv, chain' = chain,
         \A i \in 1 .. Len(chain) - 1 : data'[chain[i]] = data[chain[i]]
  PROVE  Items' = Items
BY DEF Items

\* A function that is a sequence with one more element is Append of it.
LEMMA IsAppend ==
  ASSUME NEW S, NEW s \in Seq(S), NEW e \in S, NEW n \in Nat, n = Len(s),
         NEW f \in [1 .. n + 1 -> S], \A i \in 1 .. n : f[i] = s[i], f[n + 1] = e
  PROVE  f = Append(s, e)
<1>1. f \in Seq(S) /\ Len(f) = n + 1
  OBVIOUS
<1>2. Append(s, e) \in Seq(S) /\ Len(Append(s, e)) = n + 1
  OBVIOUS
<1>3. \A i \in 1 .. n + 1 : f[i] = Append(s, e)[i]
  OBVIOUS
<1>. QED
  BY <1>1, <1>2, <1>3

LEMMA IsTail ==
  ASSUME NEW S, NEW s \in Seq(S), NEW n \in Nat, n + 1 = Len(s),
         NEW f \in [1 .. n -> S], \A i \in 1 .. n : f[i] = s[i + 1]
  PROVE  f = Tail(s) /\ s # <<>> /\ Head(s) = s[1]
<1>1. f \in Seq(S) /\ Len(f) = n
  OBVIOUS
<1>2. Tail(s) \in Seq(S) /\ Len(Tail(s)) = n /\ s # <<>> /\ Head(s) = s[1]
  OBVIOUS
<1>3. \A i \in 1 .. n : f[i] = Tail(s)[i]
  OBVIOUS
<1>. QED
  BY <1>1, <1>2, <1>3

-----------------------------------------------------------------------------
(* Each step implements a step or none *)

AbstractVars == <<Items, Phases, method, Results>>

\* The initial queue is empty and nobody is in a call.
LEMMA InitRefines == Init => Abstract!Init
<1> SUFFICES ASSUME Init PROVE Abstract!Init
  OBVIOUS
<1>1. PICK front \in Nodes : chain = <<front>>
  BY DEF Init
<1>2. IInv
  BY InitIInv
<1>3. Items = <<>>
  BY <1>1, <1>2, ItemsAreValues
<1>4. Phases = [t \in Threads |-> "idle"] /\ Results = [t \in Threads |-> Null]
  BY DEF Init, Phases, Results, Result
<1>. QED
  BY <1>3, <1>4 DEF Init, Abstract!Init

\* push() begins, and the nodes of the list keep their values.
LEMMA PushCallRefines ==
  ASSUME RInv, NEW t \in Threads, PushCall(t) PROVE Abstract!Begin(t)
<1>1. PICK v \in Values, n \in Nodes \ heap :
         val' = [val EXCEPT ![t] = v] /\ data' = [data EXCEPT ![n] = Null]
  BY DEF PushCall
<1>2. Step(t) /\ IInv
  BY DEF Step, Call, RInv
<1>3. Items' = Items
  <2>1. \A i \in 1 .. Len(chain) : chain[i] \in heap /\ chain[i] \in Nodes
    BY DEF RInv, IInv, TypeOK, LocalNodesAreOwned, InList
  <2>2. chain' = chain
    BY DEF PushCall
  <2>3. data \in [Nodes -> Nullable(Values)] /\ chain \in Seq(Nodes)
    BY DEF RInv, IInv, TypeOK
  <2>. QED
    BY <1>1, <1>2, <2>1, <2>2, <2>3, ItemsStay
<1>4. PhaseOf(t) = "idle" /\ PhaseOf(t)' = "called" /\ Result(t)' = v
      /\ method' = [method EXCEPT ![t] = "push"]
  BY <1>1 DEF RInv, IInv, TypeOK, PushCall, Goto, PhaseOf, Effective, Result
<1>5. /\ Phases[t] = "idle" /\ Phases' = [Phases EXCEPT ![t] = "called"]
      /\ Results' = [Results EXCEPT ![t] = v]
  BY <1>2, <1>4, StepChangesOne
<1>. QED
  BY <1>3, <1>4, <1>5 DEF Abstract!Begin, Abstract!Methods

\* A pop begins, with no argument.
LEMMA PopCallRefines ==
  ASSUME RInv, NEW t \in Threads, PopCall(t) PROVE Abstract!Begin(t)
<1>1. PICK m \in {"wait_and_pop", "try_pop"} : method' = [method EXCEPT ![t] = m]
  BY DEF PopCall
<1>2. Step(t) /\ IInv
  BY DEF Step, Call, RInv
<1>3. Items' = Items
  BY <1>2, ItemsStay DEF PopCall, list
<1>4. PhaseOf(t) = "idle" /\ PhaseOf(t)' = "called" /\ Result(t)' = Null
  BY DEF RInv, CallsKeepTheirArguments, BeforePop, IInv, TypeOK, PopCall, Goto, PhaseOf,
     Effective, Result
<1>5. /\ Phases[t] = "idle" /\ Phases' = [Phases EXCEPT ![t] = "called"]
      /\ Results' = [Results EXCEPT ![t] = Null]
  BY <1>2, <1>4, StepChangesOne
<1>. QED
  BY <1>1, <1>3, <1>5 DEF Abstract!Begin, Abstract!Methods

\* push() takes effect when it moves _tail over the node it has filled.
LEMMA SetTailRefines ==
  ASSUME RInv, NEW t \in Threads, SetTail(t) PROVE Abstract!Enqueue(t)
<1>1. Step(t) /\ IInv
  BY DEF Step, Push, RInv
<1>2. /\ data[tail] = val[t] /\ val[t] \in Values /\ method[t] = "push"
      /\ node[t] \in Nodes
  BY DEF RInv, CallsKeepTheirArguments, IInv, PushIsUnderWay, LocalNodesAreOwned, TypeOK,
     SetTail, Goto, Pushing, Filling, Holding, Nullable
<1>3. Items' = Append(Items, val[t])
  <2>1. PICK n \in Nat : n = Len(chain) - 1 /\ n = Len(Items)
    BY <1>1, ItemsAreValues
  <2>2. /\ chain \in Seq(Nodes) /\ chain' = Append(chain, node[t]) /\ data' = data
        /\ chain[Len(chain)] = tail
    BY DEF RInv, IInv, TypeOK, ListIsWellFormed, SetTail
  <2>3. /\ Len(chain') = n + 2
        /\ \A i \in 1 .. n + 1 : chain'[i] = chain[i]
    BY <1>2, <2>1, <2>2, ChainAppend
  <2>4. Items' = [i \in 1 .. n + 1 |-> data[chain[i]]]
    BY <2>2, <2>3 DEF Items
  <2>5. \A i \in 1 .. n : data[chain[i]] = Items[i] /\ Items[i] \in Values
    BY <1>1, <2>1, ItemsAreValues
  <2>6. data[chain[n + 1]] = val[t]
    BY <1>2, <2>1, <2>2
  <2>7. \A i \in 1 .. n + 1 : data[chain[i]] \in Values
    BY <1>2, <2>5, <2>6
  <2>. QED
    BY <1>1, <1>2, <2>1, <2>4, <2>5, <2>6, <2>7, IsAppend, ItemsAreValues
<1>4. PhaseOf(t) = "called" /\ PhaseOf(t)' = "done" /\ Result(t) = val[t]
      /\ Result(t)' = val[t] /\ method' = method
  BY DEF RInv, IInv, TypeOK, SetTail, Goto, PhaseOf, Effective, Result, locals
<1>5. /\ Phases[t] = "called" /\ Phases' = [Phases EXCEPT ![t] = "done"]
      /\ Results' = Results /\ Results[t] = val[t]
  BY <1>1, <1>4, StepChangesOne DEF Results
<1>. QED
  BY <1>2, <1>3, <1>4, <1>5 DEF Abstract!Enqueue

\* A pop takes effect when it moves _head.
LEMMA PopHeadRefines ==
  ASSUME RInv, NEW t \in Threads, PopHead(t) PROVE Abstract!Dequeue(t)
<1>1. Step(t) /\ IInv
  BY DEF Step, Pop, RInv
<1>2. Len(chain) > 1
  BY <1>1, ItemsAreValues
  DEF PopHead, Goto, Empty, InList, IInv, ListIsWellFormed, StaleTailIsLive
<1>3. Items # <<>> /\ Head(Items) = data[head] /\ Items' = Tail(Items)
  <2>1. PICK n \in Nat : n = Len(chain) - 2 /\ n + 1 = Len(Items)
    BY <1>1, <1>2, ItemsAreValues
  <2>2. /\ chain \in Seq(Nodes) /\ chain' = Tail(chain) /\ data' = data /\ head = chain[1]
    BY DEF RInv, IInv, TypeOK, ListIsWellFormed, PopHead
  <2>3. Len(chain') = n + 1 /\ \A i \in 1 .. n + 1 : chain'[i] = chain[i + 1]
    BY <1>2, <2>1, <2>2, ChainTail
  <2>4. Items' = [i \in 1 .. n |-> data[chain[i + 1]]]
    BY <2>2, <2>3 DEF Items
  <2>5. \A i \in 1 .. n + 1 : data[chain[i]] = Items[i] /\ Items[i] \in Values
    BY <1>1, <2>1, ItemsAreValues
  <2>6. Items' = Tail(Items) /\ Items # <<>> /\ Head(Items) = Items[1]
    <3>1. Items \in Seq(Values)
      BY <1>1, ItemsAreValues
    <3>2. \A i \in 1 .. n : data[chain[i + 1]] = Items[i + 1] /\ Items[i + 1] \in Values
      BY <2>1, <2>5
    <3>3. Items' \in [1 .. n -> Values] /\ \A i \in 1 .. n : Items'[i] = Items[i + 1]
      BY <2>4, <3>2
    <3>. QED
      BY <2>1, <3>1, <3>3, IsTail
  <2>. QED
    BY <2>1, <2>2, <2>5, <2>6
<1>4. /\ PhaseOf(t) = "called" /\ PhaseOf(t)' = "done"
      /\ method' = method /\ method[t] # "push"
  BY DEF RInv, CallsKeepTheirArguments, BeforePop, IInv, TypeOK, PopHead, Goto, PhaseOf,
     Effective
<1>5. Result(t)' = data[head]
  <2>1. /\ pc'[t] = "return" /\ byRef' = byRef /\ data' = data /\ node'[t] = head
        /\ byRef[t] => val'[t] = data[head]
    BY DEF RInv, IInv, TypeOK, PopHead, Goto
  <2>. QED
    BY <2>1 DEF Result
<1>6. /\ Phases[t] = "called" /\ Phases' = [Phases EXCEPT ![t] = "done"]
      /\ Results' = [Results EXCEPT ![t] = data[head]]
  BY <1>1, <1>4, <1>5, StepChangesOne
<1>. QED
  BY <1>3, <1>4, <1>6 DEF Abstract!Dequeue

\* The calls that have taken effect end.
LEMMA EndRefines ==
  ASSUME RInv, NEW t \in Threads, Notify(t) \/ ReturnNothing(t) \/ Return(t)
  PROVE  Abstract!End(t)
<1>1. Step(t) /\ IInv
  BY DEF Step, Push, Pop, RInv
<1>2. Items' = Items
  BY <1>1, ItemsStay DEF Notify, ReturnNothing, Return, list
<1>3. PhaseOf(t) = "done" /\ PhaseOf(t)' = "idle" /\ Result(t)' = Null /\ method' = method
  <2> USE DEF RInv, CallsKeepTheirArguments, BeforePop, IInv, TypeOK, Goto, PhaseOf,
              Effective, Result, locals
  <2>1. CASE Notify(t)
    BY <2>1 DEF Notify
  <2>2. CASE ReturnNothing(t)
    BY <2>2 DEF ReturnNothing
  <2>3. CASE Return(t)
    BY <2>3 DEF Return
  <2>. QED
    BY <2>1, <2>2, <2>3
<1>4. /\ Phases[t] = "done" /\ Phases' = [Phases EXCEPT ![t] = "idle"]
      /\ Results' = [Results EXCEPT ![t] = Null]
  BY <1>1, <1>3, StepChangesOne
<1>. QED
  BY <1>2, <1>3, <1>4 DEF Abstract!End

\* A try_pop that reads _head as the tail has found the queue empty then, however
\* much is pushed before it compares them.
LEMMA GetTailRefines ==
  ASSUME RInv, NEW t \in Threads, GetTail(t)
  PROVE  Abstract!FindEmpty(t) \/ UNCHANGED AbstractVars
<1>1. Step(t) /\ IInv
  BY DEF Step, Pop, RInv
<1>2. Items' = Items /\ method' = method
  BY <1>1, ItemsStay DEF GetTail, list
<1>3. /\ PhaseOf(t) = "called" /\ Result(t)' = Result(t)
      /\ PhaseOf(t)' = IF method[t] = "try_pop" /\ head = tail THEN "done" ELSE "called"
  BY DEF RInv, IInv, TypeOK, GetTail, Goto, PhaseOf, Effective, Empty, Result, list
<1>4. /\ Phases[t] = "called" /\ Phases' = [Phases EXCEPT ![t] = PhaseOf(t)']
      /\ Results' = Results
  BY <1>1, <1>3, StepChangesOne DEF Results
<1>5. CASE method[t] = "try_pop" /\ head = tail
  <2>0. chain \in Seq(Nodes) /\ Len(chain) \in Nat /\ Len(chain) >= 1
    BY <1>1, ItemsAreValues
  <2>1. /\ 1 \in 1 .. Len(chain) /\ Len(chain) \in 1 .. Len(chain)
        /\ chain[1] = chain[Len(chain)]
        /\ \A i, j \in 1 .. Len(chain) : chain[i] = chain[j] => i = j
    BY <1>1, <1>5, <2>0 DEF IInv, ListIsWellFormed
  <2>2. Len(chain) = 1
    BY <2>1
  <2>3. Items = <<>>
    BY <1>1, <2>2, ItemsAreValues
  <2>. QED
    BY <1>2, <1>3, <1>4, <1>5, <2>3 DEF Abstract!FindEmpty
<1>6. CASE ~(method[t] = "try_pop" /\ head = tail)
  BY <1>2, <1>3, <1>4, <1>6 DEF AbstractVars, Phases
<1>. QED
  BY <1>5, <1>6

\* The other steps change nothing that a caller could see.
LEMMA InnerStepsStutter ==
  ASSUME RInv, NEW t \in Threads,
         LockTail(t) \/ Link(t) \/ LockHead(t) \/ Wait(t) \/ Wakeup(t) \/ SpuriousWakeup(t)
  PROVE  UNCHANGED AbstractVars
<1>1. Step(t) /\ IInv
  BY DEF Step, Push, Pop, RInv
<1>2. Items' = Items
  <2>1. CASE Link(t)
    <3>1. /\ chain' = chain /\ data' = [data EXCEPT ![tail] = val[t]]
          /\ data \in [Nodes -> Nullable(Values)]
      BY <2>1 DEF RInv, IInv, TypeOK, Link
    <3>2. ASSUME NEW i \in 1 .. Len(chain) - 1 PROVE chain[i] # tail /\ chain[i] \in Nodes
      <4>1. chain \in Seq(Nodes) /\ Len(chain) \in Nat
        BY <1>1, ItemsAreValues
      <4>2. i \in 1 .. Len(chain) /\ Len(chain) \in 1 .. Len(chain) /\ i # Len(chain)
        BY <4>1
      <4>3. /\ tail = chain[Len(chain)]
            /\ \A j, k \in 1 .. Len(chain) : chain[j] = chain[k] => j = k
        BY <1>1 DEF IInv, ListIsWellFormed
      <4>. QED
        BY <4>1, <4>2, <4>3
    <3>. QED
      BY <1>1, <3>1, <3>2, ItemsStay
  <2>2. CASE ~Link(t)
    BY <1>1, <2>2, ItemsStay DEF LockTail, LockHead, Wait, Wakeup, SpuriousWakeup, list
  <2>. QED
    BY <2>1, <2>2
<1>3. method' = method /\ PhaseOf(t)' = PhaseOf(t) /\ Result(t)' = Result(t)
  <2> USE DEF RInv, IInv, TypeOK, Goto, PhaseOf, Effective, Empty, Result, locals, list
  <2>1. CASE LockTail(t)
    BY <2>1 DEF LockTail
  <2>2. CASE Link(t)
    BY <2>2 DEF Link
  <2>3. CASE LockHead(t)
    BY <2>3 DEF LockHead
  <2>4. CASE Wait(t)
    BY <2>4 DEF Wait
  <2>5. CASE Wakeup(t)
    BY <2>5 DEF Wakeup
  <2>6. CASE SpuriousWakeup(t)
    BY <2>6 DEF SpuriousWakeup
  <2>. QED
    BY <2>1, <2>2, <2>3, <2>4, <2>5, <2>6
<1>4. /\ Phases' = [Phases EXCEPT ![t] = Phases[t]]
      /\ Results' = [Results EXCEPT ![t] = Results[t]]
  BY <1>1, <1>3, StepChangesOne
<1>5. Phases = [u \in Threads |-> Phases[u]] /\ Results = [u \in Threads |-> Results[u]]
  BY DEF Phases, Results
<1>6. Phases' = Phases /\ Results' = Results
  BY <1>4, <1>5
<1>. QED
  BY <1>2, <1>3, <1>6 DEF AbstractVars

\* Every call of push(), wait_and_pop() and try_pop() behaves as if it happened at
\* one instant on a FIFO queue, whatever the threads and the heap.
THEOREM CallsAreAtomicOnOneQueue == Spec => ImplementsWaitableQueue
<1>1. UNCHANGED vars => UNCHANGED AbstractVars
  <2> SUFFICES ASSUME UNCHANGED vars PROVE UNCHANGED AbstractVars
    OBVIOUS
  <2> USE DEF vars, list, locals
  <2>1. Items' = Items
    BY DEF Items
  <2>2. ASSUME NEW t \in Threads PROVE PhaseOf(t)' = PhaseOf(t)
    BY DEF PhaseOf, Effective, Empty
  <2>3. Phases' = Phases
    BY <2>2 DEF Phases, PhaseOf
  <2>4. Results' = Results
    BY DEF Results, Result
  <2>. QED
    BY <2>1, <2>3, <2>4 DEF AbstractVars
<1>2. RInv /\ [Next]_vars => [Abstract!Next]_(Abstract!vars)
  <2> SUFFICES ASSUME RInv, [Next]_vars PROVE Abstract!Next \/ UNCHANGED AbstractVars
    BY DEF Abstract!vars, AbstractVars
  <2>1. ASSUME NEW t \in Threads, Call(t) \/ Push(t) \/ Pop(t) \/ SpuriousWakeup(t)
        PROVE  \/ \/ Abstract!Begin(t) \/ Abstract!Enqueue(t) \/ Abstract!Dequeue(t)
                  \/ Abstract!FindEmpty(t) \/ Abstract!End(t)
               \/ UNCHANGED AbstractVars
    BY <2>1, PushCallRefines, PopCallRefines, SetTailRefines, PopHeadRefines, EndRefines,
       GetTailRefines, InnerStepsStutter DEF Call, Push, Pop
  <2>. QED
    BY <1>1, <2>1 DEF Next, Abstract!Next
<1>. QED
  BY <1>2, InitRefines, RInvInvariant, PTL DEF Spec, ImplementsWaitableQueue, Abstract!Spec

-----------------------------------------------------------------------------
(* The executions of MCContainers *)

ContainersNext == QueueNext \/ ProgramNext \/ TableNext \/ OldNext \/ SimpleNext
all == <<program, vars, programVars, tableVars, theOldest>>

\* The executions of threadsafe_queue are among those of ThreadsafeQueue.
LEMMA QueueRuns == FairContainersSpec => Spec
<1>1. ContainersInit => Init
  BY DEF ContainersInit
<1>2. [ContainersNext]_all => [Next]_vars
  BY DEF ContainersNext, all, QueueNext, ProgramNext, TableNext, OldNext, SimpleNext
<1>. QED
  BY <1>1, <1>2, PTL DEF FairContainersSpec, Spec, ContainersNext, all

-----------------------------------------------------------------------------
(* threadsafe_queue_old *)

\* Each critical section is a step of the abstract queue, except those that wait
\* and wake up.
LEMMA OldRefines == FairContainersSpec => Old!ImplementsWaitableQueue
<1>1. ContainersInit => Old!Abstract!Init
  BY DEF ContainersInit, Old!Init, Old!Abstract!Init
<1>2. ASSUME Old!Next PROVE [Old!Abstract!Next]_(Old!Abstract!vars)
  <2>1. PICK t \in {p1, c1, c2} :
          \/ Old!Call(t) \/ Old!Push(t) \/ Old!Pop(t) \/ Old!Wait(t)
          \/ Old!ReturnNothing(t) \/ Old!SpuriousWakeup(t) \/ Old!Return(t)
    BY <1>2 DEF Old!Next
  <2>2. CASE Old!Call(t)
    <3>1. Old!Abstract!Begin(t)
      BY <2>2 DEF Old!Call, Old!Abstract!Begin, Old!Methods, Old!Abstract!Methods
    <3>. QED
      BY <3>1 DEF Old!Abstract!Next
  <2>3. CASE Old!Push(t)
    <3>1. Old!Abstract!Enqueue(t)
      BY <2>3 DEF Old!Push, Old!Enqueue, Old!Finish, Old!Abstract!Enqueue
    <3>. QED
      BY <3>1 DEF Old!Abstract!Next
  <2>4. CASE Old!Pop(t)
    <3>1. Old!Abstract!Dequeue(t)
      BY <2>4 DEF Old!Pop, Old!Running, Old!Finish, Old!Abstract!Dequeue
    <3>. QED
      BY <3>1 DEF Old!Abstract!Next
  <2>5. CASE Old!ReturnNothing(t)
    <3>1. Old!Abstract!FindEmpty(t)
      BY <2>5 DEF Old!ReturnNothing, Old!Running, Old!Finish, Old!Abstract!FindEmpty
    <3>. QED
      BY <3>1 DEF Old!Abstract!Next
  <2>6. CASE Old!Return(t)
    <3>1. Old!Abstract!End(t)
      BY <2>6 DEF Old!Return, Old!Abstract!End
    <3>. QED
      BY <3>1 DEF Old!Abstract!Next
  <2>7. CASE Old!Wait(t) \/ Old!SpuriousWakeup(t)
    BY <2>7 DEF Old!Wait, Old!SpuriousWakeup, Old!Abstract!vars
  <2>. QED
    BY <2>1, <2>2, <2>3, <2>4, <2>5, <2>6, <2>7
<1>3. UNCHANGED oldVars => UNCHANGED Old!Abstract!vars
  BY DEF oldVars, Old!Abstract!vars
<1>4. [ContainersNext]_all => [Old!Abstract!Next]_(Old!Abstract!vars)
  BY <1>2, <1>3 DEF ContainersNext, all, theOldest, QueueNext, ProgramNext, TableNext,
     OldNext, SimpleNext
<1>. QED
  BY <1>1, <1>4, PTL DEF FairContainersSpec, ContainersNext, all,
     Old!ImplementsWaitableQueue, Old!Abstract!Spec

-----------------------------------------------------------------------------
(* The entries of a bucket *)

Answers == Values \cup {Null}
Entries == Seq(TwoKeys \X Answers)

UniqueKeys(s) == \A i, j \in 1 .. Len(s) : s[i][1] = s[j][1] => i = j

\* What find_entry_for() finds, and what value_for() makes of it.
Place(s, k) == Table!SelectInSeq(s, LAMBDA entry : entry[1] = k)
ValueIn(s, k) == IF Place(s, k) = 0 THEN Null ELSE s[Place(s, k)][2]

LEMMA NoPlace ==
  ASSUME NEW s, NEW k, \A i \in 1 .. Len(s) : s[i][1] # k
  PROVE  Place(s, k) = 0
BY DEF Place, Table!SelectInSeq

LEMMA OnePlace ==
  ASSUME NEW s, NEW k, NEW i \in 1 .. Len(s), \A j \in 1 .. Len(s) : s[j][1] = k <=> j = i
  PROVE  Place(s, k) = i
<1>1. {j \in 1 .. Len(s) : s[j][1] = k} = {i}
  OBVIOUS
<1>. QED
  BY <1>1 DEF Place, Table!SelectInSeq, Table!Min

\* In a bucket with unique keys the key has no place or one.
LEMMA PlaceCases ==
  ASSUME NEW s \in Entries, UniqueKeys(s), NEW k
  PROVE  \/ Place(s, k) = 0 /\ \A i \in 1 .. Len(s) : s[i][1] # k
         \/ /\ Place(s, k) \in 1 .. Len(s) /\ s[Place(s, k)][1] = k
            /\ \A i \in 1 .. Len(s) : s[i][1] = k => i = Place(s, k)
<1>1. CASE \A i \in 1 .. Len(s) : s[i][1] # k
  BY <1>1, NoPlace
<1>2. ASSUME NEW i \in 1 .. Len(s), s[i][1] = k
      PROVE  Place(s, k) = i /\ \A j \in 1 .. Len(s) : s[j][1] = k => j = i
  <2>1. \A j \in 1 .. Len(s) : s[j][1] = k <=> j = i
    BY <1>2 DEF UniqueKeys
  <2>. QED
    BY <2>1, OnePlace
<1>. QED
  BY <1>1, <1>2

\* The entry of a key determines its value.
LEMMA ValueOfEntry ==
  ASSUME NEW s \in Entries, UniqueKeys(s), NEW i \in 1 .. Len(s)
  PROVE  ValueIn(s, s[i][1]) = s[i][2]
<1>1. Place(s, s[i][1]) = i /\ i # 0
  BY PlaceCases
<1>. QED
  BY <1>1 DEF ValueIn

LEMMA ValueOfNoEntry ==
  ASSUME NEW s \in Entries, UniqueKeys(s), NEW k, \A i \in 1 .. Len(s) : s[i][1] # k
  PROVE  ValueIn(s, k) = Null
BY NoPlace DEF ValueIn

\* Two buckets with the same entry for a key have the same value for it.
LEMMA SameValue ==
  ASSUME NEW s \in Entries, UniqueKeys(s), NEW r \in Entries, UniqueKeys(r), NEW k,
         \A i \in 1 .. Len(s) : s[i][1] = k => \E j \in 1 .. Len(r) : r[j] = s[i],
         \A j \in 1 .. Len(r) : r[j][1] = k => \E i \in 1 .. Len(s) : s[i] = r[j]
  PROVE  ValueIn(s, k) = ValueIn(r, k)
<1>1. CASE \A i \in 1 .. Len(s) : s[i][1] # k
  <2>1. \A j \in 1 .. Len(r) : r[j][1] # k
    BY <1>1
  <2>. QED
    BY <1>1, <2>1, ValueOfNoEntry
<1>2. ASSUME NEW i \in 1 .. Len(s), s[i][1] = k PROVE ValueIn(s, k) = ValueIn(r, k)
  <2>1. PICK j \in 1 .. Len(r) : r[j] = s[i]
    BY <1>2
  <2>2. ValueIn(s, k) = s[i][2]
    BY <1>2, ValueOfEntry
  <2>3. ValueIn(r, k) = r[j][2]
    BY <1>2, <2>1, ValueOfEntry
  <2>. QED
    BY <2>1, <2>2, <2>3
<1>. QED
  BY <1>1, <1>2

\* r is s with the value v for k; the keys of the others are those of s.
Updates(s, r, k, v) ==
  /\ r \in Entries /\ UniqueKeys(r)
  /\ ValueIn(r, k) = v
  /\ \A q : q # k => ValueIn(r, q) = ValueIn(s, q)
  /\ \A j \in 1 .. Len(r) : r[j][1] = k \/ \E i \in 1 .. Len(s) : s[i][1] = r[j][1]

LEMMA AppendUpdates ==
  ASSUME NEW s \in Entries, UniqueKeys(s), NEW k \in TwoKeys, NEW v \in Answers,
         Place(s, k) = 0
  PROVE  Updates(s, Append(s, <<k, v>>), k, v)
<1> DEFINE r == Append(s, <<k, v>>)
           n == Len(s)
<1>1. /\ r \in Entries /\ Len(r) = n + 1 /\ n \in Nat
      /\ \A i \in 1 .. n : r[i] = s[i]
      /\ r[n + 1] = <<k, v>>
  BY DEF Entries
<1>2. \A i \in 1 .. n : s[i][1] # k
  BY PlaceCases
<1>3. UniqueKeys(r)
  BY <1>1, <1>2 DEF UniqueKeys
<1>4. ValueIn(r, k) = v
  <2>1. n + 1 \in 1 .. Len(r) /\ r[n + 1][1] = k /\ r[n + 1][2] = v
    BY <1>1
  <2> HIDE DEF r, n
  <2>. QED
    BY <1>1, <1>3, <2>1, ValueOfEntry
<1>5. ASSUME NEW q, q # k PROVE ValueIn(r, q) = ValueIn(s, q)
  <2>1. \A i \in 1 .. n : s[i][1] = q => \E j \in 1 .. Len(r) : r[j] = s[i]
    BY <1>1
  <2>2. \A j \in 1 .. Len(r) : r[j][1] = q => \E i \in 1 .. n : s[i] = r[j]
    BY <1>1, <1>5
  <2> HIDE DEF r
  <2>. QED
    BY <1>1, <1>3, <2>1, <2>2, SameValue
<1>6. \A j \in 1 .. Len(r) : r[j][1] = k \/ \E i \in 1 .. n : s[i][1] = r[j][1]
  BY <1>1
<1>. QED
  BY <1>1, <1>3, <1>4, <1>5, <1>6 DEF Updates

LEMMA ReplaceUpdates ==
  ASSUME NEW s \in Entries, UniqueKeys(s), NEW k \in TwoKeys, NEW v \in Answers,
         NEW p \in 1 .. Len(s), s[p][1] = k
  PROVE  Updates(s, [s EXCEPT ![p] = <<k, v>>], k, v)
<1> DEFINE r == [s EXCEPT ![p] = <<k, v>>]
           n == Len(s)
<1>1. /\ r \in Entries /\ Len(r) = n
      /\ \A i \in 1 .. n : i # p => r[i] = s[i]
      /\ r[p] = <<k, v>>
  BY DEF Entries
<1>2. \A i \in 1 .. n : r[i][1] = s[i][1]
  BY <1>1
<1>3. UniqueKeys(r)
  BY <1>1, <1>2 DEF UniqueKeys
<1>4. ValueIn(r, k) = v
  <2>1. p \in 1 .. Len(r) /\ r[p][1] = k /\ r[p][2] = v
    BY <1>1
  <2> HIDE DEF r, n
  <2>. QED
    BY <1>1, <1>3, <2>1, ValueOfEntry
<1>5. ASSUME NEW q, q # k PROVE ValueIn(r, q) = ValueIn(s, q)
  <2>1. \A i \in 1 .. n : s[i][1] = q => i # p /\ r[i] = s[i]
    BY <1>1, <1>5
  <2>2. \A i \in 1 .. n : r[i][1] = q => i # p /\ r[i] = s[i]
    BY <1>1, <1>5
  <2> HIDE DEF r
  <2>. QED
    BY <1>1, <1>3, <2>1, <2>2, SameValue
<1>. QED
  BY <1>1, <1>2, <1>3, <1>4, <1>5 DEF Updates

\* Removal shifts the entries that follow.
LEMMA RemoveAtShifts ==
  ASSUME NEW S, NEW s \in Seq(S), NEW n \in Nat, n = Len(s), NEW p \in 1 .. n
  PROVE  /\ Table!RemoveAt(s, p) \in Seq(S) /\ Len(Table!RemoveAt(s, p)) = n - 1
         /\ \A i \in 1 .. n - 1 :
              Table!RemoveAt(s, p)[i] = IF i < p THEN s[i] ELSE s[i + 1]
<1> DEFINE a == SubSeq(s, 1, p - 1)
           b == SubSeq(s, p + 1, n)
<1>1. a \in Seq(S) /\ Len(a) = p - 1 /\ \A i \in 1 .. p - 1 : a[i] = s[i]
  OBVIOUS
<1>2. b \in Seq(S) /\ Len(b) = n - p /\ \A i \in 1 .. n - p : b[i] = s[i + p]
  OBVIOUS
<1>3. Table!RemoveAt(s, p) = a \o b
  BY DEF Table!RemoveAt
<1> HIDE DEF a, b
<1>4. a \o b \in Seq(S) /\ Len(a \o b) = n - 1
  BY <1>1, <1>2
<1>5. \A i \in 1 .. n - 1 : (a \o b)[i] = IF i < p THEN a[i] ELSE b[i - p + 1]
  BY <1>1, <1>2
<1>6. ASSUME NEW i \in 1 .. n - 1 PROVE (a \o b)[i] = IF i < p THEN s[i] ELSE s[i + 1]
  <2>1. CASE i < p
    BY <1>1, <1>5, <2>1
  <2>2. CASE ~(i < p)
    <3>1. PICK j \in 1 .. n - p : j = i - p + 1 /\ j + p = i + 1
      BY <2>2
    <3>2. (a \o b)[i] = b[i - p + 1]
      BY <1>5, <2>2
    <3>3. b[j] = s[i + 1]
      BY <1>2, <3>1
    <3>. QED
      BY <2>2, <3>1, <3>2, <3>3
  <2>. QED
    BY <2>1, <2>2
<1>. QED
  BY <1>3, <1>4, <1>6

LEMMA RemoveUpdates ==
  ASSUME NEW s \in Entries, UniqueKeys(s), NEW k \in TwoKeys,
         NEW p \in 1 .. Len(s), s[p][1] = k
  PROVE  Updates(s, Table!RemoveAt(s, p), k, Null)
<1> DEFINE r == Table!RemoveAt(s, p)
           n == Len(s)
<1>1. /\ r \in Entries /\ n \in Nat /\ n >= 1 /\ Len(r) = n - 1
      /\ \A i \in 1 .. n - 1 : r[i] = IF i < p THEN s[i] ELSE s[i + 1]
  <2>1. s \in Seq(TwoKeys \X Answers) /\ n \in Nat /\ n >= 1
    BY DEF Entries
  <2>. QED
    BY <2>1, RemoveAtShifts DEF Entries
<1> HIDE DEF r
<1>2. \A j \in 1 .. n - 1 : \E i \in 1 .. n : i # p /\ r[j] = s[i]
  BY <1>1
<1>3. \A i \in 1 .. n : i # p => \E j \in 1 .. n - 1 : r[j] = s[i]
  <2>1. ASSUME NEW i \in 1 .. n, i < p PROVE i \in 1 .. n - 1 /\ r[i] = s[i]
    BY <1>1, <2>1
  <2>2. ASSUME NEW i \in 1 .. n, i > p PROVE i - 1 \in 1 .. n - 1 /\ r[i - 1] = s[i]
    BY <1>1, <2>2
  <2>. QED
    BY <2>1, <2>2
<1>4. UniqueKeys(r)
  BY <1>1 DEF UniqueKeys
<1>5. ValueIn(r, k) = Null
  <2>1. \A j \in 1 .. Len(r) : r[j][1] # k
    BY <1>1, <1>2 DEF UniqueKeys
  <2>. QED
    BY <1>1, <1>4, <2>1, ValueOfNoEntry
<1>6. ASSUME NEW q, q # k PROVE ValueIn(r, q) = ValueIn(s, q)
  <2>1. \A i \in 1 .. Len(s) : s[i][1] = q => \E j \in 1 .. Len(r) : r[j] = s[i]
    BY <1>1, <1>3, <1>6
  <2>2. \A j \in 1 .. Len(r) : r[j][1] = q => \E i \in 1 .. Len(s) : s[i] = r[j]
    BY <1>1, <1>2
  <2>. QED
    BY <1>1, <1>4, <2>1, <2>2, SameValue
<1>7. \A j \in 1 .. Len(r) : \E i \in 1 .. Len(s) : s[i][1] = r[j][1]
  BY <1>1, <1>2
<1>8. Updates(s, r, k, Null)
  BY <1>1, <1>4, <1>5, <1>6, <1>7 DEF Updates
<1>. QED
  BY <1>8 DEF r

-----------------------------------------------------------------------------
(* threadsafe_lookup_table *)

Bucket(t) == hash[key[t]]

TableTyped ==
  /\ hash \in [TwoKeys -> {1, 2}]
  /\ buckets \in [{1, 2} -> Entries]
  /\ readers \in [{1, 2} -> SUBSET Threads] /\ writer \in [{1, 2} -> SUBSET Threads]
  /\ at \in [Threads -> {"idle", "lock", "find", "use", "return"}]
  /\ operation \in [Threads -> {"value_for", "add_or_update", "remove"}]
  /\ key \in [Threads -> TwoKeys]
  /\ value \in [Threads -> Answers]
  /\ found \in [Threads -> Nat]

\* Each bucket has the keys whose bucket it is, once.
BucketsOK ==
  \A b \in {1, 2} : /\ UniqueKeys(buckets[b])
                    /\ \A i \in 1 .. Len(buckets[b]) : hash[buckets[b][i][1]] = b

\* A call holds its lock while it finds and uses its entry; nobody reads a bucket
\* that is written.
LocksOK ==
  /\ \A t \in Threads : at[t] \in {"find", "use"} =>
       IF operation[t] = "value_for" THEN t \in readers[Bucket(t)]
                                     ELSE writer[Bucket(t)] = {t}
  /\ \A b \in {1, 2} : writer[b] = {} \/ readers[b] = {}

\* An iterator is still that of the key when it is used.
FoundOK ==
  \A t \in Threads : at[t] = "use" => found[t] = Place(buckets[Bucket(t)], key[t])

TableInv == TableTyped /\ BucketsOK /\ LocksOK /\ FoundOK

LEMMA InitTable == ContainersInit => TableInv
<1> SUFFICES ASSUME Table!Init PROVE TableInv
  BY DEF ContainersInit
<1>1. TableTyped
  <2>1. /\ \A h \in SharedOrNot : h \in [TwoKeys -> {1, 2}]
        /\ (CHOOSE k \in TwoKeys : TRUE) \in TwoKeys
        /\ <<>> \in Entries
    BY DEF SharedOrNot, TwoKeys, Entries
  <2>. QED
    BY <2>1 DEF Table!Init, TableTyped, Answers
<1>2. BucketsOK /\ LocksOK /\ FoundOK
  BY DEF Table!Init, BucketsOK, UniqueKeys, LocksOK, FoundOK
<1>. QED
  BY <1>1, <1>2 DEF TableInv

\* find_entry_for() and what value_for() returns.
LEMMA Lookups ==
  /\ \A t : Table!find_entry_for(t) = Place(buckets[Bucket(t)], key[t])
  /\ \A k : Table!ValueOf(k) = ValueIn(buckets[hash[k]], k)
  /\ \A t : Table!get_bucket(t) = Bucket(t)
  /\ Table!Mapping = [k \in TwoKeys |-> ValueIn(buckets[hash[k]], k)]
<1>1. /\ \A t : Table!get_bucket(t) = Bucket(t)
      /\ \A t : Table!find_entry_for(t) = Place(buckets[Bucket(t)], key[t])
  BY DEF Table!find_entry_for, Table!get_bucket, Place, Bucket
<1>2. \A k : Table!ValueOf(k) = ValueIn(buckets[hash[k]], k)
  BY DEF Table!ValueOf, Place, ValueIn
<1>3. Table!Mapping = [k \in TwoKeys |-> Table!ValueOf(k)]
  BY DEF Table!Mapping
<1>. QED
  BY <1>1, <1>2, <1>3

\* While one call writes, no other is in the bucket.
LEMMA WritersAreAlone ==
  ASSUME TableInv, NEW t \in Threads, NEW u \in Threads, u # t,
         at[t] \in {"find", "use"}, at[u] \in {"find", "use"},
         operation[t] # "value_for"
  PROVE  Bucket(u) # Bucket(t)
<1>1. SUFFICES ASSUME Bucket(u) = Bucket(t) PROVE FALSE
  OBVIOUS
<1>2. writer[Bucket(t)] = {t} /\ Bucket(t) \in {1, 2}
  BY DEF TableInv, LocksOK, TableTyped, Bucket
<1>3. readers[Bucket(t)] = {}
  BY <1>2 DEF TableInv, LocksOK
<1>. QED
  BY <1>1, <1>2, <1>3 DEF TableInv, LocksOK

\* What the writer of a bucket does to it, the map sees at its key.
LEMMA WriterUpdates ==
  ASSUME TableInv, NEW t \in Threads, NEW r, NEW v,
         Updates(buckets[Bucket(t)], r, key[t], v),
         buckets' = [buckets EXCEPT ![Bucket(t)] = r], hash' = hash
  PROVE  /\ buckets' \in [{1, 2} -> Entries] /\ BucketsOK'
         /\ Table!Mapping' = [Table!Mapping EXCEPT ![key[t]] = v]
<1> DEFINE b == Bucket(t)
           k == key[t]
<1>1. b \in {1, 2} /\ k \in TwoKeys /\ hash[k] = b /\ r \in Entries
      /\ hash \in [TwoKeys -> {1, 2}] /\ buckets \in [{1, 2} -> Entries]
  BY DEF TableInv, TableTyped, Bucket, Updates
<1>2. /\ buckets' \in [{1, 2} -> Entries] /\ buckets'[b] = r
      /\ \A c \in {1, 2} : c # b => buckets'[c] = buckets[c]
  BY <1>1
<1> HIDE DEF b, k
<1>3. BucketsOK'
  <2>1. UniqueKeys(r) /\ \A j \in 1 .. Len(r) : hash[r[j][1]] = b
    BY <1>1 DEF Updates, TableInv, BucketsOK, b, k
  <2>2. ASSUME NEW c \in {1, 2}
        PROVE  /\ UniqueKeys(buckets'[c])
               /\ \A i \in 1 .. Len(buckets'[c]) : hash[buckets'[c][i][1]] = c
    <3>1. CASE c = b
      BY <1>2, <2>1, <3>1
    <3>2. CASE c # b
      BY <1>2, <3>2 DEF TableInv, BucketsOK
    <3>. QED
      BY <3>1, <3>2
  <2>3. BucketsOK' <=> \A c \in {1, 2} :
               /\ UniqueKeys(buckets'[c])
               /\ \A i \in 1 .. Len(buckets'[c]) : hash[buckets'[c][i][1]] = c
    BY DEF BucketsOK, UniqueKeys
  <2>. QED
    BY <2>2, <2>3
<1>4. Table!Mapping' = [q \in TwoKeys |-> ValueIn(buckets'[hash[q]], q)]
  <2>1. \A q : Table!ValueOf(q)' = ValueIn(buckets'[hash[q]], q)
    BY DEF Table!ValueOf, ValueIn, Place, Table!SelectInSeq, Table!Min
  <2>2. Table!Mapping' = [q \in TwoKeys |-> Table!ValueOf(q)']
    BY DEF Table!Mapping
  <2>. QED
    BY <2>1, <2>2
<1>5. ASSUME NEW q \in TwoKeys
      PROVE  ValueIn(buckets'[hash[q]], q) = IF q = k THEN v ELSE ValueIn(buckets[hash[q]], q)
  <2>1. CASE hash[q] = b
    BY <1>1, <1>2, <2>1 DEF Updates, b, k
  <2>2. CASE hash[q] # b
    BY <1>1, <1>2, <2>2
  <2>. QED
    BY <2>1, <2>2
<1>6. Table!Mapping' = [Table!Mapping EXCEPT ![k] = v]
  BY <1>1, <1>4, <1>5, Lookups
<1>. QED
  BY <1>2, <1>3, <1>6 DEF k

\* The parts of the invariant after a step.
LEMMA TableNow ==
  /\ FoundOK' <=> \A u \in Threads : at'[u] = "use" =>
                    found'[u] = Place(buckets'[hash'[key'[u]]], key'[u])
  /\ LocksOK' <=>
       /\ \A u \in Threads : at'[u] \in {"find", "use"} =>
            IF operation'[u] = "value_for" THEN u \in readers'[hash'[key'[u]]]
                                           ELSE writer'[hash'[key'[u]]] = {u}
       /\ \A b \in {1, 2} : writer'[b] = {} \/ readers'[b] = {}
  /\ hash' = hash /\ buckets' = buckets => (BucketsOK => BucketsOK')
<1>1. FoundOK' <=> \A u \in Threads : at'[u] = "use" =>
                     found'[u] = Place(buckets'[hash'[key'[u]]], key'[u])
  BY DEF FoundOK, Bucket, Place, Table!SelectInSeq
<1>2. LocksOK' <=>
       /\ \A u \in Threads : at'[u] \in {"find", "use"} =>
            IF operation'[u] = "value_for" THEN u \in readers'[hash'[key'[u]]]
                                           ELSE writer'[hash'[key'[u]]] = {u}
       /\ \A b \in {1, 2} : writer'[b] = {} \/ readers'[b] = {}
  BY DEF LocksOK, Bucket
<1>3. hash' = hash /\ buckets' = buckets => (BucketsOK => BucketsOK')
  BY DEF BucketsOK, UniqueKeys
<1>. QED
  BY <1>1, <1>2, <1>3

\* A call begins and takes its lock.
LEMMA CallKeepsTable ==
  ASSUME TableInv, NEW t \in Threads, Table!Call(t)
  PROVE  TableInv'
<1>1. TableTyped'
  BY DEF TableInv, TableTyped, Table!Call, Table!Goto, Answers
<1>2. FoundOK' /\ LocksOK' /\ BucketsOK'
  BY TableNow DEF TableInv, TableTyped, BucketsOK, LocksOK, FoundOK, Bucket, Table!Call, Table!Goto
<1>. QED
  BY <1>1, <1>2 DEF TableInv

LEMMA LockKeepsTable ==
  ASSUME TableInv, NEW t \in Threads, Table!LockShared(t) \/ Table!Lock(t)
  PROVE  TableInv'
<1>1. TableTyped'
  BY DEF TableInv, TableTyped, Table!LockShared, Table!Lock, Table!Goto, Table!locals,
     Table!get_bucket
<1>2. /\ UNCHANGED <<hash, buckets, key, operation, found>>
      /\ at' = [at EXCEPT ![t] = "find"] /\ at[t] = "lock" /\ DOMAIN at = Threads
      /\ at \in [Threads -> {"idle", "lock", "find", "use", "return"}]
      /\ Bucket(t) \in {1, 2}
  BY DEF TableInv, TableTyped, Bucket, Table!LockShared, Table!Lock, Table!Goto, Table!locals
<1>3. FoundOK' /\ BucketsOK'
  BY <1>2, TableNow DEF TableInv, FoundOK, Bucket
<1>4. LocksOK'
  <2>1. CASE Table!LockShared(t)
    BY <1>2, <2>1, TableNow DEF TableInv, TableTyped, LocksOK, Bucket, Table!LockShared,
       Table!get_bucket
  <2>2. CASE Table!Lock(t)
    BY <1>2, <2>2, TableNow DEF TableInv, TableTyped, LocksOK, Bucket, Table!Lock,
       Table!get_bucket
  <2>. QED
    BY <2>1, <2>2
<1>. QED
  BY <1>1, <1>3, <1>4 DEF TableInv

LEMMA FindKeepsTable ==
  ASSUME TableInv, NEW t \in Threads, Table!Find(t)
  PROVE  TableInv'
<1>1. Bucket(t) \in {1, 2} /\ Place(buckets[Bucket(t)], key[t]) \in Nat
  <2>1. Bucket(t) \in {1, 2} /\ buckets[Bucket(t)] \in Entries
    BY DEF TableInv, TableTyped, Bucket
  <2>2. UniqueKeys(buckets[Bucket(t)])
    BY <2>1 DEF TableInv, BucketsOK
  <2>. QED
    BY <2>1, <2>2, PlaceCases DEF Entries
<1>2. found' = [found EXCEPT ![t] = Place(buckets[Bucket(t)], key[t])]
  BY Lookups DEF Table!Find
<1>3. TableTyped'
  BY <1>1, <1>2 DEF TableInv, TableTyped, Table!Find, Table!Goto
<1>4. FoundOK' /\ LocksOK' /\ BucketsOK'
  BY <1>2, TableNow DEF TableInv, TableTyped, LocksOK, FoundOK, Bucket, Table!Find, Table!Goto
<1>. QED
  BY <1>3, <1>4 DEF TableInv

LEMMA ReturnKeepsTable ==
  ASSUME TableInv, NEW t \in Threads, Table!Return(t)
  PROVE  TableInv'
<1>1. TableTyped'
  BY DEF TableInv, TableTyped, Table!Return, Table!Goto, Answers
<1>2. FoundOK' /\ LocksOK' /\ BucketsOK'
  BY TableNow DEF TableInv, TableTyped, LocksOK, FoundOK, Bucket, Table!Return, Table!Goto
<1>. QED
  BY <1>1, <1>2 DEF TableInv

\* The end of the critical section: others keep the locks that they hold.
LEMMA UnlockKeepsLocks ==
  ASSUME TableInv, NEW t \in Threads, Table!Unlock(t, "use"),
         UNCHANGED <<hash, operation, key>>
  PROVE  LocksOK'
<1>1. /\ Bucket(t) \in {1, 2} /\ hash' = hash /\ operation' = operation /\ key' = key
      /\ at' = [at EXCEPT ![t] = "return"]
      /\ readers' = [readers EXCEPT ![Bucket(t)] = @ \ {t}]
      /\ writer' = [writer EXCEPT ![Bucket(t)] = @ \ {t}]
  BY DEF TableInv, TableTyped, Bucket, Table!Unlock, Table!Goto, Table!get_bucket
<1>2. \A b \in {1, 2} : writer'[b] \subseteq writer[b] /\ readers'[b] \subseteq readers[b]
  BY <1>1 DEF TableInv, TableTyped
<1>3. \A b \in {1, 2} : writer'[b] = {} \/ readers'[b] = {}
  BY <1>2 DEF TableInv, LocksOK
<1>4. ASSUME NEW u \in Threads, at'[u] \in {"find", "use"}
      PROVE  IF operation'[u] = "value_for" THEN u \in readers'[hash'[key'[u]]]
                                            ELSE writer'[hash'[key'[u]]] = {u}
  <2>1. u # t /\ at[u] \in {"find", "use"} /\ Bucket(u) \in {1, 2}
    BY <1>1, <1>4 DEF TableInv, TableTyped, Bucket
  <2>. QED
    BY <1>1, <2>1 DEF TableInv, TableTyped, LocksOK, Bucket
<1>. QED
  BY <1>3, <1>4, TableNow

\* A call of value_for() returns what the map has.
LEMMA ReaderKeepsTable ==
  ASSUME TableInv, NEW t \in Threads, Table!ValueFor(t)
  PROVE  TableInv' /\ value' = [value EXCEPT ![t] = ValueIn(buckets[Bucket(t)], key[t])]
<1>1. Bucket(t) \in {1, 2} /\ buckets[Bucket(t)] \in Entries /\ UniqueKeys(buckets[Bucket(t)])
  BY DEF TableInv, TableTyped, BucketsOK, Bucket
<1>2. value' = [value EXCEPT ![t] = ValueIn(buckets[Bucket(t)], key[t])]
  BY Lookups DEF TableInv, FoundOK, ValueIn, Table!ValueFor, Table!Unlock, Table!Goto
<1>3. ValueIn(buckets[Bucket(t)], key[t]) \in Answers
  BY <1>1, PlaceCases DEF ValueIn, Entries, Answers
<1>4. TableTyped'
  BY <1>1, <1>2, <1>3 DEF TableInv, TableTyped, Table!ValueFor, Table!Unlock, Table!Goto,
     Table!get_bucket, Bucket
<1>5. LocksOK'
  BY UnlockKeepsLocks DEF Table!ValueFor
<1>6. FoundOK' /\ BucketsOK'
  BY TableNow DEF TableInv, TableTyped, FoundOK, Bucket, Table!ValueFor, Table!Unlock, Table!Goto
<1>. QED
  BY <1>2, <1>4, <1>5, <1>6 DEF TableInv

\* What a writer does to its bucket.
LEMMA WriterKeepsTable ==
  ASSUME TableInv, NEW t \in Threads,
         Table!AddOrUpdate(t) \/ Table!RemoveMapping(t)
  PROVE  /\ TableInv'
         /\ Table!Mapping' = [Table!Mapping EXCEPT
              ![key[t]] = IF operation[t] = "remove" THEN Null ELSE value[t]]
<1> DEFINE s == buckets[Bucket(t)]
           p == Place(s, key[t])
<1>1. /\ Bucket(t) \in {1, 2} /\ s \in Entries /\ UniqueKeys(s)
      /\ key[t] \in TwoKeys /\ value[t] \in Answers
  BY DEF TableInv, TableTyped, BucketsOK, Bucket
<1>2. /\ at[t] = "use" /\ found[t] = p /\ Table!Unlock(t, "use")
      /\ operation[t] # "value_for"
      /\ UNCHANGED <<hash, operation, key, value>>
  BY DEF TableInv, FoundOK, Table!AddOrUpdate, Table!RemoveMapping, Table!Unlock, Table!Goto
<1>3. PICK r, v : /\ Updates(s, r, key[t], v)
                  /\ buckets' = [buckets EXCEPT ![Bucket(t)] = r]
                  /\ v = IF operation[t] = "remove" THEN Null ELSE value[t]
  <2>1. CASE Table!AddOrUpdate(t) /\ p = 0
    <3>1. buckets' = [buckets EXCEPT ![Bucket(t)] = Append(s, <<key[t], value[t]>>)]
      BY <1>1, <1>2, <2>1, Lookups DEF TableInv, TableTyped, Table!AddOrUpdate
    <3>. QED
      BY <1>1, <2>1, <3>1, AppendUpdates DEF Table!AddOrUpdate
  <2>2. CASE Table!AddOrUpdate(t) /\ p # 0
    <3>1. p \in 1 .. Len(s) /\ s[p][1] = key[t]
      BY <1>1, <2>2, PlaceCases
    <3>2. buckets' = [buckets EXCEPT ![Bucket(t)] = [s EXCEPT ![p] = <<key[t], value[t]>>]]
      BY <1>1, <1>2, <2>2, Lookups DEF TableInv, TableTyped, Table!AddOrUpdate
    <3>. QED
      BY <1>1, <2>2, <3>1, <3>2, ReplaceUpdates DEF Table!AddOrUpdate
  <2>3. CASE Table!RemoveMapping(t) /\ p = 0
    <3>1. buckets' = [buckets EXCEPT ![Bucket(t)] = s]
      BY <1>1, <1>2, <2>3, Lookups DEF TableInv, TableTyped, Table!RemoveMapping
    <3>2. Updates(s, s, key[t], Null)
      BY <1>1, <2>3, PlaceCases, ValueOfNoEntry DEF Updates
    <3>. QED
      BY <2>3, <3>1, <3>2 DEF Table!RemoveMapping
  <2>4. CASE Table!RemoveMapping(t) /\ p # 0
    <3>1. p \in 1 .. Len(s) /\ s[p][1] = key[t]
      BY <1>1, <2>4, PlaceCases
    <3>2. buckets' = [buckets EXCEPT ![Bucket(t)] = Table!RemoveAt(s, p)]
      BY <1>1, <1>2, <2>4, Lookups DEF TableInv, TableTyped, Table!RemoveMapping
    <3>. QED
      BY <1>1, <2>4, <3>1, <3>2, RemoveUpdates DEF Table!RemoveMapping
  <2>. QED
    BY <2>1, <2>2, <2>3, <2>4
<1> HIDE DEF s, p
<1>4. /\ buckets' \in [{1, 2} -> Entries] /\ BucketsOK'
      /\ Table!Mapping' = [Table!Mapping EXCEPT ![key[t]] = v]
  BY <1>2, <1>3, WriterUpdates DEF s
<1>5. TableTyped'
  BY <1>1, <1>2, <1>4 DEF TableInv, TableTyped, Table!Unlock, Table!Goto,
     Table!get_bucket, Bucket
<1>6. LocksOK'
  BY <1>2, UnlockKeepsLocks
<1>7. ASSUME NEW u \in Threads, at'[u] = "use"
      PROVE  found'[u] = Place(buckets'[hash'[key'[u]]], key'[u])
  <2>1. u # t /\ at[u] = "use" /\ found'[u] = found[u]
    BY <1>2, <1>7 DEF TableInv, TableTyped, Table!Unlock, Table!Goto
  <2>2. Bucket(u) # Bucket(t) /\ Bucket(u) \in {1, 2}
    BY <1>2, <2>1, WritersAreAlone DEF TableInv, TableTyped, Bucket
  <2>3. buckets'[Bucket(u)] = buckets[Bucket(u)]
    BY <1>3, <2>2 DEF TableInv, TableTyped
  <2>. QED
    BY <1>2, <2>1, <2>3 DEF TableInv, FoundOK, Bucket
<1>8. FoundOK'
  BY <1>7, TableNow
<1>. QED
  BY <1>3, <1>4, <1>5, <1>6, <1>8 DEF TableInv

-----------------------------------------------------------------------------
(* The table is a map *)

\* The map and the calls seen from outside, after a step.
LEMMA MappingNow == hash' = hash /\ buckets' = buckets => Table!Mapping' = Table!Mapping
BY DEF Table!Mapping, Table!ValueOf, Table!SelectInSeq, Table!Min

Seen(a) == [t \in Threads |-> CASE a[t] = "idle" -> "idle"
                                [] a[t] = "return" -> "done"
                                [] OTHER -> "called"]

LEMMA PhasesNow == Table!Phases = Seen(at) /\ Table!Phases' = Seen(at')
BY DEF Table!Phases, Seen

LEMMA TableStep ==
  ASSUME TableInv, Table!Next
  PROVE  TableInv' /\ [Table!Abstract!Next]_(Table!Abstract!vars)
<1>1. PICK t \in Threads : Table!Call(t) \/ Table!Step(t)
  BY DEF Table!Next
<1>2. /\ at \in [Threads -> {"idle", "lock", "find", "use", "return"}]
      /\ value \in [Threads -> Answers] /\ key \in [Threads -> TwoKeys]
  BY DEF TableInv, TableTyped
<1>3. CASE Table!Call(t)
  <2>1. Table!Phases[t] = "idle" /\ Table!Phases' = [Table!Phases EXCEPT ![t] = "called"]
    BY <1>2, <1>3, PhasesNow DEF Seen, Table!Call, Table!Goto
  <2>2. Table!Abstract!Begin(t)
    BY <1>3, <2>1, MappingNow DEF Table!Call, Table!Abstract!Begin, Table!Abstract!Methods
  <2>. QED
    BY <1>3, <2>2, CallKeepsTable DEF Table!Abstract!Next
<1>4. CASE Table!LockShared(t) \/ Table!Lock(t) \/ Table!Find(t)
  <2>1. Table!Phases' = Table!Phases
    BY <1>2, <1>4, PhasesNow DEF Seen, Table!LockShared, Table!Lock, Table!Find, Table!Goto
  <2>2. UNCHANGED Table!Abstract!vars
    BY <1>4, <2>1, MappingNow DEF Table!LockShared, Table!Lock, Table!Find, Table!locals,
       Table!Abstract!vars
  <2>. QED
    BY <1>4, <2>2, LockKeepsTable, FindKeepsTable
<1>5. ASSUME Table!Unlock(t, "use")
      PROVE  Table!Phases[t] = "called" /\ Table!Phases' = [Table!Phases EXCEPT ![t] = "done"]
  BY <1>2, <1>5, PhasesNow DEF Seen, Table!Unlock, Table!Goto
<1>6. CASE Table!ValueFor(t)
  <2>1. value' = [value EXCEPT ![t] = Table!Mapping[key[t]]]
    BY <1>2, <1>6, ReaderKeepsTable, Lookups DEF Bucket
  <2>2. Table!Abstract!TakeEffect(t)
    BY <1>5, <1>6, <2>1, MappingNow DEF Table!ValueFor, Table!Abstract!TakeEffect
  <2>. QED
    BY <1>6, <2>2, ReaderKeepsTable DEF Table!Abstract!Next
<1>7. CASE Table!AddOrUpdate(t) \/ Table!RemoveMapping(t)
  <2>1. Table!Abstract!TakeEffect(t)
    BY <1>5, <1>7, WriterKeepsTable DEF Table!AddOrUpdate, Table!RemoveMapping,
       Table!Abstract!TakeEffect
  <2>. QED
    BY <1>7, <2>1, WriterKeepsTable DEF Table!Abstract!Next
<1>8. CASE Table!Return(t)
  <2>1. Table!Phases[t] = "done" /\ Table!Phases' = [Table!Phases EXCEPT ![t] = "idle"]
    BY <1>2, <1>8, PhasesNow DEF Seen, Table!Return, Table!Goto
  <2>2. Table!Abstract!End(t)
    BY <1>8, <2>1, MappingNow DEF Table!Return, Table!Abstract!End
  <2>. QED
    BY <1>8, <2>2, ReturnKeepsTable DEF Table!Abstract!Next
<1>. QED
  BY <1>1, <1>3, <1>4, <1>6, <1>7, <1>8 DEF Table!Step

LEMMA TableStutters ==
  ASSUME TableInv, UNCHANGED tableVars
  PROVE  TableInv' /\ UNCHANGED Table!Abstract!vars
<1>1. /\ UNCHANGED <<hash, buckets, readers, writer, at, operation, key, value, found>>
      /\ Table!Phases' = Table!Phases /\ Table!Mapping' = Table!Mapping
  BY PhasesNow, MappingNow DEF tableVars
<1>2. TableTyped' /\ BucketsOK' /\ LocksOK' /\ FoundOK'
  BY <1>1, TableNow DEF TableInv, TableTyped, LocksOK, FoundOK, Bucket
<1>. QED
  BY <1>1, <1>2 DEF TableInv, Table!Abstract!vars

LEMMA TableRefines == FairContainersSpec => Table!ImplementsMap
<1>1. ContainersInit => Table!Abstract!Init
  <2> SUFFICES ASSUME ContainersInit PROVE Table!Abstract!Init
    OBVIOUS
  <2>1. Table!Mapping = [k \in TwoKeys |-> Null]
    <3>1. ASSUME NEW k \in TwoKeys PROVE ValueIn(buckets[hash[k]], k) = Null
      <4>1. hash[k] \in {1, 2} /\ buckets[hash[k]] = <<>>
        BY InitTable DEF ContainersInit, Table!Init, TableInv, TableTyped
      <4>2. Place(<<>>, k) = 0
        BY NoPlace
      <4>. QED
        BY <4>1, <4>2 DEF ValueIn
    <3>. QED
      BY <3>1, Lookups
  <2>2. Table!Phases = [t \in Threads |-> "idle"]
    BY PhasesNow DEF Seen, ContainersInit, Table!Init
  <2>3. TableTyped
    BY InitTable DEF TableInv
  <2>. QED
    BY <2>1, <2>2, <2>3 DEF TableTyped, ContainersInit, Table!Init, Table!Abstract!Init,
       Table!Abstract!Methods
<1>2. TableInv /\ [ContainersNext]_all => TableInv' /\ [Table!Abstract!Next]_(Table!Abstract!vars)
  <2>1. ASSUME [ContainersNext]_all PROVE Table!Next \/ UNCHANGED tableVars
    BY <2>1 DEF ContainersNext, all, theOldest, QueueNext, ProgramNext, TableNext,
       OldNext, SimpleNext
  <2>. QED
    BY <2>1, TableStep, TableStutters
<1>. QED
  BY InitTable, <1>1, <1>2, PTL DEF FairContainersSpec, ContainersNext, all,
     Table!ImplementsMap, Table!Abstract!Spec

-----------------------------------------------------------------------------
\* Each call of threadsafe_queue, of threadsafe_queue_old and of
\* threadsafe_lookup_table takes effect at one instant between its beginning and
\* its end, on a queue without nodes and on a map without buckets.
THEOREM CallsTakeEffectAtOnce == FairContainersSpec => CallsAreAtomic
BY QueueRuns, CallsAreAtomicOnOneQueue, OldRefines, TableRefines, PTL DEF CallsAreAtomic

-----------------------------------------------------------------------------
(* Wakeups *)

\* The mutex excludes the other thread from the test that ends in a wait.
WaitIsExclusive ==
  /\ producer \in {"push", "notify"} <=> mutex = "producer"
  /\ consumer \in {"test", "pop"} <=> mutex = "consumer"
  /\ blocked => consumer = "wait"
  /\ TwoThreads!NoWakeupIsLost

LEMMA ProducerNotifies == FairContainersSpec => []TwoThreads!NoWakeupIsLost
<1>1. ContainersInit => WaitIsExclusive
  BY DEF ContainersInit, TwoThreads!Init, WaitIsExclusive, TwoThreads!NoWakeupIsLost
<1>2. ASSUME WaitIsExclusive, TwoThreads!Next PROVE WaitIsExclusive'
  <2>1. CASE TwoThreads!Producer
    BY <1>2, <2>1 DEF TwoThreads!Producer, TwoThreads!More, TwoThreads!LockToPush,
       TwoThreads!Push, TwoThreads!Notify, WaitIsExclusive, TwoThreads!NoWakeupIsLost
  <2>2. CASE TwoThreads!Consumer \/ TwoThreads!SpuriousWakeup
    BY <1>2, <2>2 DEF TwoThreads!Consumer, TwoThreads!SpuriousWakeup,
       TwoThreads!LockToPop, TwoThreads!Wait, TwoThreads!Wakeup, TwoThreads!Found,
       TwoThreads!Pop, TwoThreads!Process, TwoThreads!IsLast, TwoThreads!shared,
       WaitIsExclusive, TwoThreads!NoWakeupIsLost
  <2>. QED
    BY <1>2, <2>1, <2>2 DEF TwoThreads!Next
<1>3. WaitIsExclusive /\ UNCHANGED programVars => WaitIsExclusive'
  BY DEF WaitIsExclusive, programVars, TwoThreads!NoWakeupIsLost
<1>4. WaitIsExclusive /\ [ContainersNext]_all => WaitIsExclusive'
  <2>1. [ContainersNext]_all => TwoThreads!Next \/ UNCHANGED programVars
    BY DEF ContainersNext, all, QueueNext, ProgramNext, TableNext, OldNext, SimpleNext
  <2>. QED
    BY <1>2, <1>3, <2>1
<1>5. WaitIsExclusive => TwoThreads!NoWakeupIsLost
  BY DEF WaitIsExclusive
<1>. QED
  BY <1>1, <1>4, <1>5, PTL DEF FairContainersSpec, ContainersNext, all


\* A blocked thread of threadsafe_queue_old is in wait_and_pop().
WaitersPop ==
  /\ phase \in [{p1, c1, c2} -> {"idle", "called", "done"}]
  /\ call \in [{p1, c1, c2} -> {"push", "wait_and_pop", "try_pop"}]
  /\ items \in Seq({v1, Null}) /\ argument \in [{p1, c1, c2} -> {v1, Null}]
  /\ \A t \in blockedOld :
       t \in {p1, c1, c2} /\ phase[t] = "called" /\ call[t] = "wait_and_pop"
  /\ Old!NoWakeupIsLost

\* One thread more or less that is awake.
LEMMA AwakeCounts ==
  /\ IsFiniteSet(Old!Awake) /\ Cardinality(Old!Awake) \in Nat
  /\ IsFiniteSet(Old!Awake') /\ Cardinality(Old!Awake') \in Nat
  /\ Old!Awake \subseteq Old!Awake' => Cardinality(Old!Awake) <= Cardinality(Old!Awake')
  /\ \A t : t \notin Old!Awake /\ Old!Awake' = Old!Awake \cup {t} =>
       Cardinality(Old!Awake') = Cardinality(Old!Awake) + 1
  /\ \A t : Old!Awake' = Old!Awake \ {t} =>
       Cardinality(Old!Awake) - 1 <= Cardinality(Old!Awake')
<1> DEFINE all3 == (({} \cup {p1}) \cup {c1}) \cup {c2}
<1>1. IsFiniteSet(all3)
  BY FS_EmptySet, FS_AddElement
<1>2. Old!Awake \in SUBSET all3 /\ Old!Awake' \in SUBSET all3
  BY DEF Old!Awake
<1> HIDE DEF all3
<1>3. IsFiniteSet(Old!Awake) /\ IsFiniteSet(Old!Awake')
  BY <1>1, <1>2, FS_Subset
<1> DEFINE A == Old!Awake
           B == Old!Awake'
<1>4. IsFiniteSet(A) /\ IsFiniteSet(B)
  BY <1>3
<1> HIDE DEF A, B
<1>5. Cardinality(A) \in Nat /\ Cardinality(B) \in Nat
  BY <1>4, FS_CardinalityType
<1>6. A \subseteq B => Cardinality(A) <= Cardinality(B)
  BY <1>4, FS_Subset
<1>7. \A t : t \notin A /\ B = A \cup {t} => Cardinality(B) = Cardinality(A) + 1
  BY <1>4, FS_AddElement
<1>8. \A t : B = A \ {t} => Cardinality(A) - 1 <= Cardinality(B)
  BY <1>4, <1>5, FS_RemoveElement
<1>. QED
  BY <1>3, <1>5, <1>6, <1>7, <1>8 DEF A, B

LEMMA AwakeNow ==
  Old!Awake' = {t \in {p1, c1, c2} : phase'[t] = "called" /\ call'[t] # "push"
                                     /\ t \notin blockedOld' /\ call'[t] = "wait_and_pop"}
BY DEF Old!Awake, Old!Running

LEMMA WakeupsNow ==
  /\ Old!NoWakeupIsLost <=> (blockedOld # {} => Len(items) <= Cardinality(Old!Awake))
  /\ Old!NoWakeupIsLost' <=> (blockedOld' # {} => Len(items') <= Cardinality(Old!Awake'))
<1>1. \A S : Old!Cardinality(S) = Cardinality(S)
  BY DEF Old!Cardinality, Cardinality
<1>2. /\ Old!NoWakeupIsLost <=> (blockedOld # {} => Len(items) <= Old!Cardinality(Old!Awake))
      /\ Old!NoWakeupIsLost' <=> (blockedOld' # {} => Len(items') <= Old!Cardinality(Old!Awake'))
  BY DEF Old!NoWakeupIsLost, Old!Cardinality
<1>. QED
  BY <1>1, <1>2

\* Whoever takes a value was awake, and whoever adds one wakes a thread up.
LEMMA WaitersStep ==
  ASSUME WaitersPop, Old!Next
  PROVE  WaitersPop'
<1>1. PICK t \in {p1, c1, c2} :
        \/ Old!Call(t) \/ Old!Push(t) \/ Old!Pop(t) \/ Old!Wait(t)
        \/ Old!ReturnNothing(t) \/ Old!SpuriousWakeup(t) \/ Old!Return(t)
  BY DEF Old!Next
<1>2. Len(items) \in Nat
  BY DEF WaitersPop
<1>3. CASE Old!Call(t)
  <2>1. Old!Awake \subseteq Old!Awake' /\ items' = items /\ blockedOld' = blockedOld
    BY <1>3, AwakeNow DEF Old!Call, Old!Awake, Old!Running, WaitersPop
  <2>2. Old!NoWakeupIsLost'
    BY <1>2, <2>1, AwakeCounts, WakeupsNow DEF WaitersPop
  <2>. QED
    BY <1>3, <2>2 DEF Old!Call, Old!Methods, WaitersPop
<1>4. CASE Old!Push(t)
  <2>1. /\ items' \in Seq({v1, Null}) /\ Len(items') = Len(items) + 1
    BY <1>4 DEF Old!Push, Old!Enqueue, WaitersPop
  <2>2. CASE blockedOld = {}
    <3>1. Old!NoWakeupIsLost'
      BY <1>4, <2>2 DEF Old!Push, Old!NoWakeupIsLost
    <3>. QED
      BY <1>4, <2>1, <2>2, <3>1 DEF Old!Push, Old!Enqueue, Old!Finish, WaitersPop
  <2>3. CASE blockedOld # {}
    <3>1. PICK w \in blockedOld : blockedOld' = blockedOld \ {w}
      BY <1>4, <2>3 DEF Old!Push
    <3>2. w \notin Old!Awake /\ Old!Awake' = Old!Awake \cup {w}
      BY <1>4, <3>1, AwakeNow DEF Old!Push, Old!Enqueue, Old!Finish, Old!Awake, Old!Running,
         WaitersPop
    <3>3. /\ Cardinality(Old!Awake') = Cardinality(Old!Awake) + 1
          /\ Cardinality(Old!Awake) \in Nat
      BY <3>2, AwakeCounts
    <3>4. Len(items) <= Cardinality(Old!Awake)
      BY <2>3, WakeupsNow DEF WaitersPop
    <3>5. Old!NoWakeupIsLost'
      BY <1>2, <2>1, <3>3, <3>4, WakeupsNow
    <3>. QED
      BY <1>4, <2>1, <3>1, <3>5 DEF Old!Push, Old!Enqueue, Old!Finish, WaitersPop
  <2>. QED
    BY <2>2, <2>3
<1>5. CASE Old!Pop(t)
  <2>1. /\ items' \in Seq({v1, Null}) /\ Len(items') = Len(items) - 1
        /\ Head(items) \in {v1, Null}
    BY <1>5 DEF Old!Pop, WaitersPop
  <2>2. Old!Awake' = Old!Awake \ {t} /\ blockedOld' = blockedOld
    BY <1>5, AwakeNow DEF Old!Pop, Old!Running, Old!Finish, Old!Awake, WaitersPop
  <2>3. /\ Cardinality(Old!Awake) - 1 <= Cardinality(Old!Awake')
        /\ Cardinality(Old!Awake) \in Nat /\ Cardinality(Old!Awake') \in Nat
    BY <2>2, AwakeCounts
  <2>4. Old!NoWakeupIsLost'
    BY <1>2, <2>1, <2>2, <2>3, WakeupsNow DEF WaitersPop
  <2>. QED
    BY <1>5, <2>1, <2>2, <2>4 DEF Old!Pop, Old!Running, Old!Finish, WaitersPop
<1>6. CASE Old!Wait(t)
  <2>1. items' = <<>> /\ Len(items') = 0
    BY <1>6 DEF Old!Wait
  <2>2. Old!NoWakeupIsLost'
    BY <2>1, AwakeCounts, WakeupsNow
  <2>. QED
    BY <1>6, <2>2 DEF Old!Wait, Old!Running, WaitersPop
<1>7. CASE Old!ReturnNothing(t)
  <2>1. items' = <<>> /\ Len(items') = 0
    BY <1>7 DEF Old!ReturnNothing
  <2>2. Old!NoWakeupIsLost'
    BY <2>1, AwakeCounts, WakeupsNow
  <2>. QED
    BY <1>7, <2>2 DEF Old!ReturnNothing, Old!Running, Old!Finish, WaitersPop
<1>8. CASE Old!SpuriousWakeup(t)
  <2>1. Old!Awake \subseteq Old!Awake' /\ items' = items /\ blockedOld' \subseteq blockedOld
    BY <1>8, AwakeNow DEF Old!SpuriousWakeup, Old!Awake, Old!Running
  <2>2. Old!NoWakeupIsLost'
    BY <1>2, <2>1, AwakeCounts, WakeupsNow DEF WaitersPop
  <2>. QED
    BY <1>8, <2>2 DEF Old!SpuriousWakeup, WaitersPop
<1>9. CASE Old!Return(t)
  <2>1. Old!Awake \subseteq Old!Awake' /\ items' = items /\ blockedOld' = blockedOld
    BY <1>9, AwakeNow DEF Old!Return, Old!Awake, Old!Running, WaitersPop
  <2>2. Old!NoWakeupIsLost'
    BY <1>2, <2>1, AwakeCounts, WakeupsNow DEF WaitersPop
  <2>. QED
    BY <1>9, <2>2 DEF Old!Return, WaitersPop
<1>. QED
  BY <1>1, <1>3, <1>4, <1>5, <1>6, <1>7, <1>8, <1>9

LEMMA OldWakesUp == FairContainersSpec => []Old!NoWakeupIsLost
<1>1. ContainersInit => WaitersPop
  <2>1. Old!Init => WaitersPop
    BY WakeupsNow DEF Old!Init, WaitersPop
  <2>. QED
    BY <2>1 DEF ContainersInit
<1>2. WaitersPop /\ UNCHANGED oldVars => WaitersPop'
  BY DEF WaitersPop, oldVars, Old!NoWakeupIsLost, Old!Awake, Old!Running
<1>3. WaitersPop /\ [ContainersNext]_all => WaitersPop'
  <2>1. [ContainersNext]_all => Old!Next \/ UNCHANGED oldVars
    BY DEF ContainersNext, all, theOldest, QueueNext, ProgramNext, TableNext, OldNext,
       SimpleNext
  <2>. QED
    BY <1>2, <2>1, WaitersStep
<1>4. WaitersPop => Old!NoWakeupIsLost
  BY DEF WaitersPop
<1>. QED
  BY <1>1, <1>3, <1>4, PTL DEF FairContainersSpec, ContainersNext, all

\* With a push that notifies before it unlocks and a wait that tests under the
\* same mutex, no thread stays blocked beside a value that is for it.
THEOREM NobodySleepsThrough == FairContainersSpec => []WakeupsAreNotLost
BY ProducerNotifies, OldWakesUp, PTL DEF WakeupsAreNotLost

-----------------------------------------------------------------------------
(* The contents of the program with two threads *)

\* The queue holds the data between those that are processed, or about to be,
\* and those that the producer is about to push.
DataInv ==
  /\ g_i \in Nat /\ g_done \in Nat
  /\ data_queue \in Seq(Nat) /\ processed \in Seq(Nat)
  /\ Len(processed) = g_done /\ \A k \in 1 .. g_done : processed[k] = k
  /\ Len(data_queue) = ((g_i - (IF producer \in {"lock", "push"} THEN 1 ELSE 0)) - g_done)
                         - (IF consumer = "process" THEN 1 ELSE 0)
  /\ \A k \in 1 .. Len(data_queue) :
       data_queue[k] = (g_done + (IF consumer = "process" THEN 1 ELSE 0)) + k
  /\ consumer = "process" => datum = g_done + 1
  /\ consumer = "pop" => data_queue # <<>>
  /\ producer \in {"test", "lock", "push", "notify", "returned"}
  /\ IF consumer = "returned" THEN g_done = ToDo
     ELSE IF consumer = "last?" THEN g_done <= ToDo ELSE g_done < ToDo

LEMMA ProducerKeepsData ==
  ASSUME DataInv, TwoThreads!Producer
  PROVE  DataInv'
<1>1. CASE TwoThreads!More
  BY <1>1 DEF TwoThreads!More, DataInv
<1>2. CASE TwoThreads!LockToPush \/ TwoThreads!Notify
  BY <1>2 DEF TwoThreads!LockToPush, TwoThreads!Notify, DataInv
<1>3. CASE TwoThreads!Push
  <2>1. /\ data_queue' = Append(data_queue, g_i) /\ producer = "push" /\ producer' = "notify"
        /\ UNCHANGED <<g_i, g_done, consumer, datum, processed>>
    BY <1>3 DEF TwoThreads!Push
  <2>2. /\ data_queue' \in Seq(Nat) /\ Len(data_queue') = Len(data_queue) + 1
        /\ \A k \in 1 .. Len(data_queue) : data_queue'[k] = data_queue[k]
        /\ data_queue'[Len(data_queue) + 1] = g_i
        /\ data_queue' # <<>> /\ Len(data_queue) \in Nat
    <3>1. data_queue \in Seq(Nat) /\ g_i \in Nat
      BY DEF DataInv
    <3>. QED
      BY <2>1, <3>1
  <2>3. g_i = (g_done + (IF consumer = "process" THEN 1 ELSE 0)) + (Len(data_queue) + 1)
    BY <2>1, <2>2 DEF DataInv
  <2>4. \A k \in 1 .. Len(data_queue') :
          data_queue'[k] = (g_done + (IF consumer = "process" THEN 1 ELSE 0)) + k
    <3>1. ASSUME NEW k \in 1 .. Len(data_queue), TRUE
          PROVE  data_queue'[k] = (g_done + (IF consumer = "process" THEN 1 ELSE 0)) + k
      BY <2>2 DEF DataInv
    <3>. QED
      BY <2>2, <2>3, <3>1
  <2>. QED
    BY <2>1, <2>2, <2>4 DEF DataInv
<1>. QED
  BY <1>1, <1>2, <1>3 DEF TwoThreads!Producer

LEMMA ConsumerKeepsData ==
  ASSUME DataInv, TwoThreads!Consumer \/ TwoThreads!SpuriousWakeup
  PROVE  DataInv'
<1>1. CASE TwoThreads!LockToPop \/ TwoThreads!Wait \/ TwoThreads!Wakeup \/ TwoThreads!Found
           \/ TwoThreads!SpuriousWakeup
  BY <1>1 DEF TwoThreads!LockToPop, TwoThreads!Wait, TwoThreads!Wakeup, TwoThreads!Found,
     TwoThreads!SpuriousWakeup, TwoThreads!shared, DataInv
<1>2. CASE TwoThreads!IsLast
  BY <1>2, ContainersAssumption DEF TwoThreads!IsLast, TwoThreads!shared, DataInv
<1>3. CASE TwoThreads!Pop
  <2>1. /\ consumer = "pop" /\ consumer' = "process" /\ data_queue # <<>>
        /\ datum' = Head(data_queue) /\ data_queue' = Tail(data_queue)
        /\ UNCHANGED <<g_i, g_done, producer, processed>>
    BY <1>3 DEF TwoThreads!Pop
  <2>2. /\ data_queue' \in Seq(Nat) /\ Len(data_queue') = Len(data_queue) - 1
        /\ \A k \in 1 .. Len(data_queue) - 1 : data_queue'[k] = data_queue[k + 1]
        /\ Head(data_queue) = data_queue[1]
        /\ Len(data_queue) \in Nat \ {0}
    BY <2>1 DEF DataInv
  <2>3. \A k \in 1 .. Len(data_queue) : data_queue[k] = g_done + k
    BY <2>1 DEF DataInv
  <2>4. datum' = g_done + 1
    BY <2>1, <2>2, <2>3
  <2>5. \A k \in 1 .. Len(data_queue') : data_queue'[k] = (g_done + 1) + k
    BY <2>2, <2>3 DEF DataInv
  <2>. QED
    BY <2>1, <2>2, <2>4, <2>5 DEF DataInv
<1>4. CASE TwoThreads!Process
  <2>1. /\ consumer = "process" /\ consumer' = "last?"
        /\ g_done' = g_done + 1 /\ processed' = Append(processed, datum)
        /\ UNCHANGED <<g_i, data_queue, producer>>
    BY <1>4 DEF TwoThreads!Process
  <2>2. /\ processed' \in Seq(Nat) /\ Len(processed') = g_done + 1
        /\ \A k \in 1 .. g_done : processed'[k] = processed[k]
        /\ processed'[g_done + 1] = g_done + 1
    BY <2>1 DEF DataInv
  <2>3. \A k \in 1 .. g_done + 1 : processed'[k] = k
    BY <2>2 DEF DataInv
  <2>4. g_done + 1 <= ToDo
    BY <2>1, ContainersAssumption DEF DataInv
  <2>. QED
    BY <2>1, <2>2, <2>3, <2>4 DEF DataInv
<1>. QED
  BY <1>1, <1>2, <1>3, <1>4 DEF TwoThreads!Consumer

LEMMA DataInOrder == FairContainersSpec => []TwoThreads!DataAreHandledInOrder
<1>1. ContainersInit => DataInv
  <2>1. ASSUME TwoThreads!Init PROVE DataInv
    <3>1. /\ data_queue \in Seq(Nat) /\ Len(data_queue) = 0
          /\ processed \in Seq(Nat) /\ Len(processed) = 0
      BY <2>1 DEF TwoThreads!Init
    <3>2. /\ g_i = 0 /\ g_done = 0 /\ g_done < ToDo
          /\ producer = "test" /\ consumer = "lock"
      BY <2>1, ContainersAssumption DEF TwoThreads!Init
    <3>3. /\ 1 .. Len(data_queue) = {} /\ 1 .. g_done = {} /\ Len(processed) = g_done
          /\ Len(data_queue) = ((g_i - 0) - g_done) - 0
      BY <3>1, <3>2
    <3>4. /\ \A k \in 1 .. g_done : processed[k] = k
          /\ \A k \in 1 .. Len(data_queue) :
               data_queue[k] = (g_done + (IF consumer = "process" THEN 1 ELSE 0)) + k
      BY <3>3
    <3>5. Len(data_queue) = ((g_i - (IF producer \in {"lock", "push"} THEN 1 ELSE 0)) - g_done)
                              - (IF consumer = "process" THEN 1 ELSE 0)
      BY <3>2, <3>3
    <3>6. /\ g_i \in Nat /\ g_done \in Nat /\ Len(processed) = g_done
          /\ IF consumer = "returned" THEN g_done = ToDo
             ELSE IF consumer = "last?" THEN g_done <= ToDo ELSE g_done < ToDo
      BY <3>2, <3>3
    <3>. QED
      BY <3>1, <3>2, <3>4, <3>5, <3>6 DEF DataInv
  <2>. QED
    BY <2>1 DEF ContainersInit
<1>2. DataInv /\ UNCHANGED programVars => DataInv'
  BY DEF DataInv, programVars
<1>3. DataInv /\ [ContainersNext]_all => DataInv'
  <2>1. [ContainersNext]_all => TwoThreads!Next \/ UNCHANGED programVars
    BY DEF ContainersNext, all, QueueNext, ProgramNext, TableNext, OldNext, SimpleNext
  <2>. QED
    BY <1>2, <2>1, ProducerKeepsData, ConsumerKeepsData DEF TwoThreads!Next
<1>4. DataInv => TwoThreads!DataAreHandledInOrder
  <2> SUFFICES ASSUME DataInv PROVE TwoThreads!DataAreHandledInOrder
    OBVIOUS
  <2>1. processed = [k \in 1 .. Len(processed) |-> k]
    BY DEF DataInv
  <2>2. g_done <= ToDo
    BY ContainersAssumption DEF DataInv
  <2>. QED
    BY <2>1, <2>2 DEF DataInv, TwoThreads!DataAreHandledInOrder
<1>. QED
  BY <1>1, <1>3, <1>4, PTL DEF FairContainersSpec, ContainersNext, all

-----------------------------------------------------------------------------
(* What the old queue tells *)

\* Nobody has an answer before a call ends, and what is queued is not null.
ToldInv ==
  /\ phase \in [{p1, c1, c2} -> {"idle", "called", "done"}]
  /\ items \in Seq({v1}) /\ argument \in [{p1, c1, c2} -> {v1, Null}]
  /\ told \in [{p1, c1, c2} -> BOOLEAN]
  /\ call \in [{p1, c1, c2} -> {"push", "wait_and_pop", "try_pop"}]
  /\ \A t \in {p1, c1, c2} :
       /\ phase[t] = "called" /\ call[t] = "push" => argument[t] = v1
       /\ phase[t] = "idle" => ~told[t]
  /\ Old!TruthIsNotOverstated

LEMMA ToldStep ==
  ASSUME ToldInv, Old!Next
  PROVE  ToldInv'
<1>1. PICK t \in {p1, c1, c2} :
        \/ Old!Call(t) \/ Old!Push(t) \/ Old!Pop(t) \/ Old!Wait(t)
        \/ Old!ReturnNothing(t) \/ Old!SpuriousWakeup(t) \/ Old!Return(t)
  BY DEF Old!Next
<1> USE DEF ToldInv, Old!TruthIsNotOverstated
<1>2. CASE Old!Call(t)
  <2>1. PICK m \in {"push", "wait_and_pop", "try_pop"}, v \in {v1, Null} :
          /\ m = "push" => v = v1
          /\ phase[t] = "idle" /\ phase' = [phase EXCEPT ![t] = "called"]
          /\ call' = [call EXCEPT ![t] = m] /\ argument' = [argument EXCEPT ![t] = v]
          /\ items' = items /\ told' = told
    BY <1>2 DEF Old!Call, Old!Methods
  <2>. QED
    BY <2>1
<1>3. CASE Old!Push(t)
  <2>1. /\ items' = Append(items, argument[t]) /\ argument[t] = v1
        /\ phase' = [phase EXCEPT ![t] = "done"]
        /\ argument' = argument /\ told' = told /\ call' = call
    BY <1>3 DEF Old!Push, Old!Enqueue, Old!Finish
  <2>. QED
    BY <2>1
<1>4. CASE Old!Pop(t)
  <2>1. PICK b \in BOOLEAN :
          /\ items # <<>> /\ items' = Tail(items)
          /\ argument' = [argument EXCEPT ![t] = Head(items)]
          /\ told' = [told EXCEPT ![t] = call[t] = "try_pop" /\ overload[t] /\ b]
          /\ phase' = [phase EXCEPT ![t] = "done"] /\ call' = call
    BY <1>4 DEF Old!Pop, Old!Finish
  <2>2. Head(items) = v1 /\ items' \in Seq({v1})
    BY <2>1
  <2>3. told' \in [{p1, c1, c2} -> BOOLEAN]
    <3>1. (call[t] = "try_pop" /\ overload[t] /\ b) \in BOOLEAN
      OBVIOUS
    <3>. QED
      BY <2>1, <3>1
  <2>. QED
    BY <2>1, <2>2, <2>3, ContainersAssumption
<1>5. CASE Old!Return(t)
  BY <1>5 DEF Old!Return
<1>6. CASE Old!Wait(t) \/ Old!SpuriousWakeup(t)
  BY <1>6 DEF Old!Wait, Old!SpuriousWakeup
<1>7. CASE Old!ReturnNothing(t)
  BY <1>7 DEF Old!ReturnNothing, Old!Finish
<1>. QED
  BY <1>1, <1>2, <1>3, <1>4, <1>5, <1>6, <1>7

LEMMA OldTellsTheTruth == FairContainersSpec => []Old!TruthIsNotOverstated
<1>1. ContainersInit => ToldInv
  <2>1. Old!Init => ToldInv
    BY DEF Old!Init, ToldInv, Old!TruthIsNotOverstated
  <2>. QED
    BY <2>1 DEF ContainersInit
<1>2. ToldInv /\ UNCHANGED oldVars => ToldInv'
  BY DEF ToldInv, oldVars, Old!TruthIsNotOverstated
<1>3. ToldInv /\ [ContainersNext]_all => ToldInv'
  <2>1. [ContainersNext]_all => Old!Next \/ UNCHANGED oldVars
    BY DEF ContainersNext, all, theOldest, QueueNext, ProgramNext, TableNext, OldNext,
       SimpleNext
  <2>. QED
    BY <1>2, <2>1, ToldStep
<1>4. ToldInv => Old!TruthIsNotOverstated
  BY DEF ToldInv
<1>. QED
  BY <1>1, <1>3, <1>4, PTL DEF FairContainersSpec, ContainersNext, all

-----------------------------------------------------------------------------
(* The entries of the table *)

LEMMA TableUnique == FairContainersSpec => []Table!EntriesAreUnique
<1>1. TableInv => Table!EntriesAreUnique
  <2> SUFFICES ASSUME TableInv PROVE Table!EntriesAreUnique
    OBVIOUS
  <2>1. \A b \in {1, 2} : DOMAIN buckets[b] = 1 .. Len(buckets[b])
    BY DEF TableInv, TableTyped, Entries
  <2>2. \A b \in {1, 2} : \A i, j \in DOMAIN buckets[b] :
          /\ hash[buckets[b][i][1]] = b
          /\ buckets[b][i][1] = buckets[b][j][1] => i = j
    BY <2>1 DEF TableInv, BucketsOK, UniqueKeys
  <2>3. \A t \in Threads : at[t] = "use" => found[t] = Table!find_entry_for(t)
    BY Lookups DEF TableInv, FoundOK
  <2>. QED
    BY <2>2, <2>3 DEF Table!EntriesAreUnique
<1>2. TableInv /\ [ContainersNext]_all => TableInv'
  <2>1. [ContainersNext]_all => Table!Next \/ UNCHANGED tableVars
    BY DEF ContainersNext, all, theOldest, QueueNext, ProgramNext, TableNext, OldNext,
       SimpleNext
  <2>. QED
    BY <2>1, TableStep, TableStutters
<1>. QED
  BY InitTable, <1>1, <1>2, PTL DEF FairContainersSpec, ContainersNext, all
-----------------------------------------------------------------------------
(* The single-threaded queues *)

\* The nodes of the list, in its order: each is linked to the next, and the ends
\* are _head and _tail.
Linked(c) ==
  /\ c \in Seq(Nodes)
  /\ \A i, j \in 1 .. Len(c) : c[i] = c[j] => i = j
  /\ allocated = {c[i] : i \in 1 .. Len(c)}
  /\ \A i \in 1 .. Len(c) - 1 : nextOf[c[i]] = c[i + 1]
  /\ c # <<>> => first = c[1] /\ last = c[Len(c)] /\ nextOf[c[Len(c)]] = Null

\* They hold the values that are inside, in their order; a dummy follows.
Holds(c) ==
  /\ Len(c) = IF dummy THEN Len(pushed) + 1 ELSE Len(pushed)
  /\ \A i \in 1 .. Len(pushed) : dataOf[c[i]] = pushed[i]

SimpleTyped ==
  /\ dummy \in BOOLEAN
  /\ nextOf \in [Nodes -> Nodes \cup {Null}] /\ dataOf \in [Nodes -> Values \cup {Null}]
  /\ pushed \in Seq(Values)

\* While nothing undefined was done.  A queue without a dummy that is empty has a
\* _tail that is null, or is not to be used.
ListOK ==
  /\ \E c \in Seq(Nodes) : Linked(c) /\ Holds(c)
  /\ ~dummy /\ pushed = <<>> => first = Null /\ (last = Null \/ emptied \/ last = Garbage)

SimpleInv ==
  /\ SimpleTyped
  /\ ~undefined => ListOK
  /\ Simple!QueuesAreFifo /\ Simple!DummyKeepsTailValid

LEMMA SimpleInit == Simple!Init => SimpleInv
<1> SUFFICES ASSUME Simple!Init PROVE SimpleInv
  OBVIOUS
<1>1. SimpleTyped /\ pushed = <<>> /\ Len(pushed) = 0
  BY DEF Simple!Init, SimpleTyped
<1>2. ListOK
  <2>1. CASE dummy
    <3>1. PICK n \in Nodes : allocated = {n} /\ first = n /\ last = n
      BY <2>1 DEF Simple!Init, Simple!Constructor
    <3>2. /\ <<n>> \in Seq(Nodes) /\ Len(<<n>>) = 1 /\ <<n>>[1] = n /\ nextOf[n] = Null
          /\ \A i \in 1 .. 1 : i = 1
      BY DEF Simple!Init
    <3>3. Linked(<<n>>)
      BY <3>1, <3>2 DEF Linked
    <3>4. Holds(<<n>>)
      BY <1>1, <2>1, <3>2 DEF Holds
    <3>. QED
      BY <2>1, <3>2, <3>3, <3>4 DEF ListOK
  <2>2. CASE ~dummy
    <3>1. allocated = {} /\ first = Null /\ last \in {Null, Garbage}
      BY <2>2 DEF Simple!Init, Simple!Constructor
    <3>2. <<>> \in Seq(Nodes) /\ Len(<<>>) = 0
      OBVIOUS
    <3>3. Linked(<<>>) /\ Holds(<<>>)
      BY <1>1, <2>2, <3>1, <3>2 DEF Linked, Holds
    <3>. QED
      BY <3>1, <3>2, <3>3 DEF ListOK
  <2>. QED
    BY <2>1, <2>2
<1>. QED
  BY <1>1, <1>2 DEF Simple!Init, SimpleInv, Simple!QueuesAreFifo, Simple!DummyKeepsTailValid

\* A node at the end of the list, whether or not there is one before it.
LEMMA LinkedAppend ==
  ASSUME NEW c \in Seq(Nodes), Linked(c), nextOf \in [Nodes -> Nodes \cup {Null}],
         NEW n \in Nodes, n \notin allocated,
         allocated' = allocated \cup {n}, last' = n,
         first' = IF c = <<>> THEN n ELSE first,
         nextOf' \in [Nodes -> Nodes \cup {Null}], nextOf'[n] = Null,
         c # <<>> => nextOf'[last] = n,
         \A m \in Nodes : m # n /\ (c # <<>> => m # last) => nextOf'[m] = nextOf[m]
  PROVE  Linked(Append(c, n))'
<1> DEFINE d == Append(c, n)
<1>1. /\ d \in Seq(Nodes) /\ Len(d) = Len(c) + 1 /\ Len(c) \in Nat
      /\ \A i \in 1 .. Len(c) : d[i] = c[i] /\ c[i] \in Nodes
      /\ d[Len(c) + 1] = n /\ d # <<>>
      /\ (c = <<>> <=> Len(c) = 0)
  <2>1. /\ d \in Seq(Nodes) /\ Len(d) = Len(c) + 1 /\ Len(c) \in Nat
        /\ d[Len(c) + 1] = n /\ (c = <<>> <=> Len(c) = 0)
    OBVIOUS
  <2>2. \A i \in 1 .. Len(c) : d[i] = c[i] /\ c[i] \in Nodes
    BY ChainAppend
  <2>. HIDE DEF d
  <2>3. d # <<>>
    BY <2>1
  <2>. QED
    BY <2>1, <2>2, <2>3
<1>. HIDE DEF d
<1>2. \A i \in 1 .. Len(c) : c[i] # n
  BY DEF Linked
<1>3. \A i \in 1 .. Len(d) : i = Len(c) + 1 \/ i \in 1 .. Len(c)
  BY <1>1
<1>4. \A i, j \in 1 .. Len(d) : d[i] = d[j] => i = j
  BY <1>1, <1>2, <1>3 DEF Linked
<1>5. allocated' = {d[i] : i \in 1 .. Len(d)}
  <2>1. \A m \in allocated' : \E i \in 1 .. Len(d) : m = d[i]
    <3> SUFFICES ASSUME NEW m \in allocated' PROVE \E i \in 1 .. Len(d) : m = d[i]
      OBVIOUS
    <3>1. CASE m = n
      <4>1. Len(c) + 1 \in 1 .. Len(d)
        BY <1>1
      <4>. QED
        BY <1>1, <3>1, <4>1
    <3>2. CASE m \in allocated
      <4>1. PICK i \in 1 .. Len(c) : m = c[i]
        BY <3>2 DEF Linked
      <4>2. i \in 1 .. Len(d)
        BY <1>1
      <4>. QED
        BY <1>1, <4>1, <4>2
    <3>. QED
      BY <3>1, <3>2
  <2>2. \A i \in 1 .. Len(d) : d[i] \in allocated'
    BY <1>1, <1>3 DEF Linked
  <2>. QED
    BY <2>1, <2>2
<1>6. \A i \in 1 .. Len(d) - 1 : nextOf'[d[i]] = d[i + 1]
  <2> SUFFICES ASSUME NEW i \in 1 .. Len(c) PROVE nextOf'[d[i]] = d[i + 1]
    BY <1>1
  <2>1. d[i] = c[i] /\ c[i] \in Nodes /\ c[i] # n /\ c # <<>> /\ last = c[Len(c)]
    BY <1>1, <1>2 DEF Linked
  <2>2. CASE i = Len(c)
    BY <1>1, <2>1, <2>2
  <2>3. CASE i # Len(c)
    <3>1. i \in 1 .. Len(c) - 1 /\ i + 1 \in 1 .. Len(c) /\ Len(c) \in 1 .. Len(c)
      BY <1>1, <2>3
    <3>2. c[i] # last
      BY <2>1, <2>3, <3>1 DEF Linked
    <3>. QED
      BY <1>1, <2>1, <3>1, <3>2 DEF Linked
  <2>. QED
    BY <2>2, <2>3
<1>7. first' = d[1]
  <2>1. CASE c = <<>>
    BY <1>1, <2>1
  <2>2. CASE c # <<>>
    <3>1. 1 \in 1 .. Len(c)
      BY <1>1, <2>2
    <3>. QED
      BY <1>1, <2>2, <3>1 DEF Linked
  <2>. QED
    BY <2>1, <2>2
<1>8. Linked(d)'
  BY <1>1, <1>4, <1>5, <1>6, <1>7 DEF Linked
<1>. QED
  BY <1>8 DEF d

\* The first node of the list goes.
LEMMA LinkedTail ==
  ASSUME NEW c \in Seq(Nodes), Linked(c), c # <<>>,
         allocated' = allocated \ {first}, first' = nextOf[first],
         last' = last, nextOf' = nextOf
  PROVE  /\ Linked(Tail(c))'
         /\ Tail(c) = <<>> => first' = Null
<1> DEFINE d == Tail(c)
<1>1. /\ d \in Seq(Nodes) /\ Len(d) = Len(c) - 1 /\ Len(c) \in Nat \ {0}
      /\ \A i \in 1 .. Len(c) - 1 : d[i] = c[i + 1]
      /\ (d = <<>> <=> Len(d) = 0)
  <2>1. /\ d \in Seq(Nodes) /\ Len(d) = Len(c) - 1 /\ Len(c) \in Nat \ {0}
        /\ \A i \in 1 .. Len(c) - 1 : d[i] = c[i + 1]
    OBVIOUS
  <2>. HIDE DEF d
  <2>2. d = <<>> <=> Len(d) = 0
    BY <2>1
  <2>. QED
    BY <2>1, <2>2
<1>. HIDE DEF d
<1>2. /\ first = c[1] /\ last = c[Len(c)] /\ nextOf[c[Len(c)]] = Null
      /\ \A i, j \in 1 .. Len(c) : c[i] = c[j] => i = j
      /\ \A i \in 1 .. Len(c) - 1 : nextOf[c[i]] = c[i + 1]
  BY DEF Linked
<1>3. \A i \in 1 .. Len(d) : i + 1 \in 1 .. Len(c) /\ d[i] = c[i + 1] /\ i + 1 # 1
  BY <1>1
<1>4. \A i \in 1 .. Len(c) : i = 1 \/ (i - 1 \in 1 .. Len(d) /\ d[i - 1] = c[i])
  BY <1>1
<1>5. \A i, j \in 1 .. Len(d) : d[i] = d[j] => i = j
  <2> SUFFICES ASSUME NEW i \in 1 .. Len(d), NEW j \in 1 .. Len(d), d[i] = d[j] PROVE i = j
    OBVIOUS
  <2>1. i + 1 = j + 1
    BY <1>2, <1>3
  <2>. QED
    BY <2>1
<1>6. allocated' = {d[i] : i \in 1 .. Len(d)}
  <2>0. 1 \in 1 .. Len(c)
    BY <1>1
  <2>1. \A m \in allocated' : \E i \in 1 .. Len(d) : m = d[i]
    BY <1>2, <1>4 DEF Linked
  <2>2. \A i \in 1 .. Len(d) : d[i] \in allocated'
    BY <1>2, <1>3, <2>0 DEF Linked
  <2>. QED
    BY <2>1, <2>2
<1>7. \A i \in 1 .. Len(d) - 1 : nextOf'[d[i]] = d[i + 1]
  <2> SUFFICES ASSUME NEW i \in 1 .. Len(d) - 1 PROVE nextOf[d[i]] = d[i + 1]
    OBVIOUS
  <2>1. i \in 1 .. Len(d) /\ i + 1 \in 1 .. Len(d) /\ i + 1 \in 1 .. Len(c) - 1
    BY <1>1
  <2>. QED
    BY <1>2, <1>3, <2>1
<1>8. d # <<>> => first' = d[1] /\ last' = d[Len(d)] /\ nextOf'[d[Len(d)]] = Null
  <2> SUFFICES ASSUME d # <<>> PROVE first' = d[1] /\ last' = d[Len(d)] /\ nextOf'[d[Len(d)]] = Null
    OBVIOUS
  <2>1. 1 \in 1 .. Len(d) /\ Len(d) \in 1 .. Len(d) /\ 1 \in 1 .. Len(c) - 1 /\ Len(d) + 1 = Len(c)
    BY <1>1
  <2>. QED
    BY <1>2, <1>3, <2>1
<1>9. d = <<>> => first' = Null
  <2>1. d = <<>> => Len(c) = 1
    BY <1>1
  <2>. QED
    BY <1>2, <2>1
<1>10. Linked(d)'
  BY <1>1, <1>5, <1>6, <1>7, <1>8 DEF Linked
<1>. QED
  BY <1>9, <1>10 DEF d

\* A fresh node has none of the values.
LEMMA HoldsAppend ==
  ASSUME NEW c \in Seq(Nodes), Linked(c), Holds(c), NEW n \in Nodes, n \notin allocated,
         NEW v, pushed \in Seq(Values), pushed' = Append(pushed, v), dummy' = dummy,
         \A i \in 1 .. Len(pushed) : dataOf'[c[i]] = dataOf[c[i]],
         dataOf'[IF dummy THEN c[Len(c)] ELSE n] = v
  PROVE  Holds(Append(c, n))'
<1> DEFINE d == Append(c, n)
<1>1. /\ Len(d) = Len(c) + 1 /\ \A i \in 1 .. Len(c) : d[i] = c[i]
      /\ d[Len(c) + 1] = n /\ Len(c) \in Nat
  BY ChainAppend
<1>2. /\ Len(pushed') = Len(pushed) + 1 /\ \A i \in 1 .. Len(pushed) : pushed'[i] = pushed[i]
      /\ pushed'[Len(pushed) + 1] = v /\ Len(pushed) \in Nat
  OBVIOUS
<1>. HIDE DEF d
<1>3. Len(c) = IF dummy THEN Len(pushed) + 1 ELSE Len(pushed)
  BY DEF Holds
<1>4. Len(d) = IF dummy THEN Len(pushed') + 1 ELSE Len(pushed')
  BY <1>1, <1>2, <1>3
<1>5. \A i \in 1 .. Len(pushed') : dataOf'[d[i]] = pushed'[i]
  <2>1. \A i \in 1 .. Len(pushed) : dataOf'[d[i]] = pushed'[i]
    <3> SUFFICES ASSUME NEW i \in 1 .. Len(pushed) PROVE dataOf'[d[i]] = pushed'[i]
      OBVIOUS
    <3>1. i \in 1 .. Len(c)
      BY <1>2, <1>3
    <3>. QED
      BY <1>1, <1>2, <3>1 DEF Holds
  <2>2. dataOf'[d[Len(pushed) + 1]] = v
    <3>1. CASE dummy
      <4>1. Len(c) = Len(pushed) + 1 /\ Len(c) \in 1 .. Len(c)
        BY <1>2, <1>3, <3>1
      <4>. QED
        BY <1>1, <3>1, <4>1
    <3>2. CASE ~dummy
      BY <1>1, <1>3, <3>2
    <3>. QED
      BY <3>1, <3>2
  <2>. QED
    BY <1>2, <2>1, <2>2
<1>6. Holds(d)'
  BY <1>4, <1>5 DEF Holds
<1>. QED
  BY <1>6 DEF d

\* simple_queue: the list grows, unless _tail is the address of no node.
LEMMA PushKeeps ==
  ASSUME SimpleInv, NEW v \in Values, Simple!Push(v)
  PROVE  SimpleInv'
<1>1. /\ ~dummy /\ ~undefined /\ dummy' = dummy /\ emptied' = emptied
      /\ pushed' = Append(pushed, v) /\ result' = result /\ due' = due
  BY DEF Simple!Push, Simple!Pushed
<1>2. PICK c \in Seq(Nodes) : Linked(c) /\ Holds(c)
  BY <1>1 DEF SimpleInv, ListOK
<1>3. /\ pushed' \in Seq(Values) /\ pushed' # <<>>
      /\ Len(c) = Len(pushed) /\ (c = <<>> <=> pushed = <<>>)
      /\ pushed \in Seq(Values)
  BY <1>1, <1>2 DEF SimpleInv, SimpleTyped, Holds
<1>4. CASE last \in allocated \cup {Null}
  <2>1. Simple!Linked(v) /\ undefined' = undefined
    BY <1>4 DEF Simple!Push
  <2>2. PICK n \in Nodes \ allocated :
          /\ allocated' = allocated \cup {n} /\ dataOf' = [dataOf EXCEPT ![n] = v]
          /\ nextOf' = IF last = Null THEN [nextOf EXCEPT ![n] = Null]
                       ELSE [nextOf EXCEPT ![n] = Null, ![last] = n]
          /\ first' = IF last = Null THEN n ELSE first
          /\ last' = n
    BY <2>1 DEF Simple!Linked
  <2>3. (c = <<>> <=> last = Null) /\ (c # <<>> => last \in Nodes /\ last # n)
    <3>1. CASE c = <<>>
      <4>1. allocated = {}
        BY <1>2, <3>1 DEF Linked
      <4>. QED
        BY <1>4, <3>1, <4>1
    <3>2. CASE c # <<>>
      <4>1. Len(c) \in 1 .. Len(c) /\ c[Len(c)] \in Nodes
        BY <3>2
      <4>2. last \in Nodes /\ last \in allocated
        BY <1>2, <3>2, <4>1 DEF Linked
      <4>. QED
        BY <2>2, <3>2, <4>2, QueueAssumption
    <3>. QED
      BY <3>1, <3>2
  <2>4. /\ nextOf \in [Nodes -> Nodes \cup {Null}]
        /\ dataOf \in [Nodes -> Values \cup {Null}]
    BY DEF SimpleInv, SimpleTyped
  <2>5. /\ nextOf' \in [Nodes -> Nodes \cup {Null}] /\ nextOf'[n] = Null
        /\ c # <<>> => nextOf'[last] = n
        /\ \A m \in Nodes : m # n /\ (c # <<>> => m # last) => nextOf'[m] = nextOf[m]
    <3>1. CASE c = <<>>
      BY <2>2, <2>3, <2>4, <3>1
    <3>2. CASE c # <<>>
      <4>1. /\ nextOf' = [nextOf EXCEPT ![n] = Null, ![last] = n]
            /\ last \in Nodes /\ last # n
        BY <2>2, <2>3, <3>2
      <4>. QED
        BY <2>2, <2>4, <3>2, <4>1
    <3>. QED
      BY <3>1, <3>2
  <2>6. /\ dataOf' \in [Nodes -> Values \cup {Null}] /\ dataOf'[n] = v
        /\ \A m \in Nodes : m # n => dataOf'[m] = dataOf[m]
    BY <2>2, <2>4
  <2>7. Linked(Append(c, n))'
    BY <1>2, <2>2, <2>3, <2>4, <2>5, LinkedAppend
  <2>8. Holds(Append(c, n))'
    <3>1. \A i \in 1 .. Len(pushed) : c[i] \in Nodes /\ c[i] # n
      BY <1>2, <1>3, <2>2 DEF Linked
    <3>2. \A i \in 1 .. Len(pushed) : dataOf'[c[i]] = dataOf[c[i]]
      BY <2>6, <3>1
    <3>. QED
      BY <1>1, <1>2, <1>3, <2>2, <2>6, <3>2, HoldsAppend
  <2>9. Append(c, n) \in Seq(Nodes)
    BY <2>2
  <2>10. ListOK'
    BY <1>3, <2>7, <2>8, <2>9 DEF ListOK
  <2>. QED
    BY <1>1, <1>3, <2>1, <2>5, <2>6, <2>10
    DEF SimpleInv, SimpleTyped, Simple!QueuesAreFifo, Simple!DummyKeepsTailValid
<1>5. CASE last \notin allocated \cup {Null}
  <2>1. /\ undefined' = TRUE /\ last' = last /\ nextOf' = nextOf /\ dataOf' = dataOf
    BY <1>5 DEF Simple!Push
  <2>2. c = <<>>
    <3> SUFFICES ASSUME c # <<>> PROVE FALSE
      OBVIOUS
    <3>1. Len(c) \in 1 .. Len(c)
      OBVIOUS
    <3>. QED
      BY <1>2, <1>5, <3>1 DEF Linked
  <2>3. emptied \/ last = Garbage
    BY <1>1, <1>3, <1>5, <2>2 DEF SimpleInv, ListOK
  <2>. QED
    BY <1>1, <1>3, <2>1, <2>3
    DEF SimpleInv, SimpleTyped, Simple!QueuesAreFifo, Simple!DummyKeepsTailValid
<1>. QED
  BY <1>4, <1>5

\* simple_queue_dummy: the dummy takes the value, and another one follows it.
LEMMA PushDummyKeeps ==
  ASSUME SimpleInv, NEW v \in Values, Simple!PushDummy(v)
  PROVE  SimpleInv'
<1>1. /\ dummy /\ dummy' = dummy /\ emptied' = emptied /\ ~undefined
      /\ undefined' = undefined /\ first' = first
      /\ pushed' = Append(pushed, v) /\ result' = result /\ due' = due
  BY DEF Simple!PushDummy, Simple!Pushed, SimpleInv, Simple!DummyKeepsTailValid
<1>2. PICK c \in Seq(Nodes) : Linked(c) /\ Holds(c)
  BY <1>1 DEF SimpleInv, ListOK
<1>3. /\ pushed' \in Seq(Values) /\ pushed \in Seq(Values) /\ pushed' # <<>>
      /\ Len(c) = Len(pushed) + 1 /\ c # <<>> /\ Len(pushed) \in Nat
  BY <1>1, <1>2 DEF SimpleInv, SimpleTyped, Holds
<1>4. PICK n \in Nodes \ allocated :
        /\ allocated' = allocated \cup {n}
        /\ dataOf' = [dataOf EXCEPT ![last] = v, ![n] = Null]
        /\ nextOf' = [nextOf EXCEPT ![last] = n, ![n] = Null]
        /\ last' = n
  BY DEF Simple!PushDummy
<1>5. last = c[Len(c)] /\ last \in Nodes /\ last # n /\ Len(c) \in 1 .. Len(c)
  <2>1. Len(c) \in 1 .. Len(c)
    BY <1>3
  <2>. QED
    BY <1>2, <1>3, <1>4, <2>1 DEF Linked
<1>6. /\ nextOf \in [Nodes -> Nodes \cup {Null}]
      /\ dataOf \in [Nodes -> Values \cup {Null}]
  BY DEF SimpleInv, SimpleTyped
<1>7. /\ nextOf' \in [Nodes -> Nodes \cup {Null}] /\ nextOf'[n] = Null /\ nextOf'[last] = n
      /\ \A m \in Nodes : m # n /\ m # last => nextOf'[m] = nextOf[m]
  BY <1>4, <1>5, <1>6
<1>8. /\ dataOf' \in [Nodes -> Values \cup {Null}] /\ dataOf'[last] = v
      /\ \A m \in Nodes : m # n /\ m # last => dataOf'[m] = dataOf[m]
  BY <1>4, <1>5, <1>6
<1>9. Linked(Append(c, n))'
  BY <1>1, <1>2, <1>3, <1>4, <1>6, <1>7, LinkedAppend
<1>10. Holds(Append(c, n))'
  <2>1. ASSUME NEW i \in 1 .. Len(pushed) PROVE c[i] \in Nodes /\ c[i] # n /\ c[i] # last
    <3>1. i \in 1 .. Len(c) /\ i # Len(c)
      BY <1>3
    <3>. QED
      BY <1>2, <1>4, <1>5, <3>1 DEF Linked
  <2>2. \A i \in 1 .. Len(pushed) : dataOf'[c[i]] = dataOf[c[i]]
    BY <1>8, <2>1
  <2>. QED
    BY <1>1, <1>2, <1>3, <1>4, <1>5, <1>8, <2>2, HoldsAppend
<1>11. Append(c, n) \in Seq(Nodes)
  BY <1>4
<1>12. ListOK'
  BY <1>1, <1>9, <1>10, <1>11 DEF ListOK
<1>. QED
  BY <1>1, <1>3, <1>7, <1>8, <1>12
  DEF SimpleInv, SimpleTyped, Simple!QueuesAreFifo, Simple!DummyKeepsTailValid

\* try_pop() of both: what the first node holds is what went in first.
LEMMA TryPopKeeps ==
  ASSUME SimpleInv, Simple!TryPop
  PROVE  SimpleInv'
<1>1. /\ ~undefined /\ UNCHANGED <<dummy, last, nextOf, dataOf, undefined>>
      /\ due' = IF pushed = <<>> THEN Null ELSE Head(pushed)
      /\ pushed' = IF pushed = <<>> THEN <<>> ELSE Tail(pushed)
      /\ emptied' = (emptied \/ Len(pushed) = 1)
  BY DEF Simple!TryPop
<1>2. PICK c \in Seq(Nodes) : Linked(c) /\ Holds(c)
  BY <1>1 DEF SimpleInv, ListOK
<1>3. /\ pushed \in Seq(Values) /\ Len(pushed) \in Nat
      /\ Len(c) = IF dummy THEN Len(pushed) + 1 ELSE Len(pushed)
      /\ (pushed = <<>> <=> Len(pushed) = 0) /\ dummy \in BOOLEAN
  BY <1>2 DEF SimpleInv, SimpleTyped, Holds
<1>4. Simple!Empty <=> pushed = <<>>
  <2>1. CASE dummy
    <3>1. c # <<>> /\ Len(c) = Len(pushed) + 1
      BY <1>3, <2>1
    <3>2. first = c[1] /\ last = c[Len(c)] /\ 1 \in 1 .. Len(c) /\ Len(c) \in 1 .. Len(c)
      BY <1>2, <1>3, <3>1 DEF Linked
    <3>3. first = last <=> Len(c) = 1
      BY <1>2, <3>2 DEF Linked
    <3>. QED
      BY <1>3, <2>1, <3>1, <3>3 DEF Simple!Empty
  <2>2. CASE ~dummy
    <3>1. CASE pushed = <<>>
      BY <1>1, <2>2, <3>1 DEF SimpleInv, ListOK, Simple!Empty
    <3>2. CASE pushed # <<>>
      <4>1. c # <<>> /\ 1 \in 1 .. Len(c)
        BY <1>3, <2>2, <3>2
      <4>2. first \in Nodes
        BY <1>2, <4>1 DEF Linked
      <4>. QED
        BY <2>2, <3>2, <4>2, QueueAssumption DEF Simple!Empty
    <3>. QED
      BY <3>1, <3>2
  <2>. QED
    BY <2>1, <2>2
<1>5. CASE pushed = <<>>
  <2>1. result' = Null /\ first' = first /\ allocated' = allocated /\ pushed' = <<>>
        /\ due' = Null
    BY <1>1, <1>4, <1>5 DEF Simple!TryPop
  <2>2. emptied => emptied'
    BY <1>1
  <2>3. Linked(c)' /\ Holds(c)'
    BY <1>1, <1>2, <1>5, <2>1 DEF Linked, Holds
  <2>4. ListOK'
    BY <1>1, <1>5, <2>1, <2>2, <2>3 DEF ListOK, SimpleInv
  <2>. QED
    BY <1>1, <1>3, <1>5, <2>1, <2>4
    DEF SimpleInv, SimpleTyped, Simple!QueuesAreFifo, Simple!DummyKeepsTailValid
<1>6. CASE pushed # <<>>
  <2>1. /\ result' = dataOf[first] /\ first' = nextOf[first]
        /\ allocated' = allocated \ {first} /\ pushed' = Tail(pushed) /\ due' = Head(pushed)
    BY <1>1, <1>4, <1>6 DEF Simple!TryPop
  <2>2. c # <<>> /\ first = c[1] /\ 1 \in 1 .. Len(pushed)
    BY <1>2, <1>3, <1>6 DEF Linked
  <2>3. Head(pushed) = pushed[1]
    BY <1>3, <1>6
  <2>4. result' = due'
    BY <1>2, <2>1, <2>2, <2>3 DEF Holds
  <2>5. Linked(Tail(c))' /\ (Tail(c) = <<>> => first' = Null)
    BY <1>1, <1>2, <2>1, <2>2, LinkedTail
  <2>6. /\ pushed' \in Seq(Values) /\ Len(pushed') = Len(pushed) - 1
        /\ \A i \in 1 .. Len(pushed) - 1 : pushed'[i] = pushed[i + 1]
        /\ Tail(c) \in Seq(Nodes) /\ Len(Tail(c)) = Len(c) - 1
        /\ \A i \in 1 .. Len(c) - 1 : Tail(c)[i] = c[i + 1]
    <3>1. /\ pushed' \in Seq(Values) /\ Len(pushed') = Len(pushed) - 1
          /\ \A i \in 1 .. Len(pushed) - 1 : pushed'[i] = pushed[i + 1]
      BY <1>3, <1>6, <2>1
    <3>2. /\ Tail(c) \in Seq(Nodes) /\ Len(Tail(c)) = Len(c) - 1
          /\ \A i \in 1 .. Len(c) - 1 : Tail(c)[i] = c[i + 1]
      BY <2>2
    <3>. QED
      BY <3>1, <3>2
  <2>7. Holds(Tail(c))'
    <3>1. Len(Tail(c)) = IF dummy' THEN Len(pushed') + 1 ELSE Len(pushed')
      BY <1>1, <1>3, <2>6
    <3>2. ASSUME NEW i \in 1 .. Len(pushed') PROVE dataOf'[Tail(c)[i]] = pushed'[i]
      <4>1. i \in 1 .. Len(pushed) - 1 /\ i + 1 \in 1 .. Len(pushed) /\ i \in 1 .. Len(c) - 1
        BY <1>3, <2>6
      <4>. QED
        BY <1>1, <1>2, <2>6, <4>1 DEF Holds
    <3>. QED
      BY <3>1, <3>2 DEF Holds
  <2>8. ~dummy /\ pushed' = <<>> => emptied' /\ first' = Null
    <3> SUFFICES ASSUME ~dummy, pushed' = <<>> PROVE emptied' /\ first' = Null
      OBVIOUS
    <3>1. Len(pushed) = 1 /\ Len(Tail(c)) = 0
      BY <1>3, <2>6
    <3>2. \A s \in Seq(Nodes) : Len(s) = 0 => s = <<>>
      OBVIOUS
    <3>3. Tail(c) = <<>>
      BY <2>6, <3>1, <3>2
    <3>. QED
      BY <1>1, <2>5, <3>1, <3>3
  <2>9. ListOK'
    BY <1>1, <2>5, <2>6, <2>7, <2>8 DEF ListOK
  <2>. QED
    BY <1>1, <2>4, <2>6, <2>9
    DEF SimpleInv, SimpleTyped, Simple!QueuesAreFifo, Simple!DummyKeepsTailValid
<1>. QED
  BY <1>5, <1>6

LEMMA SimpleQueuesHold ==
  FairContainersSpec => [](Simple!QueuesAreFifo /\ Simple!DummyKeepsTailValid)
<1>1. ContainersInit => SimpleInv
  BY SimpleInit DEF ContainersInit
<1>2. SimpleInv /\ UNCHANGED simpleVars => SimpleInv'
  <2> SUFFICES ASSUME SimpleInv, UNCHANGED simpleVars PROVE SimpleInv'
    OBVIOUS
  <2>1. \A c \in Seq(Nodes) : Linked(c) /\ Holds(c) => Linked(c)' /\ Holds(c)'
    BY DEF simpleVars, Linked, Holds
  <2>2. ListOK => ListOK'
    BY <2>1 DEF simpleVars, ListOK
  <2>3. /\ dummy' = dummy /\ pushed' = pushed /\ nextOf' = nextOf /\ dataOf' = dataOf
        /\ undefined' = undefined /\ result' = result /\ due' = due
        /\ emptied' = emptied /\ last' = last
    BY DEF simpleVars
  <2>. QED
    BY <2>2, <2>3
    DEF SimpleInv, SimpleTyped, Simple!QueuesAreFifo, Simple!DummyKeepsTailValid
<1>3. SimpleInv /\ [ContainersNext]_all => SimpleInv'
  <2>1. [ContainersNext]_all => Simple!Next \/ UNCHANGED simpleVars
    BY DEF ContainersNext, all, theOldest, QueueNext, ProgramNext, TableNext, OldNext,
       SimpleNext
  <2>. QED
    BY <1>2, <2>1, PushKeeps, PushDummyKeeps, TryPopKeeps DEF Simple!Next
<1>4. SimpleInv => Simple!QueuesAreFifo /\ Simple!DummyKeepsTailValid
  BY DEF SimpleInv
<1>. QED
  BY <1>1, <1>3, <1>4, PTL DEF FairContainersSpec, ContainersNext, all

-----------------------------------------------------------------------------
\* Data are handled in order, each once; a key has one entry; a try_pop() never
\* says that it has a value when it has none; the single-threaded queues are
\* FIFO while all is defined, and always with a dummy.
THEOREM ContentsAreKept == FairContainersSpec => []ContentsAreRight
BY DataInOrder, TableUnique, OldTellsTheTruth, SimpleQueuesHold, PTL DEF ContentsAreRight
==============================================================================
