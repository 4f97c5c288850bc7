--------------------------- MODULE LockFreeStackHp ---------------------------
(***************************************************************************)
(* class lock_free_stack_with_hp of 7.lock_free/lock_free_stack_with_hp:   *)
(* a pop() announces the node it is about to read in the hazard pointer of *)
(* its thread, and a popped node is deleted when no hazard pointer names   *)
(* it.  Each access of an atomic is a step, a scan of the hazard pointers  *)
(* is one step for each; the two exchanges that add to and take the list   *)
(* of nodes to reclaim are one step each.  A thread looks for a slot at    *)
(* its first pop(), one exchange after the other; if none is free pop()    *)
(* throws and has changed nothing.  It gives the slot back when it ends.   *)
(***************************************************************************)
EXTENDS Naturals, Sequences, FiniteSets

CONSTANTS Threads, Values,
          Nodes,    \* the heap; push() is called only when it is not full
          NumSlots, \* max_hazard_pointers
          Null      \* nullptr, and the null shared_ptr

Slots == 1 .. NumSlots

VARIABLES head,       \* _head
          next, data, \* the fields of each node
          heap,       \* the allocated nodes
          hazard,     \* the pointer of each hazard_pointers[i]
          owner,      \* its id, Null for that of no thread
          slot,       \* the _hp of each thread, 0 if it has none
          reclaim,    \* nodes_to_reclaim, the last node added first
          pc,         \* the next step of each thread
          node,       \* its new_node or old_head
          seen,       \* the old_head->next it read
          batch,      \* the nodes it has yet to delete or keep
          scan,       \* the slot it looks at
          res,        \* its result
          stack       \* auxiliary: the nodes on the stack, top first

list == <<head, next, data, heap, stack>>
hazards == <<hazard, owner, slot, reclaim>>
locals == <<node, seen, batch, scan, res>>
vars == <<list, hazards, pc, locals>>

Init == /\ head = Null /\ stack = <<>> /\ heap = {} /\ reclaim = <<>>
        /\ next = [n \in Nodes |-> Null]
        /\ data = [n \in Nodes |-> Null]
        /\ hazard = [s \in Slots |-> Null]
        /\ owner = [s \in Slots |-> Null]
        /\ slot = [t \in Threads |-> 0]
        /\ pc = [t \in Threads |-> "idle"]
        /\ node = [t \in Threads |-> Null]
        /\ seen = [t \in Threads |-> Null]
        /\ batch = [t \in Threads |-> <<>>]
        /\ scan = [t \in Threads |-> 1]
        /\ res = [t \in Threads |-> Null]

Goto(t, from, to) == pc[t] = from /\ pc' = [pc EXCEPT ![t] = to]

-----------------------------------------------------------------------------
(* push(data) *)

PushCall(t) ==
  /\ Goto(t, "idle", "push")
  /\ \E n \in Nodes \ heap, v \in Values :
       /\ node' = [node EXCEPT ![t] = n]
       /\ heap' = heap \cup {n}
       /\ data' = [data EXCEPT ![n] = v]
       /\ next' = [next EXCEPT ![n] = head]
  /\ UNCHANGED <<head, stack, hazards, seen, batch, scan, res>>

PushFails(t) == \* the exchange fails and loads _head into new_node->next
  /\ Goto(t, "push", "push")
  /\ next' = [next EXCEPT ![node[t]] = head]
  /\ UNCHANGED <<head, data, heap, stack, hazards, locals>>

Push(t) ==
  /\ Goto(t, "push", "return")
  /\ head = next[node[t]]
  /\ head' = node[t]
  /\ stack' = <<node[t]>> \o stack
  /\ node' = [node EXCEPT ![t] = Null]
  /\ UNCHANGED <<next, data, heap, hazards, seen, batch, scan, res>>

-----------------------------------------------------------------------------
(* hp_owner: the slot of a thread                                          *)

FirstPop(t) ==
  /\ Goto(t, "idle", "claim")
  /\ slot[t] = 0
  /\ UNCHANGED <<list, hazards, locals>>

TakeAnySlot(t) == \* mutant: the id is stored, not exchanged for none
  /\ Goto(t, "claim", "load")
  /\ scan[t] \in Slots
  /\ owner' = [owner EXCEPT ![scan[t]] = t]
  /\ slot' = [slot EXCEPT ![t] = scan[t]]
  /\ scan' = [scan EXCEPT ![t] = 1]
  /\ UNCHANGED <<list, hazard, reclaim, node, seen, batch, res>>

TakeSlot(t) ==
  /\ Goto(t, "claim", "load")
  /\ scan[t] \in Slots /\ owner[scan[t]] = Null
  /\ owner' = [owner EXCEPT ![scan[t]] = t]
  /\ slot' = [slot EXCEPT ![t] = scan[t]]
  /\ scan' = [scan EXCEPT ![t] = 1]
  /\ UNCHANGED <<list, hazard, reclaim, node, seen, batch, res>>

NextSlot(t) == \* the exchange finds another thread
  /\ Goto(t, "claim", "claim")
  /\ scan[t] \in Slots /\ owner[scan[t]] # Null
  /\ scan' = [scan EXCEPT ![t] = @ + 1]
  /\ UNCHANGED <<list, hazards, node, seen, batch, res>>

NoSlot(t) == \* pop() throws
  /\ Goto(t, "claim", "idle")
  /\ scan[t] \notin Slots
  /\ scan' = [scan EXCEPT ![t] = 1]
  /\ UNCHANGED <<list, hazards, node, seen, batch, res>>

ThreadEnds(t) == \* ~hp_owner()
  /\ Goto(t, "idle", "end")
  /\ slot[t] # 0
  /\ hazard' = [hazard EXCEPT ![slot[t]] = Null]
  /\ UNCHANGED <<list, owner, slot, reclaim, locals>>

GiveBack(t) == \* another thread takes the place of t
  /\ Goto(t, "end", "idle")
  /\ owner' = [owner EXCEPT ![slot[t]] = Null]
  /\ slot' = [slot EXCEPT ![t] = 0]
  /\ UNCHANGED <<list, hazard, reclaim, locals>>

-----------------------------------------------------------------------------
(* pop() up to the exchange *)

PopCall(t) ==
  /\ Goto(t, "idle", "load")
  /\ slot[t] # 0
  /\ UNCHANGED <<list, hazards, locals>>

LoadHead(t) ==
  /\ Goto(t, "load", "protect")
  /\ node' = [node EXCEPT ![t] = head]
  /\ UNCHANGED <<list, hazards, seen, batch, scan, res>>

Protect(t) ==
  /\ Goto(t, "protect", "check")
  /\ hazard' = [hazard EXCEPT ![slot[t]] = node[t]]
  /\ UNCHANGED <<list, owner, slot, reclaim, locals>>

CheckNothing(t) == \* mutant: _head is not read again after the store
  /\ pc[t] = "check"
  /\ pc' = [pc EXCEPT ![t] = IF node[t] = Null THEN "clear" ELSE "next"]
  /\ UNCHANGED <<list, hazards, locals>>

Check(t) == \* still the head, so the node cannot be deleted any more
  /\ pc[t] = "check"
  /\ node' = [node EXCEPT ![t] = head]
  /\ pc' = [pc EXCEPT ![t] = IF head # node[t] THEN "protect"
                             ELSE IF head = Null THEN "clear" ELSE "next"]
  /\ UNCHANGED <<list, hazards, seen, batch, scan, res>>

ReadNext(t) ==
  /\ Goto(t, "next", "pop")
  /\ seen' = [seen EXCEPT ![t] = next[node[t]]]
  /\ UNCHANGED <<list, hazards, node, batch, scan, res>>

PopFails(t) ==
  /\ Goto(t, "pop", "protect")
  /\ head # node[t]
  /\ node' = [node EXCEPT ![t] = head]
  /\ seen' = [seen EXCEPT ![t] = Null]
  /\ UNCHANGED <<list, hazards, batch, scan, res>>

PopAnyway(t) == \* mutant: a plain store to _head
  /\ Goto(t, "pop", "clear")
  /\ head' = seen[t]
  /\ seen' = [seen EXCEPT ![t] = Null]
  /\ stack' = Tail(stack)
  /\ UNCHANGED <<next, data, heap, hazards, node, batch, scan, res>>

Pop(t) ==
  /\ Goto(t, "pop", "clear")
  /\ head = node[t]
  /\ head' = seen[t]
  /\ seen' = [seen EXCEPT ![t] = Null]
  /\ stack' = Tail(stack)
  /\ UNCHANGED <<next, data, heap, hazards, node, batch, scan, res>>

-----------------------------------------------------------------------------
(* pop() after the exchange: the result, and the node                      *)

Clear(t) == \* hp.store(nullptr), and res.swap(old_head->data)
  /\ pc[t] = "clear"
  /\ hazard' = [hazard EXCEPT ![slot[t]] = Null]
  /\ IF node[t] = Null
     THEN pc' = [pc EXCEPT ![t] = "return"] /\ UNCHANGED <<data, res, batch>>
     ELSE /\ pc' = [pc EXCEPT ![t] = "scan"]
          /\ res' = [res EXCEPT ![t] = data[node[t]]]
          /\ data' = [data EXCEPT ![node[t]] = Null]
          /\ batch' = [batch EXCEPT ![t] = <<node[t]>>]
  /\ UNCHANGED <<head, next, heap, stack, owner, slot, reclaim, node, seen, scan>>

\* What follows the first node of the batch: another one, the nodes that
\* other calls could not delete, or the end.
Done(t) ==
  /\ batch' = [batch EXCEPT ![t] = Tail(@)]
  /\ scan' = [scan EXCEPT ![t] = 1]
  /\ pc' = [pc EXCEPT ![t] = IF batch'[t] # <<>> THEN "scan"
                             ELSE IF node[t] # Null THEN "sweep" ELSE "return"]

\* outstanding_hazard_pointers_for(), one slot at a time
Look(t) ==
  /\ pc[t] = "scan" /\ scan[t] \in Slots
  /\ IF hazard[scan[t]] = Head(batch[t])
     THEN pc' = [pc EXCEPT ![t] = "keep"] /\ UNCHANGED scan
     ELSE scan' = [scan EXCEPT ![t] = @ + 1] /\ UNCHANGED pc
  /\ UNCHANGED <<list, hazards, node, seen, batch, res>>

Delete(t) ==
  /\ pc[t] = "scan" /\ scan[t] \notin Slots
  /\ heap' = heap \ {Head(batch[t])}
  /\ next' = [next EXCEPT ![Head(batch[t])] = Null]
  /\ Done(t)
  /\ UNCHANGED <<head, data, stack, hazards, node, seen, res>>

Forget(t) == \* mutant: a node another thread reads is not kept
  /\ pc[t] = "keep"
  /\ Done(t)
  /\ UNCHANGED <<list, hazards, node, seen, res>>

Keep(t) == \* reclaim_later(), or the node goes back to nodes_to_reclaim
  /\ pc[t] = "keep"
  /\ reclaim' = <<Head(batch[t])>> \o reclaim
  /\ Done(t)
  /\ UNCHANGED <<list, hazard, owner, slot, node, seen, res>>

Sweep(t) == \* delete_nodes_with_no_hazards() takes all nodes to reclaim
  /\ pc[t] = "sweep"
  /\ batch' = [batch EXCEPT ![t] = reclaim]
  /\ reclaim' = <<>>
  /\ node' = [node EXCEPT ![t] = Null]
  /\ pc' = [pc EXCEPT ![t] = IF reclaim = <<>> THEN "return" ELSE "scan"]
  /\ UNCHANGED <<list, hazard, owner, slot, seen, scan, res>>

Return(t) ==
  /\ Goto(t, "return", "idle")
  /\ res' = [res EXCEPT ![t] = Null]
  /\ UNCHANGED <<list, hazards, node, seen, batch, scan>>

-----------------------------------------------------------------------------
\* A step of t in which no exchange fails for no reason.
StrongStep(t) ==
  \/ PushCall(t) \/ Push(t) \/ FirstPop(t) \/ TakeSlot(t) \/ NextSlot(t) \/ NoSlot(t)
  \/ GiveBack(t) \/ PopCall(t) \/ LoadHead(t) \/ Protect(t) \/ Check(t) \/ ReadNext(t)
  \/ PopFails(t) \/ Pop(t) \/ Clear(t) \/ Look(t) \/ Delete(t) \/ Keep(t) \/ Sweep(t) \/ Return(t)
  \/ PushFails(t) /\ head # next[node[t]]

Next == \E t \in Threads : StrongStep(t) \/ PushFails(t) \/ ThreadEnds(t)

Spec == Init /\ [][Next]_vars

StrongNext == \E t \in Threads : StrongStep(t) \/ ThreadEnds(t)

\* Threads go on with the calls they have begun, and with their ends.
Fairness == \A t \in Threads : WF_vars(pc[t] # "idle" /\ StrongStep(t))

FairSpec == Init /\ [][StrongNext]_vars /\ Fairness

-----------------------------------------------------------------------------
(* Properties *)

\* The variables keep their types, and no two threads share a slot.
TypeOK ==
  /\ head \in Nodes \cup {Null} /\ heap \subseteq Nodes
  /\ next \in [Nodes -> Nodes \cup {Null}]
  /\ data \in [Nodes -> Values \cup {Null}]
  /\ hazard \in [Slots -> Nodes \cup {Null}]
  /\ owner \in [Slots -> Threads \cup {Null}]
  /\ slot \in [Threads -> 0 .. NumSlots]
  /\ \A t, u \in Threads : slot[t] = slot[u] => t = u \/ slot[t] = 0
  /\ node \in [Threads -> Nodes \cup {Null}]
  /\ res \in [Threads -> Values \cup {Null}]

Popped(t) == pc[t] = "clear" /\ node[t] # Null

\* pop() reads old_head->next (line 192) only of a node that nobody has
\* deleted, although another thread may pop it and scan the hazard pointers
\* at any time.
DereferencesAreLive ==
  \A t \in Threads :
    (pc[t] \in {"push", "next"} \/ Popped(t)) => node[t] \in heap

\* From the check on, the pointer a thread has stored stays in force: the slot
\* is its own, however other threads look for one and give theirs back.
PointersHold ==
  \A t \in Threads :
    pc[t] \in {"check", "next", "pop"} =>
      \E s \in Slots : slot[t] = s /\ owner[s] = t /\ hazard[s] = node[t]

\* The nodes a thread alone must link, delete or keep.
Owned(t) == (IF pc[t] \in {"push", "clear"} THEN {node[t]} \ {Null} ELSE {})
            \cup {batch[t][i] : i \in 1 .. Len(batch[t])}

\* Each allocated node is on the stack, in nodes_to_reclaim or owned by one
\* thread, and in one of these places only.
NodesAreOwnedOnce ==
  LET stacked == {stack[i] : i \in 1 .. Len(stack)}
      kept == {reclaim[i] : i \in 1 .. Len(reclaim)}
  IN /\ heap = stacked \cup kept \cup UNION {Owned(t) : t \in Threads}
     /\ stacked \cap kept = {}
     /\ \A t \in Threads :
          /\ Owned(t) \cap (stacked \cup kept) = {}
          /\ \A u \in Threads \ {t} : Owned(t) \cap Owned(u) = {}

\* As long as calls are under way, some call returns: a pop() that finds
\* another head starts over only because another call took effect.  A thread
\* that is looking for a slot or ending is not in the way of the others, and
\* not counted: it may throw.
LockFree ==
  (\E t \in Threads : pc[t] \notin {"idle", "claim", "end"}) ~> (\E t \in Threads : pc[t] = "return")

\* The calls are those of a stack, each at one instant.
Abstract == INSTANCE ConcurrentStack WITH
  Nothing <- Null,
  items <- [i \in 1 .. Len(stack) |-> data[stack[i]]],
  call  <- [t \in Threads |->
              CASE pc[t] \in {"idle", "claim", "end"} -> "none"
                [] pc[t] = "push" -> "push"
                [] pc[t] \in {"load", "protect", "check", "next", "pop"} -> "pop"
                [] OTHER -> "done"],
  val   <- [t \in Threads |->
              IF pc[t] = "push" \/ Popped(t) THEN data[node[t]] ELSE res[t]]

ImplementsStack == Abstract!Spec
==============================================================================
