----------------------------- MODULE LookupTable -----------------------------
(***************************************************************************)
(* class threadsafe_lookup_table of 6.lock_based: a vector of buckets that *)
(* never changes, each a list of entries under a std::shared_mutex, which  *)
(* value_for() takes for reading and the others for writing.               *)
(*                                                                         *)
(* An iterator is a position in the list of the bucket.  A call finds its  *)
(* entry in one step and uses the iterator in another, with the lock.      *)
(***************************************************************************)
EXTENDS Naturals, Sequences, FiniteSets, SequencesExt

CONSTANTS Threads, Keys, Values, Default,
          Buckets, \* the indices of _buckets
          Hashes   \* the functions _hasher(key) % _buckets.size() to consider

VARIABLES hash,
          data,          \* _data of each bucket: its entries <<key, value>>
          readers, writer, \* who holds _mutex of each bucket
          pc, method, key, val,
          found          \* found_entry: a position, 0 for end()

locals == <<method, key, val, found>>
vars == <<hash, data, readers, writer, pc, locals>>

Init == /\ hash \in Hashes
        /\ data = [b \in Buckets |-> <<>>]
        /\ readers = [b \in Buckets |-> {}] /\ writer = [b \in Buckets |-> {}]
        /\ pc = [t \in Threads |-> "idle"]
        /\ method = [t \in Threads |-> "value_for"]
        /\ key = [t \in Threads |-> CHOOSE k \in Keys : TRUE]
        /\ val = [t \in Threads |-> Default]
        /\ found = [t \in Threads |-> 0]

Goto(t, from, to) == pc[t] = from /\ pc' = [pc EXCEPT ![t] = to]

get_bucket(t) == hash[key[t]]

-----------------------------------------------------------------------------
Call(t) ==
  /\ Goto(t, "idle", "lock")
  /\ \E m \in {"value_for", "add_or_update", "remove"}, k \in Keys, v \in Values :
       /\ method' = [method EXCEPT ![t] = m]
       /\ key' = [key EXCEPT ![t] = k]
       /\ val' = [val EXCEPT ![t] = IF m = "add_or_update" THEN v ELSE Default]
  /\ UNCHANGED <<hash, data, readers, writer, found>>

LockShared(t) == \* shared_lock
  /\ method[t] = "value_for" /\ writer[get_bucket(t)] = {}
  /\ Goto(t, "lock", "find")
  /\ readers' = [readers EXCEPT ![get_bucket(t)] = @ \cup {t}]
  /\ UNCHANGED <<hash, data, writer, locals>>

LockBesideReaders(t) == \* mutant: the writers exclude each other only
  /\ method[t] # "value_for" /\ writer[get_bucket(t)] = {}
  /\ Goto(t, "lock", "find")
  /\ writer' = [writer EXCEPT ![get_bucket(t)] = {t}]
  /\ UNCHANGED <<hash, data, readers, locals>>

Lock(t) == \* lock_guard
  /\ method[t] # "value_for"
  /\ writer[get_bucket(t)] = {} /\ readers[get_bucket(t)] = {}
  /\ Goto(t, "lock", "find")
  /\ writer' = [writer EXCEPT ![get_bucket(t)] = {t}]
  /\ UNCHANGED <<hash, data, readers, locals>>

find_entry_for(t) ==
  SelectInSeq(data[get_bucket(t)], LAMBDA entry : entry[1] = key[t])

Find(t) ==
  /\ Goto(t, "find", "use")
  /\ found' = [found EXCEPT ![t] = find_entry_for(t)]
  /\ UNCHANGED <<hash, data, readers, writer, method, key, val>>

\* The end of a call that holds the lock until then.
Unlock(t, from) ==
  LET b == get_bucket(t)
  IN /\ Goto(t, from, "return")
     /\ readers' = [readers EXCEPT ![b] = @ \ {t}]
     /\ writer' = [writer EXCEPT ![b] = @ \ {t}]
     /\ found' = [found EXCEPT ![t] = 0]

ValueFor(t) ==
  /\ method[t] = "value_for" /\ Unlock(t, "use")
  /\ val' = [val EXCEPT ![t] = IF found[t] = 0 THEN Default
                               ELSE data[get_bucket(t)][found[t]][2]]
  /\ UNCHANGED <<hash, data, method, key>>

AlwaysAdd(t) == \* mutant: a mapping is added beside the one there is
  /\ method[t] = "add_or_update" /\ Unlock(t, "use")
  /\ data' = [data EXCEPT ![get_bucket(t)] = <<<<key[t], val[t]>>>> \o @]
  /\ UNCHANGED <<hash, method, key, val>>

AddOrUpdate(t) ==
  /\ method[t] = "add_or_update" /\ Unlock(t, "use")
  /\ data' = [data EXCEPT ![get_bucket(t)] =
                IF found[t] = 0 THEN Append(@, <<key[t], val[t]>>)
                ELSE [@ EXCEPT ![found[t]] = <<key[t], val[t]>>]]
  /\ UNCHANGED <<hash, method, key, val>>

RemoveMapping(t) ==
  /\ method[t] = "remove" /\ Unlock(t, "use")
  /\ data' = [data EXCEPT ![get_bucket(t)] =
                IF found[t] = 0 THEN @ ELSE RemoveAt(@, found[t])]
  /\ UNCHANGED <<hash, method, key, val>>

Return(t) ==
  /\ Goto(t, "return", "idle")
  /\ val' = [val EXCEPT ![t] = Default]
  /\ UNCHANGED <<hash, data, readers, writer, method, key, found>>

Step(t) == \/ LockShared(t) \/ Lock(t) \/ Find(t)
           \/ ValueFor(t) \/ AddOrUpdate(t) \/ RemoveMapping(t) \/ Return(t)

Next == \E t \in Threads : Call(t) \/ Step(t)

Spec == Init /\ [][Next]_vars

-----------------------------------------------------------------------------
(* Properties *)

\* No bucket has two entries for one key, each is in the bucket of its key, and
\* an iterator between find and use points at the entry of the key of the call.
EntriesAreUnique ==
  /\ \A b \in Buckets : \A i, j \in DOMAIN data[b] :
       /\ hash[data[b][i][1]] = b
       /\ data[b][i][1] = data[b][j][1] => i = j
  /\ \A t \in Threads : pc[t] = "use" => found[t] = find_entry_for(t)

ValueOf(k) == LET i == SelectInSeq(data[hash[k]], LAMBDA entry : entry[1] = k)
              IN IF i = 0 THEN Default ELSE data[hash[k]][i][2]

Mapping == [k \in Keys |-> ValueOf(k)]

Phases == [t \in Threads |-> CASE pc[t] = "idle" -> "idle"
                               [] pc[t] = "return" -> "done"
                               [] OTHER -> "called"]

Abstract == INSTANCE SharedMap WITH map <- Mapping, phase <- Phases

\* Each call takes effect at one instant, on a map without buckets.
ImplementsMap == Abstract!Spec
==============================================================================
