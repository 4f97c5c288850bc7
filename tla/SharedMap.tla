------------------------------ MODULE SharedMap ------------------------------
(***************************************************************************)
(* What a map shared by threads promises: each call takes effect at one    *)
(* instant between its beginning and its end.                              *)
(***************************************************************************)
CONSTANTS Threads, Keys, Values,
          Default \* what value_for() returns for a key that has no mapping

Methods == {"value_for", "add_or_update", "remove"}

VARIABLES map,    \* the value of each key
          phase,  \* "idle", "called", "done"
          method, key,
          val     \* the argument or the result

vars == <<map, phase, method, key, val>>

Init == /\ map = [k \in Keys |-> Default]
        /\ phase = [t \in Threads |-> "idle"]
        /\ method \in [Threads -> Methods] /\ key \in [Threads -> Keys]
        /\ val = [t \in Threads |-> Default]

Begin(t) ==
  /\ phase[t] = "idle" /\ phase' = [phase EXCEPT ![t] = "called"]
  /\ \E m \in Methods, k \in Keys, v \in Values \cup {Default} :
       /\ method' = [method EXCEPT ![t] = m]
       /\ key' = [key EXCEPT ![t] = k]
       /\ val' = [val EXCEPT ![t] = v]
  /\ UNCHANGED map

TakeEffect(t) ==
  /\ phase[t] = "called" /\ phase' = [phase EXCEPT ![t] = "done"]
  /\ \/ /\ method[t] = "value_for" /\ val' = [val EXCEPT ![t] = map[key[t]]]
        /\ UNCHANGED map
     \/ /\ method[t] = "add_or_update" /\ map' = [map EXCEPT ![key[t]] = val[t]]
        /\ UNCHANGED val
     \/ /\ method[t] = "remove" /\ map' = [map EXCEPT ![key[t]] = Default]
        /\ UNCHANGED val
  /\ UNCHANGED <<method, key>>

End(t) ==
  /\ phase[t] = "done" /\ phase' = [phase EXCEPT ![t] = "idle"]
  /\ val' = [val EXCEPT ![t] = Default]
  /\ UNCHANGED <<map, method, key>>

Next == \E t \in Threads : Begin(t) \/ TakeEffect(t) \/ End(t)

Spec == Init /\ [][Next]_vars
==============================================================================
