------------------------------ MODULE LruSpec -------------------------------
(***************************************************************************)
(* What an LRU cache promises: a map of at most `max` keys; find and add   *)
(* count as a use; an add to a full map drops the key whose last use lies  *)
(* furthest back.                                                          *)
(***************************************************************************)
EXTENDS Integers, FiniteSets

CONSTANTS Keys, Values, NoValue

VARIABLES
    max,     \* capacity
    value,   \* value[k], or NoValue
    lastUse, \* lastUse[k]: the time of k's last use
    clock,   \* uses so far
    ret      \* what the last call returned

vars == <<max, value, lastUse, clock, ret>>

Present(v) == {k \in Keys : v[k] # NoValue}

Init ==
    /\ max \in Nat
    /\ value = [k \in Keys |-> NoValue]
    /\ lastUse = [k \in Keys |-> 0] /\ clock = 0
    /\ ret = NoValue

Use(k) == clock' = clock + 1 /\ lastUse' = [lastUse EXCEPT ![k] = clock + 1]

Find(k) ==
    /\ ret' = value[k]
    /\ IF k \in Present(value) THEN Use(k) ELSE UNCHANGED <<clock, lastUse>>
    /\ UNCHANGED <<max, value>>

Add(k, v) ==
    /\ Use(k) /\ UNCHANGED <<max, ret>>
    /\ LET full == [value EXCEPT ![k] = v]
           oldest == {o \in Present(full) : \A p \in Present(full) : lastUse'[o] <= lastUse'[p]}
       IN  value' = IF Cardinality(Present(full)) > max
                      THEN [j \in Keys |-> IF j \in oldest THEN NoValue ELSE full[j]]
                      ELSE full

Erase(k) ==
    /\ value' = [value EXCEPT ![k] = NoValue]
    /\ UNCHANGED <<max, lastUse, clock, ret>>

Next == \E k \in Keys : Find(k) \/ Erase(k) \/ \E v \in Values : Add(k, v)

Spec == Init /\ [][Next]_vars
=============================================================================
