------------------------------- MODULE LruMap -------------------------------
(***************************************************************************)
(* lru_map of ceph_test/lru_map.hpp: a std::map from keys to entries, each *)
(* with an iterator into a std::list of keys, most recently used first.    *)
(* The list is modelled by its nodes, which are freed and allocated again, *)
(* so that a stale iterator would be seen.  Every operation holds the      *)
(* mutex throughout and is one action.                                     *)
(***************************************************************************)
EXTENDS Integers, Sequences, SequencesExt, FiniteSets

CONSTANTS
    Keys, Values, NoValue,
    Nodes,   \* addresses the list allocator hands out
    NoKey,   \* what a freed node holds
    MaxArgs, \* arguments (int) of the constructor
    SizeMod, \* 2^w for the width w of size_t
    MaxOps   \* bound: uses of a key

ASSUME NoValueAssumption == NoValue \notin Values
ASSUME NoKeyAssumption == NoKey \notin Keys
ASSUME MaxArgsAssumption == MaxArgs \subseteq Int
ASSUME SizeModAssumption == SizeMod \in Nat \ {0}
ASSUME NodesAssumption == IsFiniteSet(Keys) /\ IsFiniteSet(Nodes) /\ Cardinality(Nodes) > Cardinality(Keys)

VARIABLES
    max,         \* the capacity, a size_t
    entries,     \* entries[k]: [value, lru_iter], or NoEntry
    entries_lru, \* the list: its nodes from begin() on
    nodeKey,     \* nodeKey[n]: the key stored in node n
    ret,         \* what the last find stored in *value, or NoValue
    \* history
    lastUse, clock

vars == <<max, entries, entries_lru, nodeKey, ret, lastUse, clock>>

NoEntry == [value |-> NoValue, lru_iter |-> NoKey]
Present == {k \in Keys : entries[k] # NoEntry}

Init ==
    /\ \E m \in MaxArgs : max = m % SizeMod
    /\ entries = [k \in Keys |-> NoEntry]
    /\ entries_lru = <<>> /\ nodeKey = [n \in Nodes |-> NoKey]
    /\ ret = NoValue
    /\ lastUse = [k \in Keys |-> 0] /\ clock = 0

\* list.erase(it) and list.push_front(key) with a node n that is free by then.
Unlink(list, it) == RemoveFirst(list, it)
Freed(nk, it) == [n \in Nodes |-> IF n = it THEN NoKey ELSE nk[n]]
Fresh(list, n) == n \in Nodes \ ToSet(list)

Use(k) ==
    /\ clock < MaxOps
    /\ clock' = clock + 1 /\ lastUse' = [lastUse EXCEPT ![k] = clock + 1]

\* Mutant: the iterator is not updated.
PointsTo_Stale(k, n) == entries

\* it->second.lru_iter = entries_lru.begin()
PointsTo(k, n) == [entries EXCEPT ![k].lru_iter = n]

\* find: a hit moves the key to the front of the list.
Find(k) ==
    /\ ret' = entries[k].value
    /\ IF k \notin Present THEN UNCHANGED <<entries, entries_lru, nodeKey, clock, lastUse>>
       ELSE /\ Use(k)
            /\ LET it == entries[k].lru_iter
                   rest == Unlink(entries_lru, it)
               IN  \E n \in Nodes :
                    /\ Fresh(rest, n)
                    /\ entries_lru' = Cons(n, rest)
                    /\ nodeKey' = [Freed(nodeKey, it) EXCEPT ![n] = k]
                    /\ entries' = PointsTo(k, n)
    /\ UNCHANGED max

\* Mutant: the most recently used key goes.
Victim_Front(list) == Head(list)

\* entries_lru.back()
Victim(list) == Last(list)

(* add: as in find for a key that is there; then, when the list has grown  *)
(* beyond max, the key in its last node is looked up and erased.           *)
Add(k, v) ==
    /\ Use(k)
    /\ LET it == entries[k].lru_iter
           rest == IF k \in Present THEN Unlink(entries_lru, it) ELSE entries_lru
           keyOf == IF k \in Present THEN Freed(nodeKey, it) ELSE nodeKey
       IN  \E n \in Nodes :
            /\ Fresh(rest, n)
            /\ LET list == Cons(n, rest)
                   keys == [keyOf EXCEPT ![n] = k]
                   es == [entries EXCEPT ![k] = [value |-> v, lru_iter |-> n]]
               IN  IF Len(list) > max
                     THEN /\ entries' = [es EXCEPT ![keys[Victim(list)]] = NoEntry]
                          /\ entries_lru' = Unlink(list, Victim(list))
                          /\ nodeKey' = Freed(keys, Victim(list))
                     ELSE entries' = es /\ entries_lru' = list /\ nodeKey' = keys
    /\ UNCHANGED <<max, ret>>

Erase(k) ==
    /\ IF k \notin Present THEN UNCHANGED <<entries, entries_lru, nodeKey>>
       ELSE /\ entries_lru' = Unlink(entries_lru, entries[k].lru_iter)
            /\ nodeKey' = Freed(nodeKey, entries[k].lru_iter)
            /\ entries' = [entries EXCEPT ![k] = NoEntry]
    /\ UNCHANGED <<max, ret, lastUse, clock>>

Next == \E k \in Keys : Find(k) \/ Erase(k) \/ \E v \in Values : Add(k, v)

Spec == Init /\ [][Next]_vars

-----------------------------------------------------------------------------
(* Map and list describe each other: every entry's iterator points to a    *)
(* live node that holds its key, every node in the list is the one its     *)
(* key's entry points to.  Hence no erase() through a dangling iterator,   *)
(* no erase(end()) when the last key is evicted, no key twice in the list. *)
Linked ==
    /\ \A k \in Present : entries[k].lru_iter \in ToSet(entries_lru) /\ nodeKey[entries[k].lru_iter] = k
    /\ \A i \in 1..Len(entries_lru) :
        LET k == nodeKey[entries_lru[i]]
        IN  k \in Present /\ entries[k].lru_iter = entries_lru[i]
    /\ \A i, j \in 1..Len(entries_lru) : entries_lru[i] = entries_lru[j] => i = j

Abstract ==
    INSTANCE LruSpec WITH value <- [k \in Keys |-> entries[k].value]

(* The list order is the order of use: lru_map is an LRU cache.  It never  *)
(* holds more keys than its capacity, not even with capacity 0, nor after  *)
(* a negative constructor argument became a huge size_t.                   *)
ImplementsLru == Abstract!Spec
=============================================================================
