----------------------------- MODULE BufferList -----------------------------
(***************************************************************************)
(* The list `buffers` of ceph_test/test_iter.cc: nodes linked both ways    *)
(* around a root that is part of the list object.  Nodes are allocated and *)
(* freed, and their addresses used again.                                  *)
(***************************************************************************)
EXTENDS Integers, Sequences, SequencesExt

CONSTANTS
    Lists,     \* list objects, named by the address of their _root
    ListNodes  \* addresses of nodes

ASSUME ListNodesAssumption == Lists \cap ListNodes = {}

VARIABLES
    link,    \* link[a]: [next, prev] of the root or node at a
    live,    \* list objects that exist and nodes that are allocated
    moved,   \* a list that was not empty has been moved from
    \* history
    content  \* content[l]: the nodes of l, in order

listVars == <<link, live, moved, content>>

Self(a) == [next |-> a, prev |-> a]

ListInit ==
    /\ link = [a \in Lists \cup ListNodes |-> Self(a)]
    /\ live = {} /\ moved = FALSE
    /\ content = [l \in Lists |-> <<>>]

-----------------------------------------------------------------------------
(* a->insert(e): e goes in front of a; a may be e's only neighbour.  The   *)
(* comment above list_base says that it goes after a; the assignments, and *)
(* push_back and insert, which rely on them, put it in front.              *)
InsertBefore(f, a, e) ==
    LET e1 == [f EXCEPT ![e] = [next |-> a, prev |-> f[a].prev]]
        e2 == [e1 EXCEPT ![e1[a].prev].next = e]
    IN  [e2 EXCEPT ![a].prev = e]

\* Mutant: the two assignments swapped, so that next->prev is still the node itself.
Unlinked_Swapped(f, a) ==
    LET e1 == [f EXCEPT ![f[f[a].next].prev].next = f[a].next]
        e2 == [e1 EXCEPT ![e1[a].next].prev = e1[a].prev]
    IN  [e2 EXCEPT ![a] = Self(a)]

\* a->unlink(): next->prev = prev, then next->prev->next = next.
Unlinked(f, a) ==
    LET e1 == [f EXCEPT ![f[a].next].prev = f[a].prev]
        e2 == [e1 EXCEPT ![e1[e1[a].next].prev].next = e1[a].next]
    IN  [e2 EXCEPT ![a] = Self(a)]

\* The element at a, by its place in content; the end when a is the root.
Place(l, a) == IF a = l THEN Len(content[l]) + 1 ELSE CHOOSE i \in DOMAIN content[l] : content[l][i] = a

New(l) ==
    /\ l \notin live /\ live' = live \cup {l}
    /\ link' = [link EXCEPT ![l] = Self(l)]
    /\ UNCHANGED <<moved, content>>

\* insert at an iterator; push_back and push_front are those at end() and begin().
InsertAtPos(l, a) ==
    \E e \in ListNodes \ live :
        /\ live' = live \cup {e}
        /\ link' = InsertBefore(link, a, e)
        /\ content' = [content EXCEPT ![l] = InsertAt(@, Place(l, a), e)]
        /\ UNCHANGED moved

PushBack(l) == InsertAtPos(l, l)
PushFront(l) == InsertAtPos(l, link[l].next)
Insert(l) == \E a \in ToSet(content[l]) \cup {l} : InsertAtPos(l, a)

\* _erase
EraseNode(l, a) ==
    /\ link' = Unlinked(link, a) /\ live' = live \ {a}
    /\ content' = [content EXCEPT ![l] = RemoveAt(@, Place(l, a))]
    /\ UNCHANGED moved

PopBack(l) == link[l].prev # l /\ EraseNode(l, link[l].prev)
PopFront(l) == link[l].next # l /\ EraseNode(l, link[l].next)
EraseAtPos(l) == \E a \in ToSet(content[l]) : EraseNode(l, a)

(* buffers(buffers&& o): the root takes over o's pointers, but the first   *)
(* and the last node still point to o.                                     *)
MoveFrom(l, o) ==
    /\ l \notin live /\ live' = live \cup {l}
    /\ link' = [link EXCEPT ![l] = [next |-> IF link[o].next = o THEN l ELSE link[o].next,
                                    prev |-> IF link[o].prev = o THEN l ELSE link[o].prev],
                            ![o] = Self(o)]
    /\ content' = [content EXCEPT ![l] = content[o], ![o] = <<>>]
    /\ moved' = (moved \/ content[o] # <<>>)

(* The nodes the destructor comes to, from the first one along `next`      *)
(* until it is back at the root: the smallest set that has them all.       *)
Reached(l) ==
    LET Follows(a, S) == link[a].next = l \/ link[a].next \in S
        passes == {S \in SUBSET ListNodes : \A a \in S \cup {l} : Follows(a, S)}
    IN  {e \in ListNodes : \A S \in passes : e \in S}

Destroy(l) ==
    /\ live' = live \ (Reached(l) \cup {l})
    /\ content' = [content EXCEPT ![l] = <<>>]
    /\ UNCHANGED <<link, moved>>

(* Once a list that was not empty has been moved, what any operation does  *)
(* is undefined.                                                           *)
ListNext ==
    /\ ~moved
    /\ \E l \in Lists :
        \/ New(l)
        \/ /\ l \in live
           /\ \/ PushBack(l) \/ PushFront(l) \/ Insert(l)
              \/ PopBack(l) \/ PopFront(l) \/ EraseAtPos(l) \/ Destroy(l)
              \/ \E m \in Lists : MoveFrom(m, l)

ListSpec == ListInit /\ [][ListNext]_listVars

-----------------------------------------------------------------------------
(* Both chains of pointers run through exactly the elements that the calls *)
(* so far leave in a list, in their order and back to the root, and no     *)
(* node is allocated that is in no list: the links form a sequence, unless *)
(* a list that was not empty has been moved.  The sequence is that of      *)
(* std::list, an element inserted at a position standing in front of it.   *)
LinksFormSequence ==
    \/ moved
    \/ /\ \A l \in live \cap Lists :
            LET ring == <<l>> \o content[l] \o <<l>>
            IN  \A i \in 1..(Len(ring) - 1) :
                    link[ring[i]].next = ring[i + 1] /\ link[ring[i + 1]].prev = ring[i]
       /\ live \ Lists = UNION {ToSet(content[l]) : l \in Lists}
=============================================================================
