--------------------------- MODULE ProgramsProofs ---------------------------
(***************************************************************************)
(* Theorems about the small programs that module Programs runs side by     *)
(* side, each about the specification of one of them.                      *)
(***************************************************************************)
EXTENDS LruMap, ThreadRing, Prebuffer, Greeter, BufferList,
        SequenceTheorems, FiniteSetTheorems, NaturalsInduction,
        WellFoundedInduction, TLAPS

(***************************************************************************)
(* ThreadRing: a ring of any number of threads.                            *)
(***************************************************************************)

Places ==
    {"none", "start", "test", "sleep", "waiting", "woken", "process", "notify", "ended"}

MainOps == {"create", "notify", "stop", "join", "delete", "done"}

RingTypeOK ==
    /\ thr \in [Threads -> Places]
    /\ stopped \in [Threads -> BOOLEAN]
    /\ deleted \subseteq Threads
    /\ main \in [op : MainOps, of : Threads]
    /\ turn \in Threads /\ inOrder \in BOOLEAN /\ spurious \in BOOLEAN

(* How far main has come with notifying, stopping and deleting.            *)
StopProgress ==
    /\ main.op = "notify" => main.of = 0
    /\ main.op = "stop" => \A t \in Threads : t < main.of => stopped[t]
    /\ main.op \in {"join", "delete", "done"} => \A t \in Threads : stopped[t]
    /\ main.op \notin {"delete", "done"} => deleted = {}

(* stop() takes the mutex, which a thread that prints or notifies holds.   *)
Quiet == \A t \in Threads : stopped[t] => thr[t] \notin {"process", "notify"}

QuietInv == RingTypeOK /\ StopProgress /\ Quiet

(* t has been woken to print, prints, or is about to pass the turn on.     *)
HasTurn(t) == thr[t] \in {"process", "notify"} \/ (thr[t] = "woken" /\ ~stopped[t])

(* Without spurious wake-ups at most one thread has the turn, it is the    *)
(* one whose turn it is, and before main's notify() there is none.         *)
OneTurn ==
    ~spurious =>
        /\ inOrder
        /\ main.op \in {"create", "notify"} =>
             turn = 0 /\ \A t \in Threads : ~HasTurn(t)
        /\ \A t \in Threads : HasTurn(t) =>
             /\ turn = IF thr[t] = "notify" THEN NextPtr(t) ELSE t
             /\ \A u \in Threads : HasTurn(u) => u = t

-----------------------------------------------------------------------------
(* The successor of a thread is a thread.                                  *)
LEMMA NextIsThread == ASSUME NEW t \in Threads PROVE NextPtr(t) \in Threads
  BY RingAssumption DEF NextPtr, Threads

(* What main does next: the same to the next thread, or the next operation *)
(* to the first.                                                           *)
LEMMA MainGoesOn ==
  ASSUME RingTypeOK, NEW op \in MainOps \ {"done"}, At(op)
  PROVE  /\ main.op = op /\ main' \in [op : MainOps, of : Threads]
         /\ \/ op # "notify" /\ main.of < N - 1 /\ main' = [op |-> op, of |-> main.of + 1]
            \/ op = "notify" /\ main' = [op |-> "stop", of |-> 0]
            \/ op = "create" /\ main' = [op |-> "notify", of |-> 0]
            \/ op = "stop" /\ main.of = N - 1 /\ main' = [op |-> "join", of |-> 0]
            \/ op = "join" /\ main' = [op |-> "delete", of |-> 0]
            \/ op = "delete" /\ main' = [op |-> "done", of |-> 0]
<1>1. /\ NextOp["create"] = "notify" /\ NextOp["notify"] = "stop" /\ NextOp["stop"] = "join"
      /\ NextOp["join"] = "delete" /\ NextOp["delete"] = "done"
  BY DEF NextOp
<1>2. 0 \in Threads /\ (main.of < N - 1 => main.of + 1 \in Threads) /\ main.of \in Threads
      /\ (~(main.of < N - 1) => main.of = N - 1)
  BY RingAssumption DEF RingTypeOK, Threads
<1>3. main.op = op /\ main' = Following(main)
  BY DEF At
<1>4. CASE op # "notify" /\ main.of < N - 1
  <2>1. main' = [op |-> op, of |-> main.of + 1]
    BY <1>3, <1>4 DEF Following, RingTypeOK
  <2> QED BY <1>2, <1>3, <1>4, <2>1 DEF MainOps
<1>5. CASE ~(op # "notify" /\ main.of < N - 1)
  <2>1. main' = [op |-> NextOp[op], of |-> 0]
    BY <1>3, <1>5 DEF Following
  <2> QED BY <1>1, <1>2, <1>3, <1>5, <2>1 DEF MainOps
<1> QED BY <1>4, <1>5

-----------------------------------------------------------------------------
(* The initial state satisfies both parts of the invariant.                *)
LEMMA RingStarts == RingInit => QuietInv /\ OneTurn
<1> SUFFICES ASSUME RingInit PROVE QuietInv /\ OneTurn
  OBVIOUS
<1>1. RingTypeOK
  <2>1. 0 \in Threads
    BY RingAssumption DEF Threads
  <2>2. thr \in [Threads -> Places] /\ stopped \in [Threads -> BOOLEAN]
    BY DEF RingInit, Places
  <2>3. main \in [op : MainOps, of : Threads]
    BY <2>1 DEF RingInit, MainOps
  <2>4. deleted \subseteq Threads /\ turn \in Threads /\ inOrder \in BOOLEAN /\ spurious \in BOOLEAN
    BY <2>1 DEF RingInit
  <2> QED BY <2>2, <2>3, <2>4 DEF RingTypeOK
<1>2. StopProgress
  BY DEF RingInit, StopProgress
<1>3. Quiet
  BY DEF RingInit, Quiet
<1>4. OneTurn
  BY DEF RingInit, OneTurn, HasTurn
<1> QED BY <1>1, <1>2, <1>3, <1>4 DEF QuietInv

(* A step of a thread preserves what is said of stopped threads: a thread  *)
(* goes on to print only after it has seen that it is not stopped.         *)
LEMMA QuietRun ==
  ASSUME QuietInv, NEW t \in Threads, Run(t) \/ SpuriousWakeup(t)
  PROVE  QuietInv'
<1> USE DEF QuietInv
<1>1. UNCHANGED <<stopped, deleted, main>>
  BY DEF Run, SpuriousWakeup, Lock, TestStopped, Wait, Wake, Process, NotifyNext
<1>2. StopProgress'
  BY <1>1 DEF StopProgress
<1>3. CASE Lock(t) \/ TestStopped(t) \/ Wait(t) \/ SpuriousWakeup(t)
  BY <1>2, <1>3 DEF Lock, TestStopped, Wait, SpuriousWakeup, Move, RingTypeOK, Places, Quiet
<1>4. CASE Wake(t)
  BY <1>2, <1>4 DEF Wake, AfterWait, Move, RingTypeOK, Places, Quiet
<1>5. CASE Process(t)
  <2>1. (t + 1) % N \in Threads
    BY NextIsThread DEF NextPtr
  <2> QED BY <1>2, <1>5, <2>1 DEF Process, Move, RingTypeOK, Places, Quiet
<1>6. CASE NotifyNext(t)
  BY <1>2, <1>6, NextIsThread DEF NotifyNext, Notified, RingTypeOK, Places, Quiet
<1> QED BY <1>3, <1>4, <1>5, <1>6 DEF Run

(* A step of main preserves it: stop() waits until the thread does not     *)
(* print, and nothing is deleted before every thread is stopped.           *)
LEMMA QuietMain == ASSUME QuietInv, Main PROVE QuietInv'
<1> USE DEF QuietInv
<1>0. main.of \in Threads
  BY DEF RingTypeOK
<1>1. CASE Create
  BY <1>1, <1>0, MainGoesOn DEF Create, Move, RingTypeOK, Places, StopProgress, Quiet, MainOps
<1>2. CASE NotifyFirst
  <2>1. main.op = "notify" /\ main' = [op |-> "stop", of |-> 0]
    BY <1>2, MainGoesOn DEF NotifyFirst, MainOps
  <2>2. StopProgress'
    BY <1>2, <2>1, RingAssumption DEF NotifyFirst, StopProgress, Threads
  <2> QED BY <1>0, <1>2, <2>1, <2>2, RingAssumption
             DEF NotifyFirst, Notified, RingTypeOK, Places, Quiet, MainOps, Threads
<1>3. CASE Stop
  <2>1. RingTypeOK'
    BY <1>0, <1>3, MainGoesOn DEF Stop, Notified, RingTypeOK, Places, MainOps
  <2>2. Quiet'
    BY <1>0, <1>3 DEF Stop, MutexFree, Notified, RingTypeOK, Places, Quiet
  <2>3. \A t \in Threads : t <= main.of => stopped'[t]
    BY <1>0, <1>3 DEF Stop, At, StopProgress, RingTypeOK, Threads
  <2>4. StopProgress'
    BY <1>0, <1>3, <2>3, MainGoesOn, RingAssumption DEF Stop, StopProgress, MainOps, Threads
  <2> QED BY <2>1, <2>2, <2>4
<1>4. CASE Join
  BY <1>4, MainGoesOn DEF Join, RingTypeOK, StopProgress, Quiet, MainOps
<1>5. CASE Delete
  BY <1>0, <1>5, MainGoesOn DEF Delete, RingTypeOK, StopProgress, Quiet, MainOps
<1> QED BY <1>1, <1>2, <1>3, <1>4, <1>5 DEF Main

-----------------------------------------------------------------------------
(* The turn is passed on, and never doubled: one step of a thread.         *)
LEMMA TurnRun ==
  ASSUME QuietInv, OneTurn, NEW t \in Threads, Run(t) \/ SpuriousWakeup(t)
  PROVE  OneTurn'
<1> SUFFICES ASSUME ~spurious, ~spurious' PROVE OneTurn'
  BY DEF OneTurn, Run, SpuriousWakeup, Lock, TestStopped, Wait, Wake, Process, NotifyNext, QuietInv,
         RingTypeOK
<1> USE DEF QuietInv
<1>1. UNCHANGED <<stopped, deleted, main>>
  BY DEF Run, SpuriousWakeup, Lock, TestStopped, Wait, Wake, Process, NotifyNext
<1>2. CASE Lock(t) \/ TestStopped(t) \/ Wait(t)
  <2>1. UNCHANGED <<turn, inOrder>>
    BY <1>2 DEF Lock, TestStopped, Wait
  <2>2. \A u \in Threads : HasTurn(u)' = HasTurn(u) /\ (thr'[u] = "notify") = (thr[u] = "notify")
    BY <1>1, <1>2 DEF Lock, TestStopped, Wait, Move, RingTypeOK, HasTurn
  <2> QED BY <1>1, <2>1, <2>2 DEF OneTurn
<1>3. CASE Wake(t)
  BY <1>1, <1>3 DEF Wake, AfterWait, Move, RingTypeOK, Places, OneTurn, HasTurn
<1>4. CASE Process(t)
  BY <1>1, <1>4 DEF Process, Move, NextPtr, RingTypeOK, Places, OneTurn, HasTurn
<1>5. CASE NotifyNext(t)
  BY <1>1, <1>5, NextIsThread DEF NotifyNext, Notified, RingTypeOK, Places, OneTurn, HasTurn
<1> QED BY <1>2, <1>3, <1>4, <1>5 DEF Run, SpuriousWakeup

(* One step of main: its notify() makes the first turn, and stop() none,   *)
(* since who is woken by it is stopped.                                    *)
LEMMA TurnMain == ASSUME QuietInv, OneTurn, Main PROVE OneTurn'
<1> USE DEF QuietInv
<1>0. main.of \in Threads
  BY DEF RingTypeOK
<1>1. CASE Create
  BY <1>0, <1>1, MainGoesOn DEF Create, Move, RingTypeOK, Places, OneTurn, HasTurn, MainOps
<1>2. CASE NotifyFirst
  BY <1>0, <1>2, MainGoesOn
     DEF NotifyFirst, Notified, RingTypeOK, StopProgress, Places, OneTurn, HasTurn, MainOps
<1>3. CASE Stop
  BY <1>0, <1>3, MainGoesOn DEF Stop, Notified, RingTypeOK, Places, OneTurn, HasTurn, MainOps
<1>4. CASE Join \/ Delete
  BY <1>4, MainGoesOn DEF Join, Delete, RingTypeOK, OneTurn, HasTurn, MainOps
<1> QED BY <1>1, <1>2, <1>3, <1>4 DEF Main

-----------------------------------------------------------------------------
(* The invariant of the ring.                                              *)
THEOREM RingInductive == RingSpec => [](QuietInv /\ OneTurn)
<1>1. QuietInv /\ OneTurn /\ [RingNext]_ringVars => (QuietInv /\ OneTurn)'
  <2> SUFFICES ASSUME QuietInv, OneTurn, [RingNext]_ringVars PROVE QuietInv' /\ OneTurn'
    OBVIOUS
  <2>1. CASE UNCHANGED ringVars
    BY <2>1 DEF ringVars, QuietInv, RingTypeOK, StopProgress, Quiet, OneTurn, HasTurn
  <2>2. CASE Main
    BY <2>2, QuietMain, TurnMain
  <2>3. CASE \E t \in Threads : Run(t) \/ SpuriousWakeup(t)
    BY <2>3, QuietRun, TurnRun
  <2> QED BY <2>1, <2>2, <2>3 DEF RingNext
<1> QED BY <1>1, RingStarts, PTL DEF RingSpec

(* After stop(t) the thread t neither prints nor notifies, and nobody      *)
(* notifies a deleted object, with any number of threads.                  *)
THEOREM RingQuiet == RingSpec => []StoppedIsQuiet
<1>1. QuietInv => StoppedIsQuiet
  <2> SUFFICES ASSUME QuietInv, NEW t \in Threads
               PROVE  /\ stopped[t] => thr[t] \notin {"process", "notify"}
                      /\ thr[t] = "notify" => NextPtr(t) \notin deleted
    BY DEF StoppedIsQuiet
  <2> QED BY DEF QuietInv, Quiet, StopProgress, RingTypeOK, MainOps
<1> QED BY <1>1, RingInductive, PTL

(* Without spurious wake-ups the threads print in the order of the ring.   *)
THEOREM RingInTurn == RingSpec => []InTurn
<1>1. QuietInv /\ OneTurn => InTurn
  BY DEF QuietInv, RingTypeOK, OneTurn, InTurn
<1> QED BY <1>1, RingInductive, PTL

(***************************************************************************)
(* LruMap: any keys, values, list nodes and capacities.                    *)
(***************************************************************************)

Distinct(list) == \A i, j \in 1..Len(list) : list[i] = list[j] => i = j

(* Erasing the node at position p of the list.                             *)
LEMMA UnlinkFacts ==
  ASSUME NEW list \in Seq(Nodes), Distinct(list), NEW p \in 1..Len(list)
  PROVE  /\ Unlink(list, list[p]) \in Seq(Nodes) /\ Len(Unlink(list, list[p])) = Len(list) - 1
         /\ \A i \in 1..(Len(list) - 1) :
              Unlink(list, list[p])[i] = IF i < p THEN list[i] ELSE list[i + 1]
<1>1. {i \in 1..Len(list) : list[i] = list[p]} = {p}
  BY DEF Distinct
<1>2. Min({p}) = p
  BY DEF Min
<1>3. Unlink(list, list[p]) = RemoveAt(list, p)
  BY <1>1, <1>2 DEF Unlink, RemoveFirst, SelectInSeq
<1>4. RemoveAt(list, p) = SubSeq(list, 1, p - 1) \o SubSeq(list, p + 1, Len(list))
  BY DEF RemoveAt
<1> DEFINE a == SubSeq(list, 1, p - 1)
           b == SubSeq(list, p + 1, Len(list))
<1>5. /\ a \in Seq(Nodes) /\ Len(a) = p - 1 /\ \A i \in 1..(p - 1) : a[i] = list[i]
      /\ b \in Seq(Nodes) /\ Len(b) = Len(list) - p /\ \A i \in 1..(Len(list) - p) : b[i] = list[p + i]
  OBVIOUS
<1> HIDE DEF a, b
<1>6. /\ a \o b \in Seq(Nodes) /\ Len(a \o b) = Len(a) + Len(b)
      /\ \A i \in 1..(Len(a) + Len(b)) : (a \o b)[i] = IF i <= Len(a) THEN a[i] ELSE b[i - Len(a)]
  BY <1>5, ConcatProperties
<1>7. ASSUME NEW i \in 1..(Len(list) - 1)
      PROVE  (a \o b)[i] = IF i < p THEN list[i] ELSE list[i + 1]
  <2>1. CASE i < p
    BY <1>5, <1>6, <2>1
  <2>2. CASE ~(i < p)
    <3>1. (a \o b)[i] = b[i - (p - 1)] /\ i - (p - 1) \in 1..(Len(list) - p)
      BY <1>5, <1>6, <2>2
    <3>2. p + (i - (p - 1)) = i + 1
      OBVIOUS
    <3> QED BY <1>5, <2>2, <3>1, <3>2
  <2> QED BY <2>1, <2>2
<1>8. Unlink(list, list[p]) = a \o b
  BY <1>3, <1>4, Zenon DEF a, b
<1>9. Len(a \o b) = Len(list) - 1
  BY <1>5, <1>6
<1> QED BY <1>6, <1>7, <1>8, <1>9, Zenon

(* Pushing a node to the front.                                            *)
LEMMA ConsFacts ==
  ASSUME NEW list \in Seq(Nodes), NEW n \in Nodes
  PROVE  /\ Cons(n, list) \in Seq(Nodes) /\ Len(Cons(n, list)) = Len(list) + 1
         /\ Cons(n, list)[1] = n
         /\ \A i \in 2..(Len(list) + 1) : Cons(n, list)[i] = list[i - 1]
<1>1. <<n>> \in Seq(Nodes) /\ Len(<<n>>) = 1 /\ <<n>>[1] = n
  OBVIOUS
<1> QED BY <1>1, ConcatProperties DEF Cons

-----------------------------------------------------------------------------
Entries == {NoEntry} \cup [value : Values, lru_iter : Nodes]

(* Map, list, node contents and times of use fit together: Linked, and the *)
(* list is in the order of use.                                            *)
Fits(es, list, nk, lu) ==
    /\ es \in [Keys -> Entries] /\ list \in Seq(Nodes)
    /\ nk \in [Nodes -> Keys \cup {NoKey}] /\ lu \in [Keys -> Nat]
    /\ Distinct(list)
    /\ \A k \in Keys : es[k] # NoEntry =>
         \E i \in 1..Len(list) : list[i] = es[k].lru_iter /\ nk[list[i]] = k
    /\ \A i \in 1..Len(list) : /\ nk[list[i]] \in Keys /\ es[nk[list[i]]] # NoEntry
                               /\ es[nk[list[i]]].lru_iter = list[i]
    /\ \A i, j \in 1..Len(list) : i < j => lu[nk[list[i]]] > lu[nk[list[j]]]

(* Erasing a key and its node, as find, add and erase do.                  *)
LEMMA UnlinkFits ==
  ASSUME NEW es, NEW list, NEW nk, NEW lu, Fits(es, list, nk, lu), NEW k \in Keys, es[k] # NoEntry
  PROVE  Fits([es EXCEPT ![k] = NoEntry], Unlink(list, es[k].lru_iter), Freed(nk, es[k].lru_iter), lu)
<1> DEFINE es1 == [es EXCEPT ![k] = NoEntry]
           list1 == Unlink(list, es[k].lru_iter)
           nk1 == Freed(nk, es[k].lru_iter)
<1>1. es \in [Keys -> Entries] /\ list \in Seq(Nodes) /\ Distinct(list)
      /\ nk \in [Nodes -> Keys \cup {NoKey}] /\ lu \in [Keys -> Nat] /\ Len(list) \in Nat
  BY LenProperties DEF Fits
<1>2. PICK p \in 1..Len(list) : list[p] = es[k].lru_iter /\ nk[list[p]] = k
  BY DEF Fits
<1>3. list1 = Unlink(list, list[p])
  BY <1>2
<1>4. /\ list1 \in Seq(Nodes) /\ Len(list1) = Len(list) - 1
      /\ \A i \in 1..(Len(list) - 1) : list1[i] = IF i < p THEN list[i] ELSE list[i + 1]
  BY <1>1, <1>3, UnlinkFacts, Zenon
<1> HIDE DEF list1
<1>5. es1 \in [Keys -> Entries] /\ es1[k] = NoEntry /\ \A j \in Keys : j # k => es1[j] = es[j]
  BY <1>1 DEF Entries
<1>6. nk1 \in [Nodes -> Keys \cup {NoKey}] /\ \A n \in Nodes : n # list[p] => nk1[n] = nk[n]
  BY <1>1, <1>2 DEF Freed
<1> HIDE DEF es1, nk1
<1> DEFINE old(i) == IF i < p THEN i ELSE i + 1
<1>7. ASSUME NEW i \in 1..Len(list1)
      PROVE  /\ old(i) \in 1..Len(list) /\ old(i) # p /\ list1[i] = list[old(i)]
             /\ list[old(i)] # list[p] /\ list[old(i)] \in Nodes /\ nk1[list1[i]] = nk[list[old(i)]]
  <2>1. old(i) \in 1..Len(list) /\ old(i) # p /\ list1[i] = list[old(i)]
    BY <1>1, <1>4
  <2>2. list[old(i)] # list[p]
    BY <1>1, <2>1 DEF Distinct
  <2>3. list[old(i)] \in Nodes
    BY <1>1, <2>1
  <2> QED BY <1>6, <2>1, <2>2, <2>3
<1>8. \A i, j \in 1..Len(list1) : /\ old(i) = old(j) => i = j
                                 /\ i < j => old(i) < old(j)
  OBVIOUS
<1>9. Distinct(list1)
  <2>1. ASSUME NEW i \in 1..Len(list1), NEW j \in 1..Len(list1), list1[i] = list1[j] PROVE i = j
    <3>1. old(i) \in 1..Len(list) /\ old(j) \in 1..Len(list) /\ list[old(i)] = list[old(j)]
      BY <1>7, <2>1
    <3>2. old(i) = old(j)
      <4> HIDE DEF old
      <4> QED BY <1>1, <3>1 DEF Distinct
    <3> QED BY <3>2
  <2> QED BY <2>1 DEF Distinct
<1>10. ASSUME NEW j \in Keys, es1[j] # NoEntry
       PROVE  \E i \in 1..Len(list1) : list1[i] = es1[j].lru_iter /\ nk1[list1[i]] = j
  <2>1. j # k /\ es1[j] = es[j]
    BY <1>5, <1>10
  <2>2. PICK q \in 1..Len(list) : list[q] = es[j].lru_iter /\ nk[list[q]] = j
    BY <1>10, <2>1 DEF Fits
  <2>3. q # p
    BY <1>2, <2>1, <2>2
  <2>4. PICK i \in 1..Len(list1) : old(i) = q
    <3>1. CASE q < p
      <4>1. q \in 1..Len(list1) /\ old(q) = q
        BY <1>1, <1>4, <3>1
      <4> QED BY <4>1
    <3>2. CASE q > p
      <4>1. q - 1 \in 1..Len(list1) /\ old(q - 1) = q
        BY <1>1, <1>4, <3>2
      <4> QED BY <4>1
    <3> QED BY <2>3, <3>1, <3>2
  <2> QED BY <1>7, <2>1, <2>2, <2>4
<1>11. ASSUME NEW i \in 1..Len(list1)
       PROVE  /\ nk1[list1[i]] \in Keys /\ es1[nk1[list1[i]]] # NoEntry
              /\ es1[nk1[list1[i]]].lru_iter = list1[i]
  <2> DEFINE q == old(i)
  <2>1. q \in 1..Len(list) /\ list1[i] = list[q] /\ list[q] # list[p] /\ nk1[list1[i]] = nk[list[q]]
    BY <1>7
  <2> HIDE DEF q
  <2>2. nk[list[q]] \in Keys /\ es[nk[list[q]]] # NoEntry /\ es[nk[list[q]]].lru_iter = list[q]
    BY <2>1 DEF Fits
  <2>3. nk[list[q]] # k
    BY <1>2, <2>1, <2>2
  <2> QED BY <1>5, <2>1, <2>2, <2>3
<1>12. ASSUME NEW i \in 1..Len(list1), NEW j \in 1..Len(list1), i < j
       PROVE  lu[nk1[list1[i]]] > lu[nk1[list1[j]]]
  <2>1. old(i) \in 1..Len(list) /\ old(j) \in 1..Len(list) /\ old(i) < old(j)
    BY <1>7, <1>8, <1>12
  <2>2. nk1[list1[i]] = nk[list[old(i)]] /\ nk1[list1[j]] = nk[list[old(j)]]
    BY <1>7
  <2> HIDE DEF old
  <2>3. lu[nk[list[old(i)]]] > lu[nk[list[old(j)]]]
    BY <2>1 DEF Fits
  <2> QED BY <2>2, <2>3
<1>13. Fits(es1, list1, nk1, lu)
  BY <1>1, <1>4, <1>5, <1>6, <1>9, <1>10, <1>11, <1>12 DEF Fits
<1> QED BY <1>13, Zenon DEF es1, list1, nk1

(* Pushing a key that is not in the map, with the latest time of use.      *)
LEMMA PushFits ==
  ASSUME NEW es, NEW list, NEW nk, NEW lu, Fits(es, list, nk, lu), NEW k \in Keys, es[k] = NoEntry,
         NEW v \in Values, NEW n \in Nodes, Fresh(list, n),
         NEW c \in Nat, \A j \in Keys : lu[j] < c
  PROVE  Fits([es EXCEPT ![k] = [value |-> v, lru_iter |-> n]], Cons(n, list), [nk EXCEPT ![n] = k],
              [lu EXCEPT ![k] = c])
<1> DEFINE e == [value |-> v, lru_iter |-> n]
           es1 == [es EXCEPT ![k] = e]
           list1 == Cons(n, list)
           nk1 == [nk EXCEPT ![n] = k]
           lu1 == [lu EXCEPT ![k] = c]
<1>1. es \in [Keys -> Entries] /\ list \in Seq(Nodes) /\ Distinct(list)
      /\ nk \in [Nodes -> Keys \cup {NoKey}] /\ lu \in [Keys -> Nat] /\ Len(list) \in Nat
  BY LenProperties DEF Fits
<1>2. /\ list1 \in Seq(Nodes) /\ Len(list1) = Len(list) + 1 /\ list1[1] = n
      /\ \A i \in 2..(Len(list) + 1) : list1[i] = list[i - 1]
  BY <1>1, ConsFacts, Zenon
<1>3. \A i \in 1..Len(list) : list[i] # n /\ list[i] \in Nodes
  BY <1>1 DEF Fresh, ToSet
<1> HIDE DEF list1
<1>4. e # NoEntry /\ e \in Entries /\ e.lru_iter = n
  BY NoValueAssumption DEF NoEntry, Entries
<1> HIDE DEF e
<1>5. es1 \in [Keys -> Entries] /\ es1[k] = e /\ \A j \in Keys : j # k => es1[j] = es[j]
  BY <1>1, <1>4
<1>6. nk1 \in [Nodes -> Keys \cup {NoKey}] /\ nk1[n] = k /\ \A m \in Nodes : m # n => nk1[m] = nk[m]
  BY <1>1
<1>7. lu1 \in [Keys -> Nat] /\ lu1[k] = c /\ \A j \in Keys : j # k => lu1[j] = lu[j]
  BY <1>1
<1> HIDE DEF es1, nk1, lu1
<1>8. ASSUME NEW i \in 2..Len(list1)
      PROVE  /\ i - 1 \in 1..Len(list) /\ list1[i] = list[i - 1] /\ list1[i] # n
             /\ nk1[list1[i]] = nk[list[i - 1]] /\ nk[list[i - 1]] \in Keys /\ nk[list[i - 1]] # k
             /\ es[nk[list[i - 1]]] # NoEntry /\ es[nk[list[i - 1]]].lru_iter = list[i - 1]
  <2>1. i - 1 \in 1..Len(list) /\ list1[i] = list[i - 1]
    BY <1>1, <1>2
  <2>2. list[i - 1] # n /\ list[i - 1] \in Nodes
    BY <1>3, <2>1
  <2>3. nk[list[i - 1]] \in Keys /\ es[nk[list[i - 1]]] # NoEntry
        /\ es[nk[list[i - 1]]].lru_iter = list[i - 1]
    BY <2>1 DEF Fits
  <2> QED BY <1>6, <2>1, <2>2, <2>3
<1>9. \A i \in 1..Len(list1) : i = 1 \/ i \in 2..Len(list1)
  OBVIOUS
<1>10. Distinct(list1)
  <2>1. ASSUME NEW i \in 2..Len(list1), NEW j \in 2..Len(list1), list1[i] = list1[j] PROVE i = j
    <3>1. i - 1 \in 1..Len(list) /\ j - 1 \in 1..Len(list) /\ list[i - 1] = list[j - 1]
      BY <1>8, <2>1
    <3>2. i - 1 = j - 1
      BY <1>1, <3>1 DEF Distinct
    <3> QED BY <3>2
  <2> QED BY <1>2, <1>8, <1>9, <2>1 DEF Distinct
<1>11. ASSUME NEW j \in Keys, es1[j] # NoEntry
       PROVE  \E i \in 1..Len(list1) : list1[i] = es1[j].lru_iter /\ nk1[list1[i]] = j
  <2>1. CASE j = k
    <3>1. 1 \in 1..Len(list1)
      BY <1>1, <1>2
    <3> QED BY <1>2, <1>4, <1>5, <1>6, <2>1, <3>1
  <2>2. CASE j # k
    <3>1. PICK q \in 1..Len(list) : list[q] = es[j].lru_iter /\ nk[list[q]] = j
      BY <1>5, <1>11, <2>2 DEF Fits
    <3>2. q + 1 \in 2..Len(list1) /\ q + 1 \in 1..Len(list1) /\ (q + 1) - 1 = q
      BY <1>1, <1>2
    <3>3. list1[q + 1] = list[q] /\ nk1[list1[q + 1]] = nk[list[q]]
      BY <1>8, <3>2
    <3> QED BY <1>5, <2>2, <3>1, <3>2, <3>3
  <2> QED BY <2>1, <2>2
<1>12. ASSUME NEW i \in 1..Len(list1)
       PROVE  /\ nk1[list1[i]] \in Keys /\ es1[nk1[list1[i]]] # NoEntry
              /\ es1[nk1[list1[i]]].lru_iter = list1[i]
  <2>1. CASE i = 1
    BY <1>2, <1>4, <1>5, <1>6, <2>1
  <2>2. CASE i \in 2..Len(list1)
    BY <1>5, <1>8, <2>2
  <2> QED BY <1>9, <2>1, <2>2
<1>13. ASSUME NEW i \in 1..Len(list1), NEW j \in 1..Len(list1), i < j
       PROVE  lu1[nk1[list1[i]]] > lu1[nk1[list1[j]]]
  <2>1. j \in 2..Len(list1)
    BY <1>13
  <2>2. j - 1 \in 1..Len(list) /\ nk1[list1[j]] = nk[list[j - 1]] /\ nk[list[j - 1]] \in Keys
        /\ lu1[nk1[list1[j]]] = lu[nk[list[j - 1]]]
    BY <1>7, <1>8, <2>1
  <2>3. CASE i = 1
    <3>1. lu1[nk1[list1[i]]] = c
      BY <1>2, <1>6, <1>7, <2>3
    <3>2. lu[nk[list[j - 1]]] < c /\ lu[nk[list[j - 1]]] \in Nat
      BY <1>1, <2>2
    <3> QED BY <2>2, <3>1, <3>2
  <2>4. CASE i \in 2..Len(list1)
    <3>1. i - 1 \in 1..Len(list) /\ nk1[list1[i]] = nk[list[i - 1]]
          /\ lu1[nk1[list1[i]]] = lu[nk[list[i - 1]]]
      BY <1>7, <1>8, <2>4
    <3>2. i - 1 < j - 1
      BY <1>13
    <3>3. lu[nk[list[i - 1]]] > lu[nk[list[j - 1]]]
      BY <2>2, <3>1, <3>2 DEF Fits
    <3> QED BY <2>2, <3>1, <3>3
  <2> QED BY <1>9, <2>3, <2>4
<1>14. Fits(es1, list1, nk1, lu1)
  BY <1>1, <1>2, <1>5, <1>6, <1>7, <1>10, <1>11, <1>12, <1>13 DEF Fits
<1> QED BY <1>14, Zenon DEF es1, list1, nk1, lu1, e

Held(es) == {k \in Keys : es[k] # NoEntry}
Oldest(S, lu) == {o \in S : \A p \in S : lu[o] <= lu[p]}

(* The map has as many keys as the list has nodes, and the key in the last *)
(* node is the one whose last use lies furthest back.                      *)
LEMMA FitsFacts ==
  ASSUME NEW es, NEW list, NEW nk, NEW lu, Fits(es, list, nk, lu)
  PROVE  /\ Cardinality(Held(es)) = Len(list)
         /\ Len(list) > 0 => Oldest(Held(es), lu) = {nk[Last(list)]}
<1> DEFINE P == {k \in Keys : es[k] # NoEntry}
           f == [i \in 1..Len(list) |-> nk[list[i]]]
<1>1. Len(list) \in Nat /\ Distinct(list) /\ lu \in [Keys -> Nat]
  BY LenProperties DEF Fits
<1>2. f \in [1..Len(list) -> P]
  BY DEF Fits
<1>3. \A i, j \in 1..Len(list) : f[i] = f[j] => i = j
  BY <1>1 DEF Fits, Distinct
<1>4. \A k \in P : \E i \in 1..Len(list) : f[i] = k
  BY DEF Fits
<1>5. \A i, j \in 1..Len(list) : i < j => lu[f[i]] > lu[f[j]]
  BY DEF Fits
<1>6. f \in Bijection(1..Len(list), P)
  <2> HIDE DEF f, P
  <2> QED BY <1>2, <1>3, <1>4 DEF Bijection, Injection, Surjection, IsInjective
<1>7. Cardinality(P) = Len(list)
  <2>1. ExistsBijection(1..Len(list), P)
    BY <1>6 DEF ExistsBijection
  <2> HIDE DEF P
  <2> QED BY <1>1, <2>1, FS_CountingElements
<1>8. ASSUME Len(list) > 0
      PROVE  {o \in P : \A p \in P : lu[o] <= lu[p]} = {nk[Last(list)]}
  <2> DEFINE l == Len(list)
  <2>1. l \in 1..Len(list) /\ f[l] = nk[Last(list)] /\ f[l] \in P
    BY <1>1, <1>2, <1>8 DEF Last
  <2>2. \A k \in P : lu[k] \in Nat
    BY <1>1
  <2> HIDE DEF f, P
  <2>3. ASSUME NEW k \in P, k # f[l] PROVE lu[f[l]] < lu[k]
    <3>1. PICK i \in 1..Len(list) : f[i] = k
      BY <1>4
    <3>2. i < l
      BY <1>1, <2>3, <3>1
    <3> QED BY <1>5, <2>1, <2>2, <3>1, <3>2
  <2>4. \A k \in P : lu[f[l]] <= lu[k]
    BY <2>1, <2>2, <2>3
  <2>5. ASSUME NEW o \in P, \A p \in P : lu[o] <= lu[p] PROVE o = f[l]
    BY <2>1, <2>2, <2>3, <2>5
  <2>6. {o \in P : \A p \in P : lu[o] <= lu[p]} = {f[l]}
    BY <2>1, <2>4, <2>5
  <2> QED BY <2>1, <2>6
<1> QED BY <1>7, <1>8, Zenon DEF Held, Oldest

-----------------------------------------------------------------------------
(* The inductive invariant of lru_map.                                     *)
LruInv ==
    /\ Fits(entries, entries_lru, nodeKey, lastUse)
    /\ max \in Nat /\ clock \in Nat /\ \A k \in Keys : lastUse[k] <= clock

LEMMA LruStarts == Init => LruInv
<1> SUFFICES ASSUME Init PROVE LruInv
  OBVIOUS
<1>1. max \in Nat
  BY MaxArgsAssumption, SizeModAssumption DEF Init
<1>2. entries_lru = <<>> /\ Len(entries_lru) = 0 /\ entries_lru \in Seq(Nodes)
  BY DEF Init
<1>3. Fits(entries, entries_lru, nodeKey, lastUse)
  BY <1>2 DEF Init, Fits, Distinct, Entries
<1> QED BY <1>1, <1>3 DEF Init, LruInv

(* A use of a key makes its time the latest.                               *)
LEMMA UseFacts ==
  ASSUME LruInv, NEW k \in Keys, Use(k)
  PROVE  /\ clock + 1 \in Nat /\ \A j \in Keys : lastUse[j] < clock + 1
         /\ lastUse' = [lastUse EXCEPT ![k] = clock + 1] /\ clock' = clock + 1
         /\ clock' \in Nat /\ \A j \in Keys : lastUse'[j] <= clock'
<1>1. lastUse \in [Keys -> Nat] /\ clock \in Nat /\ \A j \in Keys : lastUse[j] <= clock
  BY DEF LruInv, Fits
<1>2. lastUse' = [lastUse EXCEPT ![k] = clock + 1] /\ clock' = clock + 1
  BY DEF Use
<1> QED BY <1>1, <1>2

(* The abstract map that LruSpec speaks of.                                *)
Vals(es) == [k \in Keys |-> es[k].value]

LEMMA ValsFacts ==
  ASSUME NEW es \in [Keys -> Entries]
  PROVE  /\ \A k \in Keys : Vals(es)[k] = es[k].value /\ (Vals(es)[k] # NoValue <=> es[k] # NoEntry)
         /\ Abstract!Present(Vals(es)) = {k \in Keys : es[k] # NoEntry}
         /\ \A k \in Keys : Vals([es EXCEPT ![k] = NoEntry]) = [Vals(es) EXCEPT ![k] = NoValue]
         /\ \A k \in Keys, e \in Entries : Vals([es EXCEPT ![k] = e]) = [Vals(es) EXCEPT ![k] = e.value]
<1>1. NoEntry.value = NoValue /\ NoEntry \in Entries
      /\ \A e \in Entries : e.value = NoValue <=> e = NoEntry
  BY NoValueAssumption DEF NoEntry, Entries
<1>2. \A k \in Keys : Vals(es)[k] = es[k].value /\ (Vals(es)[k] # NoValue <=> es[k] # NoEntry)
  BY <1>1 DEF Vals
<1>3. Abstract!Present(Vals(es)) = {k \in Keys : es[k] # NoEntry}
  BY <1>2 DEF Abstract!Present
<1>4. \A k \in Keys, e \in Entries : Vals([es EXCEPT ![k] = e]) = [Vals(es) EXCEPT ![k] = e.value]
  BY DEF Vals
<1>5. \A k \in Keys : Vals([es EXCEPT ![k] = NoEntry]) = [Vals(es) EXCEPT ![k] = NoValue]
  BY <1>1, <1>4
<1> QED BY <1>2, <1>3, <1>4, <1>5

LEMMA AbstractCardinality == \A S : Abstract!Cardinality(S) = Cardinality(S)
BY DEF Abstract!Cardinality, Cardinality

LEMMA FindRefines ==
  ASSUME LruInv, NEW k \in Keys, Find(k)
  PROVE  LruInv' /\ Abstract!Find(k)
<1>1. Fits(entries, entries_lru, nodeKey, lastUse) /\ entries \in [Keys -> Entries]
  BY DEF LruInv, Fits
<1>2. Abstract!Present(Vals(entries)) = Present /\ Vals(entries)[k] = entries[k].value
  BY <1>1, ValsFacts DEF Present
<1>3. ret' = Vals(entries)[k] /\ max' = max
  BY <1>2 DEF Find
<1>4. CASE k \notin Present
  <2>1. UNCHANGED <<entries, entries_lru, nodeKey, clock, lastUse>>
    BY <1>4 DEF Find
  <2>2. LruInv'
    BY <1>3, <2>1 DEF LruInv
  <2>3. Abstract!Find(k)
    BY <1>2, <1>3, <1>4, <2>1 DEF Abstract!Find, Vals
  <2> QED BY <2>2, <2>3
<1>5. CASE k \in Present
  <2> DEFINE it == entries[k].lru_iter
             rest == Unlink(entries_lru, it)
             es0 == [entries EXCEPT ![k] = NoEntry]
             v == entries[k].value
  <2>1. Use(k)
    BY <1>5 DEF Find
  <2>2. PICK n \in Nodes : /\ Fresh(rest, n) /\ entries_lru' = Cons(n, rest)
                          /\ nodeKey' = [Freed(nodeKey, it) EXCEPT ![n] = k]
                          /\ entries' = [entries EXCEPT ![k].lru_iter = n]
    BY <1>5 DEF Find, PointsTo
  <2>3. entries[k] # NoEntry /\ entries[k] \in [value : Values, lru_iter : Nodes] /\ v \in Values
    BY <1>1, <1>5 DEF Present, Entries
  <2>4. Fits(es0, rest, Freed(nodeKey, it), lastUse)
    BY <1>1, <2>3, UnlinkFits, Zenon
  <2>5. es0[k] = NoEntry
    BY <1>1
  <2>6. entries' = [es0 EXCEPT ![k] = [value |-> v, lru_iter |-> n]]
    <3> DEFINE e == [value |-> v, lru_iter |-> n]
    <3>1. [entries[k] EXCEPT !.lru_iter = n] = e
      BY <2>3
    <3>2. entries' = [entries EXCEPT ![k] = e]
      BY <1>1, <2>2, <3>1
    <3> HIDE DEF e
    <3>3. [es0 EXCEPT ![k] = e] = [entries EXCEPT ![k] = e]
      BY <1>1
    <3> QED BY <3>2, <3>3 DEF e
  <2>7. clock + 1 \in Nat /\ \A j \in Keys : lastUse[j] < clock + 1
    BY <2>1, UseFacts
  <2>8. lastUse' = [lastUse EXCEPT ![k] = clock + 1] /\ clock' = clock + 1
        /\ clock' \in Nat /\ \A j \in Keys : lastUse'[j] <= clock'
    BY <2>1, UseFacts
  <2> HIDE DEF es0, rest, v, it
  <2>9. Fits(entries', entries_lru', nodeKey', lastUse')
    <3> DEFINE nk == Freed(nodeKey, it)
               c == clock + 1
    <3>1. Fits(es0, rest, nk, lastUse) /\ c \in Nat /\ \A j \in Keys : lastUse[j] < c
      BY <2>4, <2>7
    <3> HIDE DEF nk, c
    <3>2. Fits([es0 EXCEPT ![k] = [value |-> v, lru_iter |-> n]], Cons(n, rest), [nk EXCEPT ![n] = k],
               [lastUse EXCEPT ![k] = c])
      BY <2>2, <2>3, <2>5, <3>1, PushFits, Zenon
    <3> QED BY <2>2, <2>6, <2>8, <3>2, Zenon DEF nk, c
  <2>10. LruInv'
    BY <1>3, <2>8, <2>9 DEF LruInv
  <2>11. Vals(entries') = Vals(entries)
    BY <1>1, <2>2, <2>3 DEF Vals
  <2>12. Abstract!Use(k)
    BY <2>8 DEF Abstract!Use
  <2>13. Abstract!Find(k)
    BY <1>2, <1>3, <1>5, <2>11, <2>12 DEF Abstract!Find, Vals
  <2> QED BY <2>10, <2>13
<1> QED BY <1>4, <1>5

LEMMA EraseRefines ==
  ASSUME LruInv, NEW k \in Keys, Erase(k)
  PROVE  LruInv' /\ Abstract!Erase(k)
<1>1. Fits(entries, entries_lru, nodeKey, lastUse) /\ entries \in [Keys -> Entries]
  BY DEF LruInv, Fits
<1>2. UNCHANGED <<max, ret, lastUse, clock>>
  BY DEF Erase
<1>3. CASE k \notin Present
  <2>1. UNCHANGED <<entries, entries_lru, nodeKey>> /\ entries[k] = NoEntry
    BY <1>3 DEF Erase, Present
  <2>2. LruInv'
    BY <1>2, <2>1 DEF LruInv
  <2>3. Vals(entries)[k] = NoValue
    BY <1>1, <2>1, ValsFacts
  <2>4. [Vals(entries) EXCEPT ![k] = NoValue] = Vals(entries)
    BY <2>3 DEF Vals
  <2> QED BY <1>2, <2>1, <2>2, <2>4 DEF Abstract!Erase, Vals
<1>4. CASE k \in Present
  <2>1. /\ entries_lru' = Unlink(entries_lru, entries[k].lru_iter)
        /\ nodeKey' = Freed(nodeKey, entries[k].lru_iter)
        /\ entries' = [entries EXCEPT ![k] = NoEntry]
    BY <1>4 DEF Erase
  <2>2. entries[k] # NoEntry
    BY <1>4 DEF Present
  <2>3. Fits([entries EXCEPT ![k] = NoEntry], Unlink(entries_lru, entries[k].lru_iter),
             Freed(nodeKey, entries[k].lru_iter), lastUse)
    BY <1>1, <2>2, UnlinkFits, Zenon
  <2>4. Fits(entries', entries_lru', nodeKey', lastUse')
    BY <1>2, <2>1, <2>3, Zenon
  <2>5. LruInv'
    BY <1>2, <2>4 DEF LruInv
  <2>6. Vals(entries') = [Vals(entries) EXCEPT ![k] = NoValue]
    BY <1>1, <2>1, ValsFacts
  <2> QED BY <1>2, <2>5, <2>6 DEF Abstract!Erase, Vals
<1> QED BY <1>3, <1>4

LEMMA AddRefines ==
  ASSUME LruInv, NEW k \in Keys, NEW v \in Values, Add(k, v)
  PROVE  LruInv' /\ Abstract!Add(k, v)
<1> DEFINE it == entries[k].lru_iter
           rest == IF k \in Present THEN Unlink(entries_lru, it) ELSE entries_lru
           keyOf == IF k \in Present THEN Freed(nodeKey, it) ELSE nodeKey
           es0 == IF k \in Present THEN [entries EXCEPT ![k] = NoEntry] ELSE entries
           list(n) == Cons(n, rest)
           keys(n) == [keyOf EXCEPT ![n] = k]
           es(n) == [entries EXCEPT ![k] = [value |-> v, lru_iter |-> n]]
<1>1. Fits(entries, entries_lru, nodeKey, lastUse) /\ entries \in [Keys -> Entries] /\ max \in Nat
  BY DEF LruInv, Fits
<1>2. Use(k) /\ UNCHANGED <<max, ret>>
  BY DEF Add
<1>3. PICK n \in Nodes :
        /\ Fresh(rest, n)
        /\ IF Len(list(n)) > max
             THEN /\ entries' = [es(n) EXCEPT ![keys(n)[Victim(list(n))]] = NoEntry]
                  /\ entries_lru' = Unlink(list(n), Victim(list(n)))
                  /\ nodeKey' = Freed(keys(n), Victim(list(n)))
             ELSE entries' = es(n) /\ entries_lru' = list(n) /\ nodeKey' = keys(n)
  BY DEF Add
<1>4. Fits(es0, rest, keyOf, lastUse) /\ es0[k] = NoEntry
  <2>1. CASE k \in Present
    <3>1. entries[k] # NoEntry
      BY <2>1 DEF Present
    <3>2. Fits([entries EXCEPT ![k] = NoEntry], Unlink(entries_lru, entries[k].lru_iter),
               Freed(nodeKey, entries[k].lru_iter), lastUse)
      BY <1>1, <3>1, UnlinkFits, Zenon
    <3> QED BY <1>1, <2>1, <3>2
  <2>2. CASE k \notin Present
    BY <1>1, <2>2 DEF Present
  <2> QED BY <2>1, <2>2
<1>5. es(n) = [es0 EXCEPT ![k] = [value |-> v, lru_iter |-> n]]
  <2> DEFINE e == [value |-> v, lru_iter |-> n]
  <2>1. [entries EXCEPT ![k] = e] = [es0 EXCEPT ![k] = e]
    <3> HIDE DEF e
    <3> QED BY <1>1
  <2> QED BY <2>1
<1>6. /\ clock + 1 \in Nat /\ (\A j \in Keys : lastUse[j] < clock + 1)
      /\ lastUse' = [lastUse EXCEPT ![k] = clock + 1] /\ clock' = clock + 1
      /\ clock' \in Nat /\ \A j \in Keys : lastUse'[j] <= clock'
  BY <1>2, UseFacts
<1>7. Fits(es(n), list(n), keys(n), lastUse')
  <2> HIDE DEF es0, rest, keyOf
  <2> DEFINE c == clock + 1
  <2>1. c \in Nat /\ (\A j \in Keys : lastUse[j] < c) /\ lastUse' = [lastUse EXCEPT ![k] = c]
    BY <1>6
  <2> HIDE DEF c
  <2>2. Fits([es0 EXCEPT ![k] = [value |-> v, lru_iter |-> n]], Cons(n, rest), [keyOf EXCEPT ![n] = k],
             [lastUse EXCEPT ![k] = c])
    BY <1>3, <1>4, <2>1, PushFits, Zenon
  <2> QED BY <1>5, <2>1, <2>2, Zenon
<1>8. Vals(es(n)) = [Vals(entries) EXCEPT ![k] = v]
  <2> DEFINE e == [value |-> v, lru_iter |-> n]
  <2>1. e \in Entries /\ e.value = v
    BY DEF Entries
  <2> HIDE DEF e
  <2>2. Vals([entries EXCEPT ![k] = e]) = [Vals(entries) EXCEPT ![k] = e.value]
    BY <1>1, <2>1 DEF Vals
  <2> QED BY <2>1, <2>2 DEF e
<1> DEFINE l == list(n)
           m == keys(n)
           x == es(n)
           full == [Vals(entries) EXCEPT ![k] = v]
           P == {j \in Keys : x[j] # NoEntry}
           vk == m[Victim(l)]
           oldest == {o \in Abstract!Present(full) :
                        \A p \in Abstract!Present(full) : lastUse'[o] <= lastUse'[p]}
<1>9. /\ Fits(x, l, m, lastUse') /\ full = Vals(x)
      /\ IF Len(l) > max
           THEN /\ entries' = [x EXCEPT ![vk] = NoEntry]
                /\ entries_lru' = Unlink(l, Victim(l)) /\ nodeKey' = Freed(m, Victim(l))
           ELSE entries' = x /\ entries_lru' = l /\ nodeKey' = m
  BY <1>3, <1>7, <1>8
<1> HIDE DEF list, keys, es, l, m, x
<1>10. x \in [Keys -> Entries] /\ l \in Seq(Nodes) /\ Len(l) \in Nat
  BY <1>9, LenProperties DEF Fits
<1>11. Abstract!Present(full) = P
  BY <1>9, <1>10, ValsFacts
<1>12. Cardinality(P) = Len(l) /\ (Len(l) > 0 => {o \in P : \A p \in P : lastUse'[o] <= lastUse'[p]} = {vk})
  <2> DEFINE lu == lastUse'
  <2>1. Fits(x, l, m, lu)
    BY <1>9
  <2> HIDE DEF lu
  <2>2. Cardinality(Held(x)) = Len(l) /\ (Len(l) > 0 => Oldest(Held(x), lu) = {m[Last(l)]})
    BY <2>1, FitsFacts, Zenon
  <2> QED BY <2>2, Zenon DEF lu, Victim, Held, Oldest
<1>13. Abstract!Use(k)
  BY <1>6 DEF Abstract!Use
<1>14. CASE Len(l) > max
  <2>1. oldest = {vk}
    <3>1. oldest = {o \in P : \A p \in P : lastUse'[o] <= lastUse'[p]}
      BY <1>11, Zenon
    <3>2. Len(l) > 0
      BY <1>1, <1>10, <1>14
    <3> QED BY <1>12, <3>1, <3>2, Zenon
  <2>2. vk \in Keys /\ x[vk] # NoEntry /\ x[vk].lru_iter = Victim(l)
    <3>1. Len(l) \in 1..Len(l)
      BY <1>1, <1>10, <1>14
    <3> QED BY <1>9, <3>1 DEF Fits, Victim, Last
  <2>3. Fits(entries', entries_lru', nodeKey', lastUse')
    <3> HIDE DEF vk
    <3>1. Fits([x EXCEPT ![vk] = NoEntry], Unlink(l, x[vk].lru_iter), Freed(m, x[vk].lru_iter), lastUse')
      <4> DEFINE lu == lastUse'
      <4>1. Fits(x, l, m, lu)
        BY <1>9
      <4> HIDE DEF lu
      <4>2. Fits([x EXCEPT ![vk] = NoEntry], Unlink(l, x[vk].lru_iter), Freed(m, x[vk].lru_iter), lu)
        BY <2>2, <4>1, UnlinkFits, Zenon
      <4> QED BY <4>2 DEF lu
    <3> QED BY <1>9, <1>14, <2>2, <3>1, Zenon
  <2>4. Vals(entries') = [j \in Keys |-> IF j \in oldest THEN NoValue ELSE full[j]]
    <3>1. entries' = [x EXCEPT ![vk] = NoEntry] /\ full = Vals(x)
      BY <1>9, <1>14
    <3> HIDE DEF full, vk, oldest
    <3>2. Vals(entries') = [full EXCEPT ![vk] = NoValue]
      BY <1>10, <2>2, <3>1, ValsFacts
    <3>3. DOMAIN full = Keys
      BY <3>1 DEF Vals
    <3> QED BY <2>1, <2>2, <3>1, <3>2, <3>3 DEF Vals
  <2>5. LruInv'
    BY <1>1, <1>2, <1>6, <2>3 DEF LruInv
  <2>6. Abstract!Cardinality(Abstract!Present(full)) > max
    <3>1. Cardinality(Abstract!Present(full)) > max
      BY <1>11, <1>12, <1>14
    <3> QED BY <3>1, AbstractCardinality, Zenon
  <2>7. Abstract!Add(k, v)
    BY <1>2, <1>13, <2>4, <2>6, Zenon DEF Abstract!Add, Vals
  <2> QED BY <2>5, <2>7
<1>15. CASE ~(Len(l) > max)
  <2>1. entries' = x /\ entries_lru' = l /\ nodeKey' = m
    BY <1>9, <1>15
  <2>2. LruInv'
    BY <1>1, <1>2, <1>6, <1>9, <2>1 DEF LruInv
  <2>3. Vals(entries') = full
    BY <1>9, <2>1
  <2>4. ~(Abstract!Cardinality(Abstract!Present(full)) > max)
    <3>1. ~(Cardinality(Abstract!Present(full)) > max)
      BY <1>11, <1>12, <1>15
    <3> QED BY <3>1, AbstractCardinality, Zenon
  <2>5. Abstract!Add(k, v)
    BY <1>2, <1>13, <2>3, <2>4, Zenon DEF Abstract!Add, Vals
  <2> QED BY <2>2, <2>5
<1> QED BY <1>14, <1>15

-----------------------------------------------------------------------------
LEMMA LruStep == LruInv /\ [Next]_vars => LruInv' /\ [Abstract!Next]_(Abstract!vars)
<1> SUFFICES ASSUME LruInv, [Next]_vars PROVE LruInv' /\ [Abstract!Next]_(Abstract!vars)
  OBVIOUS
<1>1. ASSUME NEW k \in Keys, Find(k) \/ Erase(k) \/ \E v \in Values : Add(k, v)
      PROVE  LruInv' /\ Abstract!Next
  BY <1>1, FindRefines, EraseRefines, AddRefines DEF Abstract!Next
<1>2. CASE UNCHANGED vars
  BY <1>2 DEF vars, LruInv, Abstract!vars
<1> QED BY <1>1, <1>2 DEF Next

(* Through any calls of find, add and erase, evictions and the reuse of    *)
(* freed nodes included, the map and the list of lru_map describe each     *)
(* other, for any number of keys and any capacity: no iterator dangles.    *)
THEOREM LruLinked == Spec => []Linked
<1>1. LruInv => Linked
  <2> SUFFICES ASSUME LruInv PROVE Linked
    OBVIOUS
  <2>1. Fits(entries, entries_lru, nodeKey, lastUse) /\ Len(entries_lru) \in Nat
        /\ DOMAIN entries_lru = 1..Len(entries_lru)
    BY LenProperties DEF LruInv, Fits
  <2> QED BY <2>1 DEF Fits, Distinct, Linked, Present, ToSet
<1> QED BY <1>1, LruStarts, LruStep, PTL DEF Spec

(* lru_map is the abstract LRU map: after find, add and erase it holds the *)
(* values that a map evicting the least recently used keys holds, and find *)
(* returns what that map has.                                              *)
THEOREM LruImplemented == Spec => ImplementsLru
<1>1. Init => Abstract!Init
  <2> SUFFICES ASSUME Init PROVE Abstract!Init
    OBVIOUS
  <2>1. max \in Nat
    BY LruStarts DEF LruInv
  <2>2. [k \in Keys |-> entries[k].value] = [k \in Keys |-> NoValue]
    BY DEF Init, NoEntry
  <2> QED BY <2>1, <2>2 DEF Init, Abstract!Init
<1> QED BY <1>1, LruStarts, LruStep, PTL DEF Spec, ImplementsLru, Abstract!Spec

(***************************************************************************)
(* Greeter: any number of CallData objects, threads and calls.             *)
(***************************************************************************)

EventSet == [tag : CallDatas, for : {"PROCESS", "FINISH"}, ok : BOOLEAN]

Holding(h) == at[h] \in {"proceed", "reply", "finish"}

GreeterTypeOK ==
    /\ status_ \in [CallDatas -> {"free", "PROCESS", "FINISH"}]
    /\ at \in [RpcThreads -> {"start", "next", "proceed", "reply", "finish"}]
    /\ tag \in [RpcThreads -> EventSet \cup {NoEvent}]
    /\ \A h \in RpcThreads : Holding(h) => tag[h] \in EventSet
    /\ offered \subseteq CallDatas /\ finishing \subseteq CallDatas /\ cq \subseteq EventSet

(* The state of an object fits what is to be done with it next.            *)
StatusFits ==
    /\ \A d \in offered : status_[d] = "PROCESS"
    /\ \A d \in finishing : status_[d] = "FINISH"
    /\ \A e \in cq : status_[e.tag] = e.for
    /\ \A h \in RpcThreads :
        /\ at[h] = "proceed" => status_[tag[h].tag] = tag[h].for
        /\ at[h] = "reply" => status_[tag[h].tag] = "PROCESS"
        /\ at[h] = "finish" => status_[tag[h].tag] = "FINISH"

(* An object is known in one place only: on offer, being finished, in one  *)
(* event of the queue or to one thread.                                    *)
KnownOnce ==
    /\ \A e \in cq : e.tag \notin offered \cup finishing
    /\ \A e, f \in cq : e.tag = f.tag => e = f
    /\ \A h \in RpcThreads : Holding(h) =>
        /\ tag[h].tag \notin offered \cup finishing
        /\ \A e \in cq : e.tag # tag[h].tag
        /\ \A i \in RpcThreads : Holding(i) /\ tag[i].tag = tag[h].tag => i = h

Started == {h \in RpcThreads : at[h] # "start"}

OnePerThread ==
    Cardinality(offered) + Cardinality(Tags("PROCESS")) = Cardinality(Started)

GreeterInv == GreeterTypeOK /\ StatusFits /\ KnownOnce /\ OnePerThread

-----------------------------------------------------------------------------
LEMMA TagsFacts ==
  ASSUME NEW kind, NEW d
  PROVE  d \in Tags(kind) <=> \/ \E e \in cq : e.for = kind /\ e.tag = d
                              \/ \E h \in RpcThreads : at[h] = "proceed" /\ tag[h].for = kind /\ tag[h].tag = d
BY DEF Tags, Events

LEMMA GreeterStarts == GreeterInit => GreeterInv
<1> SUFFICES ASSUME GreeterInit PROVE GreeterInv
  OBVIOUS
<1>1. GreeterTypeOK
  BY DEF GreeterInit, GreeterTypeOK, Holding
<1>2. StatusFits /\ KnownOnce
  BY DEF GreeterInit, StatusFits, KnownOnce, Holding
<1>3. Tags("PROCESS") = {} /\ Started = {} /\ offered = {}
  BY TagsFacts DEF GreeterInit, Started
<1>4. OnePerThread
  BY <1>3, FS_EmptySet DEF OnePerThread
<1> QED BY <1>1, <1>2, <1>4 DEF GreeterInv

LEMMA FiniteFacts ==
  ASSUME GreeterTypeOK
  PROVE  /\ IsFiniteSet(offered) /\ IsFiniteSet(Tags("PROCESS")) /\ IsFiniteSet(Started)
         /\ Cardinality(offered) \in Nat /\ Cardinality(Tags("PROCESS")) \in Nat /\ Cardinality(Started) \in Nat
         /\ Tags("PROCESS") \subseteq CallDatas /\ Started \subseteq RpcThreads
<1>1. IsFiniteSet(CallDatas) /\ IsFiniteSet(RpcThreads)
  BY GreeterAssumption
<1>2. Tags("PROCESS") \subseteq CallDatas
  BY TagsFacts DEF GreeterTypeOK, EventSet, Holding
<1>3. offered \subseteq CallDatas /\ Started \subseteq RpcThreads
  BY DEF GreeterTypeOK, Started
<1> DEFINE T == Tags("PROCESS")
<1> HIDE DEF T
<1>4. T \subseteq CallDatas
  BY <1>2 DEF T
<1>5. IsFiniteSet(offered) /\ IsFiniteSet(T) /\ IsFiniteSet(Started)
  BY <1>1, <1>3, <1>4, FS_Subset
<1>6. Cardinality(offered) \in Nat /\ Cardinality(T) \in Nat /\ Cardinality(Started) \in Nat
  BY <1>5, FS_CardinalityType
<1> QED BY <1>3, <1>4, <1>5, <1>6 DEF T

(* The count of CallDatas against threads, when one comes on offer.        *)
LEMMA OfferCounts ==
  ASSUME GreeterTypeOK, NEW d \in CallDatas, d \notin offered, offered' = offered \cup {d}
  PROVE  Cardinality(offered') = Cardinality(offered) + 1
BY FiniteFacts, FS_AddElement

(* A new CallData is known to nobody else, and nothing else changes.       *)
LEMMA NewIsUnknown ==
  ASSUME GreeterInv, NEW d \in CallDatas, status_[d] = "free"
  PROVE  /\ d \notin offered \cup finishing /\ \A e \in cq : e.tag # d
         /\ \A h \in RpcThreads : Holding(h) => tag[h].tag # d
<1>1. \A e \in EventSet : e.for \in {"PROCESS", "FINISH"} /\ e.tag \in CallDatas
  BY DEF EventSet
<1>2. d \notin offered \cup finishing
  BY DEF GreeterInv, StatusFits
<1>3. \A e \in cq : e.tag # d
  BY <1>1 DEF GreeterInv, StatusFits, GreeterTypeOK
<1>4. ASSUME NEW h \in RpcThreads, Holding(h) PROVE tag[h].tag # d
  <2>1. tag[h] \in EventSet
    BY <1>4 DEF GreeterInv, GreeterTypeOK
  <2> QED BY <1>1, <1>4, <2>1 DEF GreeterInv, StatusFits, Holding
<1> QED BY <1>2, <1>3, <1>4

LEMMA HandleRpcsKeeps ==
  ASSUME GreeterInv, NEW h \in RpcThreads, HandleRpcs(h)
  PROVE  GreeterInv'
<1>1. GreeterTypeOK /\ StatusFits /\ KnownOnce /\ OnePerThread
  BY DEF GreeterInv
<1>2. PICK d \in CallDatas : /\ status_[d] = "free" /\ status_' = [status_ EXCEPT ![d] = "PROCESS"]
                            /\ offered' = offered \cup {d}
  BY DEF HandleRpcs, NewCallData
<1>3. at[h] = "start" /\ at' = [at EXCEPT ![h] = "next"] /\ UNCHANGED <<tag, aborted, finishing, cq, rpcs>>
  BY DEF HandleRpcs, Go
<1>4. /\ d \notin offered \cup finishing /\ (\A e \in cq : e.tag # d)
      /\ \A i \in RpcThreads : Holding(i) => tag[i].tag # d
  BY <1>2, NewIsUnknown
<1>5. \A i \in RpcThreads : /\ at'[i] = IF i = h THEN "next" ELSE at[i]
                            /\ Holding(i)' <=> Holding(i)
  BY <1>1, <1>3 DEF GreeterTypeOK, Holding
<1>6. \A c \in CallDatas : status_'[c] = IF c = d THEN "PROCESS" ELSE status_[c]
  BY <1>1, <1>2 DEF GreeterTypeOK
<1>7. GreeterTypeOK'
  BY <1>1, <1>2, <1>3, <1>5 DEF GreeterTypeOK
<1>8. StatusFits'
  <2>1. \A e \in EventSet : e.tag \in CallDatas
    BY DEF EventSet
  <2>2. \A c \in offered' : status_'[c] = "PROCESS"
    BY <1>1, <1>2, <1>6 DEF StatusFits, GreeterTypeOK
  <2>3. \A c \in finishing' : status_'[c] = "FINISH"
    BY <1>1, <1>3, <1>4, <1>6 DEF StatusFits, GreeterTypeOK
  <2>4. \A e \in cq' : status_'[e.tag] = e.for
    BY <1>1, <1>3, <1>4, <1>6, <2>1 DEF StatusFits, GreeterTypeOK
  <2>5. ASSUME NEW i \in RpcThreads
        PROVE  /\ at'[i] = "proceed" => status_'[tag'[i].tag] = tag'[i].for
               /\ at'[i] = "reply" => status_'[tag'[i].tag] = "PROCESS"
               /\ at'[i] = "finish" => status_'[tag'[i].tag] = "FINISH"
    <3>1. CASE Holding(i)
      <4>1. tag[i].tag \in CallDatas /\ tag[i].tag # d /\ at'[i] = at[i] /\ tag' = tag
        BY <1>1, <1>3, <1>4, <1>5, <2>1, <3>1 DEF GreeterTypeOK, Holding
      <4> QED BY <1>1, <1>6, <4>1 DEF StatusFits
    <3>2. CASE ~Holding(i)
      BY <1>5, <3>2 DEF Holding
    <3> QED BY <3>1, <3>2
  <2> QED BY <2>2, <2>3, <2>4, <2>5 DEF StatusFits
<1>9. KnownOnce'
  BY <1>1, <1>2, <1>3, <1>4, <1>5 DEF KnownOnce
<1>10. OnePerThread'
  <2>1. Tags("PROCESS")' = Tags("PROCESS")
    <3>1. \A i \in RpcThreads : at'[i] = "proceed" <=> at[i] = "proceed"
      BY <1>3, <1>5
    <3>2. Events' = Events
      BY <1>3, <3>1 DEF Events
    <3> QED BY <3>2 DEF Tags
  <2>2. Started' = Started \cup {h} /\ h \notin Started
    BY <1>3, <1>5 DEF Started
  <2>3. Cardinality(Started') = Cardinality(Started) + 1
    BY <1>1, <2>2, FiniteFacts, FS_AddElement
  <2>4. Cardinality(offered') = Cardinality(offered) + 1
    BY <1>1, <1>2, <1>4, OfferCounts
  <2> QED BY <1>1, <2>1, <2>3, <2>4, FiniteFacts DEF OnePerThread
<1> QED BY <1>7, <1>8, <1>9, <1>10 DEF GreeterInv

LEMMA NextEventKeeps ==
  ASSUME GreeterInv, NEW h \in RpcThreads, NextEvent(h)
  PROVE  GreeterInv'
<1>1. GreeterTypeOK /\ StatusFits /\ KnownOnce /\ OnePerThread
  BY DEF GreeterInv
<1>2. PICK e \in cq : cq' = cq \ {e} /\ tag' = [tag EXCEPT ![h] = e]
  BY DEF NextEvent
<1>3. at[h] = "next" /\ at' = [at EXCEPT ![h] = "proceed"] /\ UNCHANGED <<status_, offered, finishing, rpcs>>
  BY DEF NextEvent, Go
<1>4. \A i \in RpcThreads : /\ at'[i] = IF i = h THEN "proceed" ELSE at[i]
                            /\ tag'[i] = IF i = h THEN e ELSE tag[i]
                            /\ Holding(i)' <=> Holding(i) \/ i = h
  BY <1>1, <1>2, <1>3 DEF GreeterTypeOK, Holding
<1>5. e \in EventSet
  BY <1>1 DEF GreeterTypeOK
<1>6. GreeterTypeOK'
  BY <1>1, <1>2, <1>3, <1>4, <1>5 DEF GreeterTypeOK
<1>7. StatusFits'
  BY <1>1, <1>2, <1>3, <1>4 DEF StatusFits
<1>8. KnownOnce'
  <2>1. ASSUME NEW i \in RpcThreads, Holding(i)'
        PROVE  /\ tag'[i].tag \notin offered \cup finishing
               /\ \A f \in cq' : f.tag # tag'[i].tag
               /\ \A j \in RpcThreads : Holding(j)' /\ tag'[j].tag = tag'[i].tag => j = i
    <3>1. CASE i = h
      BY <1>1, <1>2, <1>4, <3>1 DEF KnownOnce
    <3>2. CASE i # h
      BY <1>1, <1>2, <1>4, <2>1, <3>2 DEF KnownOnce
    <3> QED BY <3>1, <3>2
  <2> QED BY <1>1, <1>2, <1>3, <2>1 DEF KnownOnce
<1>9. OnePerThread'
  <2>1. Events' = Events
    <3>1. \A i \in RpcThreads : at'[i] = "proceed" <=> at[i] = "proceed" \/ i = h
      BY <1>4
    <3>2. \A x : x \in Events' <=> x \in cq' \/ \E i \in RpcThreads : at'[i] = "proceed" /\ tag'[i] = x
      BY DEF Events
    <3>3. \A x : x \in Events <=> x \in cq \/ \E i \in RpcThreads : at[i] = "proceed" /\ tag[i] = x
      BY DEF Events
    <3>4. \A x : x \in Events' <=> x \in Events
      BY <1>2, <1>3, <1>4, <3>2, <3>3
    <3> QED BY <3>4
  <2>2. Tags("PROCESS")' = Tags("PROCESS")
    BY <2>1 DEF Tags
  <2>3. Started' = Started
    BY <1>3, <1>4 DEF Started
  <2> QED BY <1>1, <1>3, <2>2, <2>3 DEF OnePerThread
<1> QED BY <1>6, <1>7, <1>8, <1>9 DEF GreeterInv

LEMMA ProceedProcessKeeps ==
  ASSUME GreeterInv, NEW h \in RpcThreads, ProceedProcess(h)
  PROVE  GreeterInv'
<1>1. GreeterTypeOK /\ StatusFits /\ KnownOnce /\ OnePerThread
  BY DEF GreeterInv
<1>2. PICK d \in CallDatas : /\ status_[d] = "free" /\ status_' = [status_ EXCEPT ![d] = "PROCESS"]
                            /\ offered' = offered \cup {d}
  BY DEF ProceedProcess, NewCallData
<1>3. /\ at[h] = "proceed" /\ status_[tag[h].tag] = "PROCESS" /\ at' = [at EXCEPT ![h] = "reply"]
      /\ UNCHANGED <<tag, aborted, finishing, cq, rpcs>>
  BY DEF ProceedProcess, Go
<1>4. /\ d \notin offered \cup finishing /\ (\A e \in cq : e.tag # d)
      /\ \A i \in RpcThreads : Holding(i) => tag[i].tag # d
  BY <1>2, NewIsUnknown
<1>5. \A i \in RpcThreads : /\ at'[i] = IF i = h THEN "reply" ELSE at[i]
                            /\ Holding(i)' <=> Holding(i)
  BY <1>1, <1>3 DEF GreeterTypeOK, Holding
<1>6. \A c \in CallDatas : status_'[c] = IF c = d THEN "PROCESS" ELSE status_[c]
  BY <1>1, <1>2 DEF GreeterTypeOK
<1>7. GreeterTypeOK'
  BY <1>1, <1>2, <1>3, <1>5 DEF GreeterTypeOK
<1>8. StatusFits'
  <2>1. \A e \in EventSet : e.tag \in CallDatas
    BY DEF EventSet
  <2>2. \A c \in offered' : status_'[c] = "PROCESS"
    BY <1>1, <1>2, <1>6 DEF StatusFits, GreeterTypeOK
  <2>3. \A c \in finishing' : status_'[c] = "FINISH"
    BY <1>1, <1>3, <1>4, <1>6 DEF StatusFits, GreeterTypeOK
  <2>4. \A e \in cq' : status_'[e.tag] = e.for
    BY <1>1, <1>3, <1>4, <1>6, <2>1 DEF StatusFits, GreeterTypeOK
  <2>5. ASSUME NEW i \in RpcThreads
        PROVE  /\ at'[i] = "proceed" => status_'[tag'[i].tag] = tag'[i].for
               /\ at'[i] = "reply" => status_'[tag'[i].tag] = "PROCESS"
               /\ at'[i] = "finish" => status_'[tag'[i].tag] = "FINISH"
    <3>1. CASE Holding(i)
      <4>1. tag[i].tag \in CallDatas /\ tag[i].tag # d /\ tag' = tag
        BY <1>1, <1>3, <1>4, <2>1, <3>1 DEF GreeterTypeOK
      <4> QED BY <1>1, <1>3, <1>5, <1>6, <4>1 DEF StatusFits
    <3>2. CASE ~Holding(i)
      BY <1>3, <1>5, <3>2 DEF Holding
    <3> QED BY <3>1, <3>2
  <2> QED BY <2>2, <2>3, <2>4, <2>5 DEF StatusFits
<1>9. KnownOnce'
  BY <1>1, <1>2, <1>3, <1>4, <1>5 DEF KnownOnce
<1>10. OnePerThread'
  <2> DEFINE T == Tags("PROCESS")
             c == tag[h].tag
  <2>1. tag[h].for = "PROCESS" /\ Holding(h)
    BY <1>1, <1>3 DEF StatusFits, Holding
  <2>2. \A x : x \in T <=> \/ \E e \in cq : e.for = "PROCESS" /\ e.tag = x
                          \/ \E i \in RpcThreads : at[i] = "proceed" /\ tag[i].for = "PROCESS" /\ tag[i].tag = x
    BY TagsFacts
  <2>3. \A x : x \in T' <=> \/ \E e \in cq' : e.for = "PROCESS" /\ e.tag = x
                           \/ \E i \in RpcThreads : at'[i] = "proceed" /\ tag'[i].for = "PROCESS" /\ tag'[i].tag = x
    BY DEF Tags, Events
  <2>4. c \in T
    BY <1>3, <2>1, <2>2
  <2>5. ASSUME NEW x PROVE x \in T' <=> x \in T /\ x # c
    <3>1. (\E e \in cq : e.for = "PROCESS" /\ e.tag = x) => x # c
      BY <1>1, <2>1 DEF KnownOnce
    <3>2. ASSUME NEW i \in RpcThreads, at[i] = "proceed", tag[i].tag = x, i # h PROVE x # c
      BY <1>1, <2>1, <3>2 DEF KnownOnce, Holding
    <3>3. \A i \in RpcThreads : at'[i] = "proceed" <=> at[i] = "proceed" /\ i # h
      BY <1>5
    <3> QED BY <1>3, <2>2, <2>3, <3>1, <3>2, <3>3
  <2>6. T' = T \ {c}
    BY <2>5
  <2>7. IsFiniteSet(T) /\ Cardinality(T) \in Nat
    BY <1>1, FiniteFacts
  <2>8. Cardinality(T') = Cardinality(T) - 1
    <3> DEFINE U == T
               V == T'
    <3>1. IsFiniteSet(U) /\ c \in U /\ V = U \ {c}
      BY <2>4, <2>6, <2>7
    <3> HIDE DEF U, V, c
    <3>2. Cardinality(V) = Cardinality(U) - 1
      BY <3>1, FS_RemoveElement
    <3> QED BY <3>2 DEF U, V
  <2>9. Started' = Started
    BY <1>3, <1>5 DEF Started
  <2>10. Cardinality(offered') = Cardinality(offered) + 1
    BY <1>1, <1>2, <1>4, OfferCounts
  <2>11. Cardinality(offered) \in Nat
    BY <1>1, FiniteFacts
  <2> HIDE DEF T
  <2>12. Cardinality(offered) + Cardinality(T) = Cardinality(Started)
    BY <1>1 DEF OnePerThread, T
  <2>13. Cardinality(offered') + Cardinality(T') = Cardinality(Started')
    BY <2>7, <2>8, <2>9, <2>10, <2>11, <2>12
  <2> QED BY <2>13 DEF OnePerThread, T
<1> QED BY <1>7, <1>8, <1>9, <1>10 DEF GreeterInv

(* Steps that neither offer nor take up a CallData.                        *)
LEMMA CountStays ==
  ASSUME GreeterInv, GreeterTypeOK', offered' = offered,
         \A h \in RpcThreads : at'[h] = "start" <=> at[h] = "start",
         \A x : (\E e \in cq' : e.for = "PROCESS" /\ e.tag = x) <=> (\E e \in cq : e.for = "PROCESS" /\ e.tag = x),
         \A h \in RpcThreads : /\ at'[h] = "proceed" /\ tag'[h].for = "PROCESS"
                                   <=> at[h] = "proceed" /\ tag[h].for = "PROCESS"
                               /\ at'[h] = "proceed" => tag'[h] = tag[h]
  PROVE  OnePerThread'
<1> DEFINE T == Tags("PROCESS")
<1>1. \A x : x \in T <=> \/ \E e \in cq : e.for = "PROCESS" /\ e.tag = x
                        \/ \E i \in RpcThreads : at[i] = "proceed" /\ tag[i].for = "PROCESS" /\ tag[i].tag = x
  BY TagsFacts
<1>2. \A x : x \in T' <=> \/ \E e \in cq' : e.for = "PROCESS" /\ e.tag = x
                         \/ \E i \in RpcThreads : at'[i] = "proceed" /\ tag'[i].for = "PROCESS" /\ tag'[i].tag = x
  BY DEF Tags, Events
<1>3. \A x : x \in T' <=> x \in T
  BY <1>1, <1>2
<1>4. Tags("PROCESS")' = Tags("PROCESS")
  BY <1>3
<1>5. Started' = Started
  BY DEF Started
<1> QED BY <1>4, <1>5 DEF GreeterInv, OnePerThread

LEMMA SetFinishKeeps ==
  ASSUME GreeterInv, NEW h \in RpcThreads, SetFinish(h)
  PROVE  GreeterInv'
<1>1. GreeterTypeOK /\ StatusFits /\ KnownOnce
  BY DEF GreeterInv
<1>2. /\ at[h] = "reply" /\ at' = [at EXCEPT ![h] = "finish"]
      /\ status_' = [status_ EXCEPT ![tag[h].tag] = "FINISH"]
      /\ UNCHANGED <<tag, aborted, offered, finishing, cq, rpcs>>
  BY DEF SetFinish, Go
<1>3. \A i \in RpcThreads : /\ at'[i] = IF i = h THEN "finish" ELSE at[i]
                            /\ Holding(i)' <=> Holding(i)
  BY <1>1, <1>2 DEF GreeterTypeOK, Holding
<1>4. Holding(h) /\ tag[h] \in EventSet /\ tag[h].tag \in CallDatas
  BY <1>1, <1>2 DEF GreeterTypeOK, Holding, EventSet
<1>5. \A c \in CallDatas : status_'[c] = IF c = tag[h].tag THEN "FINISH" ELSE status_[c]
  BY <1>1, <1>2 DEF GreeterTypeOK
<1>6. GreeterTypeOK'
  BY <1>1, <1>2, <1>3, <1>4 DEF GreeterTypeOK
<1>7. StatusFits'
  <2>1. \A e \in EventSet : e.tag \in CallDatas
    BY DEF EventSet
  <2>2. \A c \in offered' : status_'[c] = "PROCESS"
    BY <1>1, <1>2, <1>4, <1>5 DEF StatusFits, KnownOnce, GreeterTypeOK
  <2>3. \A c \in finishing' : status_'[c] = "FINISH"
    BY <1>1, <1>2, <1>5 DEF StatusFits, GreeterTypeOK
  <2>4. \A e \in cq' : status_'[e.tag] = e.for
    BY <1>1, <1>2, <1>4, <1>5, <2>1 DEF StatusFits, KnownOnce, GreeterTypeOK
  <2>5. ASSUME NEW i \in RpcThreads
        PROVE  /\ at'[i] = "proceed" => status_'[tag'[i].tag] = tag'[i].for
               /\ at'[i] = "reply" => status_'[tag'[i].tag] = "PROCESS"
               /\ at'[i] = "finish" => status_'[tag'[i].tag] = "FINISH"
    <3>1. CASE i = h
      BY <1>2, <1>3, <1>4, <1>5, <3>1
    <3>2. CASE i # h /\ Holding(i)
      <4>1. tag[i].tag \in CallDatas /\ tag[i].tag # tag[h].tag /\ at'[i] = at[i] /\ tag' = tag
        BY <1>1, <1>2, <1>3, <1>4, <2>1, <3>2 DEF GreeterTypeOK, KnownOnce
      <4> QED BY <1>1, <1>5, <4>1 DEF StatusFits
    <3>3. CASE ~Holding(i)
      BY <1>3, <1>4, <3>3 DEF Holding
    <3> QED BY <3>1, <3>2, <3>3
  <2> QED BY <2>2, <2>3, <2>4, <2>5 DEF StatusFits
<1>8. KnownOnce'
  BY <1>1, <1>2, <1>3 DEF KnownOnce
<1>9. OnePerThread'
  BY <1>2, <1>3, <1>6, CountStays
<1> QED BY <1>6, <1>7, <1>8, <1>9 DEF GreeterInv

LEMMA FinishKeeps ==
  ASSUME GreeterInv, NEW h \in RpcThreads, Finish(h)
  PROVE  GreeterInv'
<1>1. GreeterTypeOK /\ StatusFits /\ KnownOnce
  BY DEF GreeterInv
<1>2. /\ at[h] = "finish" /\ at' = [at EXCEPT ![h] = "next"]
      /\ finishing' = finishing \cup {tag[h].tag} /\ tag' = [tag EXCEPT ![h] = NoEvent]
      /\ UNCHANGED <<status_, aborted, offered, cq, rpcs>>
  BY DEF Finish, AfterFinish, Go
<1>3. \A i \in RpcThreads : /\ at'[i] = IF i = h THEN "next" ELSE at[i]
                            /\ tag'[i] = IF i = h THEN NoEvent ELSE tag[i]
                            /\ Holding(i)' <=> Holding(i) /\ i # h
  BY <1>1, <1>2 DEF GreeterTypeOK, Holding
<1>4. Holding(h) /\ tag[h] \in EventSet /\ tag[h].tag \in CallDatas
  BY <1>1, <1>2 DEF GreeterTypeOK, Holding, EventSet
<1>5. GreeterTypeOK'
  BY <1>1, <1>2, <1>3, <1>4 DEF GreeterTypeOK
<1>6. StatusFits'
  BY <1>1, <1>2, <1>3 DEF StatusFits
<1>7. KnownOnce'
  <2>1. \A e \in cq' : e.tag \notin offered' \cup finishing'
    BY <1>1, <1>2, <1>4 DEF KnownOnce
  <2>2. ASSUME NEW i \in RpcThreads, Holding(i)'
        PROVE  /\ tag'[i].tag \notin offered' \cup finishing'
               /\ \A e \in cq' : e.tag # tag'[i].tag
               /\ \A j \in RpcThreads : Holding(j)' /\ tag'[j].tag = tag'[i].tag => j = i
    <3>1. i # h /\ Holding(i) /\ tag'[i] = tag[i] /\ tag[i].tag # tag[h].tag
      BY <1>1, <1>3, <1>4, <2>2 DEF KnownOnce
    <3> QED BY <1>1, <1>2, <1>3, <3>1 DEF KnownOnce
  <2> QED BY <1>1, <1>2, <2>1, <2>2 DEF KnownOnce
<1>8. OnePerThread'
  BY <1>2, <1>3, <1>5, CountStays
<1> QED BY <1>5, <1>6, <1>7, <1>8 DEF GreeterInv

LEMMA ProceedFinishKeeps ==
  ASSUME GreeterInv, NEW h \in RpcThreads, ProceedFinish(h)
  PROVE  GreeterInv'
<1>1. GreeterTypeOK /\ StatusFits /\ KnownOnce
  BY DEF GreeterInv
<1>2. /\ at[h] = "proceed" /\ status_[tag[h].tag] = "FINISH" /\ at' = [at EXCEPT ![h] = "next"]
      /\ status_' = [status_ EXCEPT ![tag[h].tag] = "free"] /\ tag' = [tag EXCEPT ![h] = NoEvent]
      /\ UNCHANGED <<aborted, offered, finishing, cq, rpcs>>
  BY DEF ProceedFinish, Go
<1>3. \A i \in RpcThreads : /\ at'[i] = IF i = h THEN "next" ELSE at[i]
                            /\ tag'[i] = IF i = h THEN NoEvent ELSE tag[i]
                            /\ Holding(i)' <=> Holding(i) /\ i # h
  BY <1>1, <1>2 DEF GreeterTypeOK, Holding
<1>4. Holding(h) /\ tag[h] \in EventSet /\ tag[h].tag \in CallDatas /\ tag[h].for = "FINISH"
  BY <1>1, <1>2 DEF GreeterTypeOK, Holding, EventSet, StatusFits
<1>5. \A c \in CallDatas : status_'[c] = IF c = tag[h].tag THEN "free" ELSE status_[c]
  BY <1>1, <1>2 DEF GreeterTypeOK
<1>6. GreeterTypeOK'
  BY <1>1, <1>2, <1>3, <1>4 DEF GreeterTypeOK
<1>7. StatusFits'
  <2>1. \A e \in EventSet : e.tag \in CallDatas
    BY DEF EventSet
  <2>2. \A c \in offered' : status_'[c] = "PROCESS"
    BY <1>1, <1>2, <1>4, <1>5 DEF StatusFits, KnownOnce, GreeterTypeOK
  <2>3. \A c \in finishing' : status_'[c] = "FINISH"
    BY <1>1, <1>2, <1>4, <1>5 DEF StatusFits, KnownOnce, GreeterTypeOK
  <2>4. \A e \in cq' : status_'[e.tag] = e.for
    BY <1>1, <1>2, <1>4, <1>5, <2>1 DEF StatusFits, KnownOnce, GreeterTypeOK
  <2>5. ASSUME NEW i \in RpcThreads
        PROVE  /\ at'[i] = "proceed" => status_'[tag'[i].tag] = tag'[i].for
               /\ at'[i] = "reply" => status_'[tag'[i].tag] = "PROCESS"
               /\ at'[i] = "finish" => status_'[tag'[i].tag] = "FINISH"
    <3>1. CASE i # h /\ Holding(i)
      <4>1. tag[i].tag \in CallDatas /\ tag[i].tag # tag[h].tag /\ at'[i] = at[i] /\ tag'[i] = tag[i]
        BY <1>1, <1>2, <1>3, <1>4, <2>1, <3>1 DEF GreeterTypeOK, KnownOnce
      <4> QED BY <1>1, <1>5, <4>1 DEF StatusFits
    <3>2. CASE ~(i # h /\ Holding(i))
      BY <1>3, <3>2 DEF Holding
    <3> QED BY <3>1, <3>2
  <2> QED BY <2>2, <2>3, <2>4, <2>5 DEF StatusFits
<1>8. KnownOnce'
  BY <1>1, <1>2, <1>3 DEF KnownOnce
<1>9. OnePerThread'
  BY <1>2, <1>3, <1>4, <1>6, CountStays
<1> QED BY <1>6, <1>7, <1>8, <1>9 DEF GreeterInv

LEMMA MatchedKeeps ==
  ASSUME GreeterInv, NEW d \in CallDatas, Matched(d)
  PROVE  GreeterInv'
<1> DEFINE n == [tag |-> d, for |-> "PROCESS", ok |-> TRUE]
<1>1. GreeterTypeOK /\ StatusFits /\ KnownOnce
  BY DEF GreeterInv
<1>2. /\ d \in offered /\ offered' = offered \ {d} /\ cq' = cq \cup {n}
      /\ UNCHANGED <<status_, at, tag, aborted, finishing>>
  BY DEF Matched
<1>3. n \in EventSet /\ n.tag = d /\ n.for = "PROCESS"
  BY DEF EventSet
<1> HIDE DEF n
<1>4. \A i \in RpcThreads : Holding(i)' <=> Holding(i)
  BY <1>2 DEF Holding
<1>5. GreeterTypeOK'
  BY <1>1, <1>2, <1>3, <1>4 DEF GreeterTypeOK
<1>6. StatusFits'
  BY <1>1, <1>2, <1>3 DEF StatusFits
<1>7. KnownOnce'
  <2>1. d \notin finishing
    BY <1>1, <1>2 DEF StatusFits
  <2>2. \A e \in cq' : e.tag \notin offered' \cup finishing'
    BY <1>1, <1>2, <1>3, <2>1 DEF KnownOnce
  <2>3. \A e, f \in cq' : e.tag = f.tag => e = f
    BY <1>1, <1>2, <1>3 DEF KnownOnce
  <2>4. ASSUME NEW i \in RpcThreads, Holding(i)'
        PROVE  /\ tag'[i].tag \notin offered' \cup finishing'
               /\ \A e \in cq' : e.tag # tag'[i].tag
               /\ \A j \in RpcThreads : Holding(j)' /\ tag'[j].tag = tag'[i].tag => j = i
    BY <1>1, <1>2, <1>3, <1>4, <2>4 DEF KnownOnce
  <2> QED BY <2>2, <2>3, <2>4 DEF KnownOnce
<1>8. OnePerThread'
  <2> DEFINE T == Tags("PROCESS")
  <2>1. \A x : x \in T <=> \/ \E e \in cq : e.for = "PROCESS" /\ e.tag = x
                          \/ \E i \in RpcThreads : at[i] = "proceed" /\ tag[i].for = "PROCESS" /\ tag[i].tag = x
    BY TagsFacts
  <2>2. \A x : x \in T' <=> \/ \E e \in cq' : e.for = "PROCESS" /\ e.tag = x
                           \/ \E i \in RpcThreads : at'[i] = "proceed" /\ tag'[i].for = "PROCESS" /\ tag'[i].tag = x
    BY DEF Tags, Events
  <2>3. d \notin T
    BY <1>1, <1>2, <2>1 DEF KnownOnce, Holding
  <2>4. T' = T \cup {d}
    BY <1>2, <1>3, <2>1, <2>2
  <2>5. /\ IsFiniteSet(T) /\ Cardinality(T) \in Nat /\ IsFiniteSet(offered) /\ Cardinality(offered) \in Nat
    BY <1>1, FiniteFacts
  <2>6. Started' = Started
    BY <1>2 DEF Started
  <2>7. Cardinality(offered) + Cardinality(T) = Cardinality(Started)
    BY DEF GreeterInv, OnePerThread
  <2>8. Cardinality(offered') = Cardinality(offered) - 1
    BY <1>2, <2>5, FS_RemoveElement
  <2> DEFINE U == T
             V == T'
  <2>9. V = U \cup {d} /\ d \notin U /\ IsFiniteSet(U) /\ Cardinality(U) \in Nat
        /\ Cardinality(offered) + Cardinality(U) = Cardinality(Started)
    BY <2>3, <2>4, <2>5, <2>7
  <2> HIDE DEF U, V
  <2>10. Cardinality(V) = Cardinality(U) + 1
    BY <2>9, FS_AddElement
  <2>11. Cardinality(offered') + Cardinality(V) = Cardinality(Started')
    BY <2>5, <2>6, <2>8, <2>9, <2>10
  <2> QED BY <2>11 DEF OnePerThread, V
<1> QED BY <1>5, <1>6, <1>7, <1>8 DEF GreeterInv

LEMMA FinishedKeeps ==
  ASSUME GreeterInv, NEW d \in CallDatas, Finished(d)
  PROVE  GreeterInv'
<1>1. GreeterTypeOK /\ StatusFits /\ KnownOnce
  BY DEF GreeterInv
<1>2. PICK ok \in BOOLEAN : cq' = cq \cup {[tag |-> d, for |-> "FINISH", ok |-> ok]}
  BY DEF Finished
<1>3. /\ d \in finishing /\ finishing' = finishing \ {d}
      /\ UNCHANGED <<status_, at, tag, aborted, offered, rpcs>>
  BY DEF Finished
<1> DEFINE n == [tag |-> d, for |-> "FINISH", ok |-> ok]
<1>4. n \in EventSet /\ n.tag = d /\ n.for = "FINISH" /\ cq' = cq \cup {n}
  BY <1>2 DEF EventSet
<1> HIDE DEF n
<1>5. \A i \in RpcThreads : Holding(i)' <=> Holding(i)
  BY <1>3 DEF Holding
<1>6. GreeterTypeOK'
  BY <1>1, <1>3, <1>4, <1>5 DEF GreeterTypeOK
<1>7. StatusFits'
  BY <1>1, <1>3, <1>4 DEF StatusFits
<1>8. KnownOnce'
  <2>1. d \notin offered
    BY <1>1, <1>3 DEF StatusFits
  <2>2. \A e \in cq' : e.tag \notin offered' \cup finishing'
    BY <1>1, <1>3, <1>4, <2>1 DEF KnownOnce
  <2>3. \A e, f \in cq' : e.tag = f.tag => e = f
    BY <1>1, <1>3, <1>4 DEF KnownOnce
  <2>4. ASSUME NEW i \in RpcThreads, Holding(i)'
        PROVE  /\ tag'[i].tag \notin offered' \cup finishing'
               /\ \A e \in cq' : e.tag # tag'[i].tag
               /\ \A j \in RpcThreads : Holding(j)' /\ tag'[j].tag = tag'[i].tag => j = i
    BY <1>1, <1>3, <1>4, <1>5, <2>4 DEF KnownOnce
  <2> QED BY <2>2, <2>3, <2>4 DEF KnownOnce
<1>9. OnePerThread'
  BY <1>3, <1>4, <1>6, CountStays
<1> QED BY <1>6, <1>7, <1>8, <1>9 DEF GreeterInv

-----------------------------------------------------------------------------
(* With any number of threads and calls, a tag that Next() returns is the  *)
(* address of a living CallData in the state its event is for, and for     *)
(* every thread one CallData waits for a call or has just got one.         *)
THEOREM GreeterTagsValid == GreeterSpec => []TagsValid
<1>1. GreeterInv /\ [GreeterNext]_greeterVars => GreeterInv'
  <2> SUFFICES ASSUME GreeterInv, [GreeterNext]_greeterVars PROVE GreeterInv'
    OBVIOUS
  <2>1. ASSUME NEW h \in RpcThreads, HandlesRpcs(h) PROVE GreeterInv'
    BY <2>1, HandleRpcsKeeps, NextEventKeeps, ProceedProcessKeeps, SetFinishKeeps, FinishKeeps,
       ProceedFinishKeeps DEF HandlesRpcs
  <2>2. ASSUME NEW d \in CallDatas, Matched(d) \/ Finished(d) PROVE GreeterInv'
    BY <2>2, MatchedKeeps, FinishedKeeps
  <2>3. CASE UNCHANGED <<status_, at, tag, offered, finishing, cq>>
    <3>1. GreeterTypeOK' /\ StatusFits' /\ KnownOnce'
      BY <2>3 DEF GreeterInv, GreeterTypeOK, StatusFits, KnownOnce, Holding
    <3>2. OnePerThread'
      BY <2>3 DEF GreeterInv, OnePerThread, Started, Tags, Events
    <3> QED BY <3>1, <3>2 DEF GreeterInv
  <2> QED BY <2>1, <2>2, <2>3 DEF GreeterNext, SayHello, greeterVars
<1>2. GreeterInv => TagsValid
  <2> SUFFICES ASSUME GreeterInv PROVE TagsValid
    OBVIOUS
  <2>1. \A kind, d : d \in Tags(kind) =>
          \/ \E e \in cq : e.for = kind /\ e.tag = d
          \/ \E h \in RpcThreads : Holding(h) /\ at[h] = "proceed" /\ tag[h].for = kind /\ tag[h].tag = d
    BY TagsFacts DEF Holding
  <2>2. \A d \in offered \cup Tags("PROCESS") : status_[d] = "PROCESS"
    BY <2>1 DEF GreeterInv, StatusFits
  <2>3. \A d \in finishing \cup Tags("FINISH") : status_[d] = "FINISH"
    BY <2>1 DEF GreeterInv, StatusFits
  <2>4. offered \cap Tags("PROCESS") = {} /\ finishing \cap Tags("FINISH") = {}
    BY <2>1 DEF GreeterInv, KnownOnce
  <2> QED BY <2>2, <2>3, <2>4 DEF GreeterInv, OnePerThread, Started, TagsValid
<1> QED BY <1>1, <1>2, GreeterStarts, PTL DEF GreeterSpec

(***************************************************************************)
(* Prebuffer: any size of the buffer and of its put-back area.             *)
(***************************************************************************)

(* f holds characters up to n in their order, and all of them unless some  *)
(* write was short.                                                        *)
Kept(f, n, sh) ==
    /\ f \in Seq(Nat)
    /\ \A i, j \in 1..Len(f) : i < j => f[i] < f[j]
    /\ \A i \in 1..Len(f) : f[i] <= n
    /\ ~sh => Len(f) = n /\ \A i \in 1..Len(f) : f[i] = i

(* The put area of p characters of buf holds those up to c.                *)
Area(buf, p, c) ==
    /\ p \in Nat /\ c \in Nat /\ p <= BufSize /\ p <= c
    /\ \A i \in 1..p : buf[i - 1] = c - p + i

LEMMA PendingFacts ==
  ASSUME NEW buf, NEW p, NEW c, Area(buf, p, c)
  PROVE  /\ Pending(buf, p) \in Seq(Nat) /\ Len(Pending(buf, p)) = p
         /\ \A i \in 1..p : Pending(buf, p)[i] = c - p + i
<1>1. BufSize \in Nat
  BY BufferAssumption
<1> DEFINE s == Pending(buf, p)
<1>2. s = [i \in 1..p |-> c - p + i]
  BY <1>1 DEF Pending, Area
<1>3. s \in [1..p -> Nat]
  BY <1>2 DEF Area
<1>4. s \in Seq(Nat) /\ Len(s) = p
  BY <1>3 DEF Area
<1> QED BY <1>2, <1>4

(* A write of the first n characters of the put area.                      *)
LEMMA WriteKeeps ==
  ASSUME NEW buf, NEW p, NEW c, Area(buf, p, c), NEW f, NEW sh \in BOOLEAN, Kept(f, c - p, sh), NEW n \in 0..p
  PROVE  Kept(f \o SubSeq(Pending(buf, p), 1, n), c, sh \/ n < p)
<1> DEFINE s == Pending(buf, p)
           t == SubSeq(s, 1, n)
           g == f \o t
<1>1. p \in Nat /\ c \in Nat /\ p <= c /\ n \in Nat /\ n <= p
  BY DEF Area
<1>2. s \in Seq(Nat) /\ Len(s) = p /\ \A i \in 1..p : s[i] = c - p + i
  BY PendingFacts
<1> HIDE DEF s
<1>3. t \in Seq(Nat) /\ Len(t) = n /\ \A i \in 1..n : t[i] = c - p + i
  <2>1. t \in Seq(Nat) /\ Len(t) = n /\ \A i \in 1..n : t[i] = s[i]
    BY <1>1, <1>2
  <2> QED BY <1>1, <1>2, <2>1
<1>4. f \in Seq(Nat) /\ Len(f) \in Nat
  BY LenProperties DEF Kept
<1> HIDE DEF t
<1>5. /\ g \in Seq(Nat) /\ Len(g) = Len(f) + n
      /\ \A i \in 1..(Len(f) + n) : g[i] = IF i <= Len(f) THEN f[i] ELSE t[i - Len(f)]
  BY <1>3, <1>4, ConcatProperties
<1> HIDE DEF g
<1>6. ASSUME NEW i \in 1..Len(g)
      PROVE  \/ i <= Len(f) /\ i \in 1..Len(f) /\ g[i] = f[i] /\ f[i] <= c - p /\ f[i] \in Nat
             \/ i > Len(f) /\ i - Len(f) \in 1..n /\ g[i] = c - p + (i - Len(f))
  <2>1. CASE i <= Len(f)
    <3>1. i \in 1..Len(f)
      BY <1>4, <2>1
    <3> QED BY <1>1, <1>4, <1>5, <2>1, <3>1, ElementOfSeq DEF Kept
  <2>2. CASE i > Len(f)
    <3>1. i - Len(f) \in 1..n
      BY <1>1, <1>4, <1>5, <2>2
    <3> QED BY <1>3, <1>4, <1>5, <2>2, <3>1
  <2> QED BY <1>4, <2>1, <2>2
<1>7. ASSUME NEW i \in 1..Len(g), NEW j \in 1..Len(g), i < j PROVE g[i] < g[j]
  <2>1. CASE j <= Len(f)
    <3>1. i \in 1..Len(f) /\ j \in 1..Len(f) /\ g[i] = f[i] /\ g[j] = f[j]
      BY <1>1, <1>4, <1>5, <1>7, <2>1
    <3> QED BY <1>7, <3>1 DEF Kept
  <2>2. CASE j > Len(f)
    <3>1. g[j] = c - p + (j - Len(f)) /\ j - Len(f) >= 1
      BY <1>1, <1>4, <1>6, <2>2
    <3>2. CASE i <= Len(f)
      <4>1. g[i] <= c - p /\ g[i] \in Nat
        BY <1>1, <1>4, <1>6, <3>2
      <4> QED BY <1>1, <1>4, <3>1, <4>1
    <3>3. CASE i > Len(f)
      <4>1. g[i] = c - p + (i - Len(f))
        BY <1>1, <1>4, <1>6, <3>3
      <4> QED BY <1>1, <1>4, <1>7, <3>1, <4>1
    <3> QED BY <1>4, <3>2, <3>3
  <2> QED BY <1>4, <2>1, <2>2
<1>8. ASSUME NEW i \in 1..Len(g) PROVE g[i] <= c
  BY <1>1, <1>4, <1>6
<1>9. ASSUME ~(sh \/ n < p) PROVE Len(g) = c /\ \A i \in 1..Len(g) : g[i] = i
  <2>1. n = p /\ Len(f) = c - p /\ \A i \in 1..Len(f) : f[i] = i
    BY <1>1, <1>9 DEF Kept
  <2>2. Len(g) = c
    BY <1>1, <1>5, <2>1
  <2>3. ASSUME NEW i \in 1..Len(g) PROVE g[i] = i
    BY <1>1, <1>4, <1>6, <2>1
  <2> QED BY <2>2, <2>3
<1>10. Kept(g, c, sh \/ n < p)
  BY <1>5, <1>7, <1>8, <1>9 DEF Kept
<1> QED BY <1>10 DEF g, t, s

(* flushoutput() keeps file and put area together.                         *)
LEMMA FlushKeeps ==
  ASSUME NEW buf, NEW p, NEW c, Area(buf, p, c), short \in BOOLEAN, Kept(file, c - p, short),
         NEW eof \in BOOLEAN, FlushOutput(buf, p, eof)
  PROVE  /\ short' \in BOOLEAN /\ pptr' = (IF eof THEN p ELSE 0)
         /\ Kept(file', c - pptr', short') /\ Area(buf, pptr', c)
<1>1. p \in Nat /\ c \in Nat /\ p <= c /\ BufSize \in Nat
  BY BufferAssumption DEF Area
<1>2. CASE eof
  <2>1. pptr' = p /\ file' = file /\ short' = short
    BY <1>2 DEF FlushOutput
  <2> QED BY <1>2, <2>1
<1>3. CASE ~eof
  <2>1. pptr' = 0
    BY <1>3 DEF FlushOutput
  <2>2. PICK n \in 0..p : file' = file \o SubSeq(Pending(buf, p), 1, n) /\ short' = (short \/ n < p)
    BY <1>3 DEF FlushOutput
  <2>3. Kept(file \o SubSeq(Pending(buf, p), 1, n), c, short \/ n < p)
    BY WriteKeeps
  <2>4. c - 0 = c
    BY <1>1
  <2>5. Kept(file', c - pptr', short')
    BY <2>1, <2>2, <2>3, <2>4, Zenon
  <2>6. Area(buf, 0, c)
    BY <1>1 DEF Area
  <2> QED BY <1>3, <2>1, <2>2, <2>5, <2>6
<1> QED BY <1>2, <1>3

-----------------------------------------------------------------------------
BufferIsArray == buffer = [i \in 0..(BufSize - 1) |-> buffer[i]]

(* File and put area: only a stream that is bad can have a full buffer.    *)
OutInv ==
    /\ short \in BOOLEAN /\ bad \in BOOLEAN /\ use \in {"in", "out"}
    /\ Area(buffer, pptr, put) /\ Kept(file, put - pptr, short)
    /\ ~bad => pptr <= BufSize - 1
    /\ use = "in" => pptr = 0

(* The get area ends where the last read() ended, and its put-back part    *)
(* lies before what that read() delivered.                                 *)
InInv ==
    /\ eback \in Nat /\ gptr \in Nat /\ egptr \in Nat /\ pos \in Nat /\ clobbered \in BOOLEAN
    /\ eback <= PbackSize /\ PbackSize <= egptr /\ egptr <= BufSize
    /\ eback <= gptr /\ gptr <= egptr
    /\ use = "out" => eback = egptr
    /\ ReadBack

StreamInv == BufferIsArray /\ OutInv /\ InInv

LEMMA StreamStarts == StreamInit => StreamInv
<1> SUFFICES ASSUME StreamInit PROVE StreamInv
  OBVIOUS
<1>1. BufSize \in Nat /\ PbackSize \in Nat /\ PbackSize < BufSize /\ BufSize >= 1
  BY BufferAssumption
<1>2. BufferIsArray
  BY DEF StreamInit, BufferIsArray
<1>3. OutInv
  <2>1. pptr = 0 /\ put = 0 /\ file = <<>> /\ short = FALSE /\ bad = FALSE /\ use \in {"in", "out"}
    BY DEF StreamInit
  <2>2. Area(buffer, pptr, put)
    BY <1>1, <2>1 DEF Area
  <2>3. Kept(<<>>, 0, FALSE)
    BY DEF Kept
  <2>4. put - pptr = 0
    BY <2>1
  <2>5. Kept(file, put - pptr, short)
    BY <2>1, <2>3, <2>4
  <2>6. pptr <= BufSize - 1
    BY <1>1, <2>1
  <2> QED BY <2>1, <2>2, <2>5, <2>6, Zenon DEF OutInv
<1>4. InInv
  <2>1. eback = PbackSize /\ gptr = PbackSize /\ egptr = PbackSize /\ pos = 0 /\ clobbered = FALSE
    BY DEF StreamInit
  <2>2. ReadBack
    BY <1>1, <2>1 DEF ReadBack
  <2>3. /\ eback \in Nat /\ gptr \in Nat /\ egptr \in Nat /\ pos \in Nat
        /\ eback <= PbackSize /\ PbackSize <= egptr /\ egptr <= BufSize
        /\ eback <= gptr /\ gptr <= egptr
    BY <1>1, <2>1
  <2>4. clobbered \in BOOLEAN /\ eback = egptr
    BY <2>1
  <2> QED BY <2>2, <2>3, <2>4, Zenon DEF InInv
<1> QED BY <1>2, <1>3, <1>4 DEF StreamInv

(* Storing the next character, in the buffer.                              *)
LEMMA StoredFacts ==
  ASSUME StreamInv, pptr <= BufSize - 1
  PROVE  /\ Area(Stored(buffer, pptr, put + 1), pptr + 1, put + 1)
         /\ LET b == Stored(buffer, pptr, put + 1) IN b = [i \in 0..(BufSize - 1) |-> b[i]]
<1> DEFINE b == Stored(buffer, pptr, put + 1)
<1>1. BufSize \in Nat /\ pptr \in Nat /\ put \in Nat /\ pptr <= put
      /\ \A i \in 1..pptr : buffer[i - 1] = put - pptr + i
  BY BufferAssumption DEF StreamInv, OutInv, Area
<1>2. b = [buffer EXCEPT ![pptr] = put + 1]
  BY <1>1 DEF Stored
<1>3. buffer = [i \in 0..(BufSize - 1) |-> buffer[i]]
  BY DEF StreamInv, BufferIsArray
<1>4. DOMAIN buffer = 0..(BufSize - 1)
  BY <1>3, Zenon
<1>5. b[pptr] = put + 1 /\ \A i \in 0..(BufSize - 1) : i # pptr => b[i] = buffer[i]
  <2>1. pptr \in DOMAIN buffer
    BY <1>1, <1>4
  <2> QED BY <1>2, <1>4, <2>1
<1>6. b = [i \in 0..(BufSize - 1) |-> b[i]]
  BY <1>2, <1>4
<1> HIDE DEF b
<1>7. ASSUME NEW i \in 1..(pptr + 1) PROVE b[i - 1] = (put + 1) - (pptr + 1) + i
  <2>1. CASE i = pptr + 1
    BY <1>1, <1>5, <2>1
  <2>2. CASE i # pptr + 1
    <3>1. i \in 1..pptr /\ i - 1 \in 0..(BufSize - 1) /\ i - 1 # pptr
      BY <1>1, <2>2
    <3> QED BY <1>1, <1>5, <3>1
  <2> QED BY <2>1, <2>2
<1>8. Area(b, pptr + 1, put + 1)
  BY <1>1, <1>7 DEF Area
<1> QED BY <1>6, <1>8 DEF b

LEMMA PutKeeps ==
  ASSUME StreamInv, Put
  PROVE  StreamInv'
<1>1. BufSize \in Nat /\ pptr \in Nat /\ put \in Nat /\ PbackSize \in Nat
  BY BufferAssumption DEF StreamInv, OutInv, Area
<1>2. use = "out" /\ ~bad /\ UNCHANGED <<m_filedes, m_out, use, eback, gptr, egptr, pos, clobbered>>
  BY DEF Put, getVars
<1>3. pptr <= BufSize - 1 /\ eback = egptr
  BY <1>2 DEF StreamInv, OutInv, InInv
<1>4. InInv'
  <2>1. eback \in Nat /\ egptr = eback
    BY <1>3 DEF StreamInv, InInv
  <2>2. ReadBack'
    <3>1. ASSUME NEW i \in eback..(egptr - 1) PROVE FALSE
      BY <2>1
    <3> QED BY <1>2, <3>1, Zenon DEF ReadBack
  <2> QED BY <1>2, <2>2 DEF StreamInv, InInv
<1> DEFINE b == Stored(buffer, pptr, put + 1)
           q == pptr + 1
           c == put + 1
<1>5. Area(b, q, c) /\ b = [i \in 0..(BufSize - 1) |-> b[i]]
  BY <1>3, StoredFacts
<1>6. q \in Nat /\ c \in Nat /\ c - q = put - pptr /\ q <= BufSize
  BY <1>1, <1>3
<1>7. short \in BOOLEAN /\ Kept(file, c - q, short)
  BY <1>6 DEF StreamInv, OutInv
<1> HIDE DEF b, q, c
<1>8. CASE pptr < Epptr
  <2>1. buffer' = b /\ pptr' = q /\ put' = c /\ UNCHANGED <<bad, file, short>>
    BY <1>8 DEF Put, b, q, c
  <2>2. BufferIsArray'
    BY <1>5, <2>1 DEF BufferIsArray
  <2>3. q <= BufSize - 1
    BY <1>1, <1>8 DEF Epptr, q
  <2>4. OutInv'
    BY <1>2, <1>5, <1>7, <2>1, <2>3 DEF OutInv, StreamInv
  <2> QED BY <1>4, <2>2, <2>4 DEF StreamInv
<1>9. CASE ~(pptr < Epptr) /\ (~m_out \/ ~IsOpen)
  <2>1. bad' = TRUE /\ UNCHANGED <<buffer, pptr, file, put, short>>
    BY <1>9 DEF Put, Overflow
  <2>2. OutInv' /\ BufferIsArray'
    BY <1>2, <2>1 DEF OutInv, StreamInv, BufferIsArray
  <2> QED BY <1>4, <2>2 DEF StreamInv
<1>10. CASE ~(pptr < Epptr) /\ ~(~m_out \/ ~IsOpen)
  <2>1. PICK eof \in BOOLEAN : buffer' = b /\ put' = c /\ FlushOutput(buffer', q, eof) /\ bad' = eof
    BY <1>10 DEF Put, Overflow, b, q, c
  <2>2. FlushOutput(b, q, eof)
    BY <2>1
  <2>3. /\ short' \in BOOLEAN /\ pptr' = (IF eof THEN q ELSE 0)
        /\ Kept(file', c - pptr', short') /\ Area(b, pptr', c)
    BY <1>5, <1>7, <2>2, FlushKeeps
  <2>4. BufferIsArray'
    BY <1>5, <2>1 DEF BufferIsArray
  <2>5. bad' = FALSE => pptr' <= BufSize - 1
    BY <1>1, <1>3, <2>1, <2>3
  <2>6. OutInv'
    BY <1>2, <2>1, <2>3, <2>5 DEF OutInv
  <2> QED BY <1>4, <2>4, <2>6 DEF StreamInv
<1> QED BY <1>8, <1>9, <1>10

(* sync() and close().                                                     *)
LEMMA SyncKeeps ==
  ASSUME StreamInv, Sync \/ Close
  PROVE  StreamInv'
<1>1. PICK eof \in BOOLEAN : FlushOutput(buffer, pptr, eof)
  BY DEF Sync, Close
<1>2. UNCHANGED <<buffer, use, eback, gptr, egptr, pos, clobbered, bad, put>>
  BY DEF Sync, Close, getVars
<1>3. BufSize \in Nat /\ pptr \in Nat /\ PbackSize \in Nat /\ PbackSize < BufSize
  BY BufferAssumption DEF StreamInv, OutInv, Area
<1>4. Area(buffer, pptr, put) /\ short \in BOOLEAN /\ Kept(file, put - pptr, short)
  BY DEF StreamInv, OutInv
<1>5. /\ short' \in BOOLEAN /\ pptr' = (IF eof THEN pptr ELSE 0)
      /\ Kept(file', put - pptr', short') /\ Area(buffer, pptr', put)
  BY <1>1, <1>4, FlushKeeps
<1>6. BufferIsArray'
  BY <1>2 DEF StreamInv, BufferIsArray
<1>7. OutInv'
  <2>1. pptr' = pptr \/ pptr' = 0
    BY <1>5
  <2>2. ~bad => pptr' <= BufSize - 1
    BY <1>3, <2>1 DEF StreamInv, OutInv
  <2> QED BY <1>2, <1>5, <2>1, <2>2 DEF StreamInv, OutInv
<1>8. InInv'
  BY <1>2 DEF StreamInv, InInv, ReadBack
<1> QED BY <1>6, <1>7, <1>8 DEF StreamInv

-----------------------------------------------------------------------------
LEMMA MinFacts ==
  ASSUME NEW a \in Int, NEW b \in Int
  PROVE  Min({a, b}) = IF a <= b THEN a ELSE b
<1> DEFINE m == IF a <= b THEN a ELSE b
<1>1. m \in {a, b} /\ \A y \in {a, b} : m <= y
  OBVIOUS
<1>2. ASSUME NEW x \in {a, b}, \A y \in {a, b} : x <= y PROVE x = m
  BY <1>2
<1> HIDE DEF m
<1>3. (CHOOSE x \in {a, b} : \A y \in {a, b} : x <= y) = m
  BY <1>1, <1>2
<1> QED BY <1>3 DEF Min, m

(* sbumpc and sungetc move gptr within the get area.                       *)
LEMMA GetKeeps ==
  ASSUME StreamInv, Get \/ Unget
  PROVE  StreamInv'
<1>1. UNCHANGED <<buffer, use, pptr, bad, file, put, short, eback, egptr, pos, clobbered>>
  BY DEF Get, Unget, putVars
<1>2. BufferIsArray' /\ OutInv'
  BY <1>1 DEF StreamInv, BufferIsArray, OutInv
<1>3. gptr' \in Nat /\ eback' <= gptr' /\ gptr' <= egptr'
  BY <1>1 DEF Get, Unget, StreamInv, InInv
<1>4. InInv'
  BY <1>1, <1>3 DEF StreamInv, InInv, ReadBack
<1> QED BY <1>2, <1>4 DEF StreamInv

(* memcpy of the put-back characters, from the low end up: the buffer      *)
(* stays an array, and what it holds from PbackSize on stays as it is.     *)
LEMMA CopyFacts ==
  ASSUME StreamInv, NEW n \in Nat, n <= PbackSize, n <= gptr - eback, NEW copy,
         \/ copy = CopyUp(buffer, PbackSize - n, gptr - n, n)
         \/ copy = CopyDown(buffer, PbackSize - n, gptr - n, n)
  PROVE  /\ copy = [i \in 0..(BufSize - 1) |-> copy[i]]
         /\ \A i \in PbackSize..(BufSize - 1) : copy[i] = buffer[i]
<1>1. BufSize \in Nat /\ PbackSize \in Nat /\ PbackSize < BufSize
  BY BufferAssumption
<1>2. DOMAIN buffer = 0..(BufSize - 1)
  <2>1. buffer = [i \in 0..(BufSize - 1) |-> buffer[i]]
    BY DEF StreamInv, BufferIsArray
  <2> QED BY <2>1, Zenon
<1> DEFINE In(i) == i \in (PbackSize - n)..((PbackSize - n) + n - 1)
<1>3. ASSUME NEW i \in PbackSize..(BufSize - 1) PROVE ~In(i) /\ i \in DOMAIN buffer
  BY <1>1, <1>2
<1>4. CASE copy = CopyUp(buffer, PbackSize - n, gptr - n, n)
  <2>1. copy = [i \in DOMAIN buffer |->
                  IF In(i) THEN buffer[i + (gptr - n) - (PbackSize - n)] ELSE buffer[i]]
    BY <1>4, Zenon DEF CopyUp
  <2> HIDE DEF In
  <2> QED BY <1>2, <1>3, <2>1, Zenon
<1>5. CASE copy = CopyDown(buffer, PbackSize - n, gptr - n, n)
  <2> DEFINE s == (gptr - n) - (PbackSize - n)
             from(i) == IF s = 0 THEN i ELSE i + s * (1 + ((PbackSize - n) + n - 1 - i) \div s)
  <2>1. copy = [i \in DOMAIN buffer |-> IF In(i) THEN buffer[from(i)] ELSE buffer[i]]
    BY <1>5, Zenon DEF CopyDown
  <2> HIDE DEF In, from
  <2> QED BY <1>2, <1>3, <2>1, Zenon
<1> QED BY <1>4, <1>5

(* From the low end up, the put-back characters are those before gptr.     *)
LEMMA CopyUpFacts ==
  ASSUME StreamInv, NEW n \in Nat, n <= PbackSize, n <= gptr - eback
  PROVE  LET up == CopyUp(buffer, PbackSize - n, gptr - n, n) IN
         /\ \A i \in (PbackSize - n)..(PbackSize - 1) : up[i] = buffer[i + gptr - PbackSize]
         /\ n = 0 \/ gptr = PbackSize => \A i \in 0..(PbackSize - 1) : up[i] = buffer[i]
<1> DEFINE up == CopyUp(buffer, PbackSize - n, gptr - n, n)
<1>1. BufSize \in Nat /\ PbackSize \in Nat /\ PbackSize < BufSize /\ gptr \in Nat
  BY BufferAssumption DEF StreamInv, InInv
<1>2. DOMAIN buffer = 0..(BufSize - 1)
  <2>1. buffer = [i \in 0..(BufSize - 1) |-> buffer[i]]
    BY DEF StreamInv, BufferIsArray
  <2> QED BY <2>1, Zenon
<1>3. ASSUME NEW i \in 0..(BufSize - 1)
      PROVE  up[i] = IF i \in (PbackSize - n)..((PbackSize - n) + n - 1)
                       THEN buffer[i + (gptr - n) - (PbackSize - n)] ELSE buffer[i]
  BY <1>2, Zenon DEF CopyUp
<1> HIDE DEF up
<1>4. ASSUME NEW i \in (PbackSize - n)..(PbackSize - 1) PROVE up[i] = buffer[i + gptr - PbackSize]
  <2>1. /\ i \in 0..(BufSize - 1) /\ i \in (PbackSize - n)..((PbackSize - n) + n - 1)
        /\ i + (gptr - n) - (PbackSize - n) = i + gptr - PbackSize
    BY <1>1
  <2> QED BY <1>3, <2>1, Zenon
<1>5. ASSUME n = 0 \/ gptr = PbackSize, NEW i \in 0..(PbackSize - 1) PROVE up[i] = buffer[i]
  <2>1. i \in 0..(BufSize - 1)
    BY <1>1
  <2>2. CASE i \in (PbackSize - n)..((PbackSize - n) + n - 1)
    <3>1. i + (gptr - n) - (PbackSize - n) = i
      BY <1>1, <1>5, <2>2
    <3> QED BY <1>3, <2>1, <2>2, <3>1, Zenon
  <2> QED BY <1>3, <2>1, <2>2, Zenon
<1> QED BY <1>4, <1>5 DEF up

LEMMA UnderflowKeeps ==
  ASSUME StreamInv, Underflow
  PROVE  StreamInv'
<1>1. /\ BufSize \in Nat /\ PbackSize \in Nat /\ PbackSize < BufSize /\ MaxChars \in Nat
      /\ eback \in Nat /\ gptr \in Nat /\ egptr \in Nat /\ pos \in Nat /\ clobbered \in BOOLEAN
      /\ eback <= PbackSize /\ PbackSize <= egptr /\ egptr <= BufSize
      /\ eback <= gptr /\ gptr = egptr
  BY BufferAssumption DEF StreamInv, InInv, Underflow
<1>2. use = "in" /\ UNCHANGED <<use, pptr, bad, file, put, short>>
  BY DEF Underflow, putVars
<1>3. OutInv'
  <2>1. pptr = 0 /\ pptr' = 0 /\ put' = put /\ Area(buffer, pptr, put)
    BY <1>2 DEF StreamInv, OutInv
  <2>2. Area(buffer', pptr', put')
    BY <2>1 DEF Area
  <2> QED BY <1>2, <2>1, <2>2 DEF StreamInv, OutInv
<1> DEFINE n == Min({gptr - eback, PbackSize})
           up == CopyUp(buffer, PbackSize - n, gptr - n, n)
           down == CopyDown(buffer, PbackSize - n, gptr - n, n)
           shift == n > 0 /\ gptr - n # PbackSize - n
<1>4. n \in Nat /\ n <= PbackSize /\ n <= gptr - eback
  <2>1. gptr - eback \in Int /\ PbackSize \in Int
    BY <1>1
  <2>2. n = IF gptr - eback <= PbackSize THEN gptr - eback ELSE PbackSize
    BY <2>1, MinFacts
  <2> QED BY <1>1, <2>2
<1>5. PICK copy \in {up, down} :
        \/ /\ buffer' = copy /\ UNCHANGED <<eback, gptr, egptr, pos>>
           /\ clobbered' = (clobbered \/ copy # up \/ (shift /\ eback < PbackSize))
        \/ /\ \E num \in 1..Min({BufSize - PbackSize, MaxChars - pos}) :
                /\ buffer' = [i \in DOMAIN buffer |->
                                IF i \in PbackSize..(PbackSize + num - 1)
                                  THEN pos + 1 + i - PbackSize ELSE copy[i]]
                /\ pos' = pos + num
                /\ egptr' = PbackSize + num
           /\ eback' = PbackSize - n /\ gptr' = PbackSize
           /\ clobbered' = (clobbered \/ copy # up)
  BY Zenon DEF Underflow, NewEback
<1> HIDE DEF n
<1>6. /\ copy = [i \in 0..(BufSize - 1) |-> copy[i]]
      /\ \A i \in PbackSize..(BufSize - 1) : copy[i] = buffer[i]
  BY <1>4, CopyFacts
<1>7. /\ \A i \in (PbackSize - n)..(PbackSize - 1) : up[i] = buffer[i + gptr - PbackSize]
      /\ n = 0 \/ gptr = PbackSize => \A i \in 0..(PbackSize - 1) : up[i] = buffer[i]
  BY <1>4, CopyUpFacts
<1> HIDE DEF up, down
<1>8. \A i \in eback..(egptr - 1) : (i >= PbackSize \/ ~clobbered) => buffer[i] = pos - (egptr - 1 - i)
  BY DEF StreamInv, InInv, ReadBack
<1>9. CASE /\ buffer' = copy /\ UNCHANGED <<eback, gptr, egptr, pos>>
           /\ clobbered' = (clobbered \/ copy # up \/ (shift /\ eback < PbackSize))
  <2>1. BufferIsArray'
    BY <1>6, <1>9 DEF BufferIsArray
  <2>2. clobbered' \in BOOLEAN
    BY <1>9, Zenon
  <2>3. ASSUME NEW i \in eback..(egptr - 1), i >= PbackSize \/ ~clobbered'
        PROVE  copy[i] = pos - (egptr - 1 - i)
    <3>1. CASE i >= PbackSize
      <4>1. i \in PbackSize..(BufSize - 1)
        BY <1>1, <3>1
      <4> QED BY <1>6, <1>8, <3>1, <4>1
    <3>2. CASE ~(i >= PbackSize)
      <4>1. ~clobbered /\ copy = up /\ ~(shift /\ eback < PbackSize)
        BY <1>9, <2>3, <3>2, Zenon
      <4>2. i \in 0..(PbackSize - 1) /\ eback < PbackSize
        BY <1>1, <3>2
      <4>3. n = 0 \/ gptr = PbackSize
        BY <1>1, <1>4, <4>1, <4>2
      <4>4. up[i] = buffer[i]
        BY <1>7, <4>2, <4>3, Zenon
      <4> QED BY <1>8, <4>1, <4>4, Zenon
    <3> QED BY <3>1, <3>2
  <2>4. ReadBack'
    BY <1>9, <2>3, Zenon DEF ReadBack
  <2>5. InInv'
    BY <1>1, <1>2, <1>9, <2>2, <2>4 DEF InInv
  <2> QED BY <1>3, <2>1, <2>5 DEF StreamInv
<1>10. CASE /\ \E num \in 1..Min({BufSize - PbackSize, MaxChars - pos}) :
                 /\ buffer' = [i \in DOMAIN buffer |->
                                 IF i \in PbackSize..(PbackSize + num - 1)
                                   THEN pos + 1 + i - PbackSize ELSE copy[i]]
                 /\ pos' = pos + num
                 /\ egptr' = PbackSize + num
            /\ eback' = PbackSize - n /\ gptr' = PbackSize
            /\ clobbered' = (clobbered \/ copy # up)
  <2>1. PICK num \in 1..Min({BufSize - PbackSize, MaxChars - pos}) :
                 /\ buffer' = [i \in DOMAIN buffer |->
                                 IF i \in PbackSize..(PbackSize + num - 1)
                                   THEN pos + 1 + i - PbackSize ELSE copy[i]]
                 /\ pos' = pos + num
                 /\ egptr' = PbackSize + num
    BY <1>10
  <2>2. num \in Nat /\ num >= 1 /\ num <= BufSize - PbackSize
    <3>1. BufSize - PbackSize \in Int /\ MaxChars - pos \in Int
      BY <1>1
    <3>2. Min({BufSize - PbackSize, MaxChars - pos})
            = IF BufSize - PbackSize <= MaxChars - pos THEN BufSize - PbackSize ELSE MaxChars - pos
      BY <3>1, MinFacts
    <3> QED BY <1>1, <3>2
  <2>3. DOMAIN buffer = 0..(BufSize - 1)
    <3>1. buffer = [i \in 0..(BufSize - 1) |-> buffer[i]]
      BY DEF StreamInv, BufferIsArray
    <3> QED BY <3>1, Zenon
  <2>4. BufferIsArray'
    BY <2>1, <2>3 DEF BufferIsArray
  <2>5. ASSUME NEW i \in 0..(BufSize - 1)
        PROVE  buffer'[i] = IF i \in PbackSize..(PbackSize + num - 1)
                              THEN pos + 1 + i - PbackSize ELSE copy[i]
    BY <2>1, <2>3, Zenon
  <2>6. clobbered' \in BOOLEAN
    BY <1>10, Zenon
  <2>7. ASSUME NEW i \in (PbackSize - n)..((PbackSize + num) - 1), i >= PbackSize \/ ~clobbered'
        PROVE  buffer'[i] = (pos + num) - ((PbackSize + num) - 1 - i)
    <3>0. i \in 0..(BufSize - 1) /\ i \in Int
      BY <1>1, <1>4, <2>2
    <3>1. CASE i >= PbackSize
      <4>1. i \in PbackSize..(PbackSize + num - 1)
        BY <1>1, <2>2, <3>0, <3>1
      <4>2. buffer'[i] = pos + 1 + i - PbackSize
        BY <2>5, <3>0, <4>1, Zenon
      <4> QED BY <1>1, <2>2, <3>0, <4>2
    <3>2. CASE ~(i >= PbackSize)
      <4>1. ~clobbered /\ copy = up
        BY <1>10, <2>7, <3>2, Zenon
      <4>2. i \notin PbackSize..(PbackSize + num - 1) /\ i \in (PbackSize - n)..(PbackSize - 1)
        BY <1>1, <1>4, <2>2, <3>0, <3>2
      <4> DEFINE j == i + gptr - PbackSize
      <4>3. buffer'[i] = buffer[j]
        BY <1>7, <2>5, <3>0, <4>1, <4>2, Zenon
      <4>4. j \in eback..(egptr - 1)
        BY <1>1, <1>4, <3>0, <3>2
      <4>5. buffer[j] = pos - (egptr - 1 - j)
        BY <1>8, <4>1, <4>4, Zenon
      <4> QED BY <1>1, <2>2, <3>0, <4>3, <4>5
    <3> QED BY <3>1, <3>2
  <2>8. ReadBack'
    <3>1. eback' = PbackSize - n /\ egptr' = PbackSize + num /\ pos' = pos + num
      BY <1>10, <2>1
    <3>2. \A i \in (PbackSize - n)..((PbackSize + num) - 1) :
            (i >= PbackSize \/ ~clobbered') => buffer'[i] = (pos + num) - ((PbackSize + num) - 1 - i)
      BY <2>7, Zenon
    <3> QED BY <3>1, <3>2 DEF ReadBack
  <2>9. /\ eback' \in Nat /\ gptr' \in Nat /\ egptr' \in Nat /\ pos' \in Nat
        /\ eback' <= PbackSize /\ PbackSize <= egptr' /\ egptr' <= BufSize
        /\ eback' <= gptr' /\ gptr' <= egptr'
    BY <1>1, <1>4, <1>10, <2>1, <2>2
  <2>10. use' # "out"
    BY <1>2
  <2>11. InInv'
    BY <2>6, <2>8, <2>9, <2>10, Zenon DEF InInv
  <2> QED BY <1>3, <2>4, <2>11 DEF StreamInv
<1> QED BY <1>5, <1>9, <1>10

(* Of what is in the file and in the put area nothing is out of place.     *)
LEMMA StreamOutput == StreamInv => OutputKept
<1> SUFFICES ASSUME StreamInv PROVE OutputKept
  OBVIOUS
<1>1. /\ Area(buffer, pptr, put) /\ short \in BOOLEAN /\ Kept(file, put - pptr, short)
      /\ pptr \in Nat /\ pptr <= BufSize /\ put \in Nat
  BY DEF StreamInv, OutInv, Area
<1> DEFINE s == Pending(buffer, pptr)
           all == file \o s
<1>2. s \in Seq(Nat) /\ Len(s) = pptr
  BY <1>1, PendingFacts
<1>3. pptr \in 0..pptr
  BY <1>1
<1>4. Kept(file \o SubSeq(s, 1, pptr), put, short \/ pptr < pptr)
  BY <1>1, <1>3, WriteKeeps
<1> HIDE DEF s
<1>5. SubSeq(s, 1, pptr) = s
  BY <1>2
<1>6. ~(pptr < pptr)
  BY <1>1
<1>7. Kept(all, put, short)
  <2>1. (short \/ pptr < pptr) = short
    BY <1>1, <1>6, Zenon
  <2> QED BY <1>4, <1>5, <2>1, Zenon
<1> HIDE DEF all
<1>8. ~short => all = [i \in 1..put |-> i]
  <2> SUFFICES ASSUME ~short PROVE all = [i \in 1..put |-> i]
    OBVIOUS
  <2>1. all \in Seq(Nat) /\ Len(all) = put /\ \A i \in 1..put : all[i] = i
    BY <1>7 DEF Kept
  <2> QED BY <1>1, <2>1
<1>9. \A i, j \in 1..Len(all) : i < j => all[i] < all[j]
  BY <1>7 DEF Kept
<1> QED BY <1>1, <1>8, <1>9 DEF OutputKept, all, s

LEMMA StreamInductive == StreamSpec => []StreamInv
<1>1. StreamInit => StreamInv
  BY StreamStarts
<1>2. StreamInv /\ [StreamNext]_streamVars => StreamInv'
  <2> SUFFICES ASSUME StreamInv, [StreamNext]_streamVars PROVE StreamInv'
    OBVIOUS
  <2>1. CASE Put
    BY <2>1, PutKeeps
  <2>2. CASE Sync \/ Close
    BY <2>2, SyncKeeps
  <2>3. CASE Underflow
    BY <2>3, UnderflowKeeps
  <2>4. CASE Get \/ Unget
    BY <2>4, GetKeeps
  <2>5. CASE UNCHANGED streamVars
    <3>1. UNCHANGED <<buffer, use, eback, gptr, egptr, pos, clobbered, pptr, bad, file, put, short>>
      BY <2>5 DEF streamVars, getVars, putVars
    <3>2. BufferIsArray' /\ OutInv'
      BY <3>1 DEF StreamInv, BufferIsArray, OutInv
    <3>3. InInv'
      BY <3>1 DEF StreamInv, InInv, ReadBack
    <3> QED BY <3>2, <3>3 DEF StreamInv
  <2> QED BY <2>1, <2>2, <2>3, <2>4, <2>5 DEF StreamNext
<1> QED BY <1>1, <1>2, PTL DEF StreamSpec

(* What overflow(), sync() and close() write is what was put, in order and *)
(* once, for every size of the buffer and however writes fail: the put     *)
(* area never outgrows the buffer although overflow() stores a character   *)
(* beyond epptr before it flushes.                                         *)
THEOREM StreamOutputKept == StreamSpec => []OutputKept
<1>1. StreamInv => OutputKept
  BY StreamOutput
<1> QED BY <1>1, StreamInductive, PTL

(* What underflow() delivers, and what it keeps for put-back unless memcpy *)
(* met overlapping areas or a failed read left it overwritten, is what the *)
(* file holds there, for every size of the buffer and of the put-back area *)
(* and however much each read() returns.                                   *)
THEOREM StreamReadBack == StreamSpec => []ReadBack
<1>1. StreamInv => ReadBack
  BY DEF StreamInv, InInv
<1> QED BY <1>1, StreamInductive, PTL

(***************************************************************************)
(* BufferList: any number of lists and nodes.                              *)
(***************************************************************************)

Addresses == Lists \cup ListNodes

(* The i-th address on the way round from the root of l, which comes       *)
(* before the first and after the last element of c.                       *)
Along(c, l, i) == IF i = 0 \/ i = Len(c) + 1 THEN l ELSE c[i]

Chain(f, l, c) ==
    \A i \in 0..Len(c) :
        f[Along(c, l, i)].next = Along(c, l, i + 1) /\ f[Along(c, l, i + 1)].prev = Along(c, l, i)

(* f links the elements of every list in lv, ct is what they are: no node  *)
(* is twice in them, and those in lv are the nodes that are in some list.  *)
Rings(f, ct, lv) ==
    /\ f \in [Addresses -> [next : Addresses, prev : Addresses]]
    /\ ct \in [Lists -> Seq(ListNodes)] /\ lv \subseteq Addresses
    /\ \A l, m \in Lists : \A i \in 1..Len(ct[l]), j \in 1..Len(ct[m]) :
         ct[l][i] = ct[m][j] => l = m /\ i = j
    /\ \A l \in Lists : l \notin lv => ct[l] = <<>>
    /\ \A l \in Lists : l \in lv => Chain(f, l, ct[l])
    /\ \A e \in ListNodes : e \in lv <=> \E l \in Lists : \E i \in 1..Len(ct[l]) : ct[l][i] = e

ListInv == moved \in BOOLEAN /\ (~moved => Rings(link, content, live))

-----------------------------------------------------------------------------
(* What insert() does to the pointers: b and a become the neighbours of e. *)
LEMMA InsertLinks ==
  ASSUME NEW f \in [Addresses -> [next : Addresses, prev : Addresses]],
         NEW a \in Addresses, NEW b \in Addresses, NEW e \in Addresses, a # e, b # e, f[a].prev = b
  PROVE  /\ InsertBefore(f, a, e) \in [Addresses -> [next : Addresses, prev : Addresses]]
         /\ \A x \in Addresses :
              /\ InsertBefore(f, a, e)[x].next = IF x = e THEN a ELSE IF x = b THEN e ELSE f[x].next
              /\ InsertBefore(f, a, e)[x].prev = IF x = e THEN b ELSE IF x = a THEN e ELSE f[x].prev
<1> DEFINE e1 == [f EXCEPT ![e] = [next |-> a, prev |-> f[a].prev]]
           e2 == [e1 EXCEPT ![e1[a].prev].next = e]
           e3 == [e2 EXCEPT ![a].prev = e]
<1>1. /\ e1 \in [Addresses -> [next : Addresses, prev : Addresses]]
      /\ \A x \in Addresses : e1[x] = IF x = e THEN [next |-> a, prev |-> b] ELSE f[x]
  OBVIOUS
<1>2. e1[a].prev = b
  BY <1>1
<1> HIDE DEF e1
<1>3. /\ e2 \in [Addresses -> [next : Addresses, prev : Addresses]]
      /\ \A x \in Addresses : e2[x] = IF x = b THEN [next |-> e, prev |-> e1[b].prev] ELSE e1[x]
  BY <1>1, <1>2
<1> HIDE DEF e2
<1>4. /\ e3 \in [Addresses -> [next : Addresses, prev : Addresses]]
      /\ \A x \in Addresses : e3[x] = IF x = a THEN [next |-> e2[a].next, prev |-> e] ELSE e2[x]
  BY <1>3
<1> HIDE DEF e3
<1>5. ASSUME NEW x \in Addresses
      PROVE  /\ e3[x].next = IF x = e THEN a ELSE IF x = b THEN e ELSE f[x].next
             /\ e3[x].prev = IF x = e THEN b ELSE IF x = a THEN e ELSE f[x].prev
  BY <1>1, <1>3, <1>4
<1>6. InsertBefore(f, a, e) = e3
  BY DEF InsertBefore, e1, e2, e3
<1> QED BY <1>4, <1>5, <1>6

(* g is f without a, whose neighbours b and n have become each other's.    *)
Spliced(g, f, a, b, n) ==
    /\ g \in [Addresses -> [next : Addresses, prev : Addresses]]
    /\ \A x \in Addresses :
         /\ g[x].next = IF x = a THEN a ELSE IF x = b THEN n ELSE f[x].next
         /\ g[x].prev = IF x = a THEN a ELSE IF x = n THEN b ELSE f[x].prev

(* What unlink() does to the pointers.                                     *)
LEMMA UnlinkLinks ==
  ASSUME NEW f \in [Addresses -> [next : Addresses, prev : Addresses]],
         NEW a \in Addresses, NEW b \in Addresses, NEW n \in Addresses, a # b, a # n,
         f[a].prev = b, f[a].next = n
  PROVE  Spliced(Unlinked(f, a), f, a, b, n)
<1> DEFINE e1 == [f EXCEPT ![f[a].next].prev = f[a].prev]
           e2 == [e1 EXCEPT ![e1[e1[a].next].prev].next = e1[a].next]
           e3 == [e2 EXCEPT ![a] = Self(a)]
<1>1. /\ e1 \in [Addresses -> [next : Addresses, prev : Addresses]]
      /\ \A x \in Addresses : e1[x] = IF x = n THEN [next |-> f[n].next, prev |-> b] ELSE f[x]
  OBVIOUS
<1>2. e1[a].next = n /\ e1[e1[a].next].prev = b
  BY <1>1
<1> HIDE DEF e1
<1>3. /\ e2 \in [Addresses -> [next : Addresses, prev : Addresses]]
      /\ \A x \in Addresses : e2[x] = IF x = b THEN [next |-> n, prev |-> e1[b].prev] ELSE e1[x]
  BY <1>1, <1>2
<1> HIDE DEF e2
<1>4. /\ e3 \in [Addresses -> [next : Addresses, prev : Addresses]]
      /\ \A x \in Addresses : e3[x] = IF x = a THEN [next |-> a, prev |-> a] ELSE e2[x]
  BY <1>3 DEF Self
<1> HIDE DEF e3
<1>5. ASSUME NEW x \in Addresses
      PROVE  /\ e3[x].next = IF x = a THEN a ELSE IF x = b THEN n ELSE f[x].next
             /\ e3[x].prev = IF x = a THEN a ELSE IF x = n THEN b ELSE f[x].prev
  BY <1>1, <1>3, <1>4
<1>6. Unlinked(f, a) = e3
  BY DEF Unlinked, e1, e2, e3
<1> QED BY <1>4, <1>5, <1>6 DEF Spliced

-----------------------------------------------------------------------------
(* The way round a list meets no address twice.                            *)
LEMMA StopFacts ==
  ASSUME NEW c \in Seq(ListNodes), NEW l \in Lists,
         \A i, j \in 1..Len(c) : c[i] = c[j] => i = j
  PROVE  /\ \A i \in 0..(Len(c) + 1) : Along(c, l, i) \in Addresses /\ (Along(c, l, i) # l => i \in 1..Len(c))
         /\ \A i \in 1..Len(c) : Along(c, l, i) = c[i] /\ Along(c, l, i) \in ListNodes /\ Along(c, l, i) # l
         /\ Along(c, l, 0) = l /\ Along(c, l, Len(c) + 1) = l
         /\ \A i, j \in 0..Len(c) : Along(c, l, i) = Along(c, l, j) => i = j
         /\ \A i, j \in 1..(Len(c) + 1) : Along(c, l, i) = Along(c, l, j) => i = j
<1>1. Len(c) \in Nat
  BY LenProperties
<1>2. \A i \in 1..Len(c) : c[i] \in ListNodes /\ c[i] # l
  BY ElementOfSeq, ListNodesAssumption
<1>3. Along(c, l, 0) = l /\ Along(c, l, Len(c) + 1) = l
  BY <1>1 DEF Along
<1>4. \A i \in 1..Len(c) : Along(c, l, i) = c[i]
  BY <1>1 DEF Along
<1>5. \A i \in 0..(Len(c) + 1) : i = 0 \/ i = Len(c) + 1 \/ i \in 1..Len(c)
  BY <1>1
<1>6. \A i \in 0..(Len(c) + 1) : Along(c, l, i) \in Addresses /\ (Along(c, l, i) # l => i \in 1..Len(c))
  BY <1>2, <1>3, <1>4, <1>5 DEF Addresses
<1>7. ASSUME NEW i \in 0..Len(c), NEW j \in 0..Len(c), Along(c, l, i) = Along(c, l, j) PROVE i = j
  <2>1. (i = 0 \/ i \in 1..Len(c)) /\ (j = 0 \/ j \in 1..Len(c))
    BY <1>1
  <2> QED BY <1>2, <1>3, <1>4, <1>7, <2>1
<1>8. ASSUME NEW i \in 1..(Len(c) + 1), NEW j \in 1..(Len(c) + 1), Along(c, l, i) = Along(c, l, j) PROVE i = j
  <2>1. (i = Len(c) + 1 \/ i \in 1..Len(c)) /\ (j = Len(c) + 1 \/ j \in 1..Len(c))
    BY <1>1
  <2> QED BY <1>2, <1>3, <1>4, <1>8, <2>1
<1> QED BY <1>2, <1>3, <1>4, <1>6, <1>7, <1>8

(* f and g agree on all addresses but e and those on the way round l.      *)
Agree(f, g, l, c, e) ==
    \A x \in Addresses : x # e /\ (\A i \in 0..(Len(c) + 1) : x # Along(c, l, i))
        => g[x].next = f[x].next /\ g[x].prev = f[x].prev

LEMMA ChainKept ==
  ASSUME NEW f, NEW g, NEW l, NEW c \in Seq(ListNodes), Chain(f, l, c),
         \A i \in 0..(Len(c) + 1) : g[Along(c, l, i)].next = f[Along(c, l, i)].next
                                    /\ g[Along(c, l, i)].prev = f[Along(c, l, i)].prev
  PROVE  Chain(g, l, c)
<1>1. Len(c) \in Nat
  BY LenProperties
<1>2. \A i \in 0..Len(c) : i \in 0..(Len(c) + 1) /\ i + 1 \in 0..(Len(c) + 1)
  BY <1>1
<1> QED BY <1>2, Zenon DEF Chain

-----------------------------------------------------------------------------
(* r is c with e put in at p.                                              *)
Inserted(r, c, l, p, e) ==
    /\ r \in Seq(ListNodes) /\ Len(r) = Len(c) + 1
    /\ \A i \in 1..(Len(c) + 1) : r[i] = IF i < p THEN c[i] ELSE IF i = p THEN e ELSE c[i - 1]
    /\ \A i \in 0..(Len(c) + 2) :
         Along(r, l, i) = IF i < p THEN Along(c, l, i) ELSE IF i = p THEN e ELSE Along(c, l, i - 1)

LEMMA InsertStops ==
  ASSUME NEW c \in Seq(ListNodes), NEW l, NEW e \in ListNodes, NEW p \in 1..(Len(c) + 1)
  PROVE  Inserted(InsertAt(c, p, e), c, l, p, e)
<1> DEFINE a == SubSeq(c, 1, p - 1)
           b == SubSeq(c, p, Len(c))
           d == a \o <<e>>
           r == d \o b
<1>0. Len(c) \in Nat /\ p \in Nat
  BY LenProperties
<1>1. /\ a \in Seq(ListNodes) /\ Len(a) = p - 1 /\ \A i \in 1..(p - 1) : a[i] = c[i]
      /\ b \in Seq(ListNodes) /\ Len(b) = Len(c) - p + 1 /\ \A i \in 1..(Len(c) - p + 1) : b[i] = c[p + i - 1]
  OBVIOUS
<1>2. <<e>> \in Seq(ListNodes) /\ Len(<<e>>) = 1 /\ <<e>>[1] = e
  OBVIOUS
<1> HIDE DEF a, b
<1>3. d \in Seq(ListNodes) /\ Len(d) = p /\ \A i \in 1..p : d[i] = IF i < p THEN c[i] ELSE e
  <2>1. /\ d \in Seq(ListNodes) /\ Len(d) = Len(a) + 1
        /\ \A i \in 1..(Len(a) + 1) : d[i] = IF i <= Len(a) THEN a[i] ELSE <<e>>[i - Len(a)]
    BY <1>1, <1>2, ConcatProperties
  <2> HIDE DEF d
  <2>2. ASSUME NEW i \in 1..p PROVE d[i] = IF i < p THEN c[i] ELSE e
    <3>1. i \in 1..(Len(a) + 1)
      BY <1>0, <1>1
    <3>2. CASE i < p
      <4>1. i <= Len(a) /\ i \in 1..(p - 1)
        BY <1>0, <1>1, <3>2
      <4> QED BY <1>1, <2>1, <3>1, <3>2, <4>1
    <3>3. CASE i = p
      <4>1. ~(i <= Len(a)) /\ i - Len(a) = 1
        BY <1>0, <1>1, <3>3
      <4> QED BY <1>2, <2>1, <3>1, <3>3, <4>1
    <3> QED BY <1>0, <3>2, <3>3
  <2> QED BY <1>0, <1>1, <2>1, <2>2
<1> HIDE DEF d
<1>4. /\ r \in Seq(ListNodes) /\ Len(r) = Len(d) + Len(b)
      /\ \A i \in 1..(Len(d) + Len(b)) : r[i] = IF i <= Len(d) THEN d[i] ELSE b[i - Len(d)]
  BY <1>1, <1>3, ConcatProperties
<1> HIDE DEF r
<1>5. Len(r) = Len(c) + 1
  BY <1>0, <1>1, <1>3, <1>4
<1>6. ASSUME NEW i \in 1..(Len(c) + 1)
      PROVE  r[i] = IF i < p THEN c[i] ELSE IF i = p THEN e ELSE c[i - 1]
  <2>1. i \in 1..(Len(d) + Len(b))
    BY <1>0, <1>1, <1>3
  <2>2. CASE i <= p
    BY <1>0, <1>3, <1>4, <2>1, <2>2
  <2>3. CASE i > p
    <3>1. i - p \in 1..(Len(c) - p + 1) /\ p + (i - p) - 1 = i - 1 /\ ~(i <= Len(d))
      BY <1>0, <1>3, <2>3
    <3>2. r[i] = b[i - p]
      BY <1>3, <1>4, <2>1, <3>1
    <3> QED BY <1>0, <1>1, <2>3, <3>1, <3>2
  <2> QED BY <1>0, <2>2, <2>3
<1>7. ASSUME NEW i \in 0..(Len(c) + 2)
      PROVE  Along(r, l, i) = IF i < p THEN Along(c, l, i) ELSE IF i = p THEN e ELSE Along(c, l, i - 1)
  <2>1. CASE i = 0
    BY <1>0, <2>1 DEF Along
  <2>2. CASE i = Len(c) + 2
    <3>1. i = Len(r) + 1 /\ i - 1 = Len(c) + 1 /\ ~(i < p) /\ i # p
      BY <1>0, <1>5, <2>2
    <3> QED BY <3>1 DEF Along
  <2>3. CASE i \in 1..(Len(c) + 1)
    <3>1. Along(r, l, i) = r[i]
      BY <1>0, <1>5, <2>3 DEF Along
    <3>2. CASE i < p
      <4>1. Along(c, l, i) = c[i]
        BY <1>0, <2>3, <3>2 DEF Along
      <4> QED BY <1>6, <2>3, <3>1, <3>2, <4>1
    <3>3. CASE i = p
      <4>1. ~(i < p)
        BY <1>0, <3>3
      <4> QED BY <1>6, <2>3, <3>1, <3>3, <4>1
    <3>4. CASE i > p
      <4>1. Along(c, l, i - 1) = c[i - 1] /\ ~(i < p) /\ i # p
        BY <1>0, <2>3, <3>4 DEF Along
      <4> QED BY <1>6, <2>3, <3>1, <4>1
    <3> QED BY <1>0, <2>3, <3>2, <3>3, <3>4
  <2> QED BY <1>0, <2>1, <2>2, <2>3
<1>8. InsertAt(c, p, e) = r
  BY Zenon DEF InsertAt, r, d, a, b
<1> QED BY <1>4, <1>5, <1>6, <1>7, <1>8, Zenon DEF Inserted

LEMMA InsertChain ==
  ASSUME NEW c \in Seq(ListNodes), NEW l \in Lists, \A i, j \in 1..Len(c) : c[i] = c[j] => i = j,
         NEW f \in [Addresses -> [next : Addresses, prev : Addresses]], Chain(f, l, c),
         NEW e \in ListNodes, \A i \in 1..Len(c) : c[i] # e, NEW p \in 1..(Len(c) + 1)
  PROVE  /\ InsertBefore(f, Along(c, l, p), e) \in [Addresses -> [next : Addresses, prev : Addresses]]
         /\ Chain(InsertBefore(f, Along(c, l, p), e), l, InsertAt(c, p, e))
         /\ Agree(f, InsertBefore(f, Along(c, l, p), e), l, c, e)
<1> DEFINE a == Along(c, l, p)
           b == Along(c, l, p - 1)
           g == InsertBefore(f, a, e)
           r == InsertAt(c, p, e)
           n == Len(c)
<1>1. n \in Nat /\ p \in Nat /\ p - 1 \in 0..n /\ p \in 0..(n + 1) /\ p - 1 \in 0..(n + 1) /\ (p - 1) + 1 = p
  BY LenProperties
<1>2. /\ \A i \in 0..(n + 1) : Along(c, l, i) \in Addresses /\ Along(c, l, i) # e
      /\ \A i, j \in 0..n : Along(c, l, i) = Along(c, l, j) => i = j
      /\ \A i, j \in 1..(n + 1) : Along(c, l, i) = Along(c, l, j) => i = j
  BY StopFacts, ListNodesAssumption
<1>3. a \in Addresses /\ b \in Addresses /\ e \in Addresses /\ a # e /\ b # e /\ f[a].prev = b
  BY <1>1, <1>2 DEF Addresses, Chain
<1>4. /\ g \in [Addresses -> [next : Addresses, prev : Addresses]]
      /\ \A x \in Addresses :
           /\ g[x].next = IF x = e THEN a ELSE IF x = b THEN e ELSE f[x].next
           /\ g[x].prev = IF x = e THEN b ELSE IF x = a THEN e ELSE f[x].prev
  BY <1>3, InsertLinks
<1>5. /\ r \in Seq(ListNodes) /\ Len(r) = n + 1
      /\ \A i \in 0..(n + 2) :
           Along(r, l, i) = IF i < p THEN Along(c, l, i) ELSE IF i = p THEN e ELSE Along(c, l, i - 1)
  <2>1. Inserted(r, c, l, p, e)
    BY InsertStops
  <2> QED BY <2>1, Zenon DEF Inserted
<1>6. \A i \in 0..n : f[Along(c, l, i)].next = Along(c, l, i + 1) /\ f[Along(c, l, i + 1)].prev = Along(c, l, i)
  BY DEF Chain
<1> HIDE DEF g, r
<1>7. ASSUME NEW i \in 0..(n + 1)
      PROVE  g[Along(r, l, i)].next = Along(r, l, i + 1) /\ g[Along(r, l, i + 1)].prev = Along(r, l, i)
  <2>1. i \in 0..(n + 2) /\ i + 1 \in 0..(n + 2) /\ i \in Int
    BY <1>1
  <2>2. CASE i + 1 < p
    <3>1. i \in 0..n /\ i # p - 1 /\ i + 1 # p /\ i + 1 \in 1..(n + 1) /\ p \in 1..(n + 1) /\ i < p
          /\ i \in 0..(n + 1) /\ i + 1 \in 0..(n + 1)
      BY <1>1, <2>1, <2>2
    <3>2. Along(r, l, i) = Along(c, l, i) /\ Along(r, l, i + 1) = Along(c, l, i + 1)
      BY <1>5, <2>1, <2>2, <3>1
    <3>3. Along(c, l, i) # b /\ Along(c, l, i + 1) # a
      BY <1>1, <1>2, <3>1
    <3> HIDE DEF a, b
    <3> QED BY <1>2, <1>4, <1>6, <3>1, <3>2, <3>3
  <2>3. CASE i + 1 = p
    <3>1. i = p - 1 /\ i < p /\ ~(p < p)
      BY <1>1, <2>1, <2>3
    <3>2. Along(r, l, i) = b /\ Along(r, l, i + 1) = e
      BY <1>5, <2>1, <2>3, <3>1
    <3> HIDE DEF a, b
    <3> QED BY <1>3, <1>4, <3>2
  <2>4. CASE i = p
    <3>1. ~(i < p) /\ ~(i + 1 < p) /\ i + 1 # p /\ (i + 1) - 1 = p
      BY <1>1, <2>1, <2>4
    <3>2. Along(r, l, i) = e /\ Along(r, l, i + 1) = a
      BY <1>5, <2>1, <2>4, <3>1
    <3> HIDE DEF a, b
    <3> QED BY <1>3, <1>4, <3>2
  <2>5. CASE i > p
    <3>1. /\ ~(i < p) /\ i # p /\ ~(i + 1 < p) /\ i + 1 # p /\ (i + 1) - 1 = i /\ (i - 1) + 1 = i
          /\ i - 1 \in 0..n /\ i - 1 # p - 1 /\ i \in 1..(n + 1) /\ p \in 1..(n + 1)
          /\ i \in 0..(n + 1) /\ i - 1 \in 0..(n + 1)
      BY <1>1, <2>1, <2>5
    <3>2. Along(r, l, i) = Along(c, l, i - 1) /\ Along(r, l, i + 1) = Along(c, l, i)
      BY <1>5, <2>1, <3>1
    <3>3. Along(c, l, i - 1) # b /\ Along(c, l, i) # a
      BY <1>1, <1>2, <3>1
    <3>4. f[Along(c, l, i - 1)].next = Along(c, l, i) /\ f[Along(c, l, i)].prev = Along(c, l, i - 1)
      BY <1>6, <3>1
    <3> HIDE DEF a, b
    <3> QED BY <1>2, <1>4, <3>1, <3>2, <3>3, <3>4
  <2> QED BY <1>1, <2>1, <2>2, <2>3, <2>4, <2>5
<1>8. Chain(g, l, r)
  BY <1>5, <1>7 DEF Chain
<1>9. Agree(f, g, l, c, e)
  BY <1>1, <1>4 DEF Agree
<1> QED BY <1>4, <1>8, <1>9 DEF g, r

-----------------------------------------------------------------------------
(* r is c without its p-th element.                                        *)
Removed(r, c, l, p) ==
    /\ r \in Seq(ListNodes) /\ Len(r) = Len(c) - 1
    /\ \A i \in 1..(Len(c) - 1) : r[i] = IF i < p THEN c[i] ELSE c[i + 1]
    /\ \A i \in 0..Len(c) : Along(r, l, i) = IF i < p THEN Along(c, l, i) ELSE Along(c, l, i + 1)

LEMMA RemoveStops ==
  ASSUME NEW c \in Seq(ListNodes), NEW l, NEW p \in 1..Len(c)
  PROVE  Removed(RemoveAt(c, p), c, l, p)
<1> DEFINE a == SubSeq(c, 1, p - 1)
           b == SubSeq(c, p + 1, Len(c))
           r == a \o b
<1>0. Len(c) \in Nat /\ p \in Nat
  BY LenProperties
<1>1. /\ a \in Seq(ListNodes) /\ Len(a) = p - 1 /\ \A i \in 1..(p - 1) : a[i] = c[i]
      /\ b \in Seq(ListNodes) /\ Len(b) = Len(c) - p /\ \A i \in 1..(Len(c) - p) : b[i] = c[p + i]
  OBVIOUS
<1> HIDE DEF a, b
<1>2. /\ r \in Seq(ListNodes) /\ Len(r) = Len(a) + Len(b)
      /\ \A i \in 1..(Len(a) + Len(b)) : r[i] = IF i <= Len(a) THEN a[i] ELSE b[i - Len(a)]
  BY <1>1, ConcatProperties
<1> HIDE DEF r
<1>3. Len(r) = Len(c) - 1
  BY <1>0, <1>1, <1>2
<1>4. ASSUME NEW i \in 1..(Len(c) - 1) PROVE r[i] = IF i < p THEN c[i] ELSE c[i + 1]
  <2>1. i \in 1..(Len(a) + Len(b))
    BY <1>0, <1>1
  <2>2. CASE i < p
    <3>1. i <= Len(a) /\ i \in 1..(p - 1)
      BY <1>0, <1>1, <2>2
    <3> QED BY <1>1, <1>2, <2>1, <2>2, <3>1
  <2>3. CASE ~(i < p)
    <3>1. ~(i <= Len(a)) /\ i - Len(a) \in 1..(Len(c) - p) /\ p + (i - Len(a)) = i + 1
      BY <1>0, <1>1, <2>3
    <3> QED BY <1>1, <1>2, <2>1, <2>3, <3>1
  <2> QED BY <2>2, <2>3
<1>5. ASSUME NEW i \in 0..Len(c)
      PROVE  Along(r, l, i) = IF i < p THEN Along(c, l, i) ELSE Along(c, l, i + 1)
  <2>1. CASE i = 0
    BY <1>0, <2>1 DEF Along
  <2>2. CASE i = Len(c)
    <3>1. i = Len(r) + 1 /\ ~(i < p)
      BY <1>0, <1>3, <2>2
    <3> QED BY <2>2, <3>1 DEF Along
  <2>3. CASE i \in 1..(Len(c) - 1)
    <3>1. Along(r, l, i) = r[i]
      BY <1>0, <1>3, <2>3 DEF Along
    <3>2. Along(c, l, i) = c[i] /\ Along(c, l, i + 1) = c[i + 1]
      BY <1>0, <2>3 DEF Along
    <3> QED BY <1>4, <2>3, <3>1, <3>2
  <2> QED BY <1>0, <2>1, <2>2, <2>3
<1>6. RemoveAt(c, p) = r
  BY Zenon DEF RemoveAt, r, a, b
<1> QED BY <1>2, <1>3, <1>4, <1>5, <1>6, Zenon DEF Removed

LEMMA UnlinkChain ==
  ASSUME NEW c \in Seq(ListNodes), NEW l \in Lists, \A i, j \in 1..Len(c) : c[i] = c[j] => i = j,
         NEW f \in [Addresses -> [next : Addresses, prev : Addresses]], Chain(f, l, c),
         NEW p \in 1..Len(c)
  PROVE  /\ Unlinked(f, c[p]) \in [Addresses -> [next : Addresses, prev : Addresses]]
         /\ Chain(Unlinked(f, c[p]), l, RemoveAt(c, p))
         /\ Agree(f, Unlinked(f, c[p]), l, c, c[p])
<1> DEFINE a == c[p]
           b == Along(c, l, p - 1)
           s == Along(c, l, p + 1)
           g == Unlinked(f, a)
           r == RemoveAt(c, p)
           n == Len(c)
<1>1. n \in Nat /\ p \in Nat /\ p - 1 \in 0..n /\ p \in 0..n /\ p \in 0..(n + 1) /\ p - 1 \in 0..(n + 1)
      /\ p + 1 \in 0..(n + 1) /\ p + 1 \in 1..(n + 1) /\ p \in 1..(n + 1)
      /\ (p - 1) + 1 = p /\ p - 1 # p /\ p + 1 # p
  BY LenProperties
<1>2. /\ \A i \in 0..(n + 1) : Along(c, l, i) \in Addresses
      /\ \A i, j \in 0..n : Along(c, l, i) = Along(c, l, j) => i = j
      /\ \A i, j \in 1..(n + 1) : Along(c, l, i) = Along(c, l, j) => i = j
      /\ Along(c, l, p) = a
  BY StopFacts
<1>3. a \in Addresses /\ b \in Addresses /\ s \in Addresses /\ a # b /\ a # s
  BY <1>1, <1>2
<1>4. \A i \in 0..n : f[Along(c, l, i)].next = Along(c, l, i + 1) /\ f[Along(c, l, i + 1)].prev = Along(c, l, i)
  BY DEF Chain
<1>5. f[a].prev = b /\ f[a].next = s
  BY <1>1, <1>2, <1>4
<1>6. /\ g \in [Addresses -> [next : Addresses, prev : Addresses]]
      /\ \A x \in Addresses :
           /\ g[x].next = IF x = a THEN a ELSE IF x = b THEN s ELSE f[x].next
           /\ g[x].prev = IF x = a THEN a ELSE IF x = s THEN b ELSE f[x].prev
  <2> HIDE DEF a, b, s
  <2>1. Spliced(g, f, a, b, s)
    BY <1>3, <1>5, UnlinkLinks
  <2> QED BY <2>1, Zenon DEF Spliced
<1>7. /\ r \in Seq(ListNodes) /\ Len(r) = n - 1
      /\ \A i \in 0..n : Along(r, l, i) = IF i < p THEN Along(c, l, i) ELSE Along(c, l, i + 1)
  <2>1. Removed(r, c, l, p)
    BY RemoveStops
  <2> QED BY <2>1, Zenon DEF Removed
<1> HIDE DEF g, r, a
<1>8. ASSUME NEW i \in 0..(n - 1)
      PROVE  g[Along(r, l, i)].next = Along(r, l, i + 1) /\ g[Along(r, l, i + 1)].prev = Along(r, l, i)
  <2>1. i \in 0..n /\ i + 1 \in 0..n /\ i \in Int /\ i \in 0..(n + 1) /\ i + 1 \in 0..(n + 1)
        /\ i + 1 \in 1..(n + 1) /\ i + 2 \in 1..(n + 1) /\ i + 2 \in 0..(n + 1) /\ (i + 1) + 1 = i + 2
    BY <1>1
  <2>2. CASE i + 1 < p
    <3>1. i < p /\ i # p /\ i # p - 1 /\ i + 1 # p /\ i + 1 # p + 1
      BY <1>1, <2>1, <2>2
    <3>2. Along(r, l, i) = Along(c, l, i) /\ Along(r, l, i + 1) = Along(c, l, i + 1)
      BY <1>7, <2>1, <2>2, <3>1
    <3>3. Along(c, l, i) # b /\ Along(c, l, i) # a /\ Along(c, l, i + 1) # s /\ Along(c, l, i + 1) # a
      BY <1>1, <1>2, <2>1, <3>1
    <3> HIDE DEF b, s
    <3> QED BY <1>2, <1>4, <1>6, <2>1, <3>2, <3>3
  <2>3. CASE i + 1 = p
    <3>1. i = p - 1 /\ i < p /\ ~(i + 1 < p) /\ (i + 1) + 1 = p + 1
      BY <1>1, <2>1, <2>3
    <3>2. Along(r, l, i) = b /\ Along(r, l, i + 1) = s
      BY <1>7, <2>1, <3>1
    <3> HIDE DEF b, s
    <3> QED BY <1>3, <1>6, <3>2
  <2>4. CASE i + 1 > p
    <3>1. ~(i < p) /\ ~(i + 1 < p) /\ i + 1 # p /\ i + 2 # p /\ i + 1 # p - 1 /\ i + 2 # p + 1
      BY <1>1, <2>1, <2>4
    <3>2. Along(r, l, i) = Along(c, l, i + 1) /\ Along(r, l, i + 1) = Along(c, l, i + 2)
      BY <1>7, <2>1, <3>1
    <3>3. Along(c, l, i + 1) # b /\ Along(c, l, i + 1) # a /\ Along(c, l, i + 2) # s /\ Along(c, l, i + 2) # a
      BY <1>1, <1>2, <2>1, <3>1
    <3>4. f[Along(c, l, i + 1)].next = Along(c, l, i + 2) /\ f[Along(c, l, i + 2)].prev = Along(c, l, i + 1)
      BY <1>4, <2>1
    <3> HIDE DEF b, s
    <3> QED BY <1>2, <1>6, <2>1, <3>2, <3>3, <3>4
  <2> QED BY <1>1, <2>1, <2>2, <2>3, <2>4
<1>9. Chain(g, l, r)
  BY <1>7, <1>8 DEF Chain
<1>10. Agree(f, g, l, c, a)
  BY <1>1, <1>6 DEF Agree
<1> QED BY <1>6, <1>9, <1>10 DEF g, r, a

-----------------------------------------------------------------------------
(* What is done to the elements of l leaves the other lists alone.         *)
LEMMA OthersKept ==
  ASSUME NEW f, NEW ct, NEW lv, Rings(f, ct, lv), NEW g, NEW l \in Lists, NEW m \in Lists, m # l, m \in lv,
         NEW e \in ListNodes, \A i \in 1..Len(ct[m]) : ct[m][i] # e,
         Agree(f, g, l, ct[l], e)
  PROVE  Chain(g, m, ct[m])
<1>1. ct[m] \in Seq(ListNodes) /\ ct[l] \in Seq(ListNodes) /\ Chain(f, m, ct[m])
  BY DEF Rings
<1>2. /\ \A i, j \in 1..Len(ct[m]) : ct[m][i] = ct[m][j] => i = j
      /\ \A i, j \in 1..Len(ct[l]) : ct[l][i] = ct[l][j] => i = j
      /\ \A i \in 1..Len(ct[m]), j \in 1..Len(ct[l]) : ct[m][i] # ct[l][j]
  BY DEF Rings
<1>3. ASSUME NEW i \in 0..(Len(ct[m]) + 1)
      PROVE  /\ Along(ct[m], m, i) \in Addresses /\ Along(ct[m], m, i) # e
             /\ \A j \in 0..(Len(ct[l]) + 1) : Along(ct[m], m, i) # Along(ct[l], l, j)
  <2>1. /\ Along(ct[m], m, i) \in Addresses
        /\ Along(ct[m], m, i) = m \/ (i \in 1..Len(ct[m]) /\ Along(ct[m], m, i) = ct[m][i] /\ ct[m][i] \in ListNodes)
    BY <1>1, <1>2, StopFacts
  <2>2. ASSUME NEW j \in 0..(Len(ct[l]) + 1)
        PROVE  Along(ct[l], l, j) = l
               \/ (j \in 1..Len(ct[l]) /\ Along(ct[l], l, j) = ct[l][j] /\ ct[l][j] \in ListNodes)
    BY <1>1, <1>2, StopFacts
  <2> QED BY <1>2, <2>1, <2>2, ListNodesAssumption
<1>4. \A i \in 0..(Len(ct[m]) + 1) :
         g[Along(ct[m], m, i)].next = f[Along(ct[m], m, i)].next
         /\ g[Along(ct[m], m, i)].prev = f[Along(ct[m], m, i)].prev
  BY <1>3 DEF Agree
<1> QED BY <1>1, <1>4, ChainKept

-----------------------------------------------------------------------------
LEMMA PlaceFacts ==
  ASSUME Rings(link, content, live), NEW l \in Lists, NEW p \in 1..(Len(content[l]) + 1)
  PROVE  Place(l, Along(content[l], l, p)) = p
<1> DEFINE c == content[l]
<1>1. c \in Seq(ListNodes) /\ Len(c) \in Nat /\ DOMAIN c = 1..Len(c)
      /\ \A i, j \in 1..Len(c) : c[i] = c[j] => i = j
  BY LenProperties DEF Rings
<1> HIDE DEF c
<1>2. CASE p = Len(c) + 1
  <2>1. Along(c, l, p) = l
    BY <1>2 DEF Along
  <2> QED BY <1>2, <2>1 DEF Place, c
<1>3. CASE p # Len(c) + 1
  <2>1. p \in 1..Len(c)
    BY <1>1, <1>3 DEF c
  <2>2. Along(c, l, p) = c[p] /\ c[p] # l
    BY <1>1, <2>1, StopFacts
  <2>3. (CHOOSE i \in DOMAIN c : c[i] = c[p]) = p
    BY <1>1, <2>1
  <2> QED BY <2>2, <2>3 DEF Place, c
<1> QED BY <1>2, <1>3

(* push_back, push_front and insert.                                       *)
LEMMA InsertKeeps ==
  ASSUME Rings(link, content, live), NEW l \in Lists, l \in live, NEW p \in 1..(Len(content[l]) + 1),
         InsertAtPos(l, Along(content[l], l, p))
  PROVE  Rings(link', content', live')
<1> DEFINE c == content[l]
<1>1. c \in Seq(ListNodes) /\ Len(c) \in Nat /\ p \in Nat /\ \A i, j \in 1..Len(c) : c[i] = c[j] => i = j
  BY LenProperties DEF Rings
<1>2. /\ link \in [Addresses -> [next : Addresses, prev : Addresses]]
      /\ content \in [Lists -> Seq(ListNodes)] /\ live \subseteq Addresses /\ Chain(link, l, c)
  BY DEF Rings
<1>3. PICK e \in ListNodes \ live :
        /\ live' = live \cup {e}
        /\ link' = InsertBefore(link, Along(c, l, p), e)
        /\ content' = [content EXCEPT ![l] = InsertAt(@, Place(l, Along(c, l, p)), e)]
  BY DEF InsertAtPos
<1> DEFINE r == InsertAt(c, p, e)
<1>4. content' = [content EXCEPT ![l] = r]
  BY <1>3, PlaceFacts
<1>5. \A m \in Lists : \A i \in 1..Len(content[m]) : content[m][i] # e
  BY <1>3 DEF Rings
<1>6. /\ link' \in [Addresses -> [next : Addresses, prev : Addresses]]
      /\ Chain(link', l, r)
      /\ Agree(link, link', l, c, e)
  <2>1. e \in ListNodes /\ \A i \in 1..Len(c) : c[i] # e
    BY <1>5
  <2> HIDE DEF c
  <2>2. p \in 1..(Len(c) + 1)
    BY DEF c
  <2> DEFINE g == InsertBefore(link, Along(c, l, p), e)
  <2>3. /\ g \in [Addresses -> [next : Addresses, prev : Addresses]]
        /\ Chain(g, l, InsertAt(c, p, e)) /\ Agree(link, g, l, c, e)
    BY <1>1, <1>2, <2>1, <2>2, InsertChain
  <2> QED BY <1>3, <2>3, Zenon
<1>7. /\ r \in Seq(ListNodes) /\ Len(r) = Len(c) + 1
      /\ \A i \in 1..(Len(c) + 1) : r[i] = IF i < p THEN c[i] ELSE IF i = p THEN e ELSE c[i - 1]
  <2>1. Inserted(r, c, l, p, e)
    BY <1>1, <1>3, InsertStops
  <2> QED BY <2>1, Zenon DEF Inserted
<1> HIDE DEF r
<1>8. /\ content' \in [Lists -> Seq(ListNodes)] /\ content'[l] = r
      /\ \A m \in Lists : m # l => content'[m] = content[m]
  BY <1>2, <1>4, <1>7
<1>9. ASSUME NEW i \in 1..Len(r)
      PROVE  (i = p /\ r[i] = e) \/ (i < p /\ i \in 1..Len(c) /\ r[i] = c[i])
             \/ (i > p /\ i - 1 \in 1..Len(c) /\ r[i] = c[i - 1])
  BY <1>1, <1>7
<1>10. \A m, k \in Lists : \A i \in 1..Len(content'[m]), j \in 1..Len(content'[k]) :
         content'[m][i] = content'[k][j] => m = k /\ i = j
  <2>1. ASSUME NEW i \in 1..Len(r), NEW j \in 1..Len(r), r[i] = r[j] PROVE i = j
    <3>1. \A k \in 1..Len(c) : c[k] # e
      BY <1>5
    <3>2. i \in Int /\ j \in Int
      OBVIOUS
    <3> HIDE DEF c
    <3> QED BY <1>1, <1>9, <2>1, <3>1, <3>2
  <2>2. ASSUME NEW m \in Lists, m # l, NEW i \in 1..Len(r), NEW j \in 1..Len(content[m]) PROVE r[i] # content[m][j]
    BY <1>5, <1>9, <2>2 DEF Rings
  <2>3. \A m, k \in Lists : \A i \in 1..Len(content[m]), j \in 1..Len(content[k]) :
          content[m][i] = content[k][j] => m = k /\ i = j
    BY DEF Rings
  <2> SUFFICES ASSUME NEW m \in Lists, NEW k \in Lists,
                      NEW i \in 1..Len(content'[m]), NEW j \in 1..Len(content'[k]),
                      content'[m][i] = content'[k][j]
               PROVE  m = k /\ i = j
    OBVIOUS
  <2>4. CASE m = l /\ k = l
    BY <1>8, <2>1, <2>4
  <2>5. CASE m = l /\ k # l
    BY <1>8, <2>2, <2>5
  <2>6. CASE m # l /\ k = l
    BY <1>8, <2>2, <2>6
  <2>7. CASE m # l /\ k # l
    BY <1>8, <2>3, <2>7
  <2> QED BY <2>4, <2>5, <2>6, <2>7
<1>11. ASSUME NEW m \in Lists, m \notin live' PROVE content'[m] = <<>>
  BY <1>3, <1>8, <1>11 DEF Rings
<1>12. ASSUME NEW m \in Lists, m \in live' PROVE Chain(link', m, content'[m])
  <2>1. CASE m = l
    BY <1>6, <1>8, <2>1
  <2>2. CASE m # l
    <3>1. m \in live /\ e \in ListNodes
      BY <1>3, <1>12, ListNodesAssumption
    <3>2. (\A i \in 1..Len(content[m]) : content[m][i] # e) /\ Agree(link, link', l, content[l], e)
      BY <1>5, <1>6, <2>2
    <3>3. Chain(link', m, content[m])
      BY <2>2, <3>1, <3>2, OthersKept
    <3> QED BY <1>8, <2>2, <3>3
  <2> QED BY <2>1, <2>2
<1>13. ASSUME NEW x \in ListNodes
       PROVE  x \in live' <=> \E m \in Lists : \E i \in 1..Len(content'[m]) : content'[m][i] = x
  <2>1. x \in live <=> \E m \in Lists : \E i \in 1..Len(content[m]) : content[m][i] = x
    BY DEF Rings
  <2>2. r[p] = e /\ p \in 1..Len(r)
    BY <1>1, <1>7
  <2>3. ASSUME NEW i \in 1..Len(c) PROVE \E j \in 1..Len(r) : r[j] = c[i]
    <3>1. CASE i < p
      <4>1. i \in 1..Len(r) /\ r[i] = c[i]
        BY <1>1, <1>7, <3>1
      <4> QED BY <4>1
    <3>2. CASE ~(i < p)
      <4>1. i + 1 \in 1..Len(r) /\ i + 1 \in 1..(Len(c) + 1) /\ ~(i + 1 < p) /\ i + 1 # p /\ (i + 1) - 1 = i
        BY <1>1, <1>7, <3>2
      <4>2. r[i + 1] = c[i]
        BY <1>7, <4>1
      <4> QED BY <4>1, <4>2
    <3> QED BY <3>1, <3>2
  <2>4. CASE x = e
    BY <1>3, <1>8, <2>2, <2>4
  <2>5. CASE x # e
    <3>1. ASSUME x \in live PROVE \E m \in Lists : \E i \in 1..Len(content'[m]) : content'[m][i] = x
      BY <1>8, <2>1, <2>3, <3>1
    <3>2. ASSUME NEW m \in Lists, NEW i \in 1..Len(content'[m]), content'[m][i] = x PROVE x \in live
      BY <1>8, <1>9, <2>1, <2>5, <3>2
    <3> QED BY <1>3, <2>5, <3>1, <3>2
  <2> QED BY <2>4, <2>5
<1>14. live' \subseteq Addresses
  BY <1>2, <1>3 DEF Addresses
<1> QED BY <1>6, <1>8, <1>10, <1>11, <1>12, <1>13, <1>14 DEF Rings

(* _erase                                                                  *)
LEMMA EraseKeeps ==
  ASSUME Rings(link, content, live), NEW l \in Lists, l \in live, NEW p \in 1..Len(content[l]),
         EraseNode(l, content[l][p])
  PROVE  Rings(link', content', live')
<1> DEFINE c == content[l]
           e == c[p]
           r == RemoveAt(c, p)
<1>1. c \in Seq(ListNodes) /\ Len(c) \in Nat /\ p \in Nat /\ \A i, j \in 1..Len(c) : c[i] = c[j] => i = j
  BY LenProperties DEF Rings
<1>2. /\ link \in [Addresses -> [next : Addresses, prev : Addresses]]
      /\ content \in [Lists -> Seq(ListNodes)] /\ live \subseteq Addresses /\ Chain(link, l, c)
  BY DEF Rings
<1>3. e \in ListNodes /\ e = Along(c, l, p) /\ p \in 1..(Len(c) + 1)
  BY <1>1, StopFacts
<1>4. live' = live \ {e} /\ link' = Unlinked(link, e) /\ content' = [content EXCEPT ![l] = r]
  BY <1>3, PlaceFacts DEF EraseNode
<1>5. \A m \in Lists : m # l => \A i \in 1..Len(content[m]) : content[m][i] # e
  BY DEF Rings
<1>6. /\ link' \in [Addresses -> [next : Addresses, prev : Addresses]]
      /\ Chain(link', l, r)
      /\ Agree(link, link', l, c, e)
  <2> HIDE DEF c
  <2>1. p \in 1..Len(c)
    BY DEF c
  <2> QED BY <1>1, <1>2, <1>4, <2>1, UnlinkChain
<1>7. /\ r \in Seq(ListNodes) /\ Len(r) = Len(c) - 1
      /\ \A i \in 1..(Len(c) - 1) : r[i] = IF i < p THEN c[i] ELSE c[i + 1]
  <2>1. Removed(r, c, l, p)
    BY <1>1, RemoveStops
  <2> QED BY <2>1, Zenon DEF Removed
<1> HIDE DEF r
<1>8. /\ content' \in [Lists -> Seq(ListNodes)] /\ content'[l] = r
      /\ \A m \in Lists : m # l => content'[m] = content[m]
  BY <1>2, <1>4, <1>7
<1>9. ASSUME NEW i \in 1..Len(r)
      PROVE  (i < p /\ i \in 1..Len(c) /\ r[i] = c[i])
             \/ (i >= p /\ i + 1 \in 1..Len(c) /\ r[i] = c[i + 1])
  BY <1>1, <1>7
<1>10. \A m, k \in Lists : \A i \in 1..Len(content'[m]), j \in 1..Len(content'[k]) :
         content'[m][i] = content'[k][j] => m = k /\ i = j
  <2>1. ASSUME NEW i \in 1..Len(r), NEW j \in 1..Len(r), r[i] = r[j] PROVE i = j
    <3>1. i \in Int /\ j \in Int
      OBVIOUS
    <3> HIDE DEF c
    <3> QED BY <1>1, <1>9, <2>1, <3>1
  <2>2. ASSUME NEW m \in Lists, m # l, NEW i \in 1..Len(r), NEW j \in 1..Len(content[m]) PROVE r[i] # content[m][j]
    BY <1>9, <2>2 DEF Rings
  <2>3. \A m, k \in Lists : \A i \in 1..Len(content[m]), j \in 1..Len(content[k]) :
          content[m][i] = content[k][j] => m = k /\ i = j
    BY DEF Rings
  <2> SUFFICES ASSUME NEW m \in Lists, NEW k \in Lists,
                      NEW i \in 1..Len(content'[m]), NEW j \in 1..Len(content'[k]),
                      content'[m][i] = content'[k][j]
               PROVE  m = k /\ i = j
    OBVIOUS
  <2>4. CASE m = l /\ k = l
    BY <1>8, <2>1, <2>4
  <2>5. CASE m = l /\ k # l
    BY <1>8, <2>2, <2>5
  <2>6. CASE m # l /\ k = l
    BY <1>8, <2>2, <2>6
  <2>7. CASE m # l /\ k # l
    BY <1>8, <2>3, <2>7
  <2> QED BY <2>4, <2>5, <2>6, <2>7
<1>11. ASSUME NEW m \in Lists, m \notin live' PROVE content'[m] = <<>>
  BY <1>3, <1>4, <1>8, <1>11, ListNodesAssumption DEF Rings
<1>12. ASSUME NEW m \in Lists, m \in live' PROVE Chain(link', m, content'[m])
  <2>1. CASE m = l
    BY <1>6, <1>8, <2>1
  <2>2. CASE m # l
    <3>1. m \in live /\ e \in ListNodes
      BY <1>3, <1>4, <1>12
    <3>2. (\A i \in 1..Len(content[m]) : content[m][i] # e) /\ Agree(link, link', l, content[l], e)
      BY <1>5, <1>6, <2>2
    <3> HIDE DEF e
    <3>3. Chain(link', m, content[m])
      BY <2>2, <3>1, <3>2, OthersKept
    <3> QED BY <1>8, <2>2, <3>3
  <2> QED BY <2>1, <2>2
<1>13. ASSUME NEW x \in ListNodes
       PROVE  x \in live' <=> \E m \in Lists : \E i \in 1..Len(content'[m]) : content'[m][i] = x
  <2>1. x \in live <=> \E m \in Lists : \E i \in 1..Len(content[m]) : content[m][i] = x
    BY DEF Rings
  <2>2. ASSUME NEW i \in 1..Len(r) PROVE r[i] # e
    <3>1. i # p \/ i + 1 # p
      BY <1>1
    <3> QED BY <1>1, <1>9
  <2>3. ASSUME NEW i \in 1..Len(c), c[i] # e PROVE \E j \in 1..Len(r) : r[j] = c[i]
    <3>1. CASE i < p
      <4>1. i \in 1..Len(r) /\ r[i] = c[i]
        BY <1>1, <1>7, <3>1
      <4> QED BY <4>1
    <3>2. CASE ~(i < p)
      <4>0. i # p
        BY <2>3
      <4>1. i - 1 \in 1..Len(r) /\ i - 1 \in 1..(Len(c) - 1) /\ ~(i - 1 < p) /\ (i - 1) + 1 = i
        BY <1>1, <1>7, <3>2, <4>0
      <4>2. r[i - 1] = c[i]
        BY <1>7, <4>1
      <4> QED BY <4>1, <4>2
    <3> QED BY <3>1, <3>2
  <2>4. CASE x = e
    BY <1>4, <1>5, <1>8, <2>2, <2>4
  <2>5. CASE x # e
    <3>1. ASSUME x \in live PROVE \E m \in Lists : \E i \in 1..Len(content'[m]) : content'[m][i] = x
      <4>1. PICK m \in Lists : \E i \in 1..Len(content[m]) : content[m][i] = x
        BY <2>1, <3>1
      <4> QED BY <1>8, <2>3, <2>5, <4>1
    <3>2. ASSUME NEW m \in Lists, NEW i \in 1..Len(content'[m]), content'[m][i] = x PROVE x \in live
      BY <1>8, <1>9, <2>1, <2>5, <3>2
    <3> QED BY <1>4, <2>5, <3>1, <3>2
  <2> QED BY <2>4, <2>5
<1>14. live' \subseteq Addresses
  BY <1>2, <1>4
<1> QED BY <1>6, <1>8, <1>10, <1>11, <1>12, <1>13, <1>14 DEF Rings

-----------------------------------------------------------------------------
(* A set of indices that is not empty has a smallest element.              *)
LEMMA LeastIndex ==
  ASSUME NEW S \in SUBSET Nat, S # {}
  PROVE  \E x \in S : \A y \in S : x <= y
<1>1. PICK x \in S : \A y \in S : ~(<<y, x>> \in OpToRel(<, Nat))
  BY NatLessThanWellFounded, WFMin
<1>2. \A y \in S : x <= y
  <2> SUFFICES ASSUME NEW y \in S, y < x PROVE FALSE
    OBVIOUS
  <2>1. <<y, x>> \in OpToRel(<, Nat)
    BY DEF OpToRel
  <2> QED BY <1>1, <2>1
<1> QED BY <1>2

(* The destructor comes to all elements, and to nothing else.              *)
LEMMA ReachedFacts ==
  ASSUME Rings(link, content, live), NEW l \in Lists, l \in live
  PROVE  \A e \in ListNodes : e \in Reached(l) <=> \E i \in 1..Len(content[l]) : content[l][i] = e
<1> DEFINE c == content[l]
           all == {c[i] : i \in 1..Len(c)}
           Passes(S) == \A a \in S \cup {l} : link[a].next = l \/ link[a].next \in S
<1>1. c \in Seq(ListNodes) /\ Len(c) \in Nat /\ \A i, j \in 1..Len(c) : c[i] = c[j] => i = j
  BY LenProperties DEF Rings
<1>2. Chain(link, l, c)
  BY DEF Rings
<1> HIDE DEF c
<1>3. /\ \A i \in 1..Len(c) : Along(c, l, i) = c[i] /\ c[i] \in ListNodes /\ c[i] # l
      /\ Along(c, l, 0) = l /\ Along(c, l, Len(c) + 1) = l
  BY <1>1, StopFacts
<1>4. \A i \in 0..Len(c) : link[Along(c, l, i)].next = Along(c, l, i + 1)
  BY <1>2 DEF Chain
<1>5. /\ \A i \in 1..Len(c) : link[c[i]].next = Along(c, l, i + 1)
      /\ link[l].next = Along(c, l, 1)
      /\ \A i \in 0..Len(c) : Along(c, l, i + 1) = l \/ Along(c, l, i + 1) \in all
  <2>1. \A i \in 1..Len(c) : link[c[i]].next = Along(c, l, i + 1)
    BY <1>1, <1>3, <1>4
  <2>2. link[l].next = Along(c, l, 0 + 1)
    BY <1>1, <1>3, <1>4
  <2>3. ASSUME NEW i \in 0..Len(c) PROVE Along(c, l, i + 1) = l \/ Along(c, l, i + 1) \in all
    <3>1. i + 1 = Len(c) + 1 \/ i + 1 \in 1..Len(c)
      BY <1>1
    <3> QED BY <1>3, <3>1
  <2>4. 0 + 1 = 1
    OBVIOUS
  <2> QED BY <2>1, <2>2, <2>3, <2>4
<1>6. all \in SUBSET ListNodes /\ Passes(all)
  <2>1. link[l].next = l \/ link[l].next \in all
    <3>1. 0 \in 0..Len(c) /\ 0 + 1 = 1
      BY <1>1
    <3> QED BY <1>5, <3>1
  <2>2. ASSUME NEW i \in 1..Len(c) PROVE link[c[i]].next = l \/ link[c[i]].next \in all
    <3>1. i \in 0..Len(c)
      BY <1>1
    <3> QED BY <1>5, <3>1
  <2> QED BY <1>3, <2>1, <2>2
<1>7. ASSUME NEW S \in SUBSET ListNodes, Passes(S), NEW k \in 1..Len(c), c[k] \notin S
      PROVE  FALSE
  <2> DEFINE miss == {i \in 1..Len(c) : c[i] \notin S}
  <2>1. miss \in SUBSET Nat /\ miss # {}
    BY <1>1, <1>7
  <2>2. PICK x \in miss : \A y \in miss : x <= y
    BY <2>1, LeastIndex
  <2>3. x \in 1..Len(c) /\ c[x] \notin S /\ c[x] # l /\ Along(c, l, x) = c[x]
    BY <1>3, <2>2
  <2>4. CASE x = 1
    <3>1. link[l].next = c[x]
      BY <1>5, <2>3, <2>4
    <3> QED BY <1>7, <2>3, <3>1
  <2>5. CASE x # 1
    <3>1. x - 1 \in 1..Len(c) /\ (x - 1) + 1 = x /\ ~(x <= x - 1)
      BY <1>1, <2>3, <2>5
    <3>2. c[x - 1] \in S
      BY <2>2, <3>1
    <3>3. link[c[x - 1]].next = c[x]
      BY <1>5, <2>3, <3>1
    <3> QED BY <1>7, <2>3, <3>2, <3>3
  <2> QED BY <2>4, <2>5
<1>8. Reached(l) = {e \in ListNodes : \A S \in {T \in SUBSET ListNodes : Passes(T)} : e \in S}
  BY DEF Reached
<1> HIDE DEF Passes
<1>9. ASSUME NEW e \in ListNodes PROVE e \in Reached(l) <=> e \in all
  <2>1. ASSUME e \in Reached(l) PROVE e \in all
    BY <1>6, <1>8, <2>1, Zenon
  <2>2. ASSUME e \in all PROVE e \in Reached(l)
    BY <1>7, <1>8, <2>2
  <2> QED BY <2>1, <2>2
<1> QED BY <1>9 DEF c

LEMMA DestroyKeeps ==
  ASSUME Rings(link, content, live), NEW l \in Lists, l \in live, Destroy(l)
  PROVE  Rings(link', content', live')
<1>1. /\ link \in [Addresses -> [next : Addresses, prev : Addresses]]
      /\ content \in [Lists -> Seq(ListNodes)] /\ live \subseteq Addresses
  BY DEF Rings
<1>2. live' = live \ (Reached(l) \cup {l}) /\ link' = link /\ content' = [content EXCEPT ![l] = <<>>]
  BY DEF Destroy
<1>3. content' \in [Lists -> Seq(ListNodes)] /\ content'[l] = <<>> /\ \A m \in Lists : m # l => content'[m] = content[m]
  BY <1>1, <1>2
<1>4. \A e \in ListNodes : e \in Reached(l) <=> \E i \in 1..Len(content[l]) : content[l][i] = e
  BY ReachedFacts
<1>5. ASSUME NEW i \in 1..Len(<<>>) PROVE FALSE
  OBVIOUS
<1>6. \A m, k \in Lists : \A i \in 1..Len(content'[m]), j \in 1..Len(content'[k]) :
        content'[m][i] = content'[k][j] => m = k /\ i = j
  <2> SUFFICES ASSUME NEW m \in Lists, NEW k \in Lists,
                      NEW i \in 1..Len(content'[m]), NEW j \in 1..Len(content'[k]),
                      content'[m][i] = content'[k][j]
               PROVE  m = k /\ i = j
    OBVIOUS
  <2>1. m # l /\ k # l
    BY <1>3, <1>5
  <2> QED BY <1>3, <2>1 DEF Rings
<1>7. Reached(l) \subseteq ListNodes
  BY DEF Reached
<1>8. ASSUME NEW m \in Lists, m \notin live' PROVE content'[m] = <<>>
  BY <1>2, <1>3, <1>7, <1>8, ListNodesAssumption DEF Rings
<1>9. ASSUME NEW m \in Lists, m \in live' PROVE Chain(link', m, content'[m])
  BY <1>2, <1>3, <1>9 DEF Rings
<1>10. ASSUME NEW x \in ListNodes
       PROVE  x \in live' <=> \E m \in Lists : \E i \in 1..Len(content'[m]) : content'[m][i] = x
  <2>0. x \in live <=> \E m \in Lists : \E i \in 1..Len(content[m]) : content[m][i] = x
    BY DEF Rings
  <2>1. ASSUME x \in live' PROVE \E m \in Lists : \E i \in 1..Len(content'[m]) : content'[m][i] = x
    <3>1. x \in live /\ x \notin Reached(l)
      BY <1>2, <2>1
    <3>2. PICK m \in Lists : \E i \in 1..Len(content[m]) : content[m][i] = x
      BY <2>0, <3>1
    <3>3. m # l
      BY <1>4, <3>1, <3>2
    <3> QED BY <1>3, <3>2, <3>3
  <2>2. ASSUME NEW m \in Lists, NEW i \in 1..Len(content'[m]), content'[m][i] = x PROVE x \in live'
    <3>1. m # l
      BY <1>3, <1>5
    <3>2. i \in 1..Len(content[m]) /\ content[m][i] = x
      BY <1>3, <2>2, <3>1
    <3>3. x \in live
      BY <2>0, <3>2
    <3>4. x \notin Reached(l)
      BY <1>4, <3>1, <3>2 DEF Rings
    <3> QED BY <1>2, <3>3, <3>4, ListNodesAssumption
  <2> QED BY <2>1, <2>2
<1> QED BY <1>1, <1>2, <1>3, <1>6, <1>8, <1>9, <1>10 DEF Rings

(* The links of empty lists that are constructed or moved from.            *)
LEMMA EmptyKeeps ==
  ASSUME Rings(link, content, live), NEW S \in SUBSET Lists, \A l \in S : content[l] = <<>>,
         link' \in [Addresses -> [next : Addresses, prev : Addresses]],
         \A l \in S : link'[l].next = l /\ link'[l].prev = l,
         \A x \in Addresses : x \notin S => link'[x] = link[x],
         content' = content, live' = live \cup S
  PROVE  Rings(link', content', live')
<1>1. live' \subseteq Addresses
  BY DEF Rings, Addresses
<1>2. ASSUME NEW m \in Lists, m \in live' PROVE Chain(link', m, content[m])
  <2>1. CASE m \in S
    <3>1. Len(<<>>) = 0 /\ Along(<<>>, m, 0) = m /\ Along(<<>>, m, 1) = m
      BY DEF Along
    <3>2. \A i \in 0..0 : i = 0 /\ i + 1 = 1
      OBVIOUS
    <3>3. content[m] = <<>> /\ link'[m].next = m /\ link'[m].prev = m
      BY <2>1
    <3>4. Chain(link', m, <<>>)
      BY <3>1, <3>2, <3>3 DEF Chain
    <3> QED BY <3>3, <3>4
  <2>2. CASE m \notin S
    <3>1. content[m] \in Seq(ListNodes) /\ Chain(link, m, content[m])
          /\ \A i, j \in 1..Len(content[m]) : content[m][i] = content[m][j] => i = j
      BY <1>2, <2>2 DEF Rings
    <3>2. ASSUME NEW i \in 0..(Len(content[m]) + 1)
          PROVE  Along(content[m], m, i) \in Addresses /\ Along(content[m], m, i) \notin S
      <4>1. /\ Along(content[m], m, i) \in Addresses
            /\ Along(content[m], m, i) = m \/ Along(content[m], m, i) \in ListNodes
        BY <3>1, StopFacts
      <4> QED BY <2>2, <4>1, ListNodesAssumption
    <3>3. \A i \in 0..(Len(content[m]) + 1) :
            link'[Along(content[m], m, i)].next = link[Along(content[m], m, i)].next
            /\ link'[Along(content[m], m, i)].prev = link[Along(content[m], m, i)].prev
      BY <3>2
    <3> QED BY <3>1, <3>3, ChainKept
  <2> QED BY <2>1, <2>2
<1>3. ASSUME NEW x \in ListNodes
      PROVE  x \in live' <=> \E m \in Lists : \E i \in 1..Len(content[m]) : content[m][i] = x
  <2>1. x \in live' <=> x \in live
    BY ListNodesAssumption
  <2> QED BY <2>1 DEF Rings
<1> QED BY <1>1, <1>2, <1>3 DEF Rings

LEMMA NewKeeps ==
  ASSUME Rings(link, content, live), NEW l \in Lists, New(l)
  PROVE  Rings(link', content', live')
<1> DEFINE S == {l}
<1>1. /\ link \in [Addresses -> [next : Addresses, prev : Addresses]] /\ l \in Addresses
      /\ S \in SUBSET Lists /\ \A m \in S : content[m] = <<>>
  BY DEF Rings, New, Addresses
<1>2. content' = content /\ live' = live \cup S /\ link' = [link EXCEPT ![l] = [next |-> l, prev |-> l]]
  BY DEF New, Self
<1>3. /\ link' \in [Addresses -> [next : Addresses, prev : Addresses]]
      /\ \A m \in S : link'[m].next = m /\ link'[m].prev = m
      /\ \A x \in Addresses : x \notin S => link'[x] = link[x]
  BY <1>1, <1>2
<1> HIDE DEF S
<1> QED BY <1>1, <1>2, <1>3, EmptyKeeps

(* The move constructor, of an empty list.                                 *)
LEMMA MoveKeeps ==
  ASSUME Rings(link, content, live), NEW l \in Lists, NEW o \in Lists, o \in live, MoveFrom(l, o),
         content[o] = <<>>
  PROVE  Rings(link', content', live')
<1> DEFINE S == {l, o}
<1>1. /\ link \in [Addresses -> [next : Addresses, prev : Addresses]] /\ l \in Addresses /\ o \in Addresses
      /\ content \in [Lists -> Seq(ListNodes)] /\ Chain(link, o, <<>>)
      /\ l \notin live /\ l # o /\ content[l] = <<>>
  BY DEF Rings, MoveFrom, Addresses
<1>2. link[o].next = o /\ link[o].prev = o
  <2>1. Len(<<>>) = 0 /\ Along(<<>>, o, 0) = o /\ Along(<<>>, o, 0 + 1) = o /\ 0 \in 0..0
    BY DEF Along
  <2> QED BY <1>1, <2>1 DEF Chain
<1>3. content' = content
  <2>1. content' = [content EXCEPT ![l] = content[o], ![o] = <<>>]
    BY DEF MoveFrom
  <2> QED BY <1>1, <2>1
<1>4. link' = [link EXCEPT ![l] = [next |-> l, prev |-> l], ![o] = [next |-> o, prev |-> o]]
  BY <1>2 DEF MoveFrom, Self
<1>5. S \in SUBSET Lists /\ (\A m \in S : content[m] = <<>>) /\ live' = live \cup S
  BY <1>1 DEF MoveFrom
<1>6. /\ link' \in [Addresses -> [next : Addresses, prev : Addresses]]
      /\ \A m \in S : link'[m].next = m /\ link'[m].prev = m
      /\ \A x \in Addresses : x \notin S => link'[x] = link[x]
  BY <1>1, <1>4
<1> HIDE DEF S
<1> QED BY <1>3, <1>5, <1>6, EmptyKeeps

-----------------------------------------------------------------------------
LEMMA ListStarts == ListInit => ListInv
<1> SUFFICES ASSUME ListInit PROVE ListInv
  OBVIOUS
<1>1. /\ moved = FALSE /\ live = {} /\ content = [l \in Lists |-> <<>>]
      /\ link = [a \in Addresses |-> [next |-> a, prev |-> a]]
  BY DEF ListInit, Self, Addresses
<1>2. /\ link \in [Addresses -> [next : Addresses, prev : Addresses]]
      /\ content \in [Lists -> Seq(ListNodes)] /\ live \subseteq Addresses
  BY <1>1
<1>3. \A l \in Lists : content[l] = <<>>
  BY <1>1
<1>4. ASSUME NEW l \in Lists, NEW i \in 1..Len(content[l]) PROVE FALSE
  BY <1>3
<1>5. Rings(link, content, live)
  BY <1>1, <1>2, <1>3, <1>4, Zenon DEF Rings
<1> QED BY <1>1, <1>5 DEF ListInv

LEMMA ListStep == ListInv /\ [ListNext]_listVars => ListInv'
<1> SUFFICES ASSUME ListInv, [ListNext]_listVars PROVE ListInv'
  OBVIOUS
<1>1. CASE UNCHANGED listVars
  BY <1>1 DEF listVars, ListInv
<1>2. CASE ListNext
  <2>1. ~moved /\ Rings(link, content, live)
    BY <1>2 DEF ListNext, ListInv
  <2>2. PICK l \in Lists :
          \/ New(l)
          \/ /\ l \in live
             /\ \/ PushBack(l) \/ PushFront(l) \/ Insert(l)
                \/ PopBack(l) \/ PopFront(l) \/ EraseAtPos(l) \/ Destroy(l)
                \/ \E m \in Lists : MoveFrom(m, l)
    BY <1>2 DEF ListNext
  <2> DEFINE c == content[l]
  <2>3. /\ c \in Seq(ListNodes) /\ Len(c) \in Nat /\ DOMAIN c = 1..Len(c)
        /\ \A i, j \in 1..Len(c) : c[i] = c[j] => i = j
    BY <2>1, LenProperties DEF Rings
  <2>4. /\ \A i \in 1..Len(c) : Along(c, l, i) = c[i] /\ c[i] # l
        /\ Along(c, l, 0) = l /\ Along(c, l, Len(c) + 1) = l
    BY <2>3, StopFacts
  <2>5. ASSUME l \in live
        PROVE  link[l].next = Along(c, l, 1) /\ link[l].prev = Along(c, l, Len(c))
    <3>1. Chain(link, l, c)
      BY <2>1, <2>5 DEF Rings
    <3>2. 0 \in 0..Len(c) /\ Len(c) \in 0..Len(c) /\ 0 + 1 = 1
      BY <2>3
    <3> QED BY <2>4, <3>1, <3>2 DEF Chain
  <2>6. ASSUME l \in live, NEW p \in 1..(Len(c) + 1), InsertAtPos(l, Along(c, l, p)) PROVE ListInv'
    <3>1. Rings(link', content', live')
      BY <2>1, <2>6, InsertKeeps
    <3>2. moved' = moved
      BY <2>6 DEF InsertAtPos
    <3> QED BY <3>1, <3>2 DEF ListInv
  <2>7. ASSUME l \in live, NEW p \in 1..Len(c), EraseNode(l, c[p]) PROVE ListInv'
    <3>1. Rings(link', content', live')
      BY <2>1, <2>7, EraseKeeps
    <3>2. moved' = moved
      BY <2>7 DEF EraseNode
    <3> QED BY <3>1, <3>2 DEF ListInv
  <2>8. CASE New(l)
    <3>1. Rings(link', content', live') /\ moved' = moved
      BY <2>1, <2>8, NewKeeps DEF New
    <3> QED BY <3>1 DEF ListInv
  <2> HIDE DEF c
  <2>9. CASE l \in live /\ PushBack(l)
    <3>1. Len(c) + 1 \in 1..(Len(c) + 1)
      BY <2>3
    <3>2. InsertAtPos(l, Along(c, l, Len(c) + 1))
      BY <2>4, <2>9 DEF PushBack
    <3> QED BY <2>6, <2>9, <3>1, <3>2
  <2>10. CASE l \in live /\ PushFront(l)
    <3>1. 1 \in 1..(Len(c) + 1)
      BY <2>3
    <3>2. InsertAtPos(l, Along(c, l, 1))
      BY <2>5, <2>10 DEF PushFront
    <3> QED BY <2>6, <2>10, <3>1, <3>2
  <2>11. CASE l \in live /\ Insert(l)
    <3>1. PICK a \in ToSet(c) \cup {l} : InsertAtPos(l, a)
      BY <2>11 DEF Insert, c
    <3>2. \E p \in 1..(Len(c) + 1) : a = Along(c, l, p)
      <4>1. CASE a = l
        <5>1. Len(c) + 1 \in 1..(Len(c) + 1)
          BY <2>3
        <5> QED BY <2>4, <4>1, <5>1
      <4>2. CASE a \in ToSet(c)
        <5>1. PICK i \in 1..Len(c) : a = c[i]
          BY <2>3, <4>2 DEF ToSet
        <5>2. i \in 1..(Len(c) + 1) /\ a = Along(c, l, i)
          BY <2>3, <2>4, <5>1
        <5> QED BY <5>2
      <4> QED BY <4>1, <4>2
    <3> QED BY <2>6, <2>11, <3>1, <3>2
  <2>12. CASE l \in live /\ PopBack(l)
    <3>1. link[l].prev # l /\ EraseNode(l, link[l].prev)
      BY <2>12 DEF PopBack
    <3>2. Len(c) \in 1..Len(c) /\ link[l].prev = c[Len(c)]
      <4>1. Len(c) # 0
        BY <2>4, <2>5, <2>12, <3>1
      <4>2. Len(c) \in 1..Len(c)
        BY <2>3, <4>1
      <4> QED BY <2>4, <2>5, <2>12, <4>2
    <3> QED BY <2>7, <2>12, <3>1, <3>2
  <2>13. CASE l \in live /\ PopFront(l)
    <3>1. link[l].next # l /\ EraseNode(l, link[l].next)
      BY <2>13 DEF PopFront
    <3>2. 1 \in 1..Len(c) /\ link[l].next = c[1]
      <4>1. Len(c) + 1 # 1
        BY <2>4, <2>5, <2>13, <3>1
      <4>2. 1 \in 1..Len(c)
        BY <2>3, <4>1
      <4> QED BY <2>4, <2>5, <2>13, <4>2
    <3> QED BY <2>7, <2>13, <3>1, <3>2
  <2>14. CASE l \in live /\ EraseAtPos(l)
    <3>1. PICK i \in 1..Len(c) : EraseNode(l, c[i])
      BY <2>3, <2>14 DEF EraseAtPos, ToSet, c
    <3> QED BY <2>7, <2>14, <3>1
  <2>15. CASE l \in live /\ Destroy(l)
    <3>1. Rings(link', content', live') /\ moved' = moved
      BY <2>1, <2>15, DestroyKeeps DEF Destroy
    <3> QED BY <3>1, <2>1 DEF ListInv
  <2>16. ASSUME l \in live, NEW m \in Lists, MoveFrom(m, l) PROVE ListInv'
    <3>1. CASE content[l] = <<>>
      <4>1. Rings(link', content', live')
        BY <2>1, <2>16, <3>1, MoveKeeps
      <4>2. moved' \in BOOLEAN
        BY <2>16, Zenon DEF MoveFrom
      <4> QED BY <4>1, <4>2, Zenon DEF ListInv
    <3>2. CASE content[l] # <<>>
      <4>1. moved'
        BY <2>16, <3>2, Zenon DEF MoveFrom
      <4>2. moved' \in BOOLEAN
        BY <2>16, Zenon DEF MoveFrom
      <4> QED BY <4>1, <4>2, Zenon DEF ListInv
    <3> QED BY <3>1, <3>2
  <2> QED BY <2>2, <2>8, <2>9, <2>10, <2>11, <2>12, <2>13, <2>14, <2>15, <2>16
<1> QED BY <1>1, <1>2

(* The pointers of buffers, in both directions, are those of the sequence  *)
(* that the calls so far describe, for any number of lists and nodes and   *)
(* with addresses used again, as long as no list with elements is moved.   *)
THEOREM ListLinked == ListSpec => []LinksFormSequence
<1>1. ListInv => LinksFormSequence
  <2> SUFFICES ASSUME ListInv, ~moved PROVE LinksFormSequence
    BY DEF LinksFormSequence
  <2>1. Rings(link, content, live)
    BY DEF ListInv
  <2>2. ASSUME NEW l \in live \cap Lists
        PROVE  LET ring == <<l>> \o content[l] \o <<l>>
               IN  \A i \in 1..(Len(ring) - 1) :
                     link[ring[i]].next = ring[i + 1] /\ link[ring[i + 1]].prev = ring[i]
    <3> DEFINE c == content[l]
               d == <<l>> \o c
               ring == d \o <<l>>
    <3>1. c \in Seq(ListNodes) /\ c \in Seq(Addresses) /\ Len(c) \in Nat /\ Chain(link, l, c) /\ l \in Addresses
      <4>1. c \in Seq(ListNodes) /\ Chain(link, l, c) /\ l \in Addresses
        BY <2>1 DEF Rings, Addresses
      <4>2. \A i \in 1..Len(c) : c[i] \in Addresses
        BY <4>1, ElementOfSeq DEF Addresses
      <4>3. Len(c) \in Nat /\ c \in [1..Len(c) -> ListNodes]
        BY <4>1, LenProperties
      <4> QED BY <4>1, <4>2, <4>3
    <3>2. <<l>> \in Seq(Addresses) /\ Len(<<l>>) = 1 /\ <<l>>[1] = l
      BY <3>1
    <3> HIDE DEF c
    <3>3. /\ d \in Seq(Addresses) /\ Len(d) = 1 + Len(c)
          /\ \A i \in 1..(1 + Len(c)) : d[i] = IF i <= 1 THEN <<l>>[i] ELSE c[i - 1]
      BY <3>1, <3>2, ConcatProperties
    <3> HIDE DEF d
    <3>4. /\ ring \in Seq(Addresses) /\ Len(ring) = Len(d) + 1
          /\ \A i \in 1..(Len(d) + 1) : ring[i] = IF i <= Len(d) THEN d[i] ELSE <<l>>[i - Len(d)]
      BY <3>2, <3>3, ConcatProperties
    <3> HIDE DEF ring
    <3>5. ASSUME NEW i \in 1..(Len(c) + 2) PROVE ring[i] = Along(c, l, i - 1)
      <4>1. CASE i = 1
        <5>1. i <= Len(d) /\ i \in 1..(Len(d) + 1) /\ i \in 1..(1 + Len(c)) /\ i <= 1 /\ i - 1 = 0
          BY <3>1, <3>3, <4>1
        <5>2. ring[i] = <<l>>[1]
          BY <3>3, <3>4, <4>1, <5>1
        <5> QED BY <3>2, <5>1, <5>2 DEF Along
      <4>2. CASE i = Len(c) + 2
        <5>1. ~(i <= Len(d)) /\ i \in 1..(Len(d) + 1) /\ i - Len(d) = 1 /\ i - 1 = Len(c) + 1
          BY <3>1, <3>3, <4>2
        <5>2. ring[i] = <<l>>[1]
          BY <3>4, <5>1
        <5> QED BY <3>2, <5>1, <5>2 DEF Along
      <4>3. CASE i \in 2..(Len(c) + 1)
        <5>1. i <= Len(d) /\ i \in 1..(Len(d) + 1) /\ i \in 1..(1 + Len(c)) /\ ~(i <= 1)
              /\ i - 1 # 0 /\ i - 1 # Len(c) + 1
          BY <3>1, <3>3, <4>3
        <5>2. ring[i] = c[i - 1]
          BY <3>3, <3>4, <5>1
        <5> QED BY <5>1, <5>2 DEF Along
      <4> QED BY <3>1, <4>1, <4>2, <4>3
    <3>6. ASSUME NEW i \in 1..(Len(ring) - 1)
          PROVE  link[ring[i]].next = ring[i + 1] /\ link[ring[i + 1]].prev = ring[i]
      <4>1. i \in 1..(Len(c) + 2) /\ i + 1 \in 1..(Len(c) + 2) /\ i - 1 \in 0..Len(c)
            /\ (i + 1) - 1 = (i - 1) + 1
        BY <3>1, <3>3, <3>4
      <4>2. ring[i] = Along(c, l, i - 1) /\ ring[i + 1] = Along(c, l, (i - 1) + 1)
        BY <3>5, <4>1
      <4> QED BY <3>1, <4>1, <4>2 DEF Chain
    <3> QED BY <3>6 DEF ring, d, c
  <2>3. live \ Lists = UNION {ToSet(content[l]) : l \in Lists}
    <3>1. \A l \in Lists : DOMAIN content[l] = 1..Len(content[l]) /\ \A i \in 1..Len(content[l]) : content[l][i] \in ListNodes
      BY <2>1, LenProperties, ElementOfSeq DEF Rings
    <3>2. \A x : (x \in UNION {ToSet(content[l]) : l \in Lists}) <=> \E l \in Lists : \E i \in 1..Len(content[l]) : content[l][i] = x
      BY <3>1 DEF ToSet
    <3>3. \A x : (x \in live \ Lists) <=> (x \in live /\ x \in ListNodes)
      BY <2>1, ListNodesAssumption DEF Rings, Addresses
    <3>4. \A x \in ListNodes : x \in live <=> \E l \in Lists : \E i \in 1..Len(content[l]) : content[l][i] = x
      BY <2>1 DEF Rings
    <3> DEFINE U == UNION {ToSet(content[l]) : l \in Lists}
    <3> HIDE DEF U
    <3>5. ASSUME NEW x \in live \ Lists PROVE x \in U
      <4>1. x \in live /\ x \in ListNodes
        BY <3>3
      <4>2. \E l \in Lists : \E i \in 1..Len(content[l]) : content[l][i] = x
        BY <3>4, <4>1
      <4> QED BY <3>2, <4>2, Zenon DEF U
    <3>6. ASSUME NEW x \in U PROVE x \in live \ Lists
      <4>1. PICK l \in Lists : \E i \in 1..Len(content[l]) : content[l][i] = x
        BY <3>2, Zenon DEF U
      <4>2. x \in ListNodes
        BY <3>1, <4>1
      <4>3. x \in live
        BY <3>4, <4>1, <4>2
      <4> QED BY <4>2, <4>3, ListNodesAssumption
    <3>7. live \ Lists = U
      BY <3>5, <3>6
    <3> QED BY <3>7 DEF U
  <2> QED BY <2>2, <2>3 DEF LinksFormSequence
<1> QED BY <1>1, ListStarts, ListStep, PTL DEF ListSpec
=============================================================================
