------------------------- MODULE TaskManagerProofs --------------------------
(***************************************************************************)
(* Theorems about TaskManager, for any number of tasks and of clients.     *)
(***************************************************************************)
EXTENDS TaskManager, SequenceTheorems, TLAPS

Places ==
    {"start", "test", "wait", "doze", "asleep", "woken", "swap", "unlock", "process",
     "relock", "exited", "terminated"}

(* The worker's places with the mutex held, in the listing, and those in   *)
(* which its unique_lock counts as owned: cond.wait gives the mutex back   *)
(* and leaves the unique_lock alone.                                       *)
Holding == {"test", "wait", "doze", "swap", "unlock"}
Owning == Holding \cup {"asleep", "woken"}

TypeOK ==
    /\ stopped \in BOOLEAN /\ mutex \in BOOLEAN /\ owns \in BOOLEAN
    /\ task \in Seq(Tasks) /\ tmp \in Seq(Tasks)
    /\ pushed \in Seq(Tasks) /\ ran \in Seq(Tasks) /\ late \subseteq Tasks
    /\ worker \in Places
    /\ client \in [Clients -> {"idle", "push", "stop", "join", "joined"}]
    /\ adding \in [Clients -> Tasks \cup {NoTask}]
    /\ \A c \in Clients : client[c] = "push" => adding[c] \in Tasks

(* The swap meets an empty vector: nothing is overwritten.                 *)
TmpEmpty == worker \notin {"unlock", "process", "terminated"} => tmp = <<>>

FifoInv == TypeOK /\ TmpEmpty /\ Fifo

(* Who holds the mutex.                                                    *)
LockState ==
    /\ mutex <=> worker \in Holding
    /\ owns <=> worker \in Owning
    /\ worker # "terminated"

(* The predicate is still false when the worker, mutex in hand, goes from  *)
(* testing it to the wait set.                                             *)
SleepsWell == worker \in {"doze", "asleep"} => task = <<>> /\ ~stopped

LockInv == FifoInv /\ LockState /\ SleepsWell /\ ExitDrained

-----------------------------------------------------------------------------
(* Where tasks are: appending one task to a vector adds it to its set.     *)
LEMMA ToSetAppend ==
  ASSUME NEW S, NEW s \in Seq(S), NEW e \in S
  PROVE  ToSet(Append(s, e)) = ToSet(s) \cup {e}
<1>1. /\ DOMAIN Append(s, e) = DOMAIN s \cup {Len(s) + 1} /\ Len(s) + 1 \notin DOMAIN s
      /\ Append(s, e)[Len(s) + 1] = e /\ \A i \in DOMAIN s : Append(s, e)[i] = s[i]
  OBVIOUS
<1> QED BY <1>1, Zenon DEF ToSet

(* Taking the head of the middle part of a concatenation to the end of the *)
(* first part leaves the whole as it is.                                   *)
LEMMA MoveHead ==
  ASSUME NEW S, NEW a \in Seq(S), NEW b \in Seq(S), NEW c \in Seq(S), b # <<>>
  PROVE  Append(a, Head(b)) \o Tail(b) \o c = a \o b \o c
<1>1. Head(b) \in S /\ Tail(b) \in Seq(S) /\ <<Head(b)>> \in Seq(S)
  OBVIOUS
<1>2. <<Head(b)>> \o Tail(b) = b
  OBVIOUS
<1>3. Append(a, Head(b)) = a \o <<Head(b)>>
  BY <1>1
<1>4. (a \o <<Head(b)>>) \o Tail(b) = a \o (<<Head(b)>> \o Tail(b))
  BY <1>1, ConcatAssociative
<1> QED BY <1>2, <1>3, <1>4

-----------------------------------------------------------------------------
(* The initial state satisfies the invariants.                             *)
LEMMA Starts == Init => LockInv
<1> SUFFICES ASSUME Init PROVE LockInv
  OBVIOUS
<1>1. TypeOK
  <2>1. stopped \in BOOLEAN /\ mutex \in BOOLEAN /\ owns \in BOOLEAN /\ worker \in Places
    BY DEF Init, Places
  <2>2. /\ task \in Seq(Tasks) /\ tmp \in Seq(Tasks) /\ pushed \in Seq(Tasks) /\ ran \in Seq(Tasks)
        /\ late \subseteq Tasks
    BY EmptySeq DEF Init
  <2>3. /\ client \in [Clients -> {"idle", "push", "stop", "join", "joined"}]
        /\ adding \in [Clients -> Tasks \cup {NoTask}]
        /\ \A c \in Clients : client[c] # "push"
    BY DEF Init
  <2> QED BY <2>1, <2>2, <2>3 DEF TypeOK
<1>2. Fifo
  BY DEF Init, Fifo
<1> QED BY <1>1, <1>2
       DEF Init, LockInv, FifoInv, TmpEmpty, LockState, SleepsWell, ExitDrained, Holding, Owning

(* Every step keeps the types.                                             *)
LEMMA TypeStep == ASSUME TypeOK, [Next]_vars PROVE TypeOK'
<1> USE MainAssumption DEF TypeOK
<1>1. CASE Worker \/ SpuriousWakeup
  <2>1. UNCHANGED <<stopped, clientVars>>
    BY <1>1 DEF Worker, SpuriousWakeup, WorkerStart, WorkerTest, WorkerWait, WorkerSleep, WorkerWakes,
                WorkerSwap, WorkerUnlock, WorkerRun, WorkerProcessed, WorkerRelock
  <2>2. mutex' \in BOOLEAN /\ owns' \in BOOLEAN /\ worker' \in Places
    BY <1>1 DEF Worker, SpuriousWakeup, WorkerStart, WorkerTest, WorkerWait, WorkerSleep, WorkerWakes,
                WorkerSwap, WorkerUnlock, WorkerRun, WorkerProcessed, WorkerRelock, Places
  <2>3. task' \in Seq(Tasks) /\ tmp' \in Seq(Tasks) /\ ran' \in Seq(Tasks)
    <3>1. CASE WorkerRun
      BY <3>1, HeadTailProperties, AppendProperties DEF WorkerRun, RunTask
    <3>2. CASE WorkerSwap
      BY <3>2, EmptySeq DEF WorkerSwap
    <3>3. CASE ~WorkerRun /\ ~WorkerSwap
      BY <1>1, <3>3 DEF Worker, SpuriousWakeup, WorkerStart, WorkerTest, WorkerWait, WorkerSleep,
                        WorkerWakes, WorkerUnlock, WorkerProcessed, WorkerRelock
    <3> QED BY <3>1, <3>2, <3>3
  <2> QED BY <2>1, <2>2, <2>3 DEF clientVars
<1>2. CASE StopCheck \/ StopSet \/ Join
  BY <1>2 DEF StopCheck, StopSet, Join, Notified, Places, workerVars
<1>3. ASSUME NEW c \in Clients, AddPush(c) PROVE TypeOK'
  BY <1>3, NoTaskAssumption DEF AddPush, Notified, Places
<1>4. ASSUME NEW c \in Clients, NEW t \in Tasks, AddCheck(c, t) PROVE TypeOK'
  BY <1>4 DEF AddCheck, workerVars
<1>5. CASE UNCHANGED vars
  BY <1>5 DEF vars, workerVars, clientVars
<1> QED BY <1>1, <1>2, <1>3, <1>4, <1>5 DEF Next, Callers, Ended

(* Every step keeps the tasks in their order, in test_cp.cc as well as in  *)
(* the listing.                                                            *)
LEMMA FifoStep == ASSUME FifoInv, [Next]_vars PROVE FifoInv'
<1> USE DEF FifoInv
<1>0. TypeOK'
  BY TypeStep
<1>1. CASE WorkerSwap
  <2>1. tmp = <<>> /\ tmp' = task /\ task' = <<>> /\ UNCHANGED <<ran, pushed>> /\ worker' = "unlock"
    BY <1>1 DEF WorkerSwap, TmpEmpty, clientVars
  <2>2. ran \o tmp \o task = ran \o task /\ (ran \o task) \o <<>> = ran \o task
    BY <2>1 DEF TypeOK
  <2> QED BY <1>0, <2>1, <2>2 DEF Fifo, TmpEmpty
<1>2. CASE WorkerRun
  <2>1. Append(ran, Head(tmp)) \o Tail(tmp) \o task = ran \o tmp \o task
    BY <1>2, MoveHead DEF WorkerRun, TypeOK
  <2> QED BY <1>0, <1>2, <2>1 DEF WorkerRun, RunTask, Fifo, TmpEmpty, clientVars
<1>3. ASSUME NEW c \in Clients, AddPush(c) PROVE FifoInv'
  <2>1. adding[c] \in Tasks
    BY <1>3 DEF AddPush, TypeOK
  <2>2. Append(ran \o tmp \o task, adding[c]) = ran \o tmp \o Append(task, adding[c])
    <3>1. ran \o tmp \in Seq(Tasks) /\ task \in Seq(Tasks)
      BY DEF TypeOK
    <3> DEFINE before == ran \o tmp
               new == adding[c]
    <3>2. before \in Seq(Tasks) /\ task \in Seq(Tasks) /\ new \in Tasks
      BY <2>1, <3>1
    <3> HIDE DEF before, new
    <3>3. Append(before \o task, new) = before \o Append(task, new)
      BY <3>2
    <3> QED BY <3>3 DEF before, new
  <2> QED BY <1>0, <1>3, <2>2 DEF AddPush, Notified, Fifo, TmpEmpty
<1>4. CASE \/ WorkerStart \/ WorkerTest \/ WorkerWait \/ WorkerSleep \/ WorkerWakes
           \/ WorkerUnlock \/ WorkerProcessed \/ WorkerRelock \/ SpuriousWakeup
  <2>1. UNCHANGED <<task, tmp, ran, pushed>>
    BY <1>4 DEF WorkerStart, WorkerTest, WorkerWait, WorkerSleep, WorkerWakes,
                WorkerUnlock, WorkerProcessed, WorkerRelock, SpuriousWakeup, clientVars
  <2>2. TmpEmpty'
    BY <1>4 DEF TmpEmpty, WorkerStart, WorkerTest, WorkerWait, WorkerSleep, WorkerWakes,
                WorkerUnlock, WorkerProcessed, WorkerRelock, SpuriousWakeup
  <2> QED BY <1>0, <2>1, <2>2 DEF Fifo
<1>5. CASE \/ StopCheck \/ StopSet \/ Join
           \/ \E c \in Clients : \E t \in Tasks : AddCheck(c, t)
  BY <1>0, <1>5 DEF StopCheck, StopSet, Join, AddCheck, Notified, workerVars, Fifo, TmpEmpty
<1>6. CASE UNCHANGED vars
  BY <1>0, <1>6 DEF vars, workerVars, clientVars, Fifo, TmpEmpty
<1> QED BY <1>1, <1>2, <1>3, <1>4, <1>5, <1>6 DEF Next, Worker, Callers, Ended

(* A step of the listing's worker keeps the lock discipline: what it tests *)
(* with the mutex in hand stays true until it gives the mutex back.        *)
LEMMA LockWorker == ASSUME LockInv, Listing, Worker \/ SpuriousWakeup PROVE LockInv'
<1> USE DEF LockInv, LockState, SleepsWell, ExitDrained, Holding, Owning
<1>0. FifoInv'
  BY FifoStep DEF Next
<1>1. UNCHANGED <<stopped, late>>
  BY DEF Worker, SpuriousWakeup, WorkerStart, WorkerTest, WorkerWait, WorkerSleep, WorkerWakes,
         WorkerSwap, WorkerUnlock, WorkerRun, WorkerProcessed, WorkerRelock, clientVars
<1>2. CASE WorkerTest
  <2>1. CASE GoesOn
    BY <1>0, <1>1, <1>2, <2>1 DEF WorkerTest
  <2>2. CASE ~GoesOn
    <3>1. stopped /\ task = <<>> /\ tmp = <<>>
      BY <1>2, <2>2 DEF GoesOn, WorkerTest, FifoInv, TmpEmpty
    <3>2. ToSet(task) = {}
      BY <3>1 DEF ToSet
    <3> QED BY <1>0, <1>1, <1>2, <2>2, <3>1, <3>2 DEF WorkerTest
  <2> QED BY <2>1, <2>2
<1>3. CASE WorkerWait
  BY <1>0, <1>1, <1>3 DEF WorkerWait, Pred
<1>4. CASE WorkerStart \/ WorkerSleep \/ WorkerWakes \/ WorkerRelock \/ SpuriousWakeup
  BY <1>0, <1>1, <1>4 DEF WorkerStart, WorkerSleep, WorkerWakes, WorkerRelock, SpuriousWakeup
<1>5. CASE WorkerSwap \/ WorkerUnlock \/ WorkerRun \/ WorkerProcessed
  BY <1>0, <1>1, <1>5 DEF WorkerSwap, WorkerUnlock, WorkerRun, WorkerProcessed
<1> QED BY <1>2, <1>3, <1>4, <1>5 DEF Worker

(* So does a step of a client: it changes the vector and the flag only     *)
(* while the worker does not hold the mutex, and wakes a worker asleep.    *)
LEMMA LockClient == ASSUME LockInv, Callers PROVE LockInv'
<1> USE DEF LockInv, LockState, SleepsWell, Holding, Owning
<1>0. FifoInv'
  BY FifoStep DEF Next
<1>1. ASSUME NEW c \in Clients, AddPush(c) PROVE LockInv'
  <2>1. LockState' /\ SleepsWell'
    BY <1>1 DEF AddPush, Notified, MutexFree
  <2>2. ASSUME worker' = "exited" PROVE stopped' /\ tmp' = <<>> /\ ToSet(task') \subseteq late'
    <3>1. worker = "exited" /\ stopped /\ tmp = <<>> /\ ToSet(task) \subseteq late
      BY <1>1, <2>2 DEF AddPush, Notified, ExitDrained
    <3>2. task \in Seq(Tasks) /\ adding[c] \in Tasks
      BY <1>1 DEF AddPush, FifoInv, TypeOK
    <3>3. ToSet(task') = ToSet(task) \cup {adding[c]}
      BY <1>1, <3>2, ToSetAppend DEF AddPush
    <3> QED BY <1>1, <3>1, <3>3 DEF AddPush
  <2> QED BY <1>0, <2>1, <2>2 DEF ExitDrained
<1>2. CASE StopSet
  BY <1>0, <1>2 DEF StopSet, Notified, MutexFree, ExitDrained
<1>3. CASE StopCheck \/ Join \/ \E c \in Clients : \E t \in Tasks : AddCheck(c, t)
  BY <1>0, <1>3 DEF StopCheck, Join, AddCheck, workerVars, ExitDrained
<1> QED BY <1>1, <1>2, <1>3 DEF Callers

(* The invariant of the listing, with the lock discipline.                 *)
LEMMA LockStep == ASSUME LockInv, Listing, [Next]_vars PROVE LockInv'
<1>1. CASE UNCHANGED vars
  BY <1>1, FifoStep DEF LockInv, LockState, SleepsWell, ExitDrained, vars, workerVars, clientVars
<1> QED BY <1>1, LockWorker, LockClient DEF Next, Ended

LEMMA ListingInvariant == Listing /\ Spec => []LockInv
<1> SUFFICES ASSUME Listing PROVE Spec => []LockInv
  OBVIOUS
<1>1. Init => LockInv
  BY Starts
<1>2. LockInv /\ [Next]_vars => LockInv'
  BY LockStep
<1> QED BY <1>1, <1>2, PTL DEF Spec

-----------------------------------------------------------------------------
(* In test_cp.cc and in the listing, whatever the threads do, every task   *)
(* that add_task accepted is in exactly one place, and the order of        *)
(* acceptance is the order of running.                                     *)
THEOREM TasksInOrder == Spec => []Fifo
<1>1. Init => FifoInv
  BY Starts DEF LockInv
<1>2. FifoInv /\ [Next]_vars => FifoInv'
  BY FifoStep
<1>3. FifoInv => Fifo
  BY DEF FifoInv
<1> QED BY <1>1, <1>2, <1>3, PTL DEF Spec

(* The worker of the listing leaves entry() only after stop(), when all    *)
(* that add_task accepted before stop() has been run, in order.            *)
THEOREM ListingDelivers == Listing /\ Spec => []Delivered
<1>1. LockInv => Delivered
  BY DEF LockInv, FifoInv, Delivered
<1> QED BY <1>1, ListingInvariant, PTL

(* No notification of add_task or stop() is lost on a worker of the        *)
(* listing that is on its way to sleep.                                    *)
THEOREM ListingWakes == Listing /\ Spec => []NoLostWakeup
<1>1. LockInv => NoLostWakeup
  BY DEF LockInv, SleepsWell, NoLostWakeup
<1> QED BY <1>1, ListingInvariant, PTL

(* With the listing's second lock.lock() the worker owns the lock wherever *)
(* it tests, waits, swaps or unlocks; without it, in test_cp.cc, it does   *)
(* not.                                                                    *)
THEOREM ListingOwnsLock == Listing /\ Spec => []WorkerOwnsLock
<1>1. LockInv => WorkerOwnsLock
  BY DEF LockInv, LockState, Holding, Owning, WorkerOwnsLock
<1> QED BY <1>1, ListingInvariant, PTL
=============================================================================
