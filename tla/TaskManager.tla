----------------------------- MODULE TaskManager ----------------------------
(***************************************************************************)
(* The condition-variable TaskManager of ceph_test/test_cp.cc: client      *)
(* threads add tasks and one of them stops the manager, a worker thread    *)
(* swaps the task vector out under the mutex and runs it outside.          *)
(*                                                                         *)
(* The same class is printed and explained in the producer/consumer        *)
(* document of the directory TestCPP.  The listing there differs from      *)
(* test_cp.cc in two places, both under the constant Listing: it takes the *)
(* lock again after _process, and its stop() has no unlocked early return. *)
(*                                                                         *)
(* A client's critical section is one step, taken when the mutex is free;  *)
(* the worker's is several.  The unlocked reads of `stopped` in add_task() *)
(* and stop() are steps of their own.                                      *)
(***************************************************************************)
EXTENDS Integers, Sequences, SequencesExt

CONSTANTS
    Tasks,   \* the tasks clients may add, each at most once
    NoTask,  \* none of them
    Clients, \* client threads
    Main,    \* the one that calls stop() and join()
    Listing  \* TRUE: the documented listing; FALSE: test_cp.cc

ASSUME NoTaskAssumption == NoTask \notin Tasks
ASSUME MainAssumption == Main \in Clients
ASSUME ListingAssumption == Listing \in BOOLEAN

VARIABLES
    stopped, \* the flag
    task,    \* the vector of tasks
    tmp,     \* the worker's private vector, from its next task on
    mutex,   \* mtx is held by the worker
    owns,    \* the worker's unique_lock believes it owns mtx
    worker,  \* where the worker is
    client,  \* client[c]: where c is
    adding,  \* adding[c]: the task c is about to push, in state "push"
    \* history
    pushed,  \* all tasks pushed, in order
    ran,     \* all tasks run, in order
    late     \* tasks pushed after `stopped` was set

workerVars == <<tmp, mutex, owns, worker, ran>>
clientVars == <<client, adding, pushed, late>>
vars == <<stopped, task, workerVars, clientVars>>

(* Some states of the worker.  "doze": the predicate was false, the mutex  *)
(* is still held; "asleep": in the wait set, not notified; "woken":        *)
(* notified or spuriously awake, about to take the mutex again;            *)
(* "terminated": std::terminate.                                           *)

Init ==
    /\ stopped = FALSE /\ task = <<>> /\ tmp = <<>>
    /\ mutex = FALSE /\ owns = FALSE /\ worker = "start"
    /\ client = [c \in Clients |-> "idle"]
    /\ adding = [c \in Clients |-> NoTask]
    /\ pushed = <<>> /\ ran = <<>> /\ late = {}

-----------------------------------------------------------------------------
(* Client threads.                                                         *)

Alive == worker # "terminated"

\* Mutant: add_task and stop do not take the mutex.
MutexFree_Ignored == TRUE

MutexFree == ~mutex

\* cond.notify_all()
Notified(w) == IF w = "asleep" THEN "woken" ELSE w

\* add_task reads `stopped` without the lock; when set, it returns -1.
AddCheck(c, t) ==
    /\ Alive /\ client[c] = "idle"
    /\ t \notin ToSet(pushed) /\ \A d \in Clients : adding[d] # t
    /\ ~stopped
    /\ client' = [client EXCEPT ![c] = "push"]
    /\ adding' = [adding EXCEPT ![c] = t]
    /\ UNCHANGED <<stopped, task, workerVars, pushed, late>>

\* The critical section of add_task: push and notify.
AddPush(c) ==
    /\ Alive /\ client[c] = "push" /\ MutexFree
    /\ task' = Append(task, adding[c])
    /\ worker' = Notified(worker)
    /\ client' = [client EXCEPT ![c] = "idle"]
    /\ adding' = [adding EXCEPT ![c] = NoTask]
    /\ pushed' = Append(pushed, adding[c])
    /\ late' = IF stopped THEN late \cup {adding[c]} ELSE late
    /\ UNCHANGED <<stopped, tmp, mutex, owns, ran>>

\* stop(): the unlocked test exists in test_cp.cc only.
StopCheck ==
    /\ Alive /\ client[Main] = "idle"
    /\ client' = [client EXCEPT ![Main] = IF stopped /\ ~Listing THEN "join" ELSE "stop"]
    /\ UNCHANGED <<stopped, task, workerVars, adding, pushed, late>>

\* Mutant: stop() does not notify.
StopSet_Silent ==
    /\ Alive /\ client[Main] = "stop" /\ ~mutex
    /\ stopped' = TRUE
    /\ client' = [client EXCEPT ![Main] = "join"]
    /\ UNCHANGED <<task, workerVars, adding, pushed, late>>

StopSet ==
    /\ Alive /\ client[Main] = "stop" /\ MutexFree
    /\ stopped' = TRUE
    /\ worker' = Notified(worker)
    /\ client' = [client EXCEPT ![Main] = "join"]
    /\ UNCHANGED <<task, tmp, mutex, owns, adding, pushed, ran, late>>

Join ==
    /\ Alive /\ client[Main] = "join" /\ worker = "exited"
    /\ client' = [client EXCEPT ![Main] = "joined"]
    /\ UNCHANGED <<stopped, task, workerVars, adding, pushed, late>>

-----------------------------------------------------------------------------
(* The worker: entry().                                                    *)

\* std::unique_lock lock{mtx}
WorkerStart ==
    /\ worker = "start" /\ ~mutex
    /\ mutex' = TRUE /\ owns' = TRUE /\ worker' = "test"
    /\ UNCHANGED <<stopped, task, tmp, ran, clientVars>>

\* Mutant: the loop ends as soon as `stopped` is set.
GoesOn_NoDrain == ~stopped

\* while (!stopped || !task.empty())
GoesOn == ~stopped \/ task # <<>>

\* Leaving the loop, the lock is released.
WorkerTest ==
    /\ worker = "test"
    /\ IF GoesOn
         THEN worker' = "wait" /\ UNCHANGED <<mutex, owns>>
         ELSE worker' = "exited" /\ mutex' = (mutex /\ ~owns) /\ owns' = FALSE
    /\ UNCHANGED <<stopped, task, tmp, ran, clientVars>>

\* Mutant: the predicate forgets the tasks.
Pred_OnlyStopped == stopped

Pred == task # <<>> \/ stopped

\* cond.wait(lock, pred): test the predicate, sleep when it is false.
WorkerWait ==
    /\ worker = "wait"
    /\ worker' = IF Pred THEN "swap" ELSE "doze"
    /\ UNCHANGED <<stopped, task, tmp, mutex, owns, ran, clientVars>>

WorkerSleep ==
    /\ worker = "doze" /\ worker' = "asleep" /\ mutex' = FALSE
    /\ UNCHANGED <<stopped, task, tmp, owns, ran, clientVars>>

SpuriousWakeup ==
    /\ worker = "asleep" /\ worker' = "woken"
    /\ UNCHANGED <<stopped, task, tmp, mutex, owns, ran, clientVars>>

WorkerWakes ==
    /\ worker = "woken" /\ ~mutex
    /\ mutex' = TRUE /\ worker' = "wait"
    /\ UNCHANGED <<stopped, task, tmp, owns, ran, clientVars>>

WorkerSwap ==
    /\ worker = "swap"
    /\ tmp' = task /\ task' = <<>> /\ worker' = "unlock"
    /\ UNCHANGED <<stopped, mutex, owns, ran, clientVars>>

\* lock.unlock(): throws when the lock is not owned, and nobody catches it.
WorkerUnlock ==
    /\ worker = "unlock"
    /\ IF owns THEN worker' = "process" /\ mutex' = FALSE /\ owns' = FALSE
               ELSE worker' = "terminated" /\ UNCHANGED <<mutex, owns>>
    /\ UNCHANGED <<stopped, task, tmp, ran, clientVars>>

\* context::run of a task
RunTask(t) == ran' = Append(ran, t)

\* _process: run the next task of tmp.
WorkerRun ==
    /\ worker = "process" /\ tmp # <<>>
    /\ RunTask(Head(tmp)) /\ tmp' = Tail(tmp)
    /\ UNCHANGED <<stopped, task, mutex, owns, worker, clientVars>>

WorkerProcessed ==
    /\ worker = "process" /\ tmp = <<>>
    /\ worker' = IF Listing THEN "relock" ELSE "test"
    /\ UNCHANGED <<stopped, task, tmp, mutex, owns, ran, clientVars>>

\* lock.lock(), in the listing only.
WorkerRelock ==
    /\ worker = "relock" /\ ~mutex
    /\ mutex' = TRUE /\ owns' = TRUE /\ worker' = "test"
    /\ UNCHANGED <<stopped, task, tmp, ran, clientVars>>

-----------------------------------------------------------------------------
Worker ==
    \/ WorkerStart \/ WorkerTest \/ WorkerWait \/ WorkerSleep \/ WorkerWakes \/ WorkerSwap
    \/ WorkerUnlock \/ WorkerRun \/ WorkerProcessed \/ WorkerRelock

\* The program: any number of add_task calls of any client, one stop() and join().
Callers ==
    \/ StopCheck \/ StopSet \/ Join
    \/ \E c \in Clients : AddPush(c) \/ \E t \in Tasks : AddCheck(c, t)

Ended ==
    /\ worker = "terminated" \/ client[Main] = "joined"
    /\ UNCHANGED vars

Next ==
    \/ Worker \/ SpuriousWakeup \/ Callers \/ Ended

Spec == Init /\ [][Next]_vars

(* Threads run; the mutex is granted at last to a thread that waits for it *)
(* again and again.  Nobody has to call add_task or stop, nor to wake up   *)
(* spuriously.                                                             *)
FairSpec ==
    Spec /\ SF_vars(Worker) /\ SF_vars(StopSet) /\ WF_vars(Join)
         /\ \A c \in Clients : SF_vars(AddPush(c))

-----------------------------------------------------------------------------
(* No task is lost, duplicated or overtaken on its way from add_task to    *)
(* the worker: what was pushed is what ran, what is being run, and what    *)
(* still waits in the vector, in this order.                               *)
Fifo == pushed = ran \o tmp \o task

(* No wake-up is lost: a worker asleep and not notified has nothing to do, *)
(* although clients push and set `stopped` while it goes to sleep.         *)
NoLostWakeup == worker = "asleep" => task = <<>> /\ ~stopped

(* The worker returns only after stop(), with every task run that was      *)
(* pushed before `stopped` was set; what can be left behind was pushed by  *)
(* an add_task that had read `stopped` before it was set.                  *)
ExitDrained == worker = "exited" => stopped /\ tmp = <<>> /\ ToSet(task) \subseteq late

(* What add_task accepted reaches the worker, once and in order, and the   *)
(* worker does not leave before it has run what came before stop().        *)
Delivered == Fifo /\ ExitDrained

(* entry() tests, waits, swaps and unlocks only while it owns the lock, as *)
(* the "lock.lock();" of the documented listing makes sure.                *)
WorkerOwnsLock == worker \in {"test", "wait", "doze", "swap", "unlock"} => owns /\ mutex

(* stop() makes the worker return, and with it join().                     *)
StopEnds == client[Main] = "stop" ~> client[Main] = "joined"

(* A task whose add_task got in before stop() is run.                      *)
AcceptedRuns ==
    \A t \in Tasks : (t \in ToSet(pushed) \ late) ~> t \in ToSet(ran)
=============================================================================
