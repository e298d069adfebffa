----------------------------- MODULE ThreadRing -----------------------------
(***************************************************************************)
(* TestCPP/thread.cc: N threads print in turn, each waking its successor.  *)
(* A thread holds its mutex from its start to its end, but for the wait;   *)
(* the wait has no predicate, and notify() does not take the mutex of the  *)
(* thread it wakes.  main creates the threads, wakes the first, then       *)
(* stops, joins and deletes them all.                                      *)
(***************************************************************************)
EXTENDS Integers

CONSTANT N \* threads; three in the source

ASSUME RingAssumption == N \in Nat \ {0}

Threads == 0..(N - 1)

VARIABLES
    thr,      \* thr[t]: where t is: "none", "start", "test", "sleep" (about to
              \* wait), "waiting", "woken", "process", "notify", "ended"
    stopped,  \* stopped[t]
    deleted,  \* the objects main has deleted
    main,     \* what main does next, and to which thread
    \* history
    turn,     \* whose turn it is to print
    inOrder,  \* every thread so far printed at its turn
    spurious  \* some wait returned without a notify

ringVars == <<thr, stopped, deleted, main, turn, inOrder, spurious>>

RingInit ==
    /\ thr = [t \in Threads |-> "none"]
    /\ stopped = [t \in Threads |-> FALSE]
    /\ deleted = {} /\ main = [op |-> "create", of |-> 0]
    /\ turn = 0 /\ inOrder = TRUE /\ spurious = FALSE

-----------------------------------------------------------------------------
(* A thread: run(next_ptr).                                                *)

Move(t, from, to) == thr[t] = from /\ thr' = [thr EXCEPT ![t] = to]

\* cond.notify_all() of t's condition variable
Notified(f, t) == [f EXCEPT ![t] = IF @ = "waiting" THEN "woken" ELSE @]

\* Mutant: the mutex is given up before the thread is in the wait set.
MutexFree_Early(t) == thr[t] \notin {"test", "process", "notify"}

\* Nobody holds t's mutex: t itself does, except before it runs and in the wait.
MutexFree(t) == thr[t] \notin {"test", "sleep", "process", "notify"}

\* Mutant: the ring is closed the wrong way round.
NextPtr_Back(t) == (t - 1) % N

\* next_ptr, as main passes it to create()
NextPtr(t) == (t + 1) % N

Lock(t) ==
    /\ Move(t, "start", "test")
    /\ UNCHANGED <<stopped, deleted, main, turn, inOrder, spurious>>

\* while (!isstop())
TestStopped(t) ==
    /\ Move(t, "test", IF stopped[t] THEN "ended" ELSE "sleep")
    /\ UNCHANGED <<stopped, deleted, main, turn, inOrder, spurious>>

\* cond.wait(lk): waiting and unlocking the mutex are one step ...
Wait(t) ==
    /\ Move(t, "sleep", "waiting")
    /\ UNCHANGED <<stopped, deleted, main, turn, inOrder, spurious>>

SpuriousWakeup(t) ==
    /\ Move(t, "waiting", "woken")
    /\ spurious' = TRUE
    /\ UNCHANGED <<stopped, deleted, main, turn, inOrder>>

\* Mutant: `stopped` is not tested after the wait.
AfterWait_Untested(t) == "process"

\* if (stopped) return, which unlocks
AfterWait(t) == IF stopped[t] THEN "ended" ELSE "process"

\* ... and it locks it again.
Wake(t) ==
    /\ Move(t, "woken", AfterWait(t))
    /\ UNCHANGED <<stopped, deleted, main, turn, inOrder, spurious>>

Process(t) ==
    /\ Move(t, "process", "notify")
    /\ inOrder' = (inOrder /\ t = turn) /\ turn' = (t + 1) % N
    /\ UNCHANGED <<stopped, deleted, main, spurious>>

\* next_ptr->notify()
NotifyNext(t) ==
    /\ thr[t] = "notify"
    /\ thr' = Notified([thr EXCEPT ![t] = "test"], NextPtr(t))
    /\ UNCHANGED <<stopped, deleted, main, turn, inOrder, spurious>>

Run(t) ==
    \/ Lock(t) \/ TestStopped(t) \/ Wait(t) \/ Wake(t) \/ Process(t) \/ NotifyNext(t)

-----------------------------------------------------------------------------
(* main.                                                                   *)

NextOp == [create |-> "notify", notify |-> "stop", stop |-> "join",
           join |-> "delete", delete |-> "done"]

\* main does one thing to all the threads, then the next; it only notifies the first.
Following(m) ==
    IF m.op # "notify" /\ m.of < N - 1 THEN [m EXCEPT !.of = @ + 1]
    ELSE [op |-> NextOp[m.op], of |-> 0]

At(op) == main.op = op /\ main' = Following(main)

Create ==
    /\ At("create") /\ Move(main.of, "none", "start")
    /\ UNCHANGED <<stopped, deleted, turn, inOrder, spurious>>

\* notify(): no mutex
NotifyFirst ==
    /\ At("notify") /\ thr' = Notified(thr, main.of)
    /\ UNCHANGED <<stopped, deleted, turn, inOrder, spurious>>

\* stop(): flag and notify under the mutex
Stop ==
    /\ At("stop") /\ MutexFree(main.of)
    /\ stopped' = [stopped EXCEPT ![main.of] = TRUE]
    /\ thr' = Notified(thr, main.of)
    /\ UNCHANGED <<deleted, turn, inOrder, spurious>>

Join ==
    /\ At("join") /\ thr[main.of] = "ended"
    /\ UNCHANGED <<thr, stopped, deleted, turn, inOrder, spurious>>

Delete ==
    /\ At("delete") /\ deleted' = deleted \cup {main.of}
    /\ UNCHANGED <<thr, stopped, turn, inOrder, spurious>>

Main == Create \/ NotifyFirst \/ Stop \/ Join \/ Delete

RingNext == Main \/ \E t \in Threads : Run(t) \/ SpuriousWakeup(t)

RingSpec == RingInit /\ [][RingNext]_ringVars

-----------------------------------------------------------------------------
(* Never two turns at once: as long as no wait returns spuriously, threads *)
(* print in the order of the ring, although a notify may be lost and the   *)
(* turn with it.                                                           *)
InTurn == spurious \/ inOrder

(* Once stop(t) has returned, t does not print again and notifies nobody:  *)
(* a wake-up that was under way when stop() came in leads out of the loop. *)
(* Hence nobody is about to notify an object that main has deleted.        *)
StoppedIsQuiet ==
    \A t \in Threads :
        /\ stopped[t] => thr[t] \notin {"process", "notify"}
        /\ thr[t] = "notify" => NextPtr(t) \notin deleted

(* main ends: stop() reaches every thread, wherever it is, the ones about  *)
(* to wait and the ones that a notify has just woken included.             *)
RingEnds == main.op = "stop" ~> main.op = "done"
=============================================================================
