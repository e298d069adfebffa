----------------------------- MODULE SelectLoop -----------------------------
(***************************************************************************)
(* The self-pipe TaskManager of ceph_test/test_select.cc: a thread waits   *)
(* in select() for the registered descriptors and for its own pipe; other  *)
(* threads change the set of descriptors under a mutex and write to the    *)
(* pipe to make the thread look again.                                     *)
(*                                                                         *)
(* The write end of the pipe is blocking, and register_fd and              *)
(* unregister_fd write to it while they hold the mutex.                    *)
(***************************************************************************)
EXTENDS Integers, FiniteSetsExt

CONSTANTS
    Handlers, \* io_handlers, each with a descriptor of its own
    Clients,  \* threads that register and unregister
    Main,     \* the one that calls stop() and join()
    PipeCap,  \* signals the pipe holds (16384 on Linux)
    ReadMax,  \* signals, or data units, one read() takes (256 bytes)
    MaxCalls, \* bound: calls of register_fd and unregister_fd
    MaxData   \* bound: units waiting in a handler's own pipe

ASSUME MainAssumption == Main \in Clients
ASSUME BoundsAssumption ==
    /\ PipeCap \in Nat \ {0} /\ ReadMax \in Nat \ {0}
    /\ MaxCalls \in Nat /\ MaxData \in Nat

Nobody == "nobody"
LoopThread == "loop"

ASSUME ThreadsAssumption == {Nobody, LoopThread} \cap Clients = {}

VARIABLES
    stopped,     \* the flag, written without the mutex
    io_callback, \* the registered handlers
    pipe,        \* signals in thread_pipe
    data,        \* data[h]: unread units in h's pipe
    mtx,         \* the holder of the mutex: a client, LoopThread or Nobody
    loop,        \* where the thread is: "test", "build", "select", "lock",
                 \* "callbacks", "clear" or "exited"
    fdread,      \* the handlers in its fd_set
    pipeSet,     \* thread_pipe[0] is in the fd_set
    client,      \* client[c]: where c is: <<"idle">>, <<"register", h>>,
                 \* <<"unregister", h>>, <<"signal", h>>, <<"stop_signal">>,
                 \* <<"join">> or <<"joined">>
    calls        \* calls so far

loopVars == <<loop, fdread, pipeSet>>
vars == <<stopped, io_callback, pipe, data, mtx, loopVars, client, calls>>

\* pipe_ocloexc: the pipes start empty.
EmptyPipes == pipe = 0 /\ data = [h \in Handlers |-> 0]

Init ==
    /\ stopped = FALSE /\ io_callback = {}
    /\ EmptyPipes
    /\ mtx = Nobody
    /\ loop = "test" /\ fdread = {} /\ pipeSet = FALSE
    /\ client = [c \in Clients |-> <<"idle">>] /\ calls = 0

-----------------------------------------------------------------------------
(* Client threads.                                                         *)

At(c, p) == client[c][1] = p
Goto(c, s) == client' = [client EXCEPT ![c] = s]

\* register_fd reads `stopped` without the mutex; when set, it returns -1.
RegisterCheck(c, h) ==
    /\ At(c, "idle") /\ calls < MaxCalls /\ ~stopped
    /\ calls' = calls + 1 /\ Goto(c, <<"register", h>>)
    /\ UNCHANGED <<stopped, io_callback, pipe, data, mtx, loopVars>>

\* unregister_fd asks nothing: a handler that is not registered will do.
UnregisterCall(c, h) ==
    /\ At(c, "idle") /\ calls < MaxCalls
    /\ calls' = calls + 1 /\ Goto(c, <<"unregister", h>>)
    /\ UNCHANGED <<stopped, io_callback, pipe, data, mtx, loopVars>>

\* Take the mutex and change the map.
ChangeSet(c) ==
    /\ At(c, "register") \/ At(c, "unregister")
    /\ mtx = Nobody /\ mtx' = c
    /\ LET h == client[c][2] IN
        /\ io_callback' = IF At(c, "register") THEN io_callback \cup {h} ELSE io_callback \ {h}
        /\ Goto(c, <<"signal", h>>)
    /\ UNCHANGED <<stopped, pipe, data, loopVars, calls>>

\* Mutant: no signal after the change.
SignalSet_Silent(c) ==
    /\ At(c, "signal")
    /\ mtx' = Nobody /\ Goto(c, <<"idle">>)
    /\ UNCHANGED <<stopped, io_callback, pipe, data, loopVars, calls>>

\* signal_thread(), which blocks on a full pipe; then release the mutex.
SignalSet(c) ==
    /\ At(c, "signal") /\ pipe < PipeCap
    /\ pipe' = pipe + 1
    /\ mtx' = Nobody /\ Goto(c, <<"idle">>)
    /\ UNCHANGED <<stopped, io_callback, data, loopVars, calls>>

\* stop(): the flag, without the mutex ...
StopSet ==
    /\ At(Main, "idle") /\ ~stopped
    /\ stopped' = TRUE /\ Goto(Main, <<"stop_signal">>)
    /\ UNCHANGED <<io_callback, pipe, data, mtx, loopVars, calls>>

\* Mutant: stop() sets the flag only.
StopSignal_Silent ==
    /\ At(Main, "stop_signal")
    /\ Goto(Main, <<"idle">>)
    /\ UNCHANGED <<stopped, io_callback, pipe, data, mtx, loopVars, calls>>

\* ... then the signal.
StopSignal ==
    /\ At(Main, "stop_signal") /\ pipe < PipeCap
    /\ pipe' = pipe + 1 /\ Goto(Main, <<"idle">>)
    /\ UNCHANGED <<stopped, io_callback, data, mtx, loopVars, calls>>

JoinCall ==
    /\ At(Main, "idle") /\ stopped /\ Goto(Main, <<"join">>)
    /\ UNCHANGED <<stopped, io_callback, pipe, data, mtx, loopVars, calls>>

Joined ==
    /\ At(Main, "join") /\ loop = "exited" /\ Goto(Main, <<"joined">>)
    /\ UNCHANGED <<stopped, io_callback, pipe, data, mtx, loopVars, calls>>

\* Somebody writes to the pipe of a handler (test() in the source).
Write(h) ==
    /\ data[h] < MaxData
    /\ data' = [data EXCEPT ![h] = @ + 1]
    /\ UNCHANGED <<stopped, io_callback, pipe, mtx, loopVars, client, calls>>

-----------------------------------------------------------------------------
(* The thread: entry().                                                    *)

\* while (!stopped || !io_callback.empty()), read without the mutex.
LoopTest ==
    /\ loop = "test"
    /\ loop' = IF ~stopped \/ io_callback # {} THEN "build" ELSE "exited"
    /\ UNCHANGED <<stopped, io_callback, pipe, data, mtx, fdread, pipeSet, client, calls>>

\* Mutant: thread_pipe[0] is forgotten.
WatchesPipe_Not == FALSE

\* FD_SET(thread_pipe[0], ...)
WatchesPipe == TRUE

\* Fill the fd_set, under the mutex.
LoopBuild ==
    /\ loop = "build" /\ mtx = Nobody
    /\ fdread' = io_callback /\ pipeSet' = WatchesPipe /\ loop' = "select"
    /\ UNCHANGED <<stopped, io_callback, pipe, data, mtx, client, calls>>

\* select() returns with the descriptors of the fd_set that are readable.
LoopSelect ==
    /\ loop = "select"
    /\ (pipeSet /\ pipe > 0) \/ \E h \in fdread : data[h] > 0
    /\ fdread' = {h \in fdread : data[h] > 0} /\ pipeSet' = (pipeSet /\ pipe > 0)
    /\ loop' = "lock"
    /\ UNCHANGED <<stopped, io_callback, pipe, data, mtx, client, calls>>

\* select() fails, when a signal interrupts it for instance: entry() returns.
LoopSelectFails ==
    /\ loop = "select" /\ loop' = "exited"
    /\ UNCHANGED <<stopped, io_callback, pipe, data, mtx, fdread, pipeSet, client, calls>>

LoopLock ==
    /\ loop = "lock" /\ mtx = Nobody
    /\ mtx' = LoopThread /\ loop' = "callbacks"
    /\ UNCHANGED <<stopped, io_callback, pipe, data, fdread, pipeSet, client, calls>>

\* process() and read(): one read of a buffer's length takes what there is.
Process(n) == Max({n - ReadMax, 0})

\* clear_signal(), the same for the thread's own pipe.
ClearSignal == pipe' = Max({pipe - ReadMax, 0})

\* One read from every handler that is registered now and was readable.
LoopCallbacks ==
    /\ loop = "callbacks" /\ loop' = "clear"
    /\ data' = [h \in Handlers |->
                  IF h \in io_callback \cap fdread THEN Process(data[h]) ELSE data[h]]
    /\ UNCHANGED <<stopped, io_callback, pipe, mtx, fdread, pipeSet, client, calls>>

\* clear_signal, one read, if the pipe was readable; release the mutex.
LoopClear ==
    /\ loop = "clear" /\ loop' = "test" /\ mtx' = Nobody
    /\ IF pipeSet THEN ClearSignal ELSE UNCHANGED pipe
    /\ UNCHANGED <<stopped, io_callback, data, fdread, pipeSet, client, calls>>

-----------------------------------------------------------------------------
Loop == LoopTest \/ LoopBuild \/ LoopSelect \/ LoopLock \/ LoopCallbacks \/ LoopClear
Calling(c) == ChangeSet(c) \/ SignalSet(c)

Next ==
    \/ Loop \/ LoopSelectFails
    \/ StopSet \/ StopSignal \/ JoinCall \/ Joined
    \/ \E c \in Clients : Calling(c) \/ \E h \in Handlers : RegisterCheck(c, h) \/ UnregisterCall(c, h)
    \/ \E h \in Handlers : Write(h)

Spec == Init /\ [][Next]_vars

(* Threads run, and the mutex is granted at last to one that waits for it  *)
(* again and again.  Nobody has to call anything; select() need not fail.  *)
FairSpec ==
    Spec /\ SF_vars(Loop) /\ WF_vars(StopSignal) /\ WF_vars(Joined)
         /\ \A c \in Clients : SF_vars(Calling(c))

-----------------------------------------------------------------------------
(* No change is overlooked: a thread blocked in select() with no signal in *)
(* its pipe watches exactly the registered descriptors and has been told   *)
(* of stop(), unless the client that made the change is about to signal.   *)
NoStaleSelect ==
    loop = "select" /\ pipe = 0 /\ (\A c \in Clients : ~At(c, "signal") /\ ~At(c, "stop_signal"))
        => fdread = io_callback /\ (stopped => io_callback # {})

(* What the document says of the pipe: writing to it wakes the waiting     *)
(* thread.  A descriptor that is registered gets watched, unless it is     *)
(* unregistered again or the thread has returned.                          *)
RegisterTakesEffect ==
    \A h \in Handlers :
        h \in io_callback ~> (h \in fdread \/ h \notin io_callback \/ loop = "exited")

(* join() returns once stop() was called and nothing is registered.        *)
StopEnds == At(Main, "join") ~> (At(Main, "joined") \/ io_callback # {})
=============================================================================
