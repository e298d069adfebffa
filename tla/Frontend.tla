------------------------------ MODULE Frontend ------------------------------
(***************************************************************************)
(* The life of the HTTP server of boost_cpp/httpserver/asio_frontend.cc:   *)
(* main() opens the listeners, starts a pool of io_context threads, waits  *)
(* for a signal, and then closes everything and joins the pool, while the  *)
(* pool runs one accept handler per listener and one coroutine per         *)
(* connection.                                                             *)
(*                                                                         *)
(* What the coroutine does with its socket (handle_connection) is here     *)
(* only what the rest of the server can see of it: it suspends in          *)
(* asynchronous operations, is resumed with success or with an error,      *)
(* returns, or lets an exception out.  Module HttpConnection models it in  *)
(* detail and is shown to implement that abstraction (module Session).     *)
(*                                                                         *)
(* asio's socket objects are not safe for shared use, yet stop() closes    *)
(* them from the main thread; each call on a socket is one atomic step     *)
(* here, interleaved arbitrarily with those of the pool.                   *)
(***************************************************************************)
EXTENDS Integers, FiniteSets

CONSTANTS
    NListeners, \* entries of the vector `listeners`, in order (the code: 2)
    Conns,      \* identities of the sockets the server ever accepts
    NoConn,     \* an empty tcp::socket
    NThreads,   \* thread_pool_size
    Signals     \* the signals register_signal is called for

ASSUME NListenersAssumption == NListeners \in Nat
ASSUME NoConnAssumption == NoConn \notin Conns
ASSUME NThreadsAssumption == NThreads \in Nat \ {0}

Listeners == 1..NListeners

VARIABLES
    proc,      \* the process: "up", "exited", "aborted" (std::terminate), "killed"
    main,      \* where the main thread is
    cur,       \* the listener at which the loop of init() or stop() is
    sighandler,\* signals whose handler is still installed (SA_RESETHAND)
    sigfd,     \* values written to signal_fd[0] and not yet read
    acceptor,  \* acceptor[l]: "closed", "open" or "listening"
    acceptOp,  \* acceptOp[l]: l's async_accept: "none", "pending", or the
               \* result its queued handler will see: "ok", "aborted", "error"
    accepted,  \* accepted[l]: the connection in l.socket, or NoConn
    handler,   \* handler[l]: the connection in the local `socket` of an accept
               \* handler of l that has not re-armed l yet, or NoConn
    sock,      \* sock[c]: "none", "open", "shut" (shutdown_both) or "closed"
    co,        \* co[c]: how far c is on its way through its coroutine
    listed,    \* the nodes linked in ConnectionList::connections
    toClose,   \* those the loop of ConnectionList::close has still to visit
    work,      \* the executor_work_guard is engaged
    io         \* the pool: "idle" (not started), "running", "ended"

mainVars == <<proc, main, cur, work, io>>
sigVars  == <<sighandler, sigfd>>
accVars  == <<acceptor, acceptOp, accepted, handler>>
connVars == <<sock, co>>
listVars == <<listed, toClose>>
vars == <<mainVars, sigVars, accVars, connVars, listVars>>

MainStates == {"init", "run", "wait", "stop", "closing", "join", "joining", "delete"}

(* "accepted": in l.socket; "taken": moved to a handler's local; "spawn":   *)
(* the handler has re-armed the listener and calls spawn(); "running" and  *)
(* "failed": on a thread, in handle_connection, the last operation having   *)
(* succeeded or failed; "waiting": suspended; "leaving": handle_connection *)
(* returned; "unlinked": ~Guard has run; "dead": the frame is destroyed.    *)
CoStates == {"none", "accepted", "taken", "spawn", "running", "failed",
             "waiting", "leaving", "unlinked", "dead"}

\* States in which the coroutine's frame, and the list node in it, exist.
Framed == {"running", "failed", "waiting", "leaving", "unlinked"}

\* States in which a thread of the pool is executing on the connection's behalf.
OnThread == {"taken", "spawn", "running", "failed", "leaving", "unlinked"}

\* ConnectionList::mutex is held over several steps only by close().
MutexFree == main # "closing"

ThreadAvailable ==
    /\ proc = "up"
    /\ io = "running"
    /\ Cardinality({c \in Conns : co[c] \in OnThread}) < NThreads

-----------------------------------------------------------------------------
Init ==
    /\ proc = "up" /\ main = "init" /\ cur = 1
    /\ sighandler = Signals /\ sigfd = 0
    /\ acceptor = [l \in Listeners |-> "closed"]
    /\ acceptOp = [l \in Listeners |-> "none"]
    /\ accepted = [l \in Listeners |-> NoConn]
    /\ handler  = [l \in Listeners |-> NoConn]
    /\ sock = [c \in Conns |-> "none"]
    /\ co   = [c \in Conns |-> "none"]
    /\ listed = {} /\ toClose = {}
    /\ work = FALSE /\ io = "idle"

-----------------------------------------------------------------------------
(* The main thread.                                                        *)

(* One listener opened, bound, listening and armed: the loop of init().    *)
InitListen ==
    /\ proc = "up" /\ main = "init" /\ cur \in Listeners
    /\ acceptor' = [acceptor EXCEPT ![cur] = "listening"]
    /\ acceptOp' = [acceptOp EXCEPT ![cur] = "pending"]
    /\ cur' = cur + 1
    /\ UNCHANGED <<proc, main, work, io, sigVars, accepted, handler, connVars, listVars>>

(* address_family_not_supported: the listener is skipped.                  *)
InitSkip ==
    /\ proc = "up" /\ main = "init" /\ cur \in Listeners
    /\ cur' = cur + 1
    /\ UNCHANGED <<proc, main, work, io, sigVars, accVars, connVars, listVars>>

(* open() fails, or v6_only or bind() fails on the open acceptor: init()   *)
(* returns early.  main() drops the returned value and goes on to run().   *)
InitFail ==
    /\ proc = "up" /\ main = "init" /\ cur \in Listeners
    /\ \E a \in {"closed", "open"} : acceptor' = [acceptor EXCEPT ![cur] = a]
    /\ main' = "run"
    /\ UNCHANGED <<proc, cur, work, io, sigVars, acceptOp, accepted, handler, connVars, listVars>>

(* set_option(reuse_address) and listen() are the throwing overloads.      *)
InitThrow ==
    /\ proc = "up" /\ main = "init" /\ cur \in Listeners
    /\ proc' = "aborted"
    /\ UNCHANGED <<main, cur, work, io, sigVars, accVars, connVars, listVars>>

InitEnd ==
    /\ proc = "up" /\ main = "init" /\ cur \notin Listeners
    /\ main' = "run"
    /\ UNCHANGED <<proc, cur, work, io, sigVars, accVars, connVars, listVars>>

(* run(): engage the work guard, start the pool.                           *)
Run ==
    /\ proc = "up" /\ main = "run"
    /\ work' = TRUE /\ io' = "running" /\ main' = "wait"
    /\ UNCHANGED <<proc, cur, sigVars, accVars, connVars, listVars>>

(* wait_shutdown() reads one value, or none when the handler interrupted   *)
(* the read (there is no SA_RESTART): either way it returns.  stop() sets  *)
(* going_down and starts at the first listener.                            *)
WaitShutdown ==
    /\ proc = "up" /\ main = "wait" /\ sigfd > 0
    /\ sigfd' \in {sigfd - 1, sigfd}
    /\ main' = "stop" /\ cur' = 1
    /\ UNCHANGED <<proc, work, io, sighandler, accVars, connVars, listVars>>

(* stop(): acceptor.close(ec).  A pending accept completes with            *)
(* operation_aborted; one already completed keeps its result.              *)
StopListener ==
    /\ proc = "up" /\ main = "stop" /\ cur \in Listeners
    /\ acceptor' = [acceptor EXCEPT ![cur] = "closed"]
    /\ acceptOp' = [acceptOp EXCEPT ![cur] = IF @ = "pending" THEN "aborted" ELSE @]
    /\ cur' = cur + 1
    /\ UNCHANGED <<proc, main, work, io, sigVars, accepted, handler, connVars, listVars>>

(* ConnectionList::close(): lock the mutex and walk the list ...           *)
CloseBegin ==
    /\ proc = "up" /\ main = "stop" /\ cur \notin Listeners
    /\ main' = "closing" /\ toClose' = listed
    /\ UNCHANGED <<proc, cur, work, io, sigVars, accVars, connVars, listed>>

(* ... closing each socket ...                                             *)
CloseOne(c) ==
    /\ proc = "up" /\ main = "closing" /\ c \in toClose
    /\ sock' = [sock EXCEPT ![c] = "closed"]
    /\ toClose' = toClose \ {c}
    /\ UNCHANGED <<mainVars, sigVars, accVars, co, listed>>

(* ... then unlink every node and unlock.                                  *)
CloseEnd ==
    /\ proc = "up" /\ main = "closing" /\ toClose = {}
    /\ listed' = {} /\ main' = "join"
    /\ UNCHANGED <<proc, cur, work, io, sigVars, accVars, connVars, toClose>>

\* Mutant: join() forgets work.reset().
Join_KeepsWork ==
    /\ proc = "up" /\ main = "join"
    /\ main' = "joining"
    /\ UNCHANGED <<proc, cur, work, io, sigVars, accVars, connVars, listVars>>

(* join(): going_down is always set here, since main() has called stop().  *)
Join ==
    /\ proc = "up" /\ main = "join"
    /\ work' = FALSE /\ main' = "joining"
    /\ UNCHANGED <<proc, cur, io, sigVars, accVars, connVars, listVars>>

(* The io_context has no work left: every run() returns.                   *)
OutOfWork ==
    /\ proc = "up" /\ io = "running" /\ ~work
    /\ \A l \in Listeners : acceptOp[l] = "none" /\ handler[l] = NoConn
    /\ \A c \in Conns : co[c] \in {"none", "accepted", "dead"}
    /\ io' = "ended"
    /\ UNCHANGED <<proc, main, cur, work, sigVars, accVars, connVars, listVars>>

(* thread.join() returns for every thread.                                 *)
Joined ==
    /\ proc = "up" /\ main = "joining" /\ io = "ended"
    /\ main' = "delete"
    /\ UNCHANGED <<proc, cur, work, io, sigVars, accVars, connVars, listVars>>

(* delete fe destroys the listeners and with them their sockets; main()    *)
(* returns EXIT_SUCCESS.                                                   *)
Delete ==
    /\ proc = "up" /\ main = "delete"
    /\ sock' = [c \in Conns |-> IF co[c] = "accepted" THEN "closed" ELSE sock[c]]
    /\ proc' = "exited"
    /\ UNCHANGED <<main, cur, work, io, sigVars, accVars, co, listVars>>

-----------------------------------------------------------------------------
(* Signals.                                                                *)

\* Mutant: a signal only wakes a main() that already waits.
AfterWrite_OnlyWaiting == IF main = "wait" THEN sigfd + 1 ELSE sigfd

\* signal_shutdown
AfterWrite == sigfd + 1

(* handle_sigterm writes to the socket pair and, SA_RESETHAND, is gone.    *)
Signal(s) ==
    /\ proc = "up" /\ s \in sighandler
    /\ sighandler' = sighandler \ {s}
    /\ sigfd' = AfterWrite
    /\ UNCHANGED <<mainVars, accVars, connVars, listVars>>

(* The same signal again takes its default action.                         *)
Kill(s) ==
    /\ proc = "up" /\ s \in Signals \ sighandler
    /\ proc' = "killed"
    /\ UNCHANGED <<main, cur, work, io, sigVars, accVars, connVars, listVars>>

-----------------------------------------------------------------------------
(* Accepting.                                                              *)

(* A client's connection completes the outstanding accept.                 *)
Connect(l, c) ==
    /\ proc = "up" /\ acceptOp[l] = "pending" /\ co[c] = "none"
    /\ acceptOp' = [acceptOp EXCEPT ![l] = "ok"]
    /\ accepted' = [accepted EXCEPT ![l] = c]
    /\ co' = [co EXCEPT ![c] = "accepted"]
    /\ sock' = [sock EXCEPT ![c] = "open"]
    /\ UNCHANGED <<mainVars, sigVars, acceptor, handler, listVars>>

(* The outstanding accept fails (no descriptors left, for instance).       *)
AcceptFails(l) ==
    /\ proc = "up" /\ acceptOp[l] = "pending"
    /\ acceptOp' = [acceptOp EXCEPT ![l] = "error"]
    /\ UNCHANGED <<mainVars, sigVars, acceptor, accepted, handler, connVars, listVars>>

\* Mutant: the test of is_open() is the wrong way round.
AcceptReturns_Inverted(l) ==
    /\ ThreadAvailable
    /\ \/ acceptOp[l] \in {"aborted", "error"}
       \/ acceptOp[l] = "ok" /\ acceptor[l] # "closed"
    /\ acceptOp' = [acceptOp EXCEPT ![l] = "none"]
    /\ UNCHANGED <<mainVars, sigVars, acceptor, accepted, handler, connVars, listVars>>

(* accept() returns early: the acceptor is closed, or the result is an     *)
(* error.  Nothing is re-armed; l.socket keeps what it holds.              *)
AcceptReturns(l) ==
    /\ ThreadAvailable
    /\ \/ acceptOp[l] \in {"aborted", "error"}
       \/ acceptOp[l] = "ok" /\ acceptor[l] = "closed"
    /\ acceptOp' = [acceptOp EXCEPT ![l] = "none"]
    /\ UNCHANGED <<mainVars, sigVars, acceptor, accepted, handler, connVars, listVars>>

\* Mutant: l.socket is used without being moved from.
MovedFrom_Not(l) == accepted[l]

\* What a move leaves in l.socket.
MovedFrom(l) == NoConn

(* accept() finds the acceptor open and moves l.socket to its local.       *)
AcceptTakes(l) ==
    /\ ThreadAvailable
    /\ acceptOp[l] = "ok" /\ acceptor[l] # "closed"
    /\ acceptOp' = [acceptOp EXCEPT ![l] = "none"]
    /\ handler'  = [handler EXCEPT ![l] = accepted[l]]
    /\ accepted' = [accepted EXCEPT ![l] = MovedFrom(l)]
    /\ co' = [co EXCEPT ![accepted[l]] = "taken"]
    /\ UNCHANGED <<mainVars, sigVars, acceptor, sock, listVars>>

\* Mutant: the next accept is not started.
Rearmed_Never(l) == "none"

(* async_accept.  stop() may have closed the acceptor in between: then     *)
(* bad_descriptor is posted.                                               *)
Rearmed(l) == IF acceptor[l] = "closed" THEN "error" ELSE "pending"

(* accept() starts the next accept.                                        *)
AcceptRearms(l) ==
    /\ proc = "up" /\ handler[l] # NoConn
    /\ acceptOp' = [acceptOp EXCEPT ![l] = Rearmed(l)]
    /\ handler'  = [handler EXCEPT ![l] = NoConn]
    /\ co' = [co EXCEPT ![handler[l]] = "spawn"]
    /\ UNCHANGED <<mainVars, sigVars, acceptor, accepted, sock, listVars>>

-----------------------------------------------------------------------------
(* The coroutine of a connection.  spawn() dispatches it, so it starts on  *)
(* the thread of the accept handler.                                       *)

\* Mutant: add() without the mutex.
Add_Unlocked(c) == listed' = listed \cup {c}

\* ConnectionList::add
Add(c) == MutexFree /\ listed' = listed \cup {c}

(* Connection conn{s}; auto c = connections.add(conn);                     *)
CoStart(c) ==
    /\ proc = "up" /\ co[c] = "spawn"
    /\ Add(c)
    /\ co' = [co EXCEPT ![c] = "running"]
    /\ UNCHANGED <<mainVars, sigVars, accVars, sock, toClose>>

(* handle_connection starts an asynchronous operation and yields.          *)
CoAwait(c) ==
    /\ proc = "up" /\ co[c] = "running"
    /\ co' = [co EXCEPT ![c] = "waiting"]
    /\ UNCHANGED <<mainVars, sigVars, accVars, sock, listVars>>

(* The operation ends and handle_connection goes on: the peer's doing, or, *)
(* even after stop() closed the socket, data left in the parse buffer.     *)
CoResumeOk(c) ==
    /\ ThreadAvailable /\ co[c] = "waiting"
    /\ co' = [co EXCEPT ![c] = "running"]
    /\ UNCHANGED <<mainVars, sigVars, accVars, sock, listVars>>

(* The operation fails for good: the peer went away, or the socket is      *)
(* closed.  After broken_pipe, write_data shuts the socket down.           *)
CoResumeErr(c) ==
    /\ ThreadAvailable /\ co[c] = "waiting"
    /\ co' = [co EXCEPT ![c] = "failed"]
    /\ \/ UNCHANGED sock
       \/ sock[c] = "open" /\ sock' = [sock EXCEPT ![c] = "shut"]
    /\ UNCHANGED <<mainVars, sigVars, accVars, listVars>>

(* handle_connection returns; s.shutdown(shutdown_both, ec).               *)
CoReturn(c) ==
    /\ proc = "up" /\ co[c] \in {"running", "failed"}
    /\ co' = [co EXCEPT ![c] = "leaving"]
    /\ sock' = [sock EXCEPT ![c] = IF @ = "open" THEN "shut" ELSE @]
    /\ UNCHANGED <<mainVars, sigVars, accVars, listVars>>

(* An exception leaves the coroutine, io_context::run and the thread.      *)
CoThrow(c) ==
    /\ proc = "up" /\ co[c] \in {"running", "failed"}
    /\ proc' = "aborted"
    /\ UNCHANGED <<main, cur, work, io, sigVars, accVars, connVars, listVars>>

\* Mutant: remove() without the mutex.
Remove_Unlocked(c) == listed' = listed \ {c}

\* ConnectionList::remove
Remove(c) == MutexFree /\ listed' = listed \ {c}

(* ~Guard: ConnectionList::remove, if the node is still linked.            *)
CoUnlink(c) ==
    /\ proc = "up" /\ co[c] = "leaving"
    /\ Remove(c)
    /\ co' = [co EXCEPT ![c] = "unlinked"]
    /\ UNCHANGED <<mainVars, sigVars, accVars, sock, toClose>>

(* The frame goes: the node and the socket are destroyed.                  *)
CoDestroy(c) ==
    /\ proc = "up" /\ co[c] = "unlinked"
    /\ co' = [co EXCEPT ![c] = "dead"]
    /\ sock' = [sock EXCEPT ![c] = "closed"]
    /\ UNCHANGED <<mainVars, sigVars, accVars, listVars>>

-----------------------------------------------------------------------------
Main ==
    \/ InitListen \/ InitSkip \/ InitFail \/ InitThrow \/ InitEnd
    \/ Run \/ WaitShutdown \/ StopListener
    \/ CloseBegin \/ (\E c \in Conns : CloseOne(c)) \/ CloseEnd
    \/ Join \/ Joined \/ Delete

Accept(l) == AcceptReturns(l) \/ AcceptTakes(l) \/ AcceptRearms(l)

\* The steps of c's coroutine that wait for nobody but the mutex.
CoStep(c) ==
    CoStart(c) \/ CoAwait(c) \/ CoReturn(c) \/ CoThrow(c) \/ CoUnlink(c) \/ CoDestroy(c)

Environment ==
    \/ \E s \in Signals : Signal(s) \/ Kill(s)
    \/ \E l \in Listeners : AcceptFails(l) \/ \E c \in Conns : Connect(l, c)

\* The process is over.
Ended == proc # "up" /\ UNCHANGED vars

Next ==
    \/ Main \/ OutOfWork \/ Environment \/ Ended
    \/ \E l \in Listeners : Accept(l)
    \/ \E c \in Conns : CoStep(c) \/ CoResumeOk(c) \/ CoResumeErr(c)

(***************************************************************************)
(* Threads keep running.  io_context queues handlers first in, first out,  *)
(* so that one that is ready is picked up although others keep the threads *)
(* busy now and then: strong fairness of the pick-ups.  Nothing obliges a  *)
(* peer to send or to hang up, so a suspended operation is only obliged to *)
(* complete once its socket is closed, and then, the parse buffer being    *)
(* finite, one of them fails.                                              *)
(***************************************************************************)
Fairness ==
    /\ WF_vars(Main) /\ WF_vars(OutOfWork)
    /\ \A l \in Listeners : SF_vars(Accept(l))
    /\ \A c \in Conns :
        /\ SF_vars(CoStep(c))
        /\ SF_vars(sock[c] = "closed" /\ CoResumeErr(c))

Spec == Init /\ [][Next]_vars
FairSpec == Spec /\ Fairness

-----------------------------------------------------------------------------
TypeOK ==
    /\ proc \in {"up", "exited", "aborted", "killed"}
    /\ main \in MainStates
    /\ cur \in 1..(NListeners + 1)
    /\ sighandler \subseteq Signals /\ sigfd \in Nat
    /\ acceptor \in [Listeners -> {"closed", "open", "listening"}]
    /\ acceptOp \in [Listeners -> {"none", "pending", "ok", "aborted", "error"}]
    /\ accepted \in [Listeners -> Conns \cup {NoConn}]
    /\ handler  \in [Listeners -> Conns \cup {NoConn}]
    /\ sock \in [Conns -> {"none", "open", "shut", "closed"}]
    /\ co   \in [Conns -> CoStates]
    /\ listed \subseteq Conns /\ toClose \subseteq Conns
    /\ work \in BOOLEAN
    /\ io \in {"idle", "running", "ended"}

(* The intrusive list links only nodes whose coroutine frame exists and    *)
(* has not run ~Guard, and ConnectionList::close never walks to a node     *)
(* that has left the list: no dangling Connection or socket is touched.    *)
NodesAlive ==
    /\ \A c \in listed : co[c] \in Framed \ {"unlinked"}
    /\ toClose \subseteq listed

(* Every coroutine still working on an open socket is in the list, also    *)
(* while stop() walks and clears it: stop() forgets no connection that had *)
(* been added before it.                                                   *)
OpenIsListed ==
    \A c \in Conns :
        co[c] \in {"running", "failed", "waiting"} /\ sock[c] = "open" => c \in listed

(* A connection is in one place: l.socket of one listener, the local of    *)
(* one accept handler, or a coroutine; and an accept is outstanding only   *)
(* on an empty l.socket, so no accepted connection is overwritten.         *)
OneOwner ==
    /\ \A l \in Listeners :
        /\ accepted[l] # NoConn => co[accepted[l]] = "accepted"
        /\ handler[l] # NoConn => co[handler[l]] = "taken"
        /\ acceptOp[l] = "pending" => accepted[l] = NoConn /\ handler[l] = NoConn
    /\ \A l, m \in Listeners :
        l # m => /\ accepted[l] = accepted[m] => accepted[l] = NoConn
                 /\ handler[l] = handler[m] => handler[l] = NoConn

Armed(l) == acceptOp[l] \in {"pending", "ok"} \/ handler[l] # NoConn

(* A listening acceptor stops accepting only for an error of the accept    *)
(* itself or because stop() closed it: no path of the accept handler       *)
(* forgets to re-arm.                                                      *)
StaysArmed ==
    [][\A l \in Listeners : Armed(l) /\ ~Armed(l)' =>
          acceptOp[l]' = "error" \/ acceptor[l]' = "closed"]_vars

(* What the comments of stop() say: once it has returned, no connection    *)
(* the server is working on is left open ("close all connections").        *)
AllConnectionsClosed ==
    main \in {"join", "joining", "delete"} =>
        \A c \in Conns : co[c] \in {"running", "failed", "waiting"} => sock[c] # "open"

\* A connection added after ConnectionList::close has run: nobody closes it.
Late == main \in {"join", "joining"} /\ \E c \in listed : sock[c] = "open"

(* A delivered signal gets main() out of wait_shutdown(), even one         *)
(* delivered before it waits, unless the process ends otherwise.           *)
SignalHonoured ==
    sighandler # Signals ~> (main \notin {"init", "run", "wait"} \/ proc # "up")

(* stop() and join() come to an end: the process exits, unless an          *)
(* exception or a second signal ends it, or a connection was added late    *)
(* and its peer stays idle.                                                *)
ShutdownCompletes ==
    main = "stop" ~> (proc # "up" \/ Late)

(* A connection accepted while the server is serving gets its coroutine,   *)
(* however busy the pool is with the others.                               *)
AcceptedIsServed ==
    \A c \in Conns :
        co[c] = "accepted" ~>
            (co[c] \in Framed \cup {"dead"} \/ main \notin {"init", "run", "wait"} \/ proc # "up")
=============================================================================
