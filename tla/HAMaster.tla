------------------------------ MODULE HAMaster ------------------------------
(***************************************************************************)
(* The high-availability daemon of python/daemon: worker processes         *)
(* (process.py, ProcessBase) elect a leader through ephemeral sequential   *)
(* nodes in ZooKeeper (zk_common.py, ZKBase and HAMaster); the leader runs *)
(* the job.                                                                *)
(*                                                                         *)
(* A process has two threads that both execute HAMaster._elect: the one in *)
(* run() ("main"), once, and the thread in which kazoo calls my_watch      *)
(* ("watcher"), after every change of the children.  _elect first fetches  *)
(* the children and then decides, and the two threads share is_leader.     *)
(* A process that dies, or whose connection breaks, leaves its node behind *)
(* until ZooKeeper expires the session.  The wait of run() is bounded by   *)
(* interval_delay, so that _wake_up only shortens it and has no variable.  *)
(***************************************************************************)
EXTENDS Naturals, Sequences, FiniteSets, FiniteSetsExt, Functions

CONSTANTS
    Workers,        \* the worker processes of the service manager
    MaxSpawns,      \* bound: how often workers are started altogether
    MaxFaults       \* bound: connections that break, sessions that expire nevertheless, signals

ASSUME BoundsAssumption == MaxSpawns \in Nat \ {0} /\ MaxFaults \in Nat

VARIABLES
    created,    \* ZooKeeper: the member_id and the session of every node, by sequence number
    live,       \* ZooKeeper: the sequence numbers of the nodes that still exist
    valid,      \* ZooKeeper: whether the session of a worker still exists
    inc,        \* the incarnation of a worker: how often it has been started
    member,     \* member_id, unique to the incarnation
    main,       \* where run() is
    watcher,    \* where kazoo's callback thread is
    seen,       \* the smallest child in the list a thread has in _elect; <<>> outside it
    connected,  \* whether kazoo is connected
    armed,      \* whether ZooKeeper has a watch of this worker
    event,      \* whether a fired watch waits for the callback thread
    leader,     \* HAMaster.is_leader
    changes,    \* ZKBase.state_changes
    shutdown,   \* ProcessBase._shutdown
    faults      \* how many faults there have been

zkVars == <<created, live, valid>>
vars == <<created, live, valid, inc, member, main, watcher, seen, connected, armed, event, leader,
          changes, shutdown, faults>>

Threads == {"main", "watcher"}

\* A session is named after the incarnation of the worker that has it.
Sessions == Workers \X (1..MaxSpawns)

Session(w) == <<w, inc[w]>>

MainStates == {"down", "create", "list", "decide", "test", "job", "wait", "done"}

Init ==
    /\ created = <<>>
    /\ live = {}
    /\ valid = [w \in Workers |-> FALSE]
    /\ inc = [w \in Workers |-> 0]
    /\ member = [w \in Workers |-> <<w, 0>>]
    /\ main = [w \in Workers |-> "down"]
    /\ watcher = [w \in Workers |-> "idle"]
    /\ seen = [w \in Workers |-> [t \in Threads |-> <<>>]]
    /\ connected = [w \in Workers |-> FALSE]
    /\ armed = [w \in Workers |-> FALSE]
    /\ event = [w \in Workers |-> FALSE]
    /\ leader = [w \in Workers |-> FALSE]
    /\ changes = [w \in Workers |-> FALSE]
    /\ shutdown = [w \in Workers |-> FALSE]
    /\ faults = 0

-----------------------------------------------------------------------------
(* ZooKeeper and kazoo, as the code uses them. *)

\* The nodes a worker's present incarnation has in ZooKeeper.
Own(w) == {n \in live : created[n].session = Session(w)}

\* The watches that a change of the children fires, if there is one.  kazoo
\* hands the event to my_watch in its callback thread; a watch fires once.
Fired(w, change) == armed[w] /\ connected[w] /\ change

Fires ==
    /\ event' = [w \in Workers |-> event[w] \/ Fired(w, TRUE)]
    /\ armed' = [w \in Workers |-> armed[w] /\ ~Fired(w, TRUE)]

\* The process of w ends, its connection with it; its nodes go with its session.
Exits(w, change) ==
    /\ main' = [main EXCEPT ![w] = "down"]
    /\ watcher' = [watcher EXCEPT ![w] = "idle"]
    /\ seen' = [seen EXCEPT ![w] = [t \in Threads |-> <<>>]]
    /\ connected' = [connected EXCEPT ![w] = FALSE]
    /\ event' = [v \in Workers |-> v # w /\ (event[v] \/ Fired(v, change))]
    /\ armed' = [v \in Workers |-> v # w /\ armed[v] /\ ~Fired(v, change)]
    /\ leader' = [leader EXCEPT ![w] = FALSE]
    /\ changes' = [changes EXCEPT ![w] = FALSE]
    /\ shutdown' = [shutdown EXCEPT ![w] = FALSE]
    /\ UNCHANGED <<inc, member>>

\* A request of a worker is answered: it is connected with a session that exists.
Answered(w) == connected[w] /\ valid[w]

\* A session expires, because the process is gone, the connection is, or the
\* process was stopped for too long to send its heartbeats: its nodes go.
Expire(s) ==
    /\ \E n \in live : created[n].session = s
    /\ LET silent == \A w \in Workers : Session(w) = s => ~connected[w]
       IN  /\ ~silent => faults < MaxFaults
           /\ faults' = IF silent THEN faults ELSE faults + 1
    /\ live' = {n \in live : created[n].session # s}
    /\ valid' = [w \in Workers |-> valid[w] /\ Session(w) # s]
    /\ Fires
    /\ UNCHANGED <<created, inc, member, main, watcher, seen, connected, leader, changes, shutdown>>

\* The connection breaks and ZKBase.listen is called with SUSPENDED or LOST;
\* kazoo forgets the watches.
Disconnect(w) ==
    /\ connected[w]
    /\ valid[w] => faults < MaxFaults
    /\ faults' = IF valid[w] THEN faults + 1 ELSE faults
    /\ connected' = [connected EXCEPT ![w] = FALSE]
    /\ armed' = [armed EXCEPT ![w] = FALSE]
    /\ changes' = [changes EXCEPT ![w] = TRUE]
    /\ UNCHANGED <<zkVars, inc, member, main, watcher, seen, event, leader, shutdown>>

\* kazoo connects again, with the old session or with a new one.
Reconnect(w) ==
    /\ main[w] # "down"
    /\ ~connected[w]
    /\ connected' = [connected EXCEPT ![w] = TRUE]
    /\ valid' = [valid EXCEPT ![w] = TRUE]
    /\ UNCHANGED <<created, live, inc, member, main, watcher, seen, armed, event, leader, changes, shutdown>>

-----------------------------------------------------------------------------
(* ProcessBase.run *)

\* ZKBase.__init__ starts kazoo.  An error of that is only logged, and a connection
\* lost before the end of __init__ is not noted: listen finds state "STOPPED", or
\* state_changes is reset after it.
ZkStart(w) ==
    \E b \in BOOLEAN :
       /\ connected' = [connected EXCEPT ![w] = b]
       /\ valid' = [valid EXCEPT ![w] = b]

\* ZKBase.create: a node of the worker's session, with the next sequence number;
\* everyone's watch fires.
ZkCreate(w) ==
    /\ created' = Append(created, [id |-> member[w], session |-> Session(w)])
    /\ live' = live \cup {Len(created) + 1}
    /\ Fires

\* ZKBase.terminate: kazoo closes the session, whose nodes go at once if it is
\* connected.
ZkTerminate(w) ==
    /\ \/ /\ Answered(w)
          /\ live' = live \ Own(w)
       \/ /\ ~Answered(w)
          /\ UNCHANGED live
    /\ valid' = [valid EXCEPT ![w] = valid[w] /\ ~connected[w]]

\* Mutant: a member_id of host name and worker_id, without the uuid.
MemberId_NoUuid(w, i) == <<w, 0>>

MemberId(w, i) == <<w, i>>

\* The service manager starts the process, or starts it again after it ended;
\* _configure takes a fresh member_id and makes the ZKBase and the HAMaster.
Spawn(w) ==
    /\ main[w] = "down"
    /\ SumFunction(inc) < MaxSpawns
    /\ inc' = [inc EXCEPT ![w] = @ + 1]
    /\ member' = [member EXCEPT ![w] = MemberId(w, inc[w] + 1)]
    /\ main' = [main EXCEPT ![w] = "create"]
    /\ ZkStart(w)
    /\ UNCHANGED <<created, live, watcher, seen, armed, event, leader, changes, shutdown>>

\* HAMaster.create_instance.  If the answer is lost with the connection, run() raises and the node stays.
CreateInstance(w) ==
    /\ main[w] = "create"
    /\ Answered(w)
    /\ ZkCreate(w)
    /\ main' = [main EXCEPT ![w] = "list"]
    /\ UNCHANGED <<valid, inc, member, watcher, seen, connected, leader, changes, shutdown>>

\* An exception leaves run() and ends the process: in elect(), connection loss, an
\* expired session or the minimum of an empty list; in the loop, the name error at
\* zkcli.reinit(state), where no name state exists.
RunRaises(w) ==
    /\ \/ main[w] \in {"create", "list"} /\ ~Answered(w)
       \/ main[w] = "list" /\ live = {}
       \/ main[w] = "wait" /\ changes[w]
    /\ Exits(w, FALSE)
    /\ UNCHANGED zkVars

\* The loop: a leader runs the job, a standby does not.
LoopTest(w) ==
    /\ main[w] = "test"
    /\ main' = [main EXCEPT ![w] = IF shutdown[w] THEN "done" ELSE IF leader[w] THEN "job" ELSE "wait"]
    /\ UNCHANGED <<zkVars, inc, member, watcher, seen, connected, armed, event, leader, changes, shutdown>>

\* _run_job ends.
RunJob(w) ==
    /\ main[w] = "job"
    /\ main' = [main EXCEPT ![w] = "wait"]
    /\ UNCHANGED <<zkVars, inc, member, watcher, seen, connected, armed, event, leader, changes, shutdown>>

\* Mutant: state_changes is not looked at after the wait.
LoopGoesOn_Unchecked(w) ==
    /\ main[w] = "wait"
    /\ main' = [main EXCEPT ![w] = "test"]
    /\ UNCHANGED <<zkVars, inc, member, watcher, seen, connected, armed, event, leader, changes, shutdown>>

\* The wait ends because of wakeup() or after interval_delay, and state_changes
\* is not set.
LoopGoesOn(w) ==
    /\ main[w] = "wait"
    /\ ~changes[w]
    /\ main' = [main EXCEPT ![w] = "test"]
    /\ UNCHANGED <<zkVars, inc, member, watcher, seen, connected, armed, event, leader, changes, shutdown>>

\* SIGTERM or SIGHUP: terminate() sets _shutdown and waits for the loop.
Terminate(w) ==
    /\ main[w] \notin {"down", "done"}
    /\ ~shutdown[w]
    /\ faults < MaxFaults
    /\ faults' = faults + 1
    /\ shutdown' = [shutdown EXCEPT ![w] = TRUE]
    /\ UNCHANGED <<zkVars, inc, member, main, watcher, seen, connected, armed, event, leader, changes>>

\* close_services, and the process ends.
CloseServices(w) ==
    /\ main[w] = "done"
    /\ ZkTerminate(w)
    /\ Exits(w, live' # live)
    /\ UNCHANGED created

-----------------------------------------------------------------------------
(* HAMaster._elect, by either thread *)

\* Thread t of worker w is at a step of _elect.
At(w, t, step) == IF t = "main" THEN main[w] = step ELSE watcher[w] = step

\* Thread t goes on to a step; the watcher is idle after _elect.
Goes(w, t, step) ==
    IF t = "main"
    THEN main' = [main EXCEPT ![w] = step] /\ UNCHANGED watcher
    ELSE watcher' = [watcher EXCEPT ![w] = IF step = "test" THEN "idle" ELSE step] /\ UNCHANGED main

\* my_watch: the children changed.
MyWatch(w) ==
    /\ watcher[w] = "idle"
    /\ event[w]
    /\ main[w] # "down"
    /\ event' = [event EXCEPT ![w] = FALSE]
    /\ watcher' = [watcher EXCEPT ![w] = "list"]
    /\ UNCHANGED <<zkVars, inc, member, main, seen, connected, armed, leader, changes, shutdown>>

\* Mutant: get_children without a watch.
Watched_Not(w) == armed[w]

Watched(w) == TRUE

\* The answer of get_children arms the watch; min(node_list) compares the
\* sequence numbers first.
GetChildren(w, t) ==
    /\ At(w, t, "list")
    /\ Answered(w)
    /\ live # {}
    /\ seen' = [seen EXCEPT ![w][t] = created[Min(live)].id]
    /\ armed' = [armed EXCEPT ![w] = Watched(w)]
    /\ Goes(w, t, "decide")
    /\ UNCHANGED <<zkVars, inc, member, connected, event, leader, changes, shutdown>>

\* An exception in my_watch is logged by kazoo and ends the callback.
WatcherRaises(w) ==
    /\ watcher[w] = "list"
    /\ ~Answered(w) \/ live = {}
    /\ watcher' = [watcher EXCEPT ![w] = "idle"]
    /\ UNCHANGED <<zkVars, inc, member, main, seen, connected, armed, event, leader, changes, shutdown>>

\* The list, which may be stale by now, decides about is_leader.
Decide(w, t) ==
    /\ At(w, t, "decide")
    /\ leader' = [leader EXCEPT ![w] = seen[w][t] = member[w]]
    /\ seen' = [seen EXCEPT ![w][t] = <<>>]
    /\ Goes(w, t, "test")
    /\ UNCHANGED <<zkVars, inc, member, connected, armed, event, changes, shutdown>>

-----------------------------------------------------------------------------
Elect(w) ==
    \/ \E t \in Threads : GetChildren(w, t) \/ Decide(w, t)
    \/ WatcherRaises(w)
    \/ MyWatch(w)

Run(w) ==
    \/ CreateInstance(w)
    \/ RunRaises(w)
    \/ LoopTest(w)
    \/ RunJob(w)
    \/ LoopGoesOn(w)
    \/ CloseServices(w)

Next ==
    \/ \E s \in Sessions : Expire(s)
    \/ \E w \in Workers :
          \/ Terminate(w) \/ Disconnect(w)
          \/ (Spawn(w) \/ Reconnect(w) \/ Run(w) \/ Elect(w)) /\ UNCHANGED faults

Spec == Init /\ [][Next]_vars

\* Threads run; a worker whose session is gone hears of it, because its
\* heartbeat is refused or unanswered.
Fairness ==
    \A w \in Workers :
       /\ WF_vars(Run(w) /\ UNCHANGED faults)
       /\ WF_vars(Elect(w) /\ UNCHANGED faults)
       /\ WF_vars(~valid[w] /\ Disconnect(w))

FairSpec == Spec /\ Fairness

-----------------------------------------------------------------------------
Leading(w) == leader[w] \/ main[w] = "job"

\* The present incarnation of w has its node in ZooKeeper.
Alive(w) == Own(w) # {}

InLoop(w) == main[w] \in {"test", "job", "wait"}

\* Two workers that take themselves for the leader, or still run a job begun as
\* the leader, cannot both have their node in ZooKeeper: no split brain but for a
\* process that has lost its session (HAMaster._elect, min over sequence numbers,
\* and the uuid in member_id).
OneLeader ==
    \A v, w \in Workers :
       Leading(v) /\ Leading(w) /\ Alive(v) /\ Alive(w) => v = w

\* A connected worker in its loop hears of every change of the children: it has a
\* watch in ZooKeeper, or an event for my_watch, or its watcher thread is about to
\* fetch the list anew.  No deletion slips between one _elect and the next.
NotDeaf ==
    \A w \in Workers :
       InLoop(w) /\ Answered(w) /\ ~changes[w]
         => armed[w] \/ event[w] \/ watcher[w] = "list"

\* A leader whose node is gone does not stay leader for ever: listen() sets
\* state_changes, and the loop sees it and leaves.
LeaderQuits == \A w \in Workers : leader[w] /\ ~Alive(w) ~> ~leader[w]

=============================================================================
