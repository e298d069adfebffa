--------------------------- MODULE HAMasterProofs ---------------------------
(***************************************************************************)
(* Theorems about HAMaster, for any number of workers, of restarts and of  *)
(* faults.                                                                 *)
(***************************************************************************)
EXTENDS HAMaster, SequenceTheorems, WellFoundedInduction, TLAPS

Members == Workers \X Nat

TypeOK ==
    /\ created \in Seq([id : Members, session : Members])
    /\ live \subseteq 1..Len(created)
    /\ inc \in [Workers -> Nat] /\ member \in [Workers -> Members]
    /\ main \in [Workers -> MainStates] /\ watcher \in [Workers -> {"idle", "list", "decide"}]
    /\ seen \in [Workers -> [Threads -> Members \cup {<<>>}]]
    /\ valid \in [Workers -> BOOLEAN] /\ connected \in [Workers -> BOOLEAN]
    /\ armed \in [Workers -> BOOLEAN] /\ event \in [Workers -> BOOLEAN]
    /\ leader \in [Workers -> BOOLEAN] /\ changes \in [Workers -> BOOLEAN]
    /\ shutdown \in [Workers -> BOOLEAN]

(* member_id names the incarnation, in the process and in its node.        *)
Named ==
    /\ \A n \in 1..Len(created) : created[n].id = created[n].session
    /\ \A w \in Workers : member[w] = Session(w)

(* A process that has not created its node has nothing left of an earlier  *)
(* incarnation.                                                            *)
Blank ==
    \A w \in Workers : main[w] \in {"down", "create"} =>
        /\ ~leader[w] /\ ~armed[w] /\ ~event[w] /\ watcher[w] = "idle"
        /\ \A t \in Threads : seen[w][t] = <<>>

(* The smallest of all nodes is w's.                                       *)
First(w) == \E n \in Own(w) : \A m \in live : n <= m

(* Who leads, or has a list in hand that will make it lead, is the first,  *)
(* as long as it has its node: nodes only go or come with larger numbers.  *)
Claims(w) == Leading(w) \/ \E t \in Threads : seen[w][t] = member[w]

ClaimsHold == \A w \in Workers : Claims(w) /\ Alive(w) => First(w)

(* Where a process has its node, unless it has been told of a change of    *)
(* the connection.                                                         *)
Registered ==
    \A w \in Workers : main[w] \in {"list", "decide", "test", "job", "wait"} /\ ~changes[w] =>
        connected[w] /\ (valid[w] => Alive(w))

Hears ==
    \A w \in Workers : main[w] \in {"decide", "test", "job", "wait"} /\ Answered(w) /\ ~changes[w] =>
        armed[w] \/ event[w] \/ watcher[w] = "list"

LeaderInv == TypeOK /\ Named /\ Blank /\ ClaimsHold
MasterInv == LeaderInv /\ Registered /\ Hears

-----------------------------------------------------------------------------
(* Every non-empty set of sequence numbers has a smallest one.             *)
LEMMA LeastExists ==
  ASSUME NEW S \in SUBSET Nat, S # {}
  PROVE  Min(S) \in S /\ \A y \in S : Min(S) <= y
<1>1. PICK x \in S : \A y \in S : ~(<<y, x>> \in OpToRel(<, Nat))
  BY NatLessThanWellFounded, WFMin
<1>2. \A y \in S : x <= y
  <2> SUFFICES ASSUME NEW y \in S, y < x PROVE FALSE
    OBVIOUS
  <2>1. <<y, x>> \in OpToRel(<, Nat)
    BY DEF OpToRel
  <2> QED BY <1>1, <2>1
<1>3. \E z \in S : \A y \in S : z <= y
  BY <1>2
<1> QED BY <1>3 DEF Min

(* Sessions and member_ids are pairs of a worker and an incarnation.       *)
LEMMA SessionFacts ==
  ASSUME TypeOK
  PROVE  /\ \A w \in Workers : Session(w) \in Members /\ Session(w) # <<>>
         /\ \A v, w \in Workers : Session(v) = Session(w) => v = w
  BY DEF TypeOK, Session, Members

(* What a step may do to the nodes without unseating the first.            *)
LEMMA FirstKept ==
  ASSUME TypeOK, NEW w \in Workers, First(w),
         inc'[w] = inc[w], \A n \in live : created'[n] = created[n],
         Own(w) \subseteq live', live' \subseteq live \cup {Len(created) + 1}
  PROVE  First(w)'
<1>1. PICK n \in Own(w) : \A m \in live : n <= m
  BY DEF First
<1>2. n \in live /\ n \in 1..Len(created) /\ Len(created) \in Nat
  BY DEF Own, TypeOK
<1>3. n \in live' /\ created'[n].session = Session(w)'
  BY <1>1, <1>2 DEF Own, Session
<1>4. \A m \in live' : n <= m
  BY <1>1, <1>2
<1> QED BY <1>3, <1>4 DEF First, Own

(* A step that leaves ZooKeeper's nodes and the incarnations alone.        *)
LEMMA NodesAlone ==
  ASSUME UNCHANGED <<created, live, inc>>, NEW w \in Workers
  PROVE  Own(w)' = Own(w) /\ First(w)' = First(w) /\ Alive(w)' = Alive(w) /\ Session(w)' = Session(w)
  BY DEF Own, First, Alive, Session

(* A step after which ZooKeeper has lost the nodes of one session.         *)
LEMMA NodesGo ==
  ASSUME TypeOK, UNCHANGED <<created, inc>>, NEW s,
         live' = {n \in live : created[n].session # s}, NEW w \in Workers
  PROVE  /\ Session(w) = s => ~Alive(w)'
         /\ Session(w) # s => /\ Own(w)' = Own(w) /\ Alive(w)' = Alive(w)
                              /\ First(w) => First(w)'
<1>1. Session(w)' = Session(w)
  BY DEF Session
<1>2. CASE Session(w) = s
  BY <1>1, <1>2 DEF Alive, Own
<1>3. CASE Session(w) # s
  <2>1. Own(w)' = Own(w) /\ Own(w) \subseteq live'
    BY <1>1, <1>3 DEF Own
  <2>2. First(w) => First(w)'
    BY <2>1, FirstKept
  <2> QED BY <1>3, <2>1, <2>2 DEF Alive
<1> QED BY <1>2, <1>3

-----------------------------------------------------------------------------
LEMMA MasterStarts == Init => MasterInv
<1> SUFFICES ASSUME Init PROVE MasterInv
  OBVIOUS
<1>1. TypeOK
  <2>1. created \in Seq([id : Members, session : Members]) /\ live \subseteq 1..Len(created)
    BY EmptySeq DEF Init
  <2>2. inc \in [Workers -> Nat] /\ member \in [Workers -> Members]
    BY DEF Init, Members
  <2>3. main \in [Workers -> MainStates] /\ watcher \in [Workers -> {"idle", "list", "decide"}]
    BY DEF Init, MainStates
  <2>4. seen \in [Workers -> [Threads -> Members \cup {<<>>}]]
    BY DEF Init
  <2> QED BY <2>1, <2>2, <2>3, <2>4 DEF Init, TypeOK
<1>2. Named
  BY DEF Init, Named, Session
<1>3. Blank
  BY DEF Init, Blank
<1>4. ClaimsHold
  BY DEF Init, ClaimsHold, Alive, Own
<1> QED BY <1>1, <1>2, <1>3, <1>4 DEF Init, MasterInv, LeaderInv, Registered, Hears

-----------------------------------------------------------------------------
(* Sessions expire.                                                        *)
LEMMA ExpireKeeps == ASSUME MasterInv, NEW s \in Sessions, Expire(s) PROVE MasterInv'
<1> USE DEF MasterInv, LeaderInv
<1>1. /\ live' = {n \in live : created[n].session # s} /\ Fires
      /\ UNCHANGED <<created, inc, member, main, watcher, seen, connected, leader, changes, shutdown>>
      /\ valid' = [w \in Workers |-> valid[w] /\ Session(w) # s]
  BY DEF Expire
<1>2. TypeOK'
  BY <1>1 DEF TypeOK, Fires, Fired
<1>3. Named' /\ Blank'
  BY <1>1 DEF Named, Blank, Session, Fires, Fired
<1>4. ClaimsHold'
  <2> SUFFICES ASSUME NEW w \in Workers, Claims(w)', Alive(w)' PROVE First(w)'
    BY DEF ClaimsHold
  <2>1. Claims(w)
    BY <1>1 DEF Claims, Leading
  <2> QED BY <1>1, <2>1, NodesGo DEF ClaimsHold
<1>5. Registered'
  BY <1>1, NodesGo DEF Registered
<1>6. Hears'
  BY <1>1 DEF Hears, Fires, Fired, Answered, TypeOK
<1> QED BY <1>2, <1>3, <1>4, <1>5, <1>6

(* Signals, connections that break or come back, and the steps of run()    *)
(* that ZooKeeper does not see.                                            *)
LEMMA LocalKeeps ==
  ASSUME MasterInv, NEW w \in Workers,
         \/ Terminate(w) \/ Disconnect(w) \/ Reconnect(w)
         \/ LoopTest(w) \/ RunJob(w) \/ LoopGoesOn(w) \/ MyWatch(w) \/ WatcherRaises(w)
  PROVE  MasterInv'
<1> USE DEF MasterInv, LeaderInv
<1>1. UNCHANGED <<created, live, inc, member, seen, leader>>
  BY DEF Terminate, Disconnect, Reconnect, LoopTest, RunJob, LoopGoesOn, MyWatch, WatcherRaises, zkVars
<1>2. CASE Terminate(w) \/ Disconnect(w) \/ Reconnect(w)
  <2>1. TypeOK'
    BY <1>1, <1>2 DEF Terminate, Disconnect, Reconnect, zkVars, TypeOK
  <2>2. Named' /\ ClaimsHold'
    BY <1>1, <1>2, NodesAlone
       DEF Terminate, Disconnect, Reconnect, Named, ClaimsHold, Claims, Leading
  <2>3. Blank'
    BY <1>1, <1>2 DEF Terminate, Disconnect, Reconnect, TypeOK, Blank
  <2>4. Registered'
    <3>1. \A v \in Workers : Alive(v)' = Alive(v)
      BY <1>1, NodesAlone
    <3> QED BY <1>2, <3>1 DEF Terminate, Disconnect, Reconnect, zkVars, TypeOK, Registered
  <2>5. Hears'
    BY <1>2 DEF Terminate, Disconnect, Reconnect, zkVars, TypeOK, Registered, Hears, Answered
  <2> QED BY <2>1, <2>2, <2>3, <2>4, <2>5
<1>3. CASE LoopTest(w) \/ RunJob(w) \/ LoopGoesOn(w) \/ MyWatch(w) \/ WatcherRaises(w)
  <2>1. TypeOK'
    BY <1>1, <1>3 DEF LoopTest, RunJob, LoopGoesOn, MyWatch, WatcherRaises, zkVars, TypeOK, MainStates
  <2>2. Named'
    BY <1>1, NodesAlone DEF Named
  <2>3. ClaimsHold'
    <3>1. \A v \in Workers : Claims(v)' => Claims(v)
      BY <1>1, <1>3 DEF LoopTest, RunJob, LoopGoesOn, MyWatch, WatcherRaises, TypeOK, Claims, Leading
    <3> QED BY <1>1, <3>1, NodesAlone DEF ClaimsHold
  <2>4. Blank' /\ Registered'
    BY <1>1, <1>3, NodesAlone
       DEF LoopTest, RunJob, LoopGoesOn, MyWatch, WatcherRaises, zkVars, TypeOK, Blank, Registered
  <2>5. Hears'
    <3>1. CASE WatcherRaises(w)
      BY <1>1, <3>1 DEF WatcherRaises, zkVars, TypeOK, Registered, Hears, Answered, Alive, Own
    <3>2. CASE LoopTest(w) \/ RunJob(w) \/ LoopGoesOn(w) \/ MyWatch(w)
      BY <1>1, <3>2 DEF LoopTest, RunJob, LoopGoesOn, MyWatch, zkVars, TypeOK, Hears, Answered
    <3> QED BY <1>3, <3>1, <3>2
  <2> QED BY <2>1, <2>2, <2>3, <2>4, <2>5
<1> QED BY <1>2, <1>3

(* A process starts.                                                       *)
LEMMA SpawnKeeps == ASSUME MasterInv, NEW w \in Workers, Spawn(w) PROVE MasterInv'
<1> USE DEF MasterInv, LeaderInv
<1>1. /\ main[w] = "down" /\ main' = [main EXCEPT ![w] = "create"]
      /\ inc' = [inc EXCEPT ![w] = @ + 1] /\ member' = [member EXCEPT ![w] = <<w, inc[w] + 1>>]
      /\ UNCHANGED <<created, live, watcher, seen, armed, event, leader, changes, shutdown>>
      /\ ZkStart(w)
  BY DEF Spawn, MemberId
<1>2. /\ valid' \in [Workers -> BOOLEAN] /\ connected' \in [Workers -> BOOLEAN]
      /\ \A v \in Workers \ {w} : valid'[v] = valid[v] /\ connected'[v] = connected[v]
  BY <1>1 DEF ZkStart, TypeOK
<1>3. TypeOK'
  <2>1. <<w, inc[w] + 1>> \in Members
    BY DEF TypeOK, Members
  <2>2. member' \in [Workers -> Members] /\ inc' \in [Workers -> Nat]
    BY <1>1, <2>1 DEF TypeOK
  <2>3. main' \in [Workers -> MainStates]
    BY <1>1 DEF TypeOK, MainStates
  <2> QED BY <1>1, <1>2, <2>2, <2>3 DEF TypeOK
<1>4. Named' /\ Blank'
  BY <1>1 DEF Named, Blank, Session, TypeOK
<1>5. ASSUME NEW v \in Workers \ {w}
      PROVE  Own(v)' = Own(v) /\ First(v)' = First(v) /\ Alive(v)' = Alive(v) /\ inc'[v] = inc[v]
  BY <1>1 DEF Own, First, Alive, Session, TypeOK
<1>6. ClaimsHold'
  <2> SUFFICES ASSUME NEW v \in Workers, Claims(v)', Alive(v)' PROVE First(v)'
    BY DEF ClaimsHold
  <2>1. CASE v = w
    <3>1. ~Leading(w)' /\ \A t \in Threads : seen'[w][t] = <<>>
      BY <1>1 DEF Leading, Blank, TypeOK
    <3>2. member'[w] # <<>>
      BY <1>3, <1>4, SessionFacts DEF Named, TypeOK, Members
    <3> QED BY <2>1, <3>1, <3>2 DEF Claims
  <2>2. CASE v # w
    <3>1. Claims(v)
      BY <1>1, <2>2 DEF Claims, Leading, TypeOK
    <3> QED BY <1>5, <2>2, <3>1 DEF ClaimsHold
  <2> QED BY <2>1, <2>2
<1>7. Registered' /\ Hears'
  BY <1>1, <1>2, <1>5 DEF Registered, Hears, Answered, TypeOK
<1> QED BY <1>3, <1>4, <1>6, <1>7

(* It creates its node, with the largest number so far.                    *)
LEMMA CreateKeeps == ASSUME MasterInv, NEW w \in Workers, CreateInstance(w) PROVE MasterInv'
<1> USE DEF MasterInv, LeaderInv
<1> DEFINE node == [id |-> member[w], session |-> Session(w)]
<1>0. node \in [id : Members, session : Members] /\ node.id = node.session /\ node.session = Session(w)
  BY SessionFacts DEF Named, TypeOK
<1> HIDE DEF node
<1>1. /\ main[w] = "create" /\ main' = [main EXCEPT ![w] = "list"] /\ Answered(w)
      /\ created' = Append(created, node) /\ live' = live \cup {Len(created) + 1} /\ Fires
      /\ UNCHANGED <<valid, inc, member, watcher, seen, connected, leader, changes, shutdown>>
  BY DEF CreateInstance, ZkCreate, node
<1>2. /\ created' \in Seq([id : Members, session : Members]) /\ Len(created) \in Nat
      /\ Len(created') = Len(created) + 1 /\ created'[Len(created) + 1] = node
      /\ \A n \in 1..Len(created) : created'[n] = created[n]
  BY <1>0, <1>1, AppendProperties DEF TypeOK
<1>3. TypeOK'
  <2>1. live' \subseteq 1..Len(created')
    <3>1. \A n \in live : n \in 1..Len(created)
      BY DEF TypeOK
    <3> QED BY <1>1, <1>2, <3>1
  <2>2. event' \in [Workers -> BOOLEAN] /\ armed' \in [Workers -> BOOLEAN]
    BY <1>1 DEF Fires, Fired, TypeOK
  <2> QED BY <1>1, <1>2, <2>1, <2>2 DEF TypeOK, MainStates
<1>4. Named'
  <2>1. ASSUME NEW n \in 1..Len(created') PROVE created'[n].id = created'[n].session
    <3>1. n \in 1..Len(created) \/ n = Len(created) + 1
      BY <1>2
    <3> QED BY <1>0, <1>2, <3>1 DEF Named
  <2> QED BY <1>1, <2>1 DEF Named, Session
<1>5. Blank'
  BY <1>1 DEF Blank, Fires, Fired, TypeOK
<1>6. \A v \in Workers : Session(v)' = Session(v)
  BY <1>1 DEF Session
<1>7. ASSUME NEW v \in Workers \ {w} PROVE Own(v)' = Own(v) /\ Alive(v)' = Alive(v)
  <2>1. node.session # Session(v)
    BY <1>0, <1>7, SessionFacts
  <2>2. \A n \in live : created'[n] = created[n] /\ n # Len(created) + 1
    BY <1>2 DEF TypeOK
  <2>3. Own(v)' = Own(v)
    BY <1>1, <1>2, <1>6, <2>1, <2>2 DEF Own
  <2> QED BY <2>3 DEF Alive
<1>8. ClaimsHold'
  <2> SUFFICES ASSUME NEW v \in Workers, Claims(v)', Alive(v)' PROVE First(v)'
    BY DEF ClaimsHold
  <2>1. CASE v = w
    <3>1. ~Leading(w)' /\ (\A t \in Threads : seen'[w][t] = <<>>) /\ member'[w] # <<>>
      BY <1>1, SessionFacts DEF Leading, Blank, TypeOK, Named
    <3> QED BY <2>1, <3>1 DEF Claims
  <2>2. CASE v # w
    <3>1. First(v)
      BY <1>1, <1>7, <2>2 DEF Claims, Leading, TypeOK, ClaimsHold
    <3>2. \A n \in live : created'[n] = created[n]
      BY <1>2 DEF TypeOK
    <3>3. Own(v) \subseteq live'
      BY <1>1 DEF Own
    <3> QED BY <1>1, <3>1, <3>2, <3>3, FirstKept
  <2> QED BY <2>1, <2>2
<1>9. Registered'
  <2>1. Len(created) + 1 \in Own(w)'
    BY <1>0, <1>1, <1>2, <1>6 DEF Own
  <2>2. Alive(w)' /\ connected'[w]
    BY <1>1, <2>1 DEF Alive, Answered
  <2> QED BY <1>1, <1>7, <2>2 DEF Registered, TypeOK
<1>10. Hears'
  BY <1>1 DEF Hears, Fires, Fired, Answered, TypeOK
<1> QED BY <1>3, <1>4, <1>5, <1>8, <1>9, <1>10

(* A process ends; with CloseServices its nodes may go at once.            *)
LEMMA ExitKeeps ==
  ASSUME MasterInv, NEW w \in Workers, RunRaises(w) \/ CloseServices(w)
  PROVE  MasterInv'
<1> USE DEF MasterInv, LeaderInv
<1>1. PICK change : Exits(w, change) /\ (change <=> live' # live)
  BY DEF RunRaises, CloseServices, zkVars
<1>2. /\ UNCHANGED <<created, inc, member>>
      /\ live' = live \/ live' = {n \in live : created[n].session # Session(w)}
      /\ valid' \in [Workers -> BOOLEAN] /\ \A v \in Workers \ {w} : valid'[v] = valid[v]
  <2>1. CASE RunRaises(w)
    BY <2>1 DEF RunRaises, Exits, zkVars, TypeOK
  <2>2. CASE CloseServices(w)
    BY <2>2 DEF CloseServices, ZkTerminate, Exits, Own, TypeOK
  <2> QED BY <2>1, <2>2
<1>3. /\ main' = [main EXCEPT ![w] = "down"] /\ watcher' = [watcher EXCEPT ![w] = "idle"]
      /\ seen' = [seen EXCEPT ![w] = [t \in Threads |-> <<>>]]
      /\ connected' = [connected EXCEPT ![w] = FALSE] /\ leader' = [leader EXCEPT ![w] = FALSE]
      /\ event' = [v \in Workers |-> v # w /\ (event[v] \/ Fired(v, change))]
      /\ armed' = [v \in Workers |-> v # w /\ armed[v] /\ ~Fired(v, change)]
      /\ changes' = [changes EXCEPT ![w] = FALSE] /\ shutdown' = [shutdown EXCEPT ![w] = FALSE]
  BY <1>1 DEF Exits
<1>4. TypeOK'
  <2>1. live' \subseteq 1..Len(created')
    BY <1>2 DEF TypeOK
  <2>2. event' \in [Workers -> BOOLEAN] /\ armed' \in [Workers -> BOOLEAN]
    BY <1>3
  <2>3. seen' \in [Workers -> [Threads -> Members \cup {<<>>}]]
    BY <1>3 DEF TypeOK
  <2> QED BY <1>2, <1>3, <2>1, <2>2, <2>3 DEF TypeOK, MainStates
<1>5. Named'
  BY <1>2 DEF Named, Session
<1>6. Blank'
  BY <1>3 DEF Blank, TypeOK, Fired
<1>7. ASSUME NEW v \in Workers \ {w} PROVE Alive(v)' = Alive(v) /\ (First(v) => First(v)')
  <2>1. Session(v) # Session(w)
    BY <1>7, SessionFacts
  <2> QED BY <1>2, <2>1, NodesAlone, NodesGo
<1>8. ClaimsHold'
  <2> SUFFICES ASSUME NEW v \in Workers, Claims(v)', Alive(v)' PROVE First(v)'
    BY DEF ClaimsHold
  <2>1. CASE v = w
    <3>1. ~Leading(w)' /\ (\A t \in Threads : seen'[w][t] = <<>>) /\ member'[w] # <<>>
      BY <1>2, <1>3, SessionFacts DEF Leading, TypeOK, Named
    <3> QED BY <2>1, <3>1 DEF Claims
  <2>2. CASE v # w
    <3>1. Claims(v)
      BY <1>2, <1>3, <2>2 DEF Claims, Leading, TypeOK
    <3> QED BY <1>7, <2>2, <3>1 DEF ClaimsHold
  <2> QED BY <2>1, <2>2
<1>9. Registered'
  BY <1>2, <1>3, <1>7 DEF Registered, TypeOK
<1>10. Hears'
  BY <1>2, <1>3 DEF Hears, Fired, Answered, TypeOK
<1> QED BY <1>4, <1>5, <1>6, <1>8, <1>9, <1>10

(* Either thread fetches the list: when the smallest node bears its        *)
(* member_id, the node is its own.                                         *)
LEMMA GetKeeps ==
  ASSUME MasterInv, NEW w \in Workers, NEW t \in Threads, GetChildren(w, t) PROVE MasterInv'
<1> USE DEF MasterInv, LeaderInv
<1>0. Min(live) \in live /\ (\A m \in live : Min(live) <= m) /\ Min(live) \in 1..Len(created)
  <2>1. live \in SUBSET Nat /\ live # {}
    BY DEF GetChildren, TypeOK
  <2> QED BY <2>1, LeastExists DEF TypeOK
<1> DEFINE first == created[Min(live)]
<1>1. /\ seen' = [seen EXCEPT ![w][t] = first.id] /\ armed' = [armed EXCEPT ![w] = TRUE]
      /\ Goes(w, t, "decide") /\ At(w, t, "list")
      /\ UNCHANGED <<created, live, valid, inc, member, connected, event, leader, changes, shutdown>>
  BY DEF GetChildren, Watched, zkVars
<1>2. first.id \in Members /\ first.id = first.session
  <2>1. first \in [id : Members, session : Members]
    BY <1>0, ElementOfSeq DEF TypeOK
  <2> QED BY <1>0, <2>1 DEF Named
<1>3. \/ /\ t = "main" /\ main[w] = "list" /\ main' = [main EXCEPT ![w] = "decide"]
         /\ UNCHANGED watcher
      \/ /\ t = "watcher" /\ watcher[w] = "list" /\ watcher' = [watcher EXCEPT ![w] = "decide"]
         /\ UNCHANGED main
  BY <1>1 DEF Goes, At, Threads
<1>4. seen' \in [Workers -> [Threads -> Members \cup {<<>>}]] /\ seen'[w][t] = first.id
      /\ \A v \in Workers : \A u \in Threads : v # w \/ u # t => seen'[v][u] = seen[v][u]
  <2> HIDE DEF first
  <2> QED BY <1>1, <1>2 DEF TypeOK
<1>5. TypeOK'
  BY <1>1, <1>3, <1>4 DEF TypeOK, MainStates
<1>6. Named' /\ Blank'
  BY <1>1, <1>3, <1>4 DEF Named, Blank, Session, TypeOK
<1>7. ClaimsHold'
  <2> SUFFICES ASSUME NEW v \in Workers, Claims(v)', Alive(v)' PROVE First(v)'
    BY DEF ClaimsHold
  <2>1. First(v)' = First(v) /\ Alive(v)
    BY <1>1, NodesAlone
  <2>2. CASE Claims(v)
    BY <2>1, <2>2 DEF ClaimsHold
  <2>3. CASE ~Claims(v)
    <3>1. Leading(v)' => Leading(v)
      BY <1>1, <1>3 DEF Leading, TypeOK
    <3>2. PICK u \in Threads : seen'[v][u] = member[v]
      BY <1>1, <2>3, <3>1 DEF Claims
    <3>3. v = w /\ u = t
      BY <1>4, <2>3, <3>2 DEF Claims
    <3>4. first.session = Session(w)
      BY <1>2, <1>4, <3>2, <3>3 DEF Named
    <3>5. Min(live) \in Own(w)
      BY <1>0, <3>4 DEF Own
    <3> QED BY <1>0, <2>1, <3>3, <3>5 DEF First
  <2> QED BY <2>2, <2>3
<1>8. Registered'
  BY <1>1, <1>3, NodesAlone DEF Registered, TypeOK
<1>9. Hears'
  BY <1>1, <1>3 DEF Hears, Answered, TypeOK
<1> QED BY <1>5, <1>6, <1>7, <1>8, <1>9

(* Either thread decides.                                                  *)
LEMMA DecideKeeps ==
  ASSUME MasterInv, NEW w \in Workers, NEW t \in Threads, Decide(w, t) PROVE MasterInv'
<1> USE DEF MasterInv, LeaderInv
<1>1. /\ leader' = [leader EXCEPT ![w] = (seen[w][t] = member[w])]
      /\ seen' = [seen EXCEPT ![w][t] = <<>>] /\ Goes(w, t, "test") /\ At(w, t, "decide")
      /\ UNCHANGED <<created, live, valid, inc, member, connected, armed, event, changes, shutdown>>
  BY DEF Decide, zkVars
<1>2. \/ /\ t = "main" /\ main[w] = "decide" /\ main' = [main EXCEPT ![w] = "test"]
         /\ UNCHANGED watcher
      \/ /\ t = "watcher" /\ watcher[w] = "decide" /\ watcher' = [watcher EXCEPT ![w] = "idle"]
         /\ UNCHANGED main
  BY <1>1 DEF Goes, At, Threads
<1>3. seen' \in [Workers -> [Threads -> Members \cup {<<>>}]] /\ seen'[w][t] = <<>>
      /\ \A v \in Workers : \A u \in Threads : v # w \/ u # t => seen'[v][u] = seen[v][u]
  BY <1>1 DEF TypeOK
<1>4. TypeOK'
  BY <1>1, <1>2, <1>3 DEF TypeOK, MainStates
<1>5. Named' /\ Blank'
  BY <1>1, <1>2, <1>3 DEF Named, Blank, Session, TypeOK
<1>6. ClaimsHold'
  <2> SUFFICES ASSUME NEW v \in Workers, Claims(v)', Alive(v)' PROVE First(v)'
    BY DEF ClaimsHold
  <2>1. First(v)' = First(v) /\ Alive(v)
    BY <1>1, NodesAlone
  <2>2. member[v] # <<>> /\ member'[v] = member[v]
    BY <1>1, SessionFacts DEF Named
  <2>3. Leading(v)' => Claims(v)
    BY <1>1, <1>2 DEF Leading, Claims, TypeOK
  <2>4. ASSUME NEW u \in Threads, seen'[v][u] = member'[v] PROVE Claims(v)
    BY <1>3, <2>2, <2>4 DEF Claims
  <2>5. Claims(v)
    BY <2>3, <2>4 DEF Claims
  <2> QED BY <2>1, <2>5 DEF ClaimsHold
<1>7. Registered'
  BY <1>1, <1>2, NodesAlone DEF Registered, TypeOK
<1>8. Hears'
  BY <1>1, <1>2 DEF Hears, Answered, TypeOK
<1> QED BY <1>4, <1>5, <1>6, <1>7, <1>8

LEMMA MasterStep == ASSUME MasterInv, [Next]_vars PROVE MasterInv'
<1>1. CASE UNCHANGED vars
  <2>1. UNCHANGED <<created, live, inc>>
    BY <1>1 DEF vars
  <2> QED BY <1>1, <2>1, NodesAlone
          DEF vars, MasterInv, LeaderInv, TypeOK, Named, Blank, ClaimsHold, Claims, Leading,
              Registered, Hears, Answered
<1>2. CASE Next
  BY <1>2, ExpireKeeps, LocalKeeps, SpawnKeeps, CreateKeeps, ExitKeeps, GetKeeps, DecideKeeps
     DEF Next, Run, Elect
<1> QED BY <1>1, <1>2

LEMMA MasterInvariant == Spec => []MasterInv
<1>1. Init => MasterInv
  BY MasterStarts
<1>2. MasterInv /\ [Next]_vars => MasterInv'
  BY MasterStep
<1> QED BY <1>1, <1>2, PTL DEF Spec

-----------------------------------------------------------------------------
(* Whatever fails, and although both threads of a process decide from      *)
(* lists that may be stale, two workers that have their nodes in ZooKeeper *)
(* never lead at the same time.                                            *)
THEOREM NoSplitBrain == Spec => []OneLeader
<1>1. MasterInv => OneLeader
  <2> SUFFICES ASSUME MasterInv, NEW v \in Workers, NEW w \in Workers,
                      Leading(v), Leading(w), Alive(v), Alive(w)
               PROVE  v = w
    BY DEF OneLeader
  <2>1. First(v) /\ First(w)
    BY DEF MasterInv, LeaderInv, ClaimsHold, Claims
  <2>2. PICK n \in Own(v) : \A k \in live : n <= k
    BY <2>1 DEF First
  <2>3. PICK m \in Own(w) : \A k \in live : m <= k
    BY <2>1 DEF First
  <2>4. n = m
    BY <2>2, <2>3 DEF Own, MasterInv, LeaderInv, TypeOK
  <2>5. Session(v) = Session(w)
    BY <2>2, <2>3, <2>4 DEF Own
  <2> QED BY <2>5, SessionFacts DEF MasterInv, LeaderInv
<1> QED BY <1>1, MasterInvariant, PTL

(* No change of the children escapes a worker that is in its loop and      *)
(* connected.                                                              *)
THEOREM WatchesHold == Spec => []NotDeaf
<1>1. MasterInv => NotDeaf
  BY DEF MasterInv, Hears, NotDeaf, InLoop
<1> QED BY <1>1, MasterInvariant, PTL
=============================================================================
