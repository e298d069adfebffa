--------------------------- MODULE FrontendProofs ---------------------------
(***************************************************************************)
(* Proofs about Frontend, for every number of listeners, set of            *)
(* connections and size of the pool.                                       *)
(***************************************************************************)
EXTENDS Frontend, TLAPS

(* While ConnectionList::close walks the list, the nodes it has passed     *)
(* have a closed socket; outside close() no walk is in progress.           *)
WalkProgress ==
    /\ main = "closing" => \A c \in listed \ toClose : sock[c] = "closed"
    /\ main # "closing" => toClose = {}

(* The listeners init() has not reached are untouched, and an accept       *)
(* handler that has not re-armed has emptied l.socket.                     *)
AcceptProgress ==
    /\ main = "init" => \A l \in Listeners : l >= cur =>
                            accepted[l] = NoConn /\ handler[l] = NoConn /\ acceptOp[l] = "none"
    /\ \A l \in Listeners : handler[l] # NoConn => accepted[l] = NoConn /\ acceptOp[l] = "none"
    /\ \A l \in Listeners : acceptOp[l] = "ok" => accepted[l] \in Conns

(* The inductive invariant: the three properties and what the loops of     *)
(* init() and close() have achieved so far.                                *)
IInv ==
    /\ TypeOK
    /\ NodesAlive
    /\ OpenIsListed
    /\ WalkProgress
    /\ OneOwner
    /\ AcceptProgress

(* Type correctness: every step keeps every variable in its set.           *)
LEMMA TypeStep == ASSUME TypeOK, AcceptProgress, [Next]_vars PROVE TypeOK'
<1> USE DEF TypeOK, Listeners, MainStates, CoStates
<1>0. CASE UNCHANGED vars
  BY <1>0 DEF vars, mainVars, sigVars, accVars, connVars, listVars
<1>1. CASE Main
  <2>1. CASE InitListen
    BY <2>1, NListenersAssumption DEF InitListen, sigVars, connVars, listVars
  <2>2. CASE InitSkip
    BY <2>2, NListenersAssumption DEF InitSkip, sigVars, accVars, connVars, listVars
  <2>3. CASE InitFail
    BY <2>3 DEF InitFail, sigVars, connVars, listVars
  <2>4. CASE InitThrow \/ InitEnd \/ Run \/ Join \/ Joined
    BY <2>4 DEF InitThrow, InitEnd, Run, Join, Joined, sigVars, accVars, connVars, listVars
  <2>5. CASE WaitShutdown
    BY <2>5, NListenersAssumption DEF WaitShutdown, accVars, connVars, listVars
  <2>6. CASE StopListener
    BY <2>6, NListenersAssumption DEF StopListener, sigVars, connVars, listVars
  <2>7. CASE CloseBegin \/ CloseEnd
    BY <2>7 DEF CloseBegin, CloseEnd, sigVars, accVars, connVars
  <2>8. CASE \E c \in Conns : CloseOne(c)
    BY <2>8 DEF CloseOne, mainVars, sigVars, accVars
  <2>9. CASE Delete
    BY <2>9 DEF Delete, sigVars, accVars, listVars
  <2> QED BY <1>1, <2>1, <2>2, <2>3, <2>4, <2>5, <2>6, <2>7, <2>8, <2>9 DEF Main
<1>2. CASE OutOfWork
  BY <1>2 DEF OutOfWork, sigVars, accVars, connVars, listVars
<1>3. CASE Environment
  <2>1. ASSUME NEW s \in Signals, Signal(s) PROVE TypeOK'
    BY <2>1 DEF Signal, AfterWrite, mainVars, accVars, connVars, listVars
  <2>2. ASSUME NEW s \in Signals, Kill(s) PROVE TypeOK'
    BY <2>2 DEF Kill, sigVars, accVars, connVars, listVars
  <2>3. ASSUME NEW l \in Listeners, AcceptFails(l) PROVE TypeOK'
    BY <2>3 DEF AcceptFails, mainVars, sigVars, connVars, listVars
  <2>4. ASSUME NEW l \in Listeners, NEW c \in Conns, Connect(l, c) PROVE TypeOK'
    BY <2>4 DEF Connect, mainVars, sigVars, listVars
  <2> QED BY <1>3, <2>1, <2>2, <2>3, <2>4 DEF Environment
<1>4. CASE Ended
  BY <1>4 DEF Ended, vars, mainVars, sigVars, accVars, connVars, listVars
<1>5. ASSUME NEW l \in Listeners, Accept(l) PROVE TypeOK'
  <2>1. CASE AcceptReturns(l)
    BY <2>1 DEF AcceptReturns, mainVars, sigVars, connVars, listVars
  <2>2. CASE AcceptTakes(l)
    BY <2>2 DEF AcceptTakes, MovedFrom, mainVars, sigVars, listVars
  <2>3. CASE AcceptRearms(l)
    BY <2>3 DEF AcceptRearms, Rearmed, mainVars, sigVars, listVars
  <2> QED BY <1>5, <2>1, <2>2, <2>3 DEF Accept
<1>6. ASSUME NEW c \in Conns, CoStep(c) \/ CoResumeOk(c) \/ CoResumeErr(c) PROVE TypeOK'
  <2>1. CASE CoStart(c) \/ CoUnlink(c)
    BY <2>1 DEF CoStart, Add, CoUnlink, Remove, mainVars, sigVars, accVars
  <2>2. CASE CoAwait(c) \/ CoResumeOk(c)
    BY <2>2 DEF CoAwait, CoResumeOk, mainVars, sigVars, accVars, listVars
  <2>3. CASE CoResumeErr(c) \/ CoReturn(c) \/ CoDestroy(c)
    BY <2>3 DEF CoResumeErr, CoReturn, CoDestroy, mainVars, sigVars, accVars, listVars
  <2>4. CASE CoThrow(c)
    BY <2>4 DEF CoThrow, sigVars, accVars, connVars, listVars
  <2> QED BY <1>6, <2>1, <2>2, <2>3, <2>4 DEF CoStep
<1> QED BY <1>0, <1>1, <1>2, <1>3, <1>4, <1>5, <1>6 DEF Next

(* The connection list: one step preserves its three conjuncts.  The       *)
(* mutex is what makes it so: while close() holds it, no coroutine enters  *)
(* or leaves the list.                                                     *)
ListInv == NodesAlive /\ OpenIsListed /\ WalkProgress

LEMMA ListStep ==
    ASSUME TypeOK, ListInv, OneOwner, AcceptProgress, [Next]_vars
    PROVE  ListInv'
<1> USE DEF TypeOK, ListInv, NodesAlive, OpenIsListed, WalkProgress, Framed
<1>0. CASE UNCHANGED vars
  BY <1>0 DEF vars, mainVars, connVars, listVars
<1>1. CASE Main
  <2>1. CASE InitListen \/ InitSkip \/ InitFail \/ InitThrow \/ InitEnd \/ Run
             \/ WaitShutdown \/ StopListener \/ Join \/ Joined
    BY <2>1 DEF InitListen, InitSkip, InitFail, InitThrow, InitEnd, Run, WaitShutdown,
                StopListener, Join, Joined, connVars, listVars
  <2>2. CASE CloseBegin
    BY <2>2 DEF CloseBegin, connVars
  <2>3. ASSUME NEW c \in Conns, CloseOne(c) PROVE ListInv'
    BY <2>3 DEF CloseOne, mainVars
  <2>4. CASE CloseEnd
    BY <2>4 DEF CloseEnd, connVars
  <2>5. CASE Delete
    BY <2>5 DEF Delete, listVars
  <2> QED BY <1>1, <2>1, <2>2, <2>3, <2>4, <2>5 DEF Main
<1>2. CASE OutOfWork
  BY <1>2 DEF OutOfWork, connVars, listVars
<1>3. CASE Environment
  <2>1. ASSUME NEW s \in Signals, Signal(s) \/ Kill(s) PROVE ListInv'
    BY <2>1 DEF Signal, AfterWrite, Kill, mainVars, connVars, listVars
  <2>2. ASSUME NEW l \in Listeners, AcceptFails(l) PROVE ListInv'
    BY <2>2 DEF AcceptFails, mainVars, connVars, listVars
  <2>3. ASSUME NEW l \in Listeners, NEW c \in Conns, Connect(l, c) PROVE ListInv'
    BY <2>3 DEF Connect, mainVars, listVars
  <2> QED BY <1>3, <2>1, <2>2, <2>3 DEF Environment
<1>4. CASE Ended
  BY <1>4 DEF Ended, vars, mainVars, connVars, listVars
<1>5. ASSUME NEW l \in Listeners, Accept(l) PROVE ListInv'
  <2>1. CASE AcceptReturns(l)
    BY <2>1 DEF AcceptReturns, mainVars, connVars, listVars
  <2>2. CASE AcceptTakes(l)
    BY <2>2, <1>5, NoConnAssumption DEF AcceptTakes, MovedFrom, OneOwner, AcceptProgress, mainVars, listVars
  <2>3. CASE AcceptRearms(l)
    BY <2>3, <1>5 DEF AcceptRearms, Rearmed, OneOwner, mainVars, listVars
  <2> QED BY <1>5, <2>1, <2>2, <2>3 DEF Accept
<1>6. ASSUME NEW c \in Conns, CoStep(c) \/ CoResumeOk(c) \/ CoResumeErr(c) PROVE ListInv'
  <2>1. CASE CoStart(c)
    BY <2>1 DEF CoStart, Add, MutexFree, mainVars
  <2>2. CASE CoUnlink(c)
    BY <2>2 DEF CoUnlink, Remove, MutexFree, mainVars
  <2>3. CASE CoAwait(c) \/ CoResumeOk(c)
    BY <2>3 DEF CoAwait, CoResumeOk, mainVars, listVars
  <2>4. CASE CoResumeErr(c) \/ CoReturn(c)
    BY <2>4 DEF CoResumeErr, CoReturn, mainVars, listVars
  <2>5. CASE CoDestroy(c)
    BY <2>5 DEF CoDestroy, mainVars, listVars
  <2>6. CASE CoThrow(c)
    BY <2>6 DEF CoThrow, connVars, listVars
  <2> QED BY <1>6, <2>1, <2>2, <2>3, <2>4, <2>5, <2>6 DEF CoStep
<1> QED BY <1>0, <1>1, <1>2, <1>3, <1>4, <1>5, <1>6 DEF Next

(* Ownership of accepted connections: one step preserves it.               *)
LEMMA OwnerStep ==
    ASSUME TypeOK, OneOwner, AcceptProgress, [Next]_vars
    PROVE  OneOwner' /\ AcceptProgress'
<1> USE NoConnAssumption, NListenersAssumption DEF TypeOK, OneOwner, AcceptProgress, Listeners
<1>0. CASE UNCHANGED vars
  BY <1>0 DEF vars, mainVars, accVars, connVars
<1>1. CASE Main
  <2>1. CASE InitListen
    BY <2>1 DEF InitListen, connVars
  <2>2. CASE InitFail
    BY <2>2 DEF InitFail, connVars
  <2>3. CASE InitSkip
    BY <2>3 DEF InitSkip, accVars, connVars
  <2>4. CASE InitThrow \/ InitEnd \/ Run \/ WaitShutdown \/ CloseBegin \/ CloseEnd \/ Join \/ Joined
    BY <2>4 DEF InitThrow, InitEnd, Run, WaitShutdown, CloseBegin, CloseEnd, Join, Joined,
                accVars, connVars
  <2>5. CASE StopListener
    BY <2>5 DEF StopListener, connVars
  <2>6. CASE (\E c \in Conns : CloseOne(c)) \/ Delete
    BY <2>6 DEF CloseOne, Delete, mainVars, accVars
  <2> QED BY <1>1, <2>1, <2>2, <2>3, <2>4, <2>5, <2>6 DEF Main
<1>2. CASE OutOfWork
  BY <1>2 DEF OutOfWork, accVars, connVars
<1>3. CASE Environment
  <2>1. ASSUME NEW s \in Signals, Signal(s) \/ Kill(s) PROVE OneOwner' /\ AcceptProgress'
    BY <2>1 DEF Signal, AfterWrite, Kill, mainVars, accVars, connVars
  <2>2. ASSUME NEW l \in Listeners, AcceptFails(l) PROVE OneOwner' /\ AcceptProgress'
    BY <2>2 DEF AcceptFails, mainVars, connVars
  <2>3. ASSUME NEW l \in Listeners, NEW c \in Conns, Connect(l, c)
        PROVE  OneOwner' /\ AcceptProgress'
    BY <2>3 DEF Connect, mainVars
  <2> QED BY <1>3, <2>1, <2>2, <2>3 DEF Environment
<1>4. CASE Ended
  BY <1>4 DEF Ended, vars, mainVars, accVars, connVars
<1>5. ASSUME NEW l \in Listeners, Accept(l) PROVE OneOwner' /\ AcceptProgress'
  <2>1. CASE AcceptReturns(l)
    BY <2>1 DEF AcceptReturns, mainVars, connVars
  <2>2. CASE AcceptTakes(l)
    BY <2>2 DEF AcceptTakes, MovedFrom, mainVars
  <2>3. CASE AcceptRearms(l)
    BY <2>3 DEF AcceptRearms, Rearmed, mainVars
  <2> QED BY <1>5, <2>1, <2>2, <2>3 DEF Accept
<1>6. ASSUME NEW c \in Conns, CoStep(c) \/ CoResumeOk(c) \/ CoResumeErr(c)
      PROVE  OneOwner' /\ AcceptProgress'
  <2>1. CASE CoThrow(c)
    BY <2>1 DEF CoThrow, accVars, connVars
  <2>2. CASE CoStart(c) \/ CoUnlink(c)
    BY <2>2 DEF CoStart, Add, CoUnlink, Remove, mainVars, accVars
  <2>3. CASE CoAwait(c) \/ CoResumeOk(c) \/ CoResumeErr(c)
    BY <2>3 DEF CoAwait, CoResumeOk, CoResumeErr, mainVars, accVars
  <2>4. CASE CoReturn(c) \/ CoDestroy(c)
    BY <2>4 DEF CoReturn, CoDestroy, mainVars, accVars
  <2> QED BY <1>6, <2>1, <2>2, <2>3, <2>4 DEF CoStep
<1> QED BY <1>0, <1>1, <1>2, <1>3, <1>4, <1>5, <1>6 DEF Next

(* The initial state satisfies the inductive invariant.                    *)
LEMMA InitIInv == Init => IInv
<1> SUFFICES ASSUME Init PROVE IInv
  OBVIOUS
<1> USE NListenersAssumption, NoConnAssumption DEF Init
<1>1. TypeOK
  <2>1. cur \in 1..(NListeners + 1)
    OBVIOUS
  <2>2. /\ acceptor \in [Listeners -> {"closed", "open", "listening"}]
        /\ acceptOp \in [Listeners -> {"none", "pending", "ok", "aborted", "error"}]
        /\ accepted \in [Listeners -> Conns \cup {NoConn}]
        /\ handler  \in [Listeners -> Conns \cup {NoConn}]
    OBVIOUS
  <2>3. /\ sock \in [Conns -> {"none", "open", "shut", "closed"}]
        /\ co   \in [Conns -> CoStates]
    BY DEF CoStates
  <2> QED BY <2>1, <2>2, <2>3 DEF TypeOK, MainStates
<1>2. NodesAlive /\ OpenIsListed /\ WalkProgress
  BY DEF NodesAlive, OpenIsListed, WalkProgress
<1>3. OneOwner /\ AcceptProgress
  BY DEF OneOwner, AcceptProgress
<1> QED BY <1>1, <1>2, <1>3 DEF IInv

(* The invariant is inductive.                                             *)
THEOREM Inductive == Spec => []IInv
<1>1. IInv /\ [Next]_vars => IInv'
  BY TypeStep, ListStep, OwnerStep DEF IInv, ListInv
<1> QED BY InitIInv, <1>1, PTL DEF Spec

(* Type correctness of the server's life.                                  *)
THEOREM TypeCorrect == Spec => []TypeOK
  BY Inductive, PTL DEF IInv

(* The connection list never links, and stop() never walks to, a node      *)
(* whose coroutine has unlinked it or destroyed it.                        *)
THEOREM ListSafe == Spec => []NodesAlive
  BY Inductive, PTL DEF IInv

(* Every coroutine working on an open socket is in the list stop() walks.  *)
THEOREM NoneForgotten == Spec => []OpenIsListed
  BY Inductive, PTL DEF IInv

(* Every accepted connection has exactly one owner, and an accept is only  *)
(* started into an empty l.socket.                                         *)
THEOREM Ownership == Spec => []OneOwner
  BY Inductive, PTL DEF IInv

(* A listener is disarmed only by an error of its accept or by stop().     *)
THEOREM ListenerStaysArmed == Spec => StaysArmed
<1> DEFINE Kept == \A l \in Listeners :
                     Armed(l) /\ ~Armed(l)' => acceptOp[l]' = "error" \/ acceptor[l]' = "closed"
<1>1. ASSUME IInv, [Next]_vars PROVE [Kept]_vars
  <2> SUFFICES ASSUME Next, NEW l \in Listeners,
                      Armed(l), ~Armed(l)', acceptOp[l]' # "error"
               PROVE  acceptor[l]' = "closed"
    BY <1>1
  <2> USE <1>1, NoConnAssumption DEF Armed, IInv, TypeOK
  <2>1. CASE Main
    <3>1. CASE InitListen
      BY <3>1 DEF InitListen
    <3>2. CASE StopListener
      BY <3>2 DEF StopListener
    <3>3. CASE ~InitListen /\ ~StopListener
      BY <2>1, <3>3 DEF Main, InitSkip, InitFail, InitThrow, InitEnd, Run, WaitShutdown,
                        CloseBegin, CloseOne, CloseEnd, Join, Joined, Delete, accVars
    <3> QED BY <3>1, <3>2, <3>3
  <2>2. CASE OutOfWork \/ Environment \/ Ended
    BY <2>2 DEF OutOfWork, Environment, Ended, Signal, AfterWrite, Kill, AcceptFails, Connect, vars, accVars
  <2>3. CASE \E m \in Listeners : Accept(m)
    <3>1. PICK m \in Listeners : Accept(m)
      BY <2>3
    <3>2. CASE AcceptReturns(m)
      BY <3>2 DEF AcceptReturns
    <3>3. CASE AcceptTakes(m)
      BY <3>3 DEF AcceptTakes, MovedFrom, AcceptProgress
    <3>4. CASE AcceptRearms(m)
      BY <3>4 DEF AcceptRearms, Rearmed
    <3> QED BY <3>1, <3>2, <3>3, <3>4 DEF Accept
  <2>4. CASE \E c \in Conns : CoStep(c) \/ CoResumeOk(c) \/ CoResumeErr(c)
    BY <2>4 DEF CoStep, CoStart, Add, CoAwait, CoReturn, CoThrow, CoUnlink, Remove, CoDestroy,
                CoResumeOk, CoResumeErr, accVars
  <2> QED BY <2>1, <2>2, <2>3, <2>4 DEF Next
<1> QED BY <1>1, Inductive, PTL DEF Spec, StaysArmed
=============================================================================
