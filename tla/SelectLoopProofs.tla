-------------------------- MODULE SelectLoopProofs --------------------------
(***************************************************************************)
(* Theorems about SelectLoop, for any number of handlers, of clients and   *)
(* of calls, and for pipes and reads of any size.                          *)
(***************************************************************************)
EXTENDS SelectLoop, TLAPS

Stages ==
    {<<"idle">>, <<"stop_signal">>, <<"join">>, <<"joined">>}
        \cup ({"register", "unregister", "signal"} \X Handlers)

LoopPlaces == {"test", "build", "select", "lock", "callbacks", "clear", "exited"}

TypeOK ==
    /\ stopped \in BOOLEAN /\ io_callback \subseteq Handlers
    /\ pipe \in 0..PipeCap
    /\ mtx \in Clients \cup {LoopThread, Nobody}
    /\ loop \in LoopPlaces /\ fdread \subseteq Handlers /\ pipeSet \in BOOLEAN
    /\ client \in [Clients -> Stages]

(* A client between its change and its signal holds the mutex, and so does *)
(* the thread while it calls back and clears its pipe.                     *)
Exclusive ==
    /\ \A c \in Clients : At(c, "signal") => mtx = c
    /\ loop \in {"callbacks", "clear"} => mtx = LoopThread

(* Nobody has changed something and not signalled it yet, and no signal is *)
(* in the pipe.                                                            *)
Told == pipe = 0 /\ \A c \in Clients : ~At(c, "signal") /\ ~At(c, "stop_signal")

(* From its test of the loop condition until select(), the thread that has *)
(* nothing more to be told may still rely on the condition.                *)
UpToDate ==
    /\ loop \in {"build", "select"} /\ Told => (stopped => io_callback # {})
    /\ loop = "select" /\ Told => fdread = io_callback

SelectInv == TypeOK /\ Exclusive /\ UpToDate

-----------------------------------------------------------------------------
(* A read leaves what is beyond its length in the pipe.                    *)
LEMMA ReadLeaves ==
  ASSUME NEW n \in Nat
  PROVE  Max({n - ReadMax, 0}) \in 0..n
<1> DEFINE S == {n - ReadMax, 0}
<1>1. ReadMax \in Nat /\ ReadMax > 0
  BY BoundsAssumption
<1>2. \E x \in S : \A y \in S : x >= y
  <2>1. CASE n - ReadMax >= 0
    BY <1>1, <2>1
  <2>2. CASE n - ReadMax < 0
    BY <1>1, <2>2
  <2> QED BY <1>1, <2>1, <2>2
<1>3. Max(S) \in S /\ \A y \in S : Max(S) >= y
  BY <1>2 DEF Max
<1> QED BY <1>1, <1>3

(* Where the clients are after one of them has gone on.                    *)
LEMMA GotoMoves ==
  ASSUME TypeOK, NEW c \in Clients, NEW s \in Stages, Goto(c, s)
  PROVE  /\ client' \in [Clients -> Stages]
         /\ \A d \in Clients : d # c => client'[d] = client[d]
         /\ client'[c] = s
  BY DEF TypeOK, Goto

(* The first component of a stage tells where a client is.                 *)
LEMMA StagesOf ==
  /\ {<<"idle">>, <<"stop_signal">>, <<"join">>, <<"joined">>} \subseteq Stages
  /\ <<"idle">>[1] = "idle" /\ <<"stop_signal">>[1] = "stop_signal"
  /\ <<"join">>[1] = "join" /\ <<"joined">>[1] = "joined"
  /\ \A p \in {"register", "unregister", "signal"} : \A h \in Handlers :
        <<p, h>> \in Stages /\ <<p, h>>[1] = p
<1>1. {<<"idle">>, <<"stop_signal">>, <<"join">>, <<"joined">>} \subseteq Stages
  BY Zenon DEF Stages
<1>2. /\ <<"idle">>[1] = "idle" /\ <<"stop_signal">>[1] = "stop_signal"
      /\ <<"join">>[1] = "join" /\ <<"joined">>[1] = "joined"
  OBVIOUS
<1>3. ASSUME NEW p \in {"register", "unregister", "signal"}, NEW h \in Handlers
      PROVE  <<p, h>> \in Stages /\ <<p, h>>[1] = p
  <2>1. <<p, h>> \in {"register", "unregister", "signal"} \X Handlers /\ <<p, h>>[1] = p
    OBVIOUS
  <2> QED BY <2>1, Zenon DEF Stages
<1> QED BY <1>1, <1>2, <1>3

LEMMA SelectStarts == Init => SelectInv
<1> SUFFICES ASSUME Init PROVE SelectInv
  OBVIOUS
<1>1. client \in [Clients -> Stages] /\ \A c \in Clients : client[c][1] = "idle"
  BY StagesOf DEF Init
<1>2. TypeOK
  <2>1. pipe \in 0..PipeCap
    BY BoundsAssumption DEF Init, EmptyPipes
  <2> QED BY <1>1, <2>1 DEF Init, TypeOK, LoopPlaces
<1> QED BY <1>1, <1>2 DEF Init, SelectInv, Exclusive, UpToDate, At

(* A client that calls register_fd or unregister_fd keeps the invariant:   *)
(* its change comes with the mutex, and the signal before the mutex goes.  *)
LEMMA ClientStep ==
  ASSUME SelectInv, NEW c \in Clients,
         Calling(c) \/ \E h \in Handlers : RegisterCheck(c, h) \/ UnregisterCall(c, h)
  PROVE  SelectInv'
<1> USE DEF SelectInv, At
<1>0. pipe \in Nat /\ PipeCap \in Nat
  BY BoundsAssumption DEF TypeOK
<1>1. ASSUME NEW h \in Handlers, RegisterCheck(c, h) \/ UnregisterCall(c, h) PROVE SelectInv'
  <2>1. PICK s \in Stages : Goto(c, s) /\ s[1] \in {"register", "unregister"}
    BY <1>1, StagesOf DEF RegisterCheck, UnregisterCall
  <2>2. /\ client[c][1] = "idle"
        /\ UNCHANGED <<stopped, io_callback, pipe, mtx, loop, fdread, pipeSet>>
    BY <1>1 DEF RegisterCheck, UnregisterCall, loopVars
  <2>3. TypeOK'
    BY <2>1, <2>2, GotoMoves DEF TypeOK
  <2>4. \A d \in Clients :
            /\ client'[d][1] = "signal" <=> client[d][1] = "signal"
            /\ client'[d][1] = "stop_signal" <=> client[d][1] = "stop_signal"
    BY <2>1, <2>2, GotoMoves
  <2> QED BY <2>2, <2>3, <2>4 DEF Exclusive, UpToDate, Told
<1>2. CASE ChangeSet(c)
  <2>1. PICK h \in Handlers : client[c][2] = h
    BY <1>2 DEF ChangeSet, TypeOK, Stages
  <2>2. Goto(c, <<"signal", h>>) /\ io_callback' \subseteq Handlers
    BY <1>2, <2>1 DEF ChangeSet, TypeOK
  <2>3. /\ client' \in [Clients -> Stages] /\ client'[c][1] = "signal"
        /\ \A d \in Clients : d # c => client'[d] = client[d]
    BY <2>2, GotoMoves, StagesOf
  <2>4. mtx = Nobody /\ mtx' = c /\ UNCHANGED <<stopped, pipe, loop, fdread, pipeSet>>
    BY <1>2 DEF ChangeSet, loopVars
  <2>5. TypeOK'
    BY <2>2, <2>3, <2>4 DEF TypeOK
  <2>6. Exclusive'
    BY <2>3, <2>4, ThreadsAssumption DEF Exclusive, Nobody, LoopThread
  <2>7. ~Told'
    BY <2>3 DEF Told
  <2> QED BY <2>5, <2>6, <2>7 DEF UpToDate
<1>3. CASE SignalSet(c)
  <2>1. Goto(c, <<"idle">>) /\ mtx = c /\ mtx' = Nobody /\ pipe' = pipe + 1 /\ pipe < PipeCap
        /\ UNCHANGED <<stopped, io_callback, loop, fdread, pipeSet>>
    BY <1>3 DEF SignalSet, Exclusive, loopVars
  <2>2. /\ client' \in [Clients -> Stages] /\ client'[c][1] = "idle"
        /\ \A d \in Clients : d # c => client'[d] = client[d]
    BY <2>1, GotoMoves, StagesOf
  <2>3. TypeOK'
    BY <1>0, <2>1, <2>2 DEF TypeOK
  <2>4. Exclusive'
    BY <2>1, <2>2, ThreadsAssumption DEF Exclusive, Nobody, LoopThread
  <2>5. ~Told'
    BY <1>0, <2>1 DEF Told
  <2> QED BY <2>3, <2>4, <2>5 DEF UpToDate
<1> QED BY <1>1, <1>2, <1>3 DEF Calling

(* So does stop(), which sets the flag before it signals, and join().      *)
LEMMA StopStep ==
  ASSUME SelectInv, StopSet \/ StopSignal \/ JoinCall \/ Joined
  PROVE  SelectInv'
<1> USE MainAssumption DEF SelectInv, At
<1>0. pipe \in Nat /\ PipeCap \in Nat
  BY BoundsAssumption DEF TypeOK
<1>1. PICK s \in Stages :
         /\ Goto(Main, s) /\ s[1] \in {"stop_signal", "idle", "join", "joined"}
         /\ StopSet <=> s[1] = "stop_signal"
  BY StagesOf DEF StopSet, StopSignal, JoinCall, Joined
<1>2. /\ client' \in [Clients -> Stages] /\ client'[Main] = s
      /\ \A d \in Clients : d # Main => client'[d] = client[d]
  BY <1>1, GotoMoves
<1>3. /\ UNCHANGED <<io_callback, mtx, loop, fdread, pipeSet>>
      /\ StopSet => stopped' = TRUE /\ UNCHANGED pipe
      /\ StopSignal => pipe' = pipe + 1 /\ pipe < PipeCap /\ UNCHANGED stopped
      /\ JoinCall \/ Joined => UNCHANGED <<stopped, pipe>>
  BY DEF StopSet, StopSignal, JoinCall, Joined, loopVars
<1>4. TypeOK'
  <2>1. CASE StopSet
    BY <1>2, <1>3, <2>1 DEF TypeOK
  <2>2. CASE StopSignal
    BY <1>0, <1>2, <1>3, <2>2 DEF TypeOK
  <2>3. CASE JoinCall \/ Joined
    BY <1>2, <1>3, <2>3 DEF TypeOK
  <2> QED BY <2>1, <2>2, <2>3
<1>5. Exclusive'
  BY <1>1, <1>2, <1>3 DEF Exclusive
<1>6. UpToDate'
  <2>1. CASE StopSet \/ StopSignal
    <3>1. ~Told'
      BY <1>0, <1>1, <1>2, <1>3, <2>1 DEF Told
    <3> QED BY <3>1 DEF UpToDate
  <2>2. CASE JoinCall \/ Joined
    <3>1. client[Main][1] \in {"idle", "join"}
      BY <2>2 DEF JoinCall, Joined
    <3>2. Told' => Told
      BY <1>2, <1>3, <2>2, <3>1 DEF Told
    <3> QED BY <1>3, <2>2, <3>2 DEF UpToDate
  <2> QED BY <2>1, <2>2
<1> QED BY <1>4, <1>5, <1>6

(* So does the thread: it fills its fd_set under the mutex, and clears the *)
(* pipe only before it tests the condition again.                          *)
LEMMA LoopStep ==
  ASSUME SelectInv, Loop \/ LoopSelectFails
  PROVE  SelectInv'
<1> USE DEF SelectInv
<1>1. UNCHANGED <<stopped, io_callback, client>>
  BY DEF Loop, LoopSelectFails, LoopTest, LoopBuild, LoopSelect, LoopLock, LoopCallbacks, LoopClear
<1>2. CASE LoopTest
  BY <1>1, <1>2 DEF LoopTest, TypeOK, LoopPlaces, Exclusive, UpToDate, Told, At
<1>3. CASE LoopBuild
  BY <1>1, <1>3, ThreadsAssumption
     DEF LoopBuild, WatchesPipe, TypeOK, LoopPlaces, Exclusive, UpToDate, Told, At
<1>4. CASE LoopSelect \/ LoopSelectFails
  BY <1>1, <1>4 DEF LoopSelect, LoopSelectFails, TypeOK, LoopPlaces, Exclusive, UpToDate, Told, At
<1>5. CASE LoopLock
  BY <1>1, <1>5, ThreadsAssumption
     DEF LoopLock, TypeOK, LoopPlaces, Exclusive, UpToDate, At, Nobody, LoopThread
<1>6. CASE LoopCallbacks
  BY <1>1, <1>6 DEF LoopCallbacks, TypeOK, LoopPlaces, Exclusive, UpToDate, At
<1>7. CASE LoopClear
  <2>1. pipe' \in 0..PipeCap
    BY <1>7, ReadLeaves, BoundsAssumption DEF LoopClear, ClearSignal, TypeOK
  <2>2. \A c \in Clients : client[c][1] # "signal"
    BY <1>7, ThreadsAssumption DEF LoopClear, Exclusive, At
  <2> QED BY <1>1, <1>7, <2>1, <2>2 DEF LoopClear, TypeOK, LoopPlaces, Exclusive, UpToDate, At
<1> QED BY <1>2, <1>3, <1>4, <1>5, <1>6, <1>7 DEF Loop

LEMMA SelectStep == ASSUME SelectInv, [Next]_vars PROVE SelectInv'
<1>1. CASE UNCHANGED vars \/ \E h \in Handlers : Write(h)
  BY <1>1 DEF vars, loopVars, Write, SelectInv, TypeOK, Exclusive, UpToDate, Told, At
<1> QED BY <1>1, ClientStep, StopStep, LoopStep DEF Next

-----------------------------------------------------------------------------
(* However register_fd, unregister_fd and stop() interleave with the       *)
(* thread, it never blocks in select() on an out-of-date set of            *)
(* descriptors with nobody left to wake it up.                             *)
THEOREM SelectNotStale == Spec => []NoStaleSelect
<1>1. Init => SelectInv
  BY SelectStarts
<1>2. SelectInv /\ [Next]_vars => SelectInv'
  BY SelectStep
<1>3. SelectInv => NoStaleSelect
  BY DEF SelectInv, UpToDate, Told, NoStaleSelect
<1> QED BY <1>1, <1>2, <1>3, PTL DEF Spec
=============================================================================
