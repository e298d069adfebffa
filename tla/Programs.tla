------------------------------ MODULE Programs ------------------------------
(***************************************************************************)
(* The repository's small programs, model-checked side by side: LruMap,    *)
(* ThreadRing, Prebuffer, Greeter, BufferList and Echo share nothing, and  *)
(* every behaviour runs one of them.                                       *)
(***************************************************************************)
EXTENDS LruMap, ThreadRing, Prebuffer, Greeter, BufferList, Echo

VARIABLE program

allVars == <<program, vars, ringVars, streamVars, greeterVars, listVars, echoVars>>

\* Constructor arguments of lru_map: none, one or two keys, and a negative one.
MCMaxArgs == {0, 1, 2, -1}

(* The programs that do not run stay in one and the same initial state.    *)
ProgramsInit ==
    /\ program \in {"lru_map", "thread", "teststream", "async", "test_iter", "test_spawn"}
    /\ Init /\ (program # "lru_map" => max = 0)
    /\ StreamInit /\ (program # "teststream" => use = "in" /\ m_filedes = 1)
    /\ RingInit /\ GreeterInit /\ ListInit /\ EchoInit

(* Where a program may rest: main of thread.cc has returned; the greeter   *)
(* waits for clients, all calls answered, or a GPR_ASSERT has ended it; a  *)
(* list is beyond use; both coroutines of a session have ended.            *)
Rests ==
    /\ \/ program = "thread" /\ main.op = "done"
       \/ /\ program = "async"
          /\ aborted \/ (rpcs = [made |-> MaxRpcs, open |-> 0] /\ cq \cup finishing = {})
       \/ program = "test_iter" /\ moved
       \/ program = "test_spawn" /\ echo = "ended" /\ watch = "ended"
    /\ UNCHANGED <<vars, ringVars, streamVars, greeterVars, listVars, echoVars>>

ProgramsNext ==
    /\ \/ /\ program = "lru_map" /\ Next
          /\ UNCHANGED <<ringVars, streamVars, greeterVars, listVars, echoVars>>
       \/ /\ program = "thread" /\ RingNext
          /\ UNCHANGED <<vars, streamVars, greeterVars, listVars, echoVars>>
       \/ /\ program = "teststream" /\ StreamNext
          /\ UNCHANGED <<vars, ringVars, greeterVars, listVars, echoVars>>
       \/ /\ program = "async" /\ GreeterNext
          /\ UNCHANGED <<vars, ringVars, streamVars, listVars, echoVars>>
       \/ /\ program = "test_iter" /\ ListNext
          /\ UNCHANGED <<vars, ringVars, streamVars, greeterVars, echoVars>>
       \/ /\ program = "test_spawn" /\ EchoNext
          /\ UNCHANGED <<vars, ringVars, streamVars, greeterVars, listVars>>
       \/ Rests
    /\ UNCHANGED program

(* The threads of the ring run, and main gets a mutex at last that becomes *)
(* free again and again.                                                   *)
RingFairness ==
    /\ SF_ringVars(program = "thread" /\ Main)
    /\ \A t \in Threads : WF_ringVars(Run(t))

(* The io_context runs the handlers of the session, and time passes.       *)
EchoFairness ==
    /\ WF_echoVars(program = "test_spawn" /\ EchoSteps)
    /\ WF_echoVars(program = "test_spawn" /\ WatchSteps)
    /\ WF_echoVars(program = "test_spawn" /\ Clock)

ProgramsSpec == ProgramsInit /\ [][ProgramsNext]_allVars /\ RingFairness /\ EchoFairness
=============================================================================
