------------------------------- MODULE Greeter ------------------------------
(***************************************************************************)
(* The asynchronous greeter of boost_cpp/async.cc: threads in HandleRpcs   *)
(* take tags from one completion queue; a tag is the address of a CallData *)
(* object, which asks for a call, answers it and deletes itself.           *)
(* Addresses are used again.  The gRPC runtime is external.                *)
(***************************************************************************)
EXTENDS Integers, FiniteSets

CONSTANTS
    CallDatas,   \* addresses of CallData objects
    RpcThreads,  \* threads that run HandleRpcs; one in main()
    MaxRpcs      \* bound: calls by clients

ASSUME GreeterAssumption ==
    /\ MaxRpcs \in Nat /\ IsFiniteSet(CallDatas) /\ IsFiniteSet(RpcThreads)
    /\ Cardinality(CallDatas) >= Cardinality(RpcThreads) + MaxRpcs

VARIABLES
    status_,   \* status_[d]: "PROCESS", "FINISH", or "free"
    at,        \* at[h]: where thread h is: "start", "next", "proceed", "reply",
               \* "finish"
    tag,       \* tag[h]: the event it deals with
    aborted,   \* a GPR_ASSERT failed
    \* the runtime
    offered,   \* tags of RequestSayHello without a call yet
    finishing, \* tags of Finish under way
    cq,        \* the completion queue: [tag, for, ok]; `for` is not in the code
    rpcs       \* calls clients have made, and those not yet matched
               \* with a CallData

greeterVars == <<status_, at, tag, aborted, offered, finishing, cq, rpcs>>

NoEvent == [tag |-> "none", for |-> "none", ok |-> TRUE]

GreeterInit ==
    /\ status_ = [d \in CallDatas |-> "free"]
    /\ at = [h \in RpcThreads |-> "start"] /\ tag = [h \in RpcThreads |-> NoEvent]
    /\ aborted = FALSE /\ offered = {} /\ finishing = {} /\ cq = {}
    /\ rpcs = [made |-> 0, open |-> 0]

-----------------------------------------------------------------------------
(* new CallData: the constructor calls Proceed, which sets PROCESS and     *)
(* then requests a call.  Nobody knows the object before the request.      *)
NewCallData ==
    \E d \in CallDatas :
        /\ status_[d] = "free"
        /\ status_' = [status_ EXCEPT ![d] = "PROCESS"] /\ offered' = offered \cup {d}

Go(h, from, to) == at[h] = from /\ at' = [at EXCEPT ![h] = to]

HandleRpcs(h) ==
    /\ Go(h, "start", "next") /\ NewCallData
    /\ UNCHANGED <<tag, aborted, finishing, cq, rpcs>>

\* cq_->Next, and the assertion that the event is ok
NextEvent(h) ==
    /\ Go(h, "next", "proceed")
    /\ \E e \in cq : cq' = cq \ {e} /\ tag' = [tag EXCEPT ![h] = e] /\ aborted' = ~e.ok
    /\ UNCHANGED <<status_, offered, finishing, rpcs>>

\* Proceed in PROCESS: a new CallData for the next client, before the reply ...
ProceedProcess(h) ==
    /\ Go(h, "proceed", "reply") /\ status_[tag[h].tag] = "PROCESS" /\ NewCallData
    /\ UNCHANGED <<tag, aborted, finishing, cq, rpcs>>

SetFinish(h) ==
    /\ Go(h, "reply", "finish") /\ status_' = [status_ EXCEPT ![tag[h].tag] = "FINISH"]
    /\ UNCHANGED <<tag, aborted, offered, finishing, cq, rpcs>>

\* Mutant: the object is deleted as soon as Finish was called.
AfterFinish_Deletes(h) == [status_ EXCEPT ![tag[h].tag] = "free"]

\* Nothing is touched after Finish: another thread may have the event already.
AfterFinish(h) == status_

\* ... responder_.Finish
Finish(h) ==
    /\ Go(h, "finish", "next") /\ finishing' = finishing \cup {tag[h].tag}
    /\ status_' = AfterFinish(h) /\ tag' = [tag EXCEPT ![h] = NoEvent]
    /\ UNCHANGED <<aborted, offered, cq, rpcs>>

\* Proceed in FINISH: delete this
ProceedFinish(h) ==
    /\ Go(h, "proceed", "next") /\ status_[tag[h].tag] = "FINISH"
    /\ status_' = [status_ EXCEPT ![tag[h].tag] = "free"]
    /\ tag' = [tag EXCEPT ![h] = NoEvent]
    /\ UNCHANGED <<aborted, offered, finishing, cq, rpcs>>

-----------------------------------------------------------------------------
(* Clients and the runtime.                                                *)

SayHello ==
    /\ rpcs.made < MaxRpcs /\ rpcs' = [made |-> rpcs.made + 1, open |-> rpcs.open + 1]
    /\ UNCHANGED <<status_, at, tag, aborted, offered, finishing, cq>>

\* A call meets a CallData on offer.
Matched(d) ==
    /\ rpcs.open > 0 /\ rpcs' = [rpcs EXCEPT !.open = @ - 1]
    /\ d \in offered /\ offered' = offered \ {d}
    /\ cq' = cq \cup {[tag |-> d, for |-> "PROCESS", ok |-> TRUE]}
    /\ UNCHANGED <<status_, at, tag, aborted, finishing>>

\* A reply is on its way, or (not ok) the client had gone.
Finished(d) ==
    /\ d \in finishing /\ finishing' = finishing \ {d}
    /\ \E ok \in BOOLEAN : cq' = cq \cup {[tag |-> d, for |-> "FINISH", ok |-> ok]}
    /\ UNCHANGED <<status_, at, tag, aborted, offered, rpcs>>

HandlesRpcs(h) ==
    \/ HandleRpcs(h) \/ NextEvent(h) \/ ProceedProcess(h) \/ SetFinish(h) \/ Finish(h)
    \/ ProceedFinish(h)

GreeterNext ==
    /\ ~aborted
    /\ \/ \E h \in RpcThreads : HandlesRpcs(h)
       \/ \E d \in CallDatas : Matched(d) \/ Finished(d)
       \/ SayHello

GreeterSpec == GreeterInit /\ [][GreeterNext]_greeterVars

-----------------------------------------------------------------------------
Events == cq \cup {tag[h] : h \in {i \in RpcThreads : at[i] = "proceed"}}
Tags(kind) == {e.tag : e \in {f \in Events : f.for = kind}}

(* A tag is always the address of a living object in the state that its    *)
(* event is for, whichever thread takes it: never a deleted one, nor one   *)
(* that a later call has at the same address.  And for every thread a      *)
(* CallData is on offer or has just been taken up, so the server does not  *)
(* run out of them.                                                        *)
TagsValid ==
    /\ \A d \in offered \cup Tags("PROCESS") : status_[d] = "PROCESS"
    /\ \A d \in finishing \cup Tags("FINISH") : status_[d] = "FINISH"
    /\ offered \cap Tags("PROCESS") = {} /\ finishing \cap Tags("FINISH") = {}
    /\ Cardinality(offered) + Cardinality(Tags("PROCESS"))
         = Cardinality({h \in RpcThreads : at[h] # "start"})
=============================================================================
