----------------------------- MODULE ChatServer -----------------------------
(***************************************************************************)
(* The chat server of boost_cpp/tcp-chat-server.cpp.  One thread runs the  *)
(* io_context, so every completion handler is one action; between the      *)
(* moment an operation completes and the moment its handler runs, other    *)
(* handlers run.                                                           *)
(*                                                                         *)
(* A message is a record of its kind and of the session it is about.  What *)
(* a client types is a stream of units, numbered from 1: the pieces of     *)
(* text that arrive together.  The units in LineEnds end a line with "\n"; *)
(* a line may take several units, and a read may end anywhere.             *)
(***************************************************************************)
EXTENDS Integers, Sequences, Functions

CONSTANTS
    Sessions, \* sessions the server ever creates
    LineEnds, \* which of a client's units end with "\n"
    MaxTyped  \* bound: units typed, by all clients together

ASSUME TypedAssumption == LineEnds \subseteq Nat /\ MaxTyped \in Nat

VARIABLES
    state,    \* "new", "open" or "closed" socket
    clients,  \* server::clients
    outgoing, \* outgoing[s]: session::outgoing
    readOp,   \* readOp[s]: async_read_until: "none", "pending", "ok", "err"
    writeOp,  \* writeOp[s]: async_write, likewise
    unread,   \* unread[s]: units no read has completed with, in the socket or the streambuf
    inbuf,    \* inbuf[s]: units in the streambuf when the read completed
    typed,    \* typed[s]: number of units typed so far
    \* history
    log,      \* every message passed to server::post, in order
    joined,   \* joined[s]: length of log when s was inserted in clients
    received  \* received[s]: messages written to s

vars == <<state, clients, outgoing, readOp, writeOp, unread, inbuf, typed, log, joined, received>>

Welcome == [kind |-> "welcome"]
Newcomer(s) == [kind |-> "newcomer", of |-> s]
OneLess(s) == [kind |-> "less", of |-> s]
Says(s, t) == [kind |-> "says", of |-> s, text |-> t]

Init ==
    /\ state = [s \in Sessions |-> "new"]
    /\ clients = {}
    /\ outgoing = [s \in Sessions |-> <<>>]
    /\ readOp = [s \in Sessions |-> "none"]
    /\ writeOp = [s \in Sessions |-> "none"]
    /\ unread = [s \in Sessions |-> <<>>]
    /\ inbuf = [s \in Sessions |-> <<>>]
    /\ typed = [s \in Sessions |-> 0]
    /\ log = <<>>
    /\ joined = [s \in Sessions |-> 0]
    /\ received = [s \in Sessions |-> <<>>]

-----------------------------------------------------------------------------

\* The state of an operation just started, and of one whose socket is being closed.
Started(s) == IF state[s] = "closed" THEN "err" ELSE "pending"

\* Mutant: closing the socket does not abort the other operation.
Aborted_Not(op) == op

Aborted(op) == IF op = "pending" THEN "err" ELSE op

(* server::post to the clients cs: each queues the message and starts a    *)
(* write if it was idle.                                                   *)
Posted(cs, m, out) == [s \in Sessions |-> IF s \in cs THEN Append(out[s], m) ELSE out[s]]

Writing(cs, wop) ==
    [s \in Sessions |-> IF s \in cs /\ outgoing[s] = <<>> THEN Started(s) ELSE wop[s]]

(* The accept handler: a session, its welcome, the news to the others, the *)
(* insertion, its first read.  The error code of the accept is ignored, so *)
(* that a failed accept makes a session without a socket.                  *)
Accept(s) ==
    /\ state[s] = "new"
    /\ \E st \in {"open", "closed"} :
        LET op == IF st = "open" THEN "pending" ELSE "err" IN
        /\ state' = [state EXCEPT ![s] = st]
        /\ outgoing' = [Posted(clients, Newcomer(s), outgoing) EXCEPT ![s] = <<Welcome>>]
        /\ writeOp' = [Writing(clients, writeOp) EXCEPT ![s] = op]
        /\ readOp' = [readOp EXCEPT ![s] = op]
    /\ log' = Append(log, Newcomer(s))
    /\ clients' = clients \cup {s}
    /\ joined' = [joined EXCEPT ![s] = Len(log) + 1]
    /\ UNCHANGED <<unread, inbuf, typed, received>>

\* A unit of the text t ends a line.
HasLineEnd(t) == \E k \in DOMAIN t : t[k] \in LineEnds

\* Mutant: the message is the first line only, the rest of the streambuf is dropped.
Message_OneLine(s) ==
    LET first == CHOOSE n \in 1..Len(inbuf[s]) :
                     /\ inbuf[s][n] \in LineEnds
                     /\ ~HasLineEnd(SubSeq(inbuf[s], 1, n - 1))
    IN  Says(s, SubSeq(inbuf[s], 1, first))

(* Everything in the streambuf, what has come of the next line included:   *)
(* the operator<< drains it, and consume(bytes_transferred) finds nothing. *)
Message(s) == Says(s, inbuf[s])

\* Mutant: the sender does not get its own message.
Audience_Others(s) == clients \ {s}

Audience(s) == clients

(* on_read without error: everything in the streambuf is the message; post *)
(* it, the sender included, and read again.                                *)
OnRead(s) ==
    /\ readOp[s] = "ok"
    /\ outgoing' = Posted(Audience(s), Message(s), outgoing)
    /\ log' = Append(log, Message(s))
    /\ writeOp' = Writing(Audience(s), writeOp)
    /\ inbuf' = [inbuf EXCEPT ![s] = <<>>]
    /\ readOp' = [readOp EXCEPT ![s] = Started(s)]
    /\ UNCHANGED <<state, clients, unread, typed, joined, received>>

\* Mutant: a closed session's departure is announced again.
Departs_Again(s) == TRUE

\* clients.erase(client) removed it
Departs(s) == s \in clients

(* An error of either operation: close the socket, which aborts the other  *)
(* one; if the session is still a client, remove it and tell the rest.     *)
Fail(s, rop, wop) ==
    /\ state' = [state EXCEPT ![s] = "closed"]
    /\ readOp' = [rop EXCEPT ![s] = Aborted(@)]
    /\ clients' = clients \ {s}
    /\ IF Departs(s)
         THEN /\ outgoing' = Posted(clients \ {s}, OneLess(s), outgoing)
              /\ writeOp' = [Writing(clients \ {s}, wop) EXCEPT ![s] = Aborted(@)]
              /\ log' = Append(log, OneLess(s))
         ELSE /\ writeOp' = [wop EXCEPT ![s] = Aborted(@)]
              /\ UNCHANGED <<outgoing, log>>
    /\ UNCHANGED <<unread, inbuf, typed, joined, received>>

OnReadError(s) ==
    /\ readOp[s] = "err"
    /\ Fail(s, [readOp EXCEPT ![s] = "none"], writeOp)

\* Mutant: the next message is not written.
NextWrite_None(s) == "none"

NextWrite(s) == IF Tail(outgoing[s]) = <<>> THEN "none" ELSE Started(s)

\* on_write without error: pop, and write the next message if there is one.
OnWrite(s) ==
    /\ writeOp[s] = "ok"
    /\ received' = [received EXCEPT ![s] = Append(@, Head(outgoing[s]))]
    /\ outgoing' = [outgoing EXCEPT ![s] = Tail(@)]
    /\ writeOp' = [writeOp EXCEPT ![s] = NextWrite(s)]
    /\ UNCHANGED <<state, clients, readOp, unread, inbuf, typed, log, joined>>

OnWriteError(s) ==
    /\ writeOp[s] = "err"
    /\ Fail(s, readOp, [writeOp EXCEPT ![s] = "none"])

-----------------------------------------------------------------------------
(* The operations themselves, and the peers.                               *)

Type(s) ==
    /\ state[s] = "open" /\ FoldFunction(+, 0, typed) < MaxTyped
    /\ typed' = [typed EXCEPT ![s] = @ + 1]
    /\ unread' = [unread EXCEPT ![s] = Append(@, typed[s] + 1)]
    /\ UNCHANGED <<state, clients, outgoing, readOp, writeOp, inbuf, log, joined, received>>

(* async_read_until completes once the streambuf holds a line end; what    *)
(* came with it, further lines or a part of one, is there as well.         *)
ReadCompletes(s) ==
    /\ readOp[s] = "pending"
    /\ \E n \in 1..Len(unread[s]) :
        /\ HasLineEnd(SubSeq(unread[s], 1, n))
        /\ inbuf' = [inbuf EXCEPT ![s] = SubSeq(unread[s], 1, n)]
        /\ unread' = [unread EXCEPT ![s] = SubSeq(@, n + 1, Len(@))]
    /\ readOp' = [readOp EXCEPT ![s] = "ok"]
    /\ UNCHANGED <<state, clients, outgoing, writeOp, typed, log, joined, received>>

WriteCompletes(s) ==
    /\ writeOp[s] = "pending"
    /\ writeOp' = [writeOp EXCEPT ![s] = "ok"]
    /\ UNCHANGED <<state, clients, outgoing, readOp, unread, inbuf, typed, log, joined, received>>

\* The peer hangs up or the network fails: one of the operations sees it.
PeerFails(s) ==
    /\ \/ readOp[s] = "pending" /\ readOp' = [readOp EXCEPT ![s] = "err"] /\ UNCHANGED writeOp
       \/ writeOp[s] = "pending" /\ writeOp' = [writeOp EXCEPT ![s] = "err"] /\ UNCHANGED readOp
    /\ UNCHANGED <<state, clients, outgoing, unread, inbuf, typed, log, joined, received>>

Handlers(s) == OnRead(s) \/ OnReadError(s) \/ OnWrite(s) \/ OnWriteError(s)

Next ==
    \E s \in Sessions :
        \/ Accept(s) \/ Handlers(s)
        \/ Type(s) \/ ReadCompletes(s) \/ WriteCompletes(s) \/ PeerFails(s)

Spec == Init /\ [][Next]_vars

\* The io_context runs every handler whose operation has completed.  Peers owe
\* nothing: they may neither read nor write nor hang up.
FairSpec == Spec /\ \A s \in Sessions : WF_vars(Handlers(s))

-----------------------------------------------------------------------------
(* A client is never left with messages queued and no write under way, nor *)
(* has it a write under way without a message: post() and on_write() hand  *)
(* the duty to start a write to each other.                                *)
WriteDuty ==
    \A s \in clients : outgoing[s] # <<>> <=> writeOp[s] # "none"

(* Every client gets the welcome and then exactly the messages posted      *)
(* since it joined, in the order posted; so all clients see one order.     *)
SameOrder ==
    \A s \in clients :
        received[s] \o outgoing[s] = <<Welcome>> \o SubSeq(log, joined[s] + 1, Len(log))

\* Where the departure of s is announced.
Announced(s) == {i \in 1..Len(log) : log[i] = OneLess(s)}

(* A departure is announced once although both operations of the session   *)
(* report an error.                                                        *)
OneLessOnce ==
    \A s \in Sessions :
        IF state[s] = "new" \/ s \in clients
          THEN Announced(s) = {}
          ELSE \E i \in 1..Len(log) : Announced(s) = {i}

\* The messages of s posted after its departure was announced.
AfterLess(s) ==
    {i \in 1..Len(log) : /\ log[i].kind = "says" /\ log[i].of = s
                         /\ \E j \in 1..(i - 1) : log[j] = OneLess(s)}

(* A departed client can still be heard, but with one message at most: the *)
(* one whose read had completed when the write failed.                     *)
LastWords == \A s \in Sessions : \A i, j \in AfterLess(s) : i = j

(* What the others see of a departure, however many of the session's       *)
(* operations fail and in whatever order.                                  *)
Departure == OneLessOnce /\ LastWords

\* The text of s in the message m, and in all the messages of l.
TextOf(m, s) == IF m.kind = "says" /\ m.of = s THEN m.text ELSE <<>>

Said(l, s) ==
    LET text[i \in 0..Len(l)] == IF i = 0 THEN <<>> ELSE text[i - 1] \o TextOf(l[i], s)
    IN  text[Len(l)]

(* Nothing typed is lost, repeated or reordered on the way from the socket *)
(* through the streambuf to the posted messages, wherever reads end.       *)
TextKept ==
    \A s \in Sessions : Said(log, s) \o inbuf[s] \o unread[s] = [k \in 1..typed[s] |-> k]

UnitsOf(m, s) == Range(TextOf(m, s))

(* A line may be split, since on_read posts the beginning of the next line *)
(* too; but over two messages at most: a line that has a unit in one       *)
(* message of s is ended by the next message of s at the latest.           *)
SplitOnce ==
    \A s \in Sessions : \A i, j \in 1..Len(log) :
        i < j /\ UnitsOf(log[j], s) # {}
          => \A a \in UnitsOf(log[i], s) :
                \E e \in LineEnds, b \in UnitsOf(log[j], s) : a <= e /\ e <= b

(* What clients typed reaches the messages in full and in order, with a    *)
(* line broken at most once.                                               *)
LinesKept == TextKept /\ SplitOnce

(* A session whose socket is closed comes to rest: removed from the        *)
(* clients, no operation under way.                                        *)
ClosedRests ==
    \A s \in Sessions :
        state[s] = "closed" ~> (s \notin clients /\ readOp[s] = "none" /\ writeOp[s] = "none")
=============================================================================
