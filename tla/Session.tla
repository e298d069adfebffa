------------------------------ MODULE Session -------------------------------
(***************************************************************************)
(* What the server relies on about handle_connection, whatever the peer    *)
(* sends: the part of module Frontend that is about one coroutine between  *)
(* connections.add and ~Guard, as a specification of its own.              *)
(***************************************************************************)
VARIABLES
    life, \* "running", "waiting", "failed", "leaving", or "aborted" (threw)
    s     \* the socket: "open", "shut" or "closed"

Init == life = "running" /\ s = "open"

Await == life = "running" /\ life' = "waiting" /\ UNCHANGED s

\* An operation ends and the coroutine goes on.
ResumeOk == life = "waiting" /\ life' = "running" /\ UNCHANGED s

\* An operation fails, the socket being shut down if it was a write on a
\* broken pipe; the coroutine starts no other operation.
ResumeErr ==
    /\ life = "waiting" /\ life' = "failed"
    /\ UNCHANGED s \/ (s = "open" /\ s' = "shut")

Return ==
    /\ life \in {"running", "failed"} /\ life' = "leaving"
    /\ s' = IF s = "open" THEN "shut" ELSE s

Throw == life \in {"running", "failed"} /\ life' = "aborted" /\ UNCHANGED s

\* ConnectionList::close closes the socket from the main thread.
StopCloses == life # "aborted" /\ s' = "closed" /\ UNCHANGED life

Next == Await \/ ResumeOk \/ ResumeErr \/ Return \/ Throw \/ StopCloses

\* A coroutine on a thread keeps going; one whose socket is closed is not
\* suspended again and again for ever.
Fairness ==
    /\ WF_<<life, s>>(Await \/ Return \/ Throw)
    /\ SF_<<life, s>>(s = "closed" /\ ResumeErr)

Spec == Init /\ [][Next]_<<life, s>> /\ Fairness
=============================================================================
