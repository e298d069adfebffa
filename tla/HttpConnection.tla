--------------------------- MODULE HttpConnection ---------------------------
(***************************************************************************)
(* One connection of the HTTP server: handle_connection of                 *)
(* asio_frontend.cc with StreamIO, the response buffer of asio_client.cc   *)
(* and client.hpp, and the request processing of process.cc, against a     *)
(* client that pipelines requests, stalls, hangs up or resets, and a       *)
(* stop() that closes the socket at any moment.                            *)
(*                                                                         *)
(* The request stream is a sequence of items: a header (a request record)  *)
(* or a unit of body.  The Beast parser is external: it delivers a header, *)
(* then the body units the header announces, from the parse buffer first.  *)
(***************************************************************************)
EXTENDS Integers, Sequences, SequencesExt, FiniteSetsExt

CONSTANTS
    MaxReqs, \* bound: requests the client sends
    IntMax   \* the largest int, counted in body units

ASSUME MaxReqsAssumption == MaxReqs \in Nat
ASSUME IntMaxAssumption == IntMax \in Nat \ {0}

(* A request as far as the code tells requests apart.  method: "put" is    *)
(* PUT or POST, "other" anything else.  framing: the body is announced by  *)
(* Content-Length ("length"), by chunked encoding, or not at all ("none"). *)
(* Only a Content-Length is converted to int, so only there the size       *)
(* matters beyond being zero or not.  BadHeader is one the parser rejects. *)
Requests ==
    {r \in [method : {"put", "other"}, framing : {"length", "chunked", "none"},
            size : 0..(IntMax + 1), keep : BOOLEAN] :
        /\ r.framing = "none" => r.size = 0
        /\ r.size <= 1 \/ (r.method = "put" /\ r.framing = "length")}

BadHeader == [method |-> "bad", framing |-> "none", size |-> 0, keep |-> FALSE]
Body == [method |-> "body", framing |-> "none", size |-> 0, keep |-> FALSE]
NoReq == [method |-> "none", framing |-> "none", size |-> 0, keep |-> FALSE]

VARIABLES
    pc,      \* where the coroutine is
    sock,    \* "open", "shut", "closed"
    req,     \* the message in the parser
    left,    \* body units the parser still expects (0: parser.is_done())
    room,    \* body_remaining.size: room left in the caller's buffer
    nbuf,    \* how many items of inq are already in the parse buffer
    tx,      \* ClientIO::txbuf: response parts not yet written
    resp,    \* response parts written for the current request
    client,  \* "up", "fin" (closed its side), "rst" (gone)
    inq,     \* items sent by the client and not consumed by the parser
    sending, \* body units of its last request the client has still to send
    nreq     \* requests sent so far

serverVars == <<pc, req, left, room, nbuf, tx, resp>>
clientVars == <<client, inq, sending, nreq>>
vars == <<serverVars, sock, clientVars>>

Running == {"loop", "bad", "got", "process", "alloc", "recv", "reply", "after", "discard"}
Waiting == {"loop_wait", "bad_wait", "cont_wait", "recv_wait", "reply_wait", "discard_wait"}
Failed  == {"returning", "throwing"}
Over    == {"returned", "threw"}

Init ==
    /\ pc = "loop" /\ sock = "open" /\ req = NoReq /\ left = 0 /\ room = 0
    /\ nbuf = 0 /\ tx = <<>> /\ resp = <<>>
    /\ client = "up" /\ inq = <<>> /\ sending = 0 /\ nreq = 0

-----------------------------------------------------------------------------
(* The client, and stop() in the main thread.                              *)

ClientRequest(r) ==
    /\ client = "up" /\ sending = 0 /\ nreq < MaxReqs
    /\ inq' = Append(inq, r) /\ sending' = r.size /\ nreq' = nreq + 1
    /\ UNCHANGED <<client, serverVars, sock>>

ClientBody ==
    /\ client = "up" /\ sending > 0
    /\ inq' = Append(inq, Body) /\ sending' = sending - 1
    /\ UNCHANGED <<client, nreq, serverVars, sock>>

ClientGone ==
    /\ client = "up" /\ client' \in {"fin", "rst"}
    /\ UNCHANGED <<inq, sending, nreq, serverVars, sock>>

StopCloses ==
    /\ sock # "closed" /\ pc \notin Over
    /\ sock' = "closed"
    /\ UNCHANGED <<serverVars, clientVars>>

-----------------------------------------------------------------------------
(* Reading.  While the parser needs input and the parse buffer is empty,   *)
(* the operation reads from the socket.                                    *)

Fill ==
    /\ pc \in {"loop_wait", "recv_wait", "discard_wait"}
    /\ nbuf = 0 /\ inq # <<>> /\ sock = "open" /\ client # "rst"
    /\ nbuf' \in 1..Len(inq)
    /\ UNCHANGED <<pc, req, left, room, tx, resp, sock, clientVars>>

\* What a read that cannot be satisfied ends with.
ReadError ==
    CASE sock # "open"                    -> "aborted"
      [] sock = "open" /\ client = "rst"  -> "reset"
      [] sock = "open" /\ client = "fin" /\ inq = <<>> -> "eof"
      [] OTHER                            -> "none"

\* The parser takes k items from the parse buffer.
Consume(k) ==
    /\ inq' = SubSeq(inq, k + 1, Len(inq)) /\ nbuf' = nbuf - k
    /\ UNCHANGED <<client, sending, nreq>>

\* A read of the body delivers k units to the buffer of the caller.
BodyUnits(k) ==
    /\ nbuf > 0 /\ k \in 1..Min({nbuf, left, room})
    /\ Consume(k)
    /\ left' = left - k /\ room' = room - k

(* A write completes.  Once the peer is gone it may still be accepted.     *)
WriteOk == sock = "open"
WriteFails == sock # "open" \/ client # "up"

\* write_data: an error is thrown, after a shutdown if it is broken_pipe.
WriteData(next) ==
    \/ WriteOk /\ resp' = resp \o tx /\ pc' = next /\ UNCHANGED sock
    \/ /\ WriteFails /\ UNCHANGED resp /\ pc' = "throwing"
       /\ sock' \in IF sock = "open" THEN {"open", "shut"} ELSE {sock}

-----------------------------------------------------------------------------
(* handle_connection: the loop over requests.                              *)

LoopHead ==
    /\ pc = "loop" /\ pc' = "loop_wait"
    /\ UNCHANGED <<req, left, room, nbuf, tx, resp, sock, clientVars>>

\* A new StreamIO, with an empty txbuf.
NewClientIO == tx' = <<>> /\ resp' = <<>>

\* async_read_header delivers a header; a new parser and a new ClientIO.
HeaderRead ==
    /\ pc = "loop_wait" /\ nbuf > 0
    /\ Consume(1)
    /\ req' = Head(inq) /\ left' = Head(inq).size /\ room' = 0
    /\ NewClientIO
    /\ pc' = IF Head(inq) \in Requests THEN "got" ELSE "bad"
    /\ UNCHANGED sock

\* Mutant: operation_aborted is not among them.
EndErrors_NotAborted == {"reset", "eof"}

\* connection_reset, bad_descriptor or operation_aborted, end_of_stream
EndErrors == {"reset", "aborted", "eof"}

\* These errors end the connection without a response.
HeaderEnd ==
    /\ pc = "loop_wait" /\ nbuf = 0 /\ ReadError \in EndErrors
    /\ pc' = "returning"
    /\ UNCHANGED <<req, left, room, nbuf, tx, resp, sock, clientVars>>

\* Any other error, as when the stream ends inside a header: 400 Bad Request.
HeaderOtherError ==
    /\ pc = "loop_wait" /\ nbuf = 0 /\ ReadError \in {"reset", "eof"}
    /\ req' = BadHeader /\ pc' = "bad" /\ resp' = <<>>
    /\ UNCHANGED <<left, room, nbuf, tx, sock, clientVars>>

BadRequest ==
    /\ pc = "bad" /\ pc' = "bad_wait"
    /\ UNCHANGED <<req, left, room, nbuf, tx, resp, sock, clientVars>>

\* The result of writing the 400 is only logged; handle_connection returns.
BadRequestWritten ==
    /\ pc = "bad_wait" /\ pc' = "returning"
    /\ \/ WriteOk /\ resp' = Append(resp, "400")
       \/ WriteFails /\ UNCHANGED resp
    /\ UNCHANGED <<req, left, room, nbuf, tx, sock, clientVars>>

\* socket.local_endpoint() throws when stop() has closed the socket.
LocalEndpoint ==
    /\ pc = "got"
    /\ pc' = IF sock = "closed" THEN "threw" ELSE "process"
    /\ UNCHANGED <<req, left, room, nbuf, tx, resp, sock, clientVars>>

(* process(): a PUT or POST goes to putobj, whose first act is to write    *)
(* "100 Continue"; GET and HEAD return at once, and the 400 noted for any  *)
(* other method is overwritten by 0.  http_ret is never negative.          *)
Process ==
    /\ pc = "process"
    /\ IF req.method = "put" THEN pc' = "cont_wait" /\ tx' = <<"100">>
                             ELSE pc' = "after" /\ UNCHANGED tx
    /\ UNCHANGED <<req, left, room, nbuf, resp, sock, clientVars>>

\* Mutant: no shutdown.
ShutdownBoth_Not(s) == s

\* s.shutdown(shutdown_both, ec) in the coroutine, after handle_connection
ShutdownBoth(s) == IF s = "open" THEN "shut" ELSE s

\* keep_alive() decides between returning and skipping the unread body.
AfterProcess ==
    /\ pc = "after"
    /\ IF req.keep THEN pc' = "discard" /\ UNCHANGED sock
                   ELSE pc' = "returned" /\ sock' = ShutdownBoth(sock)
    /\ UNCHANGED <<req, left, room, nbuf, tx, resp, clientVars>>

\* Mutant: the unread body is not skipped.
IsDone_Assumed == TRUE

\* parser.is_done()
IsDone == left = 0

Discard ==
    /\ pc = "discard"
    /\ IF IsDone THEN pc' = "loop" /\ room' = 0 ELSE pc' = "discard_wait" /\ room' = left
    /\ UNCHANGED <<req, left, nbuf, tx, resp, sock, clientVars>>

Discarded(k) ==
    /\ pc = "discard_wait" /\ pc' = "discard"
    /\ BodyUnits(k)
    /\ UNCHANGED <<req, tx, resp, sock>>

\* Mutant: the failure is thrown.
AfterDiscardError_Throws == "throwing"

\* handle_connection returns
AfterDiscardError == "returning"

DiscardFails ==
    /\ pc = "discard_wait" /\ nbuf = 0 /\ ReadError # "none"
    /\ pc' = AfterDiscardError
    /\ UNCHANGED <<req, left, room, nbuf, tx, resp, sock, clientVars>>

-----------------------------------------------------------------------------
(* putobj.                                                                 *)

ContinueWritten ==
    /\ pc = "cont_wait" /\ tx' = <<>>
    /\ WriteData("alloc")
    /\ UNCHANGED <<req, left, room, nbuf, clientVars>>

(* init_env keeps the headers and the request line as variables, of which  *)
(* the code only reads CONTENT_LENGTH back.                                *)
InitEnv(r) == [v \in {n \in {"CONTENT_LENGTH"} : r.framing = "length"} |-> r.size]

\* get_val, has_value
HasVal(r, name) == name \in DOMAIN InitEnv(r)

(* Without Content-Length: return 400, nothing sent.  std::stoi throws     *)
(* above the range of int; at its end need_len + 1 overflows, and new[]    *)
(* throws or not, as the compiler had it.                                  *)
Alloc ==
    /\ pc = "alloc"
    /\ \/ ~HasVal(req, "CONTENT_LENGTH") /\ pc' = "after" /\ UNCHANGED room
       \/ /\ HasVal(req, "CONTENT_LENGTH")
          /\ LET conlen == InitEnv(req)["CONTENT_LENGTH"] IN
              \/ conlen <= IntMax /\ pc' = "recv" /\ room' = conlen
              \/ conlen >= IntMax /\ pc' = "threw" /\ UNCHANGED room
    /\ UNCHANGED <<req, left, nbuf, tx, resp, sock, clientVars>>

\* The loop of recv_body; then the response is put together in txbuf.
RecvBody ==
    /\ pc = "recv"
    /\ IF room > 0 /\ left > 0 THEN pc' = "recv_wait" ELSE pc' = "reply"
    /\ UNCHANGED <<req, left, room, nbuf, tx, resp, sock, clientVars>>

\* Mutants: recv_body reads once only; or reads again without testing is_done().
AfterPiece_Once == "reply"
AfterPiece_NoTest == "recv_wait"

\* Back to the loop's condition.
AfterPiece == "recv"

BodyRead(k) ==
    /\ pc = "recv_wait" /\ pc' = AfterPiece
    /\ BodyUnits(k)
    /\ UNCHANGED <<req, tx, resp, sock>>

BodyFails ==
    /\ pc = "recv_wait" /\ nbuf = 0 /\ ReadError # "none"
    /\ pc' = "throwing"
    /\ UNCHANGED <<req, left, room, nbuf, tx, resp, sock, clientVars>>

\* What ClientIO puts into txbuf for send_status, send_header and complete_header.
OkParts == <<"200", "Content-Length", "Date", "Connection", "end">>

\* The answer of putobj; complete_header flushes, complete_request does nothing.
Reply ==
    /\ pc = "reply" /\ pc' = "reply_wait"
    /\ tx' = tx \o OkParts
    /\ UNCHANGED <<req, left, room, nbuf, resp, sock, clientVars>>

ReplyWritten ==
    /\ pc = "reply_wait" /\ tx' = <<>>
    /\ WriteData("after")
    /\ UNCHANGED <<req, left, room, nbuf, clientVars>>

-----------------------------------------------------------------------------
(* The ends: return (then shutdown_both), or an exception to the pool.     *)

Return ==
    /\ pc = "returning" /\ pc' = "returned"
    /\ sock' = ShutdownBoth(sock)
    /\ UNCHANGED <<req, left, room, nbuf, tx, resp, clientVars>>

Throw ==
    /\ pc = "throwing" /\ pc' = "threw"
    /\ UNCHANGED <<req, left, room, nbuf, tx, resp, sock, clientVars>>

Ended == pc \in Over /\ UNCHANGED vars

Connection ==
    \/ LoopHead \/ HeaderRead \/ HeaderEnd \/ HeaderOtherError \/ BadRequest
    \/ BadRequestWritten \/ LocalEndpoint \/ Process \/ AfterProcess \/ Discard
    \/ DiscardFails \/ ContinueWritten \/ Alloc \/ RecvBody \/ BodyFails
    \/ Reply \/ ReplyWritten \/ Return \/ Throw \/ Fill
    \/ \E k \in 1..(IntMax + 1) : Discarded(k) \/ BodyRead(k)

Client ==
    \/ \E r \in Requests \cup {BadHeader} : ClientRequest(r)
    \/ ClientBody \/ ClientGone

Next == Connection \/ Client \/ StopCloses \/ Ended

Spec == Init /\ [][Next]_vars

\* The coroutine goes on whenever it can; client and stop() owe nothing.
FairSpec == Spec /\ WF_vars(Connection)

-----------------------------------------------------------------------------
(* Requests stay framed: when the next header is read, the body of the     *)
(* request before it has been consumed to the last unit, whichever way the *)
(* request was processed, and what follows in the stream is a header.      *)
Framed ==
    pc \in {"loop", "loop_wait"} => left = 0 /\ (inq # <<>> => Head(inq) # Body)

(* "200 OK" is only written once the whole body has been received.         *)
OkAfterBody == Contains(resp, "200") => left = 0 /\ room = 0

(* An exception, which takes the whole server down, has its cause in a PUT *)
(* or POST or in stop(): clients that only send other requests, complete   *)
(* or broken, cannot cause one.                                            *)
AbortCause == pc = "threw" => req.method = "put" \/ sock = "closed"

(* The call order client.hpp prescribes: "send_status() - exactly once"    *)
(* for every request that handle_connection reads and has done with.       *)
StatusExactlyOnce ==
    pc = "loop" /\ req # NoReq => Len(SelectSeq(resp, LAMBDA x : x \in {"200", "400"})) = 1

(* Once the peer is gone or stop() has closed the socket, the coroutine    *)
(* comes to an end.                                                        *)
ConnectionEnds == (sock = "closed" \/ client # "up") ~> pc \in Over

(* A PUT whose body the client has sent to the end is answered, unless     *)
(* the connection ends.                                                    *)
PutAnswered ==
    (pc \in {"recv", "recv_wait"} /\ sending = 0) ~> (Contains(resp, "200") \/ pc \in Over)

\* handle_connection as the rest of the server sees it.
Life ==
    CASE pc \in Running -> "running" [] pc \in Waiting -> "waiting"
      [] pc \in Failed -> "failed" [] pc = "returned" -> "leaving" [] pc = "threw" -> "aborted"

Abstract == INSTANCE Session WITH life <- Life, s <- sock

(* handle_connection implements what module Frontend assumes of it: it     *)
(* starts no operation after a fatal error, leaves the socket shut down,   *)
(* and does not survive its socket for ever.                               *)
ImplementsSession == Abstract!Spec
=============================================================================
