--------------------------- MODULE ResponseFilters --------------------------
(***************************************************************************)
(* The response decorators of httpserver/client_io_filter.hpp over the     *)
(* buffering ClientIO of asio_client.cc: AccountingFilter on top of the    *)
(* stack handle_connection builds,                                         *)
(*   add_reordering(add_chunking(add_conlen_controlling(&clientio))),      *)
(* during one request.  The caller keeps to the calls and counts that     *)
(* client.hpp asks for, but may send headers, the content length and the   *)
(* announcement of chunking before the status, which is what               *)
(* ReorderingFilter is there to put right.                                 *)
(*                                                                         *)
(* A response is a sequence of parts; every part counts as one byte.       *)
(***************************************************************************)
EXTENDS Integers, Sequences, SequencesExt

CONSTANTS
    Names,        \* header names
    MaxHeaders,   \* bound: calls of send_header
    MaxPieces,    \* bound: calls of send_body
    MaxReads,     \* bound: calls of recv_body
    SizeMod,      \* 2^w for the width w of size_t
    EINVAL

\* The parts that the filters and ClientIO generate themselves, and the body's.
OwnParts ==
    {"100", "status", "Content-Length", "Transfer-Encoding", "Date", "Connection", "end",
     "data", "size", "crlf", "last"}

ASSUME BoundsAssumption == MaxHeaders \in Nat /\ MaxPieces \in Nat /\ MaxReads \in Nat
ASSUME NamesAssumption == Names \cap OwnParts = {}
ASSUME SizeAssumption == SizeMod \in Nat \ {0} /\ EINVAL \in Nat \ {0}

VARIABLES
    \* ReorderingFilter, ChunkingFilter, ConLenControllingFilter
    phase, content_length, headers, chunking_enabled, action,
    \* AccountingFilter
    enabled, total_sent, total_received,
    \* ClientIO: the buffer, and what reached the socket
    tx, wire,
    \* the caller: the calls made so far
    stage,     \* "headers", "body", "done"
    continued, \* send_100_continue was called
    status,    \* "none", "content", "empty" (204 or 304)
    framing,   \* "none", "length", "chunked"
    given,     \* headers passed to send_header
    pieces,    \* body pieces passed to send_body
    reads,     \* calls of recv_body
    counted,   \* parts generated by calls made while accounting was enabled
    countedIn  \* parts received by such calls

filterVars == <<phase, content_length, headers, chunking_enabled, action>>
outVars == <<enabled, total_sent, tx, wire, counted>>
inVars == <<total_received, reads, countedIn>>
callVars == <<stage, continued, status, framing, given, pieces>>
vars == <<filterVars, outVars, inVars, callVars>>

\* What the constructors of the filters set.
ReorderingFilter == phase = "EARLY_HEADERS" /\ content_length = FALSE /\ headers = <<>>
ChunkingFilter == chunking_enabled = FALSE
ConLenControllingFilter == action = "UNKNOWN"
AccountingFilter == enabled = FALSE /\ total_sent = 0 /\ total_received = 0

Init ==
    /\ AccountingFilter /\ ReorderingFilter /\ ChunkingFilter /\ ConLenControllingFilter
    /\ tx = <<>> /\ wire = <<>> /\ counted = 0 /\ reads = 0 /\ countedIn = 0
    /\ stage = "headers" /\ continued = FALSE /\ status = "none" /\ framing = "none"
    /\ given = <<>> /\ pieces = <<>>

-----------------------------------------------------------------------------

\* Mutant: bytes are counted whether accounting is enabled or not.
Tally_Always(total, r) == (total + r) % SizeMod

\* AccountingFilter adds what the decoratee returned.
Tally(total, r) == IF enabled THEN (total + r) % SizeMod ELSE total

Account(parts, r) ==
    /\ total_sent' = Tally(total_sent, r)
    /\ counted' = IF enabled THEN counted + Len(parts) ELSE counted
    /\ UNCHANGED enabled

Buffered(parts, r) == tx' = tx \o parts /\ UNCHANGED wire /\ Account(parts, r)
Flushed(parts, r)  == wire' = wire \o tx \o parts /\ tx' = <<>> /\ Account(parts, r)
Written(parts)     == wire' = wire \o parts /\ UNCHANGED tx /\ Account(parts, Len(parts))

\* ConLenControllingFilter::send_content_length: its parts and its return value.
ConLenParts == IF action = "FORWARD" THEN <<"Content-Length">> ELSE <<>>
ConLenRet == IF action = "UNKNOWN" THEN -EINVAL ELSE Len(ConLenParts)

-----------------------------------------------------------------------------
SetAccount(e) ==
    /\ enabled # e /\ enabled' = e
    /\ UNCHANGED <<filterVars, total_sent, tx, wire, counted, callVars>>

Send100Continue ==
    /\ stage = "headers" /\ ~continued /\ status = "none" /\ given = <<>> /\ framing = "none"
    /\ continued' = TRUE
    /\ Flushed(<<"100">>, 1)
    /\ UNCHANGED <<filterVars, stage, status, framing, given, pieces>>

\* Mutant: 204 and 304 do not inhibit the content length.
ActionFor_Forward(s) == "FORWARD"

ActionFor(s) == IF s = "empty" THEN "INHIBIT" ELSE "FORWARD"

SendStatus(s) ==
    /\ stage = "headers" /\ status = "none"
    /\ status' = s
    /\ phase' = "STATUS_SEEN"
    /\ action' = ActionFor(s)
    /\ Buffered(<<"status">>, 1)
    /\ UNCHANGED <<content_length, headers, chunking_enabled, stage, continued, framing, given, pieces>>

\* ReorderingFilter keeps the header until complete_header.
SendHeader(h) ==
    /\ stage = "headers" /\ Len(given) < MaxHeaders
    /\ given' = Append(given, h)
    /\ headers' = Append(headers, h) /\ Buffered(<<>>, 0)
    /\ UNCHANGED <<phase, content_length, chunking_enabled, action, stage, continued,
                   status, framing, pieces>>

\* ReorderingFilter keeps it when it comes before the status.
SendContentLength ==
    /\ stage = "headers" /\ framing = "none"
    /\ framing' = "length"
    /\ IF phase = "EARLY_HEADERS"
         THEN content_length' = TRUE /\ Buffered(<<>>, 0)
         ELSE UNCHANGED content_length /\ Buffered(ConLenParts, ConLenRet)
    /\ UNCHANGED <<phase, headers, chunking_enabled, action, stage, continued, status, given, pieces>>

\* ChunkingFilter sends its header to its own decoratee, below ReorderingFilter.
SendChunkedTransferEncoding ==
    /\ stage = "headers" /\ framing = "none"
    /\ framing' = "chunked" /\ chunking_enabled' = TRUE
    /\ Buffered(<<"Transfer-Encoding">>, 1)
    /\ UNCHANGED <<phase, content_length, headers, action, stage, continued, status, given, pieces>>

(* ReorderingFilter sends what it kept, ClientIO adds its headers and the  *)
(* empty line and flushes.                                                 *)
CompleteHeader ==
    /\ stage = "headers" /\ status # "none"
    /\ stage' = "body"
    /\ phase' = "DATA"
    /\ headers' = <<>>
    /\ LET early == IF content_length THEN ConLenParts ELSE <<>>
           earlyRet == IF content_length THEN ConLenRet ELSE 0
       IN  Flushed(early \o headers \o <<"Date", "Connection", "end">>,
                   earlyRet + Len(headers) + 3)
    /\ UNCHANGED <<content_length, chunking_enabled, action, continued, status, framing, given, pieces>>

(* send_body writes past the buffer.  A chunk is its size, the data and an *)
(* end of line; for no data these are the bytes of the last chunk.         *)
SendBody(p) ==
    /\ stage = "body" /\ status = "content" /\ Len(pieces) < MaxPieces
    /\ pieces' = Append(pieces, p)
    /\ Written(IF ~chunking_enabled THEN IF p = "empty" THEN <<>> ELSE <<p>>
               ELSE IF p = "empty" THEN <<"last">> ELSE <<"size", p, "crlf">>)
    /\ UNCHANGED <<filterVars, stage, continued, status, framing, given>>

CompleteRequest ==
    /\ stage = "body" /\ stage' = "done"
    /\ Written(IF chunking_enabled THEN <<"last">> ELSE <<>>)
    /\ UNCHANGED <<filterVars, continued, status, framing, given, pieces>>

\* recv_body, which delivers n parts; no filter but AccountingFilter looks at it.
RecvBody(n) ==
    /\ stage # "done" /\ reads < MaxReads
    /\ reads' = reads + 1
    /\ total_received' = Tally(total_received, n)
    /\ countedIn' = IF enabled THEN countedIn + n ELSE countedIn
    /\ UNCHANGED <<filterVars, outVars, callVars>>

\* flush(), "in any moment"; the filters only pass it on.
Flush ==
    /\ stage # "done"
    /\ wire' = wire \o tx /\ tx' = <<>>
    /\ UNCHANGED <<filterVars, enabled, total_sent, counted, callVars>>

Done == stage = "done" /\ UNCHANGED vars

(* The calls of a RestfulClient that make up the response.  The order its  *)
(* comment prescribes is in their guards, but headers, content length and  *)
(* chunking may come before the status.                                    *)
Calls ==
    \/ Send100Continue \/ SendContentLength \/ SendChunkedTransferEncoding
    \/ CompleteHeader \/ CompleteRequest \/ Flush
    \/ \E e \in BOOLEAN : SetAccount(e)
    \/ \E s \in {"content", "empty"} : SendStatus(s)
    \/ \E h \in Names : SendHeader(h)
    \/ \E p \in {"data", "empty"} : SendBody(p)

Next ==
    \/ Calls /\ UNCHANGED inVars
    \/ \E n \in {0, 1, SizeMod - 1} : RecvBody(n)
    \/ Done

Spec == Init /\ [][Next]_vars

-----------------------------------------------------------------------------
\* The parts sent so far, those still in the buffer included.
Sent == wire \o tx

\* How often x is in the sequence s: not at all, or exactly once.
Never(s, x) == \A i \in 1..Len(s) : s[i] # x
Once(s, x) == \E i \in 1..Len(s) : \A j \in 1..Len(s) : s[j] = x <=> j = i

(* However the caller mixed the calls, the first part of the response      *)
(* after an interim "100 Continue" is the status: what ReorderingFilter    *)
(* "rectifies".  The one exception is an announcement of chunking before   *)
(* the status, which ChunkingFilter sends past ReorderingFilter.           *)
StatusFirst ==
    \A i \in 1..Len(Sent) :
        Sent[i] # "100" /\ (\A j \in 1..(i - 1) : Sent[j] = "100")
            => Sent[i] = "status" \/ (chunking_enabled /\ Sent[i] = "Transfer-Encoding")

(* Every header given, early or not, is in the completed header exactly    *)
(* once and in the order given, and so is a content length, unless the     *)
(* status is 204 or 304: then it is not there.                             *)
HeadersKept ==
    stage # "headers" =>
        /\ \E k \in 0..(Len(wire) - Len(given)) :
             /\ \A i \in 1..Len(given) : wire[k + i] = given[i]
             /\ \A i \in 1..Len(wire) : wire[i] \in Names => i \in (k + 1)..(k + Len(given))
        /\ IF framing = "length" /\ status = "content" THEN Once(wire, "Content-Length")
                                                       ELSE Never(wire, "Content-Length")

(* When the response is complete nothing of it is left in the buffer, and  *)
(* no part of the body overtook the header although send_body bypasses the *)
(* buffer.                                                                 *)
HeaderBeforeBody ==
    stage # "headers" =>
        /\ tx = <<>>
        /\ \A i, j \in 1..Len(wire) : wire[i] = "end" /\ wire[j] \in {"data", "size", "last"} => i < j

(* A chunked body is terminated by its last chunk and, unless the caller   *)
(* sends an empty piece, by nothing before it.                             *)
ChunkedEnd ==
    stage = "done" /\ framing = "chunked" =>
        /\ wire # <<>> /\ wire[Len(wire)] = "last"
        /\ "empty" \in ToSet(pieces) \/ Once(wire, "last")

(* However the caller mixed the calls, a client can make sense of the      *)
(* response: status, headers, body and end come in their order and once.   *)
WellFormed == StatusFirst /\ HeadersKept /\ HeaderBeforeBody /\ ChunkedEnd

(* AccountingFilter counts exactly the bytes generated by the calls made   *)
(* while it was enabled, those generated late by ReorderingFilter          *)
(* included, and the bytes recv_body delivered meanwhile.                  *)
Accounted == total_sent = counted % SizeMod /\ total_received = countedIn % SizeMod
=============================================================================
