-------------------------------- MODULE Echo --------------------------------
(***************************************************************************)
(* A session of the echo server boost_cpp/test_spawn.cc: two coroutines on *)
(* one strand, one that echoes and sets a timer for every round, one that  *)
(* waits for the timer and closes the socket when it has expired.          *)
(*                                                                         *)
(* An operation completes some time before its handler runs; what has      *)
(* completed is not taken back when the timer is set anew or the socket    *)
(* is closed.  Sockets and timers of Boost.Asio are external.              *)
(***************************************************************************)
EXTENDS Naturals

CONSTANT Timeout \* the ten seconds, in ticks

ASSUME TimeoutAssumption == Timeout \in Nat \ {0}

VARIABLES
    echo,   \* first coroutine: "none", "reading", "writing", "ended"
    op,     \* its read or write: "none", "pending", "ok", "err"
    watch,  \* second coroutine: "none", "waiting", "ended"
    wait,   \* its async_wait: "none", "pending", "done"
    left,   \* ticks until timer_ expires
    conn    \* socket_: "open", "closed"

echoVars == <<echo, op, watch, wait, left, conn>>

EchoInit ==
    /\ echo = "none" /\ op = "none" /\ watch = "none" /\ wait = "none"
    /\ left = 0 /\ conn = "open"

-----------------------------------------------------------------------------
\* timer_.cancel(), also by expires_from_now: the wait ends with an error, which is ignored.
Cancelled(w) == IF w = "pending" THEN "done" ELSE w

\* socket_.close()
Abort(o) == IF o = "pending" THEN "err" ELSE o

\* An operation on socket_ fails at once when it is closed.
Begun == IF conn = "open" THEN "pending" ELSE "err"

(* go() spawns both coroutines; a strand runs what it is given in order,   *)
(* so the first comes to its first read before the second starts, and goes *)
(* on after that.                                                          *)
StartRead ==
    /\ echo' = "reading" /\ op' = Begun
    /\ left' = Timeout /\ wait' = Cancelled(wait)
    /\ UNCHANGED <<watch, conn>>

StartEcho == echo = "none" /\ StartRead

EchoRead ==
    /\ watch # "none" /\ echo = "reading" /\ op = "ok"
    /\ echo' = "writing" /\ op' = Begun
    /\ UNCHANGED <<watch, wait, left, conn>>

EchoWritten == echo = "writing" /\ op = "ok" /\ StartRead

\* catch: close and cancel
EchoFails ==
    /\ watch # "none" /\ op = "err"
    /\ echo' = "ended" /\ op' = "none" /\ conn' = "closed" /\ wait' = Cancelled(wait)
    /\ UNCHANGED <<watch, left>>

-----------------------------------------------------------------------------
\* Mutant: the second coroutine waits only once.
StillWatches_Never(c) == FALSE

\* while (socket_.is_open())
StillWatches(c) == c = "open"

StartWatch ==
    /\ echo # "none" /\ watch = "none"
    /\ watch' = "waiting" /\ wait' = "pending"
    /\ UNCHANGED <<echo, op, left, conn>>

\* The wait is over, for whatever reason: only the expiry time counts.
WatchWakes ==
    /\ watch = "waiting" /\ wait = "done"
    /\ IF left = 0 THEN conn' = "closed" /\ op' = Abort(op) ELSE UNCHANGED <<conn, op>>
    /\ IF StillWatches(conn') THEN wait' = "pending" /\ UNCHANGED watch
       ELSE wait' = "none" /\ watch' = "ended"
    /\ UNCHANGED <<echo, left>>

-----------------------------------------------------------------------------
Tick == left > 0 /\ left' = left - 1 /\ UNCHANGED <<echo, op, watch, wait, conn>>

TimerExpires ==
    /\ wait = "pending" /\ left = 0 /\ wait' = "done"
    /\ UNCHANGED <<echo, op, watch, left, conn>>

\* The peer sends, takes what was sent, or is gone.
OperationEnds ==
    /\ op = "pending" /\ op' \in {"ok", "err"}
    /\ UNCHANGED <<echo, watch, wait, left, conn>>

\* What happens whatever the peer does.
EchoSteps == StartEcho \/ EchoRead \/ EchoWritten \/ EchoFails
WatchSteps == StartWatch \/ WatchWakes
Clock == Tick \/ TimerExpires

EchoNext == EchoSteps \/ WatchSteps \/ Clock \/ OperationEnds

-----------------------------------------------------------------------------
(* A session ends, both coroutines of it, unless its peer completes reads  *)
(* and writes for ever: a peer that stalls is given up however the expiry  *)
(* of the timer, its renewal and the completion of a read follow each      *)
(* other.                                                                  *)
QuietSessionEnds ==
    []<>(echo = "none" \/ op = "ok" \/ (echo = "ended" /\ watch = "ended"))
=============================================================================
