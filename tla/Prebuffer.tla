----------------------------- MODULE Prebuffer ------------------------------
(***************************************************************************)
(* prebuffer of boost_cpp/stream: a std::streambuf over a file descriptor, *)
(* used as teststream.cc does, for output through a std::ostream or for    *)
(* input through a std::istream.  Pointers are indices into `buffer`.      *)
(*                                                                         *)
(* Characters are numbered in the order in which they are put, or in which *)
(* the file holds them.  What the standard's classes do with the streambuf *)
(* (sputc, sgetc, sungetc, badbit) is external.                            *)
(***************************************************************************)
EXTENDS Integers, Sequences, SequencesExt, FiniteSetsExt

CONSTANTS
    BufSize,   \* s_buf_size
    PbackSize, \* s_pback_size
    MaxChars   \* bound: characters put, or in the file that is read

ASSUME BufferAssumption ==
    BufSize \in Nat /\ PbackSize \in Nat \ {0} /\ PbackSize < BufSize /\ MaxChars \in Nat

VARIABLES
    m_filedes,          \* -1 when not open
    m_out,              \* m_mode & std::ios::out
    buffer,             \* buffer[i], 0 where nothing was ever stored
    pptr,
    eback, gptr, egptr,
    \* the program
    use,                \* "out" or "in", what it passed as om
    bad,                \* the ostream's badbit
    \* the file
    file,               \* characters written
    pos,                \* characters read
    \* history
    put,                \* characters that were stored in the buffer
    short,              \* some write() was short
    clobbered           \* the put-back area was overwritten while in use

getVars == <<eback, gptr, egptr, pos, clobbered>>
putVars == <<pptr, bad, file, put, short>>
streamVars == <<m_filedes, m_out, buffer, use, getVars, putVars>>

IsOpen == m_filedes >= 0

(* init() with any descriptor, that of a failed open() included: m_mode is *)
(* left uninitialized unless the descriptor is positive.                   *)
StreamInit ==
    /\ use \in {"in", "out"} /\ m_filedes \in {-1, 0, 1}
    /\ m_out \in IF m_filedes > 0 THEN {use = "out"} ELSE BOOLEAN
    /\ buffer = [i \in 0..(BufSize - 1) |-> 0]
    /\ pptr = 0 /\ eback = PbackSize /\ gptr = PbackSize /\ egptr = PbackSize
    /\ bad = FALSE /\ file = <<>> /\ pos = 0
    /\ put = 0 /\ short = FALSE /\ clobbered = FALSE

-----------------------------------------------------------------------------
(* Output.                                                                 *)

\* The put area of buf when p characters are in it; beyond the buffer, who knows.
Pending(buf, p) == [i \in 1..p |-> IF i <= BufSize THEN buf[i - 1] ELSE 0]

(* flushoutput(), of a buffer that holds p characters: what it does, and   *)
(* whether it returns EOF.  write() fails or takes n of them; pbump(-num)  *)
(* drops them all.                                                         *)
FlushOutput(buf, p, eof) ==
    \/ eof /\ pptr' = p /\ UNCHANGED <<file, short>>
    \/ /\ ~eof /\ m_out /\ IsOpen /\ pptr' = 0
       /\ \E n \in 0..p : /\ file' = file \o SubSeq(Pending(buf, p), 1, n)
                          /\ short' = (short \/ n < p)

\* Mutant: no room is kept for the character overflow() adds.
Epptr_End == BufSize

\* setp(buffer, buffer + s_buf_size - 1)
Epptr == BufSize - 1

\* *pptr() = c, which beyond the buffer is lost
Stored(buf, p, c) == IF p < BufSize THEN [buf EXCEPT ![p] = c] ELSE buf

(* overflow(c), c not being EOF: after a failed flush the character stays  *)
(* in the buffer, and the ostream sets badbit.                             *)
Overflow(c) ==
    IF ~m_out \/ ~IsOpen THEN bad' = TRUE /\ UNCHANGED <<buffer, pptr, file, put, short>>
    ELSE /\ buffer' = Stored(buffer, pptr, c) /\ put' = c
         /\ \E eof \in BOOLEAN : FlushOutput(buffer', pptr + 1, eof) /\ bad' = eof

\* The ostream puts a character, unless it is bad: sputc.
Put ==
    /\ use = "out" /\ ~bad /\ put < MaxChars
    /\ IF pptr < Epptr
         THEN /\ buffer' = Stored(buffer, pptr, put + 1) /\ pptr' = pptr + 1
              /\ put' = put + 1 /\ UNCHANGED <<bad, file, short>>
         ELSE Overflow(put + 1)
    /\ UNCHANGED <<m_filedes, m_out, use, getVars>>

\* sync() called by the program, which may ignore the result.
Sync ==
    /\ \E eof \in BOOLEAN : FlushOutput(buffer, pptr, eof)
    /\ UNCHANGED <<m_filedes, m_out, buffer, use, getVars, bad, put>>

\* close(), also from the destructor: the result of sync() is ignored.
Close ==
    /\ IsOpen
    /\ \E eof \in BOOLEAN : FlushOutput(buffer, pptr, eof)
    /\ m_filedes' = -1 /\ m_out' = FALSE
    /\ UNCHANGED <<buffer, use, getVars, bad, put>>

-----------------------------------------------------------------------------
(* Input.                                                                  *)

\* memcpy of n characters to `dst` from `src`, from the low end up or from the high
\* end down: the same unless the areas overlap, and then memcpy may do either.
CopyUp(buf, dst, src, n) ==
    [i \in DOMAIN buf |-> IF i \in dst..(dst + n - 1) THEN buf[i + src - dst] ELSE buf[i]]

CopyDown(buf, dst, src, n) ==
    LET s == src - dst
        from(i) == IF s = 0 THEN i ELSE i + s * (1 + (dst + n - 1 - i) \div s)
    IN  [i \in DOMAIN buf |-> IF i \in dst..(dst + n - 1) THEN buf[from(i)] ELSE buf[i]]

\* Mutant: the put-back area is taken to be full.
NewEback_Full(n) == 0

\* setg(buffer + s_pback_size - num_putback, ...)
NewEback(n) == PbackSize - n

(* underflow() of an empty get area: keep the last characters for          *)
(* put-back, then read() the next ones, or get none.  When read() fails,   *)
(* the get area stays as it was, with the copy made into it.               *)
Underflow ==
    /\ use = "in" /\ gptr = egptr
    /\ LET n == Min({gptr - eback, PbackSize})
           dst == PbackSize - n
           src == gptr - n
           up == CopyUp(buffer, dst, src, n)
           down == CopyDown(buffer, dst, src, n)
           moved == n > 0 /\ src # dst
       IN  \E copy \in {up, down} :
            \/ /\ buffer' = copy /\ UNCHANGED <<eback, gptr, egptr, pos>>
               /\ clobbered' = (clobbered \/ copy # up \/ (moved /\ eback < PbackSize))
            \/ /\ IsOpen
               /\ \E num \in 1..Min({BufSize - PbackSize, MaxChars - pos}) :
                    /\ buffer' = [i \in DOMAIN buffer |->
                                    IF i \in PbackSize..(PbackSize + num - 1)
                                      THEN pos + 1 + i - PbackSize ELSE copy[i]]
                    /\ pos' = pos + num
                    /\ egptr' = PbackSize + num
               /\ eback' = NewEback(n) /\ gptr' = PbackSize
               /\ clobbered' = (clobbered \/ copy # up)
    /\ UNCHANGED <<m_filedes, m_out, use, putVars>>

\* sbumpc, with a character in the get area
Get ==
    /\ use = "in" /\ gptr < egptr /\ gptr' = gptr + 1
    /\ UNCHANGED <<m_filedes, m_out, buffer, use, putVars, eback, egptr, pos, clobbered>>

\* sungetc
Unget ==
    /\ use = "in" /\ eback < gptr /\ gptr' = gptr - 1
    /\ UNCHANGED <<m_filedes, m_out, buffer, use, putVars, eback, egptr, pos, clobbered>>

StreamNext == Put \/ Sync \/ Close \/ Underflow \/ Get \/ Unget

StreamSpec == StreamInit /\ [][StreamNext]_streamVars

-----------------------------------------------------------------------------
(* What is written is what was put, in order and without repetition,       *)
(* although writes fail and are tried again; the file and the put area     *)
(* together hold all of it until a write is short.  The put area never     *)
(* grows beyond the buffer, not even by the character that overflow() adds *)
(* before it flushes.                                                      *)
OutputKept ==
    LET all == file \o Pending(buffer, pptr) IN
    /\ pptr <= BufSize
    /\ \A i, j \in 1..Len(all) : i < j => all[i] < all[j]
    /\ ~short => all = [i \in 1..put |-> i]

(* Every character that can be read or read again is the one the file has  *)
(* at that place: always for what read() delivered, and for the characters *)
(* kept for put-back unless memcpy had overlapping areas or a failed read  *)
(* left them overwritten.                                                  *)
ReadBack ==
    \A i \in eback..(egptr - 1) :
        i >= PbackSize \/ ~clobbered => buffer[i] = pos - (egptr - 1 - i)
=============================================================================
