----------------------- MODULE ResponseFiltersProofs -----------------------
(***************************************************************************)
(* Theorems about ResponseFilters, for any number of headers, body pieces  *)
(* and reads, and any width of size_t.                                     *)
(***************************************************************************)
EXTENDS ResponseFilters, SequenceTheorems, TLAPS

(* Quotient and remainder are unique.                                      *)
LEMMA ModUnique ==
  ASSUME NEW m \in Nat \ {0}, NEW q \in Int, NEW t \in 0..(m - 1)
  PROVE  (m * q + t) % m = t
<1> DEFINE x == m * q + t
           d == x \div m
           r == x % m
<1>1. x \in Int /\ d \in Int /\ r \in 0..(m - 1) /\ x = m * d + r
  OBVIOUS
<1>2. m * (q - d) = r - t
  BY <1>1
<1>3. r - t < m /\ r - t > 0 - m
  BY <1>1
<1> HIDE DEF x, d, r
<1>4. q - d = 0
  <2>1. CASE q - d >= 1
    <3>1. m * (q - d) >= m
      BY <1>1, <2>1
    <3> QED BY <1>1, <1>2, <1>3, <3>1
  <2>2. CASE q - d <= 0 - 1
    <3>1. m * (q - d) <= 0 - m
      BY <1>1, <2>2
    <3> QED BY <1>1, <1>2, <1>3, <3>1
  <2> QED BY <1>1, <2>1, <2>2
<1>5. r = t
  BY <1>1, <1>2, <1>4
<1> QED BY <1>5 DEF r, x

(* Adding to a remainder.                                                  *)
LEMMA ModAdd ==
  ASSUME NEW m \in Nat \ {0}, NEW a \in Nat, NEW n \in Nat
  PROVE  ((a % m) + n) % m = (a + n) % m
<1> DEFINE r == a % m
           q == a \div m
           s == (r + n) \div m
           t == (r + n) % m
<1>1. q \in Int /\ r \in 0..(m - 1) /\ a = m * q + r
  OBVIOUS
<1>2. s \in Int /\ t \in 0..(m - 1) /\ r + n = m * s + t
  BY <1>1
<1> HIDE DEF q, r, s, t
<1>3. q + s \in Int /\ a + n = m * (q + s) + t
  BY <1>1, <1>2
<1>4. (a + n) % m = t
  BY <1>2, <1>3, ModUnique
<1> QED BY <1>4 DEF t, r

-----------------------------------------------------------------------------
(* Once the status has been sent, ConLenControllingFilter knows what to do *)
(* with a content length, and returns no error that would be counted.      *)
ActionKnown ==
    /\ action \in {"UNKNOWN", "FORWARD", "INHIBIT"} /\ headers \in Seq(Names)
    /\ phase # "EARLY_HEADERS" \/ status # "none" => action # "UNKNOWN"

CountInv == ActionKnown /\ counted \in Nat /\ countedIn \in Nat /\ Accounted

(* Calls whose return value is the number of parts they generate.          *)
LEMMA AccountKeeps ==
  ASSUME CountInv, NEW parts, NEW r \in Nat, r = Len(parts), Account(parts, r)
  PROVE  counted' \in Nat /\ total_sent' = counted' % SizeMod
<1>1. counted \in Nat /\ total_sent = counted % SizeMod /\ SizeMod \in Nat \ {0}
  BY SizeAssumption DEF CountInv, Accounted
<1>2. CASE enabled
  <2>1. total_sent' = (total_sent + r) % SizeMod /\ counted' = counted + r
    BY <1>2 DEF Account, Tally
  <2>2. ((counted % SizeMod) + r) % SizeMod = (counted + r) % SizeMod
    BY <1>1, ModAdd
  <2> QED BY <1>1, <2>1, <2>2
<1>3. CASE ~enabled
  BY <1>1, <1>3 DEF Account, Tally
<1> QED BY <1>2, <1>3

(* The content length: what is generated and what is returned.             *)
LEMMA ConLenFacts ==
  ASSUME ActionKnown, action # "UNKNOWN"
  PROVE  ConLenRet = Len(ConLenParts) /\ ConLenRet \in Nat /\ ConLenParts \in Seq({"Content-Length"})
<1>1. ConLenRet = Len(ConLenParts)
  BY DEF ConLenRet
<1>2. ConLenParts \in Seq({"Content-Length"})
  <2>1. <<"Content-Length">> \in Seq({"Content-Length"}) /\ <<>> \in Seq({"Content-Length"})
    OBVIOUS
  <2> QED BY <2>1, Zenon DEF ConLenParts
<1> QED BY <1>1, <1>2, LenProperties

LEMMA CallsKeep ==
  ASSUME CountInv, Calls, UNCHANGED inVars
  PROVE  CountInv'
<1>1. countedIn' \in Nat /\ total_received' = countedIn' % SizeMod
  BY DEF CountInv, Accounted, inVars
<1>2. SUFFICES ActionKnown' /\ counted' \in Nat /\ total_sent' = counted' % SizeMod
  BY <1>1 DEF CountInv, Accounted
<1>3. CASE Send100Continue
  <2>1. Account(<<"100">>, 1) /\ 1 = Len(<<"100">>)
    BY <1>3 DEF Send100Continue, Flushed
  <2>2. ActionKnown'
    BY <1>3 DEF Send100Continue, filterVars, CountInv, ActionKnown
  <2> QED BY <2>1, <2>2, AccountKeeps
<1>4. CASE SendContentLength
  <2>1. ActionKnown'
    BY <1>4 DEF SendContentLength, CountInv, ActionKnown
  <2>2. CASE phase = "EARLY_HEADERS"
    <3>1. Account(<<>>, 0) /\ 0 = Len(<<>>)
      BY <1>4, <2>2 DEF SendContentLength, Buffered
    <3> QED BY <2>1, <3>1, AccountKeeps
  <2>3. CASE phase # "EARLY_HEADERS"
    <3>1. Account(ConLenParts, ConLenRet)
      BY <1>4, <2>3 DEF SendContentLength, Buffered
    <3>2. ConLenRet = Len(ConLenParts) /\ ConLenRet \in Nat
      BY <2>3, ConLenFacts DEF CountInv, ActionKnown
    <3> QED BY <2>1, <3>1, <3>2, AccountKeeps
  <2> QED BY <2>2, <2>3
<1>5. CASE SendChunkedTransferEncoding
  <2>1. Account(<<"Transfer-Encoding">>, 1) /\ 1 = Len(<<"Transfer-Encoding">>)
    BY <1>5 DEF SendChunkedTransferEncoding, Buffered
  <2>2. ActionKnown'
    BY <1>5 DEF SendChunkedTransferEncoding, CountInv, ActionKnown
  <2> QED BY <2>1, <2>2, AccountKeeps
<1>6. CASE CompleteHeader
  <2> DEFINE early == IF content_length THEN ConLenParts ELSE <<>>
             earlyRet == IF content_length THEN ConLenRet ELSE 0
             own == <<"Date", "Connection", "end">>
             parts == early \o headers \o own
             r == earlyRet + Len(headers) + 3
             Parts == Names \cup {"Content-Length", "Date", "Connection", "end"}
  <2>1. Account(parts, r)
    BY <1>6 DEF CompleteHeader, Flushed
  <2>2. action # "UNKNOWN"
    BY <1>6 DEF CompleteHeader, CountInv, ActionKnown
  <2>3. early \in Seq({"Content-Length"}) /\ earlyRet = Len(early) /\ earlyRet \in Nat
    <3>1. CASE content_length
      BY <2>2, <3>1, ConLenFacts DEF CountInv
    <3>2. CASE ~content_length
      BY <3>2
    <3> QED BY <3>1, <3>2
  <2>4. own \in Seq({"Date", "Connection", "end"}) /\ Len(own) = 3
    OBVIOUS
  <2>5. headers \in Seq(Names)
    BY DEF CountInv, ActionKnown
  <2> HIDE DEF early, earlyRet, own
  <2>6. early \in Seq(Parts) /\ headers \in Seq(Parts) /\ own \in Seq(Parts)
    BY <2>3, <2>4, <2>5
  <2> HIDE DEF Parts
  <2>7. Len(parts) = r /\ r \in Nat
    <3> DEFINE both == early \o headers
    <3>1. both \in Seq(Parts) /\ Len(both) = Len(early) + Len(headers)
      BY <2>6, ConcatProperties
    <3> HIDE DEF both
    <3>2. Len(both \o own) = Len(both) + Len(own)
      BY <2>6, <3>1, ConcatProperties
    <3>3. Len(early) \in Nat /\ Len(headers) \in Nat
      BY <2>6, LenProperties
    <3> QED BY <2>3, <2>4, <3>1, <3>2, <3>3 DEF both
  <2>8. ActionKnown'
    <3>1. <<>> \in Seq(Names)
      BY EmptySeq
    <3> QED BY <1>6, <2>2, <3>1 DEF CompleteHeader, CountInv, ActionKnown
  <2> HIDE DEF parts, r
  <2> QED BY <2>1, <2>7, <2>8, AccountKeeps
<1>7. CASE CompleteRequest
  <2> DEFINE parts == IF chunking_enabled THEN <<"last">> ELSE <<>>
  <2>1. Account(parts, Len(parts)) /\ Len(parts) \in Nat
    BY <1>7 DEF CompleteRequest, Written
  <2>2. ActionKnown'
    BY <1>7 DEF CompleteRequest, filterVars, CountInv, ActionKnown
  <2> HIDE DEF parts
  <2> QED BY <2>1, <2>2, AccountKeeps
<1>8. CASE Flush
  BY <1>8 DEF Flush, filterVars, callVars, CountInv, ActionKnown, Accounted
<1>9. ASSUME NEW e \in BOOLEAN, SetAccount(e)
      PROVE  ActionKnown' /\ counted' \in Nat /\ total_sent' = counted' % SizeMod
  BY <1>9 DEF SetAccount, filterVars, callVars, CountInv, ActionKnown, Accounted
<1>10. ASSUME NEW s \in {"content", "empty"}, SendStatus(s)
       PROVE  ActionKnown' /\ counted' \in Nat /\ total_sent' = counted' % SizeMod
  <2>1. Account(<<"status">>, 1) /\ 1 = Len(<<"status">>)
    BY <1>10 DEF SendStatus, Buffered
  <2>2. ActionKnown'
    BY <1>10 DEF SendStatus, ActionFor, CountInv, ActionKnown
  <2> QED BY <2>1, <2>2, AccountKeeps
<1>11. ASSUME NEW h \in Names, SendHeader(h)
       PROVE  ActionKnown' /\ counted' \in Nat /\ total_sent' = counted' % SizeMod
  <2>1. Account(<<>>, 0) /\ 0 = Len(<<>>)
    BY <1>11 DEF SendHeader, Buffered
  <2>2. headers' \in Seq(Names)
    BY <1>11 DEF SendHeader, CountInv, ActionKnown
  <2>3. ActionKnown'
    BY <1>11, <2>2 DEF SendHeader, CountInv, ActionKnown
  <2> QED BY <2>1, <2>3, AccountKeeps
<1>12. ASSUME NEW p \in {"data", "empty"}, SendBody(p)
       PROVE  ActionKnown' /\ counted' \in Nat /\ total_sent' = counted' % SizeMod
  <2> DEFINE parts == IF ~chunking_enabled THEN IF p = "empty" THEN <<>> ELSE <<p>>
                      ELSE IF p = "empty" THEN <<"last">> ELSE <<"size", p, "crlf">>
  <2>1. Account(parts, Len(parts))
    BY <1>12 DEF SendBody, Written
  <2>2. Len(parts) \in Nat
    <3>1. Len(<<>>) \in Nat /\ Len(<<p>>) \in Nat /\ Len(<<"last">>) \in Nat /\ Len(<<"size", p, "crlf">>) \in Nat
      OBVIOUS
    <3> QED BY <3>1
  <2>3. ActionKnown'
    BY <1>12 DEF SendBody, filterVars, CountInv, ActionKnown
  <2> HIDE DEF parts
  <2> QED BY <2>1, <2>2, <2>3, AccountKeeps
<1> QED BY <1>3, <1>4, <1>5, <1>6, <1>7, <1>8, <1>9, <1>10, <1>11, <1>12 DEF Calls

-----------------------------------------------------------------------------
(* Whatever the caller does and in whatever order, AccountingFilter counts *)
(* the bytes of the calls made while it was enabled: the -EINVAL of        *)
(* ConLenControllingFilter never gets into the sum, because no content     *)
(* length is passed on before the status.                                  *)
THEOREM BytesAccounted == Spec => []Accounted
<1>1. Init => CountInv
  <2> SUFFICES ASSUME Init PROVE CountInv
    OBVIOUS
  <2>1. <<>> \in Seq(Names) /\ 0 % SizeMod = 0
    BY SizeAssumption, ModUnique
  <2> QED BY <2>1 DEF Init, AccountingFilter, ReorderingFilter, ConLenControllingFilter, CountInv, ActionKnown,
                      Accounted
<1>2. CountInv /\ [Next]_vars => CountInv'
  <2> SUFFICES ASSUME CountInv, [Next]_vars PROVE CountInv'
    OBVIOUS
  <2>1. CASE Calls /\ UNCHANGED inVars
    BY <2>1, CallsKeep
  <2>2. ASSUME NEW n \in {0, 1, SizeMod - 1}, RecvBody(n) PROVE CountInv'
    <3>1. n \in Nat /\ SizeMod \in Nat \ {0} /\ countedIn \in Nat /\ total_received = countedIn % SizeMod
      BY SizeAssumption DEF CountInv, Accounted
    <3>2. total_received' = Tally(total_received, n) /\ countedIn' = IF enabled THEN countedIn + n ELSE countedIn
      BY <2>2 DEF RecvBody
    <3>3. countedIn' \in Nat /\ total_received' = countedIn' % SizeMod
      <4>1. ((countedIn % SizeMod) + n) % SizeMod = (countedIn + n) % SizeMod
        BY <3>1, ModAdd
      <4> QED BY <3>1, <3>2, <4>1 DEF Tally
    <3> QED BY <2>2, <3>3 DEF RecvBody, filterVars, outVars, callVars, CountInv, ActionKnown, Accounted
  <2>3. CASE UNCHANGED vars
    BY <2>3 DEF vars, filterVars, outVars, inVars, callVars, CountInv, ActionKnown, Accounted
  <2> QED BY <2>1, <2>2, <2>3 DEF Next, Done
<1>3. CountInv => Accounted
  BY DEF CountInv
<1> QED BY <1>1, <1>2, <1>3, PTL DEF Spec

-----------------------------------------------------------------------------
Parts == Names \cup OwnParts

\* What can be sent before the header is complete.
EarlyParts == {"100", "status", "Transfer-Encoding", "Content-Length"}

BodyParts == {"data", "size", "crlf", "last"}

(* StatusFirst of the parts o.                                             *)
First(o, chunking) ==
    \A i \in 1..Len(o) :
        o[i] # "100" /\ (\A j \in 1..(i - 1) : o[j] = "100")
            => o[i] = "status" \/ (chunking /\ o[i] = "Transfer-Encoding")

Begun(o) == \E i \in 1..Len(o) : o[i] # "100"

(* The headers g stand in o in their order, and there are no others.       *)
HeadersIn(o, g) ==
    \E k \in 0..(Len(o) - Len(g)) :
        /\ \A i \in 1..Len(g) : o[k + i] = g[i]
        /\ \A i \in 1..Len(o) : o[i] \in Names => i \in (k + 1)..(k + Len(g))

EndFirst(o) == \A i, j \in 1..Len(o) : o[i] = "end" /\ o[j] \in {"data", "size", "last"} => i < j

(* A last chunk is the end of the response, unless an empty piece made it. *)
LastAtEnd(o, st, emptied) == \A i \in 1..Len(o) : o[i] = "last" => (st = "done" /\ i = Len(o)) \/ emptied

\* Chunks that are done end with the last one.
Ended(o, st, ch) == st = "done" /\ ch => o # <<>> /\ o[Len(o)] = "last"

(* r is o and then t.                                                      *)
Joined(r, o, t) ==
    /\ r \in Seq(Parts) /\ Len(r) = Len(o) + Len(t) /\ Len(o) \in Nat /\ Len(t) \in Nat
    /\ \A i \in 1..Len(o) : r[i] = o[i] /\ i \in 1..Len(r)
    /\ \A i \in 1..Len(t) : r[Len(o) + i] = t[i] /\ Len(o) + i \in 1..Len(r)
    /\ \A i \in 1..Len(r) : \/ i \in 1..Len(o) /\ r[i] = o[i]
                            \/ i - Len(o) \in 1..Len(t) /\ i > Len(o) /\ r[i] = t[i - Len(o)]

LEMMA JoinFacts ==
  ASSUME NEW o \in Seq(Parts), NEW t \in Seq(Parts)
  PROVE  Joined(o \o t, o, t)
<1> DEFINE r == o \o t
<1>1. /\ r \in Seq(Parts) /\ Len(r) = Len(o) + Len(t)
      /\ \A i \in 1..(Len(o) + Len(t)) : r[i] = IF i <= Len(o) THEN o[i] ELSE t[i - Len(o)]
  BY ConcatProperties
<1>2. Len(o) \in Nat /\ Len(t) \in Nat
  BY LenProperties
<1> HIDE DEF r
<1>3. ASSUME NEW i \in 1..Len(o) PROVE r[i] = o[i] /\ i \in 1..Len(r)
  BY <1>1, <1>2
<1>4. ASSUME NEW i \in 1..Len(t) PROVE r[Len(o) + i] = t[i] /\ Len(o) + i \in 1..Len(r)
  <2>1. Len(o) + i \in 1..(Len(o) + Len(t)) /\ ~(Len(o) + i <= Len(o)) /\ (Len(o) + i) - Len(o) = i
    BY <1>2
  <2> QED BY <1>1, <2>1
<1>5. ASSUME NEW i \in 1..Len(r)
      PROVE  \/ i \in 1..Len(o) /\ r[i] = o[i]
             \/ i - Len(o) \in 1..Len(t) /\ i > Len(o) /\ r[i] = t[i - Len(o)]
  <2>1. CASE i <= Len(o)
    BY <1>1, <1>2, <2>1
  <2>2. CASE ~(i <= Len(o))
    <3>1. i - Len(o) \in 1..Len(t) /\ i > Len(o)
      BY <1>1, <1>2, <2>2
    <3> QED BY <1>1, <2>2, <3>1
  <2> QED BY <2>1, <2>2
<1>6. Joined(r, o, t)
  BY <1>1, <1>2, <1>3, <1>4, <1>5 DEF Joined
<1> QED BY <1>6 DEF r

LEMMA FirstJoin ==
  ASSUME NEW r, NEW o, NEW t, Joined(r, o, t), NEW ch, First(o, ch),
         \/ Begun(o) \/ \A i \in 1..Len(t) : t[i] = "100"
         \/ Len(t) = 1 /\ t[1] = "status"
  PROVE  First(r, ch)
<1> SUFFICES ASSUME NEW i \in 1..Len(r), r[i] # "100", \A j \in 1..(i - 1) : r[j] = "100"
             PROVE  r[i] = "status" \/ (ch /\ r[i] = "Transfer-Encoding")
  BY DEF First
<1>1. CASE i \in 1..Len(o)
  <2>1. r[i] = o[i] /\ \A j \in 1..(i - 1) : o[j] = "100"
    BY <1>1 DEF Joined
  <2> QED BY <1>1, <2>1 DEF First
<1>2. CASE i - Len(o) \in 1..Len(t) /\ i > Len(o)
  <2>1. Len(o) \in Nat /\ Len(t) \in Nat /\ r[i] = t[i - Len(o)]
    BY <1>2 DEF Joined
  <2>2. ~Begun(o)
    <3>1. ASSUME NEW j \in 1..Len(o) PROVE o[j] = "100"
      <4>1. j \in 1..(i - 1)
        BY <1>2, <2>1
      <4> QED BY <4>1 DEF Joined
    <3> QED BY <3>1 DEF Begun
  <2>3. t[i - Len(o)] # "100"
    BY <2>1
  <2>4. Len(t) = 1 /\ t[1] = "status"
    BY <1>2, <2>2, <2>3
  <2>5. i - Len(o) = 1
    BY <1>2, <2>1, <2>4
  <2> QED BY <2>1, <2>4, <2>5
<1> QED BY <1>1, <1>2 DEF Joined

LEMMA FirstChunked ==
  ASSUME NEW r, NEW o, NEW t, Joined(r, o, t), NEW ch, First(o, ch),
         Len(t) = 1, t[1] = "Transfer-Encoding"
  PROVE  First(r, TRUE)
<1> SUFFICES ASSUME NEW i \in 1..Len(r), r[i] # "100", \A j \in 1..(i - 1) : r[j] = "100"
             PROVE  r[i] = "status" \/ r[i] = "Transfer-Encoding"
  BY DEF First
<1>1. CASE i \in 1..Len(o)
  <2>1. r[i] = o[i] /\ \A j \in 1..(i - 1) : o[j] = "100"
    BY <1>1 DEF Joined
  <2> QED BY <1>1, <2>1 DEF First
<1>2. CASE i - Len(o) \in 1..Len(t) /\ i > Len(o)
  <2>1. Len(o) \in Nat /\ r[i] = t[i - Len(o)] /\ i - Len(o) = 1
    BY <1>2 DEF Joined
  <2> QED BY <2>1
<1> QED BY <1>1, <1>2 DEF Joined

LEMMA BegunJoin ==
  ASSUME NEW r, NEW o, NEW t, Joined(r, o, t), Begun(o) \/ Begun(t)
  PROVE  Begun(r)
BY DEF Joined, Begun

LEMMA NeverJoin ==
  ASSUME NEW r, NEW o, NEW t, NEW x, Joined(r, o, t), Never(o, x), Never(t, x)
  PROVE  Never(r, x)
BY DEF Joined, Never

LEMMA NoneJoin ==
  ASSUME NEW r, NEW o, NEW t, NEW S, Joined(r, o, t),
         \A i \in 1..Len(o) : o[i] \notin S, \A i \in 1..Len(t) : t[i] \notin S
  PROVE  \A i \in 1..Len(r) : r[i] \notin S
BY DEF Joined

LEMMA OnceJoin ==
  ASSUME NEW r, NEW o, NEW t, NEW x, Joined(r, o, t),
         (Once(o, x) /\ Never(t, x)) \/ (Never(o, x) /\ Once(t, x))
  PROVE  Once(r, x)
<1>0. Len(o) \in Nat /\ Len(t) \in Nat
  BY DEF Joined
<1>1. CASE Once(o, x) /\ Never(t, x)
  <2>1. PICK i \in 1..Len(o) : \A j \in 1..Len(o) : o[j] = x <=> j = i
    BY <1>1 DEF Once
  <2>2. i \in 1..Len(r)
    BY DEF Joined
  <2>3. ASSUME NEW j \in 1..Len(r) PROVE r[j] = x <=> j = i
    <3>1. CASE j \in 1..Len(o) /\ r[j] = o[j]
      BY <2>1, <3>1
    <3>2. CASE j - Len(o) \in 1..Len(t) /\ j > Len(o) /\ r[j] = t[j - Len(o)]
      <4>1. j # i
        BY <1>0, <3>2
      <4> QED BY <1>1, <3>2, <4>1 DEF Never
    <3> QED BY <3>1, <3>2 DEF Joined
  <2> QED BY <2>2, <2>3 DEF Once
<1>2. CASE Never(o, x) /\ Once(t, x)
  <2>1. PICK i \in 1..Len(t) : \A j \in 1..Len(t) : t[j] = x <=> j = i
    BY <1>2 DEF Once
  <2>2. Len(o) + i \in 1..Len(r)
    BY DEF Joined
  <2>3. ASSUME NEW j \in 1..Len(r) PROVE r[j] = x <=> j = Len(o) + i
    <3>1. CASE j \in 1..Len(o) /\ r[j] = o[j]
      <4>1. j # Len(o) + i
        BY <1>0, <3>1
      <4> QED BY <1>2, <3>1, <4>1 DEF Never
    <3>2. CASE j - Len(o) \in 1..Len(t) /\ j > Len(o) /\ r[j] = t[j - Len(o)]
      <4>1. j - Len(o) = i <=> j = Len(o) + i
        BY <1>0
      <4> QED BY <2>1, <3>2, <4>1
    <3> QED BY <3>1, <3>2 DEF Joined
  <2> QED BY <2>2, <2>3 DEF Once
<1> QED BY <1>1, <1>2

(* Headers among parts that are not headers.                               *)
LEMMA HeadersJoin ==
  ASSUME NEW r, NEW o, NEW t, Joined(r, o, t), NEW g, Len(g) \in Nat,
         \/ HeadersIn(o, g) /\ \A i \in 1..Len(t) : t[i] \notin Names
         \/ HeadersIn(t, g) /\ \A i \in 1..Len(o) : o[i] \notin Names
  PROVE  HeadersIn(r, g)
<1>0. Len(o) \in Nat /\ Len(t) \in Nat /\ Len(r) = Len(o) + Len(t)
  BY DEF Joined
<1>1. CASE HeadersIn(o, g) /\ \A i \in 1..Len(t) : t[i] \notin Names
  <2>1. PICK k \in 0..(Len(o) - Len(g)) :
          /\ \A i \in 1..Len(g) : o[k + i] = g[i]
          /\ \A i \in 1..Len(o) : o[i] \in Names => i \in (k + 1)..(k + Len(g))
    BY <1>1 DEF HeadersIn
  <2>2. k \in 0..(Len(r) - Len(g))
    BY <1>0
  <2>3. ASSUME NEW i \in 1..Len(g) PROVE r[k + i] = g[i]
    <3>1. k + i \in 1..Len(o)
      BY <1>0
    <3>2. r[k + i] = o[k + i]
      BY <3>1 DEF Joined
    <3> QED BY <2>1, <3>2
  <2>4. ASSUME NEW i \in 1..Len(r), r[i] \in Names PROVE i \in (k + 1)..(k + Len(g))
    <3>1. i \in 1..Len(o) /\ r[i] = o[i]
      BY <1>1, <2>4 DEF Joined
    <3> QED BY <2>1, <2>4, <3>1
  <2> QED BY <2>2, <2>3, <2>4 DEF HeadersIn
<1>2. CASE HeadersIn(t, g) /\ \A i \in 1..Len(o) : o[i] \notin Names
  <2>1. PICK k \in 0..(Len(t) - Len(g)) :
          /\ \A i \in 1..Len(g) : t[k + i] = g[i]
          /\ \A i \in 1..Len(t) : t[i] \in Names => i \in (k + 1)..(k + Len(g))
    BY <1>2 DEF HeadersIn
  <2> DEFINE n == Len(o) + k
  <2>2. n \in 0..(Len(r) - Len(g)) /\ n \in Nat
    BY <1>0
  <2>3. ASSUME NEW i \in 1..Len(g) PROVE r[n + i] = g[i]
    <3>1. k + i \in 1..Len(t) /\ n + i = Len(o) + (k + i)
      BY <1>0
    <3>2. r[Len(o) + (k + i)] = t[k + i]
      BY <3>1 DEF Joined
    <3> QED BY <2>1, <3>1, <3>2
  <2>4. ASSUME NEW i \in 1..Len(r), r[i] \in Names PROVE i \in (n + 1)..(n + Len(g))
    <3>1. i - Len(o) \in 1..Len(t) /\ r[i] = t[i - Len(o)]
      BY <1>2, <2>4 DEF Joined
    <3>2. i - Len(o) \in (k + 1)..(k + Len(g))
      BY <2>1, <2>4, <3>1
    <3> QED BY <1>0, <3>2
  <2> HIDE DEF n
  <2> QED BY <2>2, <2>3, <2>4 DEF HeadersIn
<1> QED BY <1>1, <1>2

LEMMA EndJoin ==
  ASSUME NEW r, NEW o, NEW t, Joined(r, o, t), EndFirst(o), Never(t, "end")
  PROVE  EndFirst(r)
<1> SUFFICES ASSUME NEW i \in 1..Len(r), NEW j \in 1..Len(r), r[i] = "end", r[j] \in {"data", "size", "last"}
             PROVE  i < j
  BY DEF EndFirst
<1>1. i \in 1..Len(o) /\ o[i] = "end"
  BY DEF Joined, Never
<1>2. CASE j \in 1..Len(o) /\ r[j] = o[j]
  BY <1>1, <1>2 DEF EndFirst
<1>3. CASE j > Len(o)
  BY <1>1, <1>3 DEF Joined
<1> QED BY <1>2, <1>3 DEF Joined

-----------------------------------------------------------------------------
\* A content length has been passed on; ReorderingFilter may still hold it.
LengthDue(st, stat, fr, cl) == fr = "length" /\ stat = "content" /\ (st = "headers" => ~cl)

(* What the parts o that were sent look like at each stage of the calls.   *)
Shape(o, st, stat, fr, cl, ch, g, emptied) ==
    /\ First(o, ch)
    /\ stat # "none" => Begun(o)
    /\ st = "headers" => \A i \in 1..Len(o) : o[i] \in EarlyParts
    /\ IF LengthDue(st, stat, fr, cl) THEN Once(o, "Content-Length") ELSE Never(o, "Content-Length")
    /\ st # "headers" => HeadersIn(o, g) /\ EndFirst(o)
    /\ LastAtEnd(o, st, emptied)
    /\ Ended(o, st, ch)

(* Before the header is complete only early parts are added.               *)
LEMMA EarlyShape ==
  ASSUME NEW r, NEW o, NEW t, Joined(r, o, t), NEW stat, NEW fr, NEW cl, NEW ch,
         NEW g, NEW em, Shape(o, "headers", stat, fr, cl, ch, g, em),
         NEW stat2, NEW fr2, NEW cl2, NEW ch2, NEW g2,
         \A i \in 1..Len(t) : t[i] \in EarlyParts,
         First(r, ch2), stat2 # "none" => Begun(r),
         IF LengthDue("headers", stat2, fr2, cl2) THEN Once(r, "Content-Length") ELSE Never(r, "Content-Length")
  PROVE  Shape(r, "headers", stat2, fr2, cl2, ch2, g2, em)
<1>1. \A i \in 1..Len(r) : r[i] \in EarlyParts
  BY DEF Joined, Shape
<1>2. LastAtEnd(r, "headers", em)
  BY <1>1 DEF LastAtEnd, EarlyParts
<1> QED BY <1>1, <1>2 DEF Shape, Ended

(* After it, only parts of the body.                                       *)
LEMMA BodyShape ==
  ASSUME NEW r, NEW o, NEW t, Joined(r, o, t), NEW stat, NEW fr, NEW cl, NEW ch,
         NEW g, Len(g) \in Nat, NEW em, Shape(o, "body", stat, fr, cl, ch, g, em),
         stat # "none", NEW st2 \in {"body", "done"}, NEW em2,
         \A i \in 1..Len(t) : t[i] \in BodyParts,
         LastAtEnd(r, st2, em2),
         Ended(r, st2, ch)
  PROVE  Shape(r, st2, stat, fr, cl, ch, g, em2)
<1>1. Begun(o) /\ First(o, ch) /\ HeadersIn(o, g) /\ EndFirst(o)
  BY DEF Shape
<1>2. First(r, ch)
  BY <1>1, FirstJoin
<1>3. Begun(r)
  BY <1>1, BegunJoin
<1>4. \A i \in 1..Len(t) : t[i] \notin Names
  BY NamesAssumption DEF BodyParts, OwnParts
<1>5. HeadersIn(r, g)
  BY <1>1, <1>4, HeadersJoin
<1>6. Never(t, "end") /\ Never(t, "Content-Length")
  BY DEF Never, BodyParts
<1>7. EndFirst(r)
  BY <1>1, <1>6, EndJoin
<1>8. LengthDue(st2, stat, fr, cl) <=> LengthDue("body", stat, fr, cl)
  BY DEF LengthDue
<1>9. CASE LengthDue(st2, stat, fr, cl)
  <2>1. Once(o, "Content-Length")
    BY <1>8, <1>9 DEF Shape
  <2>2. Once(r, "Content-Length")
    BY <1>6, <2>1, OnceJoin
  <2> QED BY <1>2, <1>3, <1>5, <1>7, <1>9, <2>2 DEF Shape
<1>10. CASE ~LengthDue(st2, stat, fr, cl)
  <2>1. Never(o, "Content-Length")
    BY <1>8, <1>10 DEF Shape
  <2>2. Never(r, "Content-Length")
    BY <1>6, <2>1, NeverJoin
  <2> QED BY <1>2, <1>3, <1>5, <1>7, <1>10, <2>2 DEF Shape
<1> QED BY <1>9, <1>10

(* The header is completed: what ReorderingFilter kept, then ClientIO's.   *)
LEMMA HeaderShape ==
  ASSUME NEW r, NEW o \in Seq(Parts), NEW e \in Seq(Parts), NEW g \in Seq(Names), NEW eg, NEW t, NEW own,
         Joined(eg, e, g), Joined(t, eg, own), Joined(r, o, t), own = <<"Date", "Connection", "end">>,
         NEW stat, NEW fr, NEW cl, NEW ch, NEW em,
         Shape(o, "headers", stat, fr, cl, ch, g, em), stat # "none", cl => fr = "length",
         e = IF cl /\ stat = "content" THEN <<"Content-Length">> ELSE <<>>
  PROVE  Shape(r, "body", stat, fr, cl, ch, g, em)
<1>1. Begun(o) /\ First(o, ch) /\ \A i \in 1..Len(o) : o[i] \in EarlyParts
  BY DEF Shape, Ended
<1>2. First(r, ch)
  BY <1>1, FirstJoin
<1>3. Begun(r)
  BY <1>1, BegunJoin
<1>4. /\ Len(g) \in Nat /\ \A i \in 1..Len(g) : g[i] \in Names
      /\ \A i \in 1..Len(e) : e[i] = "Content-Length"
      /\ \A i \in 1..Len(own) : own[i] \in {"Date", "Connection", "end"}
      /\ Len(own) = 3 /\ own[3] = "end"
  <2>1. Len(g) \in Nat /\ \A i \in 1..Len(g) : g[i] \in Names
    BY ElementOfSeq, LenProperties
  <2>2. \A i \in 1..Len(e) : e[i] = "Content-Length"
    <3>1. CASE e = <<"Content-Length">>
      BY <3>1
    <3>2. CASE e = <<>>
      BY <3>2
    <3> QED BY <3>1, <3>2
  <2>3. \A i \in 1..Len(own) : own[i] \in {"Date", "Connection", "end"}
    OBVIOUS
  <2>4. Len(own) = 3 /\ own[3] = "end"
    OBVIOUS
  <2> QED BY <2>1, <2>2, <2>3, <2>4
<1>5. HeadersIn(g, g)
  <2>1. 0 \in 0..(Len(g) - Len(g)) /\ \A i \in 1..Len(g) : i \in (0 + 1)..(0 + Len(g)) /\ 0 + i = i
    BY <1>4
  <2> QED BY <2>1 DEF HeadersIn
<1>6. HeadersIn(r, g)
  <2>1. \A i \in 1..Len(e) : e[i] \notin Names
    BY <1>4, NamesAssumption DEF OwnParts
  <2>2. HeadersIn(eg, g)
    BY <1>4, <1>5, <2>1, HeadersJoin
  <2>3. \A i \in 1..Len(own) : own[i] \notin Names
    BY <1>4, NamesAssumption DEF OwnParts
  <2>4. HeadersIn(t, g)
    BY <1>4, <2>2, <2>3, HeadersJoin
  <2>5. \A i \in 1..Len(o) : o[i] \notin Names
    BY <1>1, NamesAssumption DEF EarlyParts, OwnParts
  <2> QED BY <1>4, <2>4, <2>5, HeadersJoin
<1>7. \A i \in 1..Len(r) : r[i] \notin {"data", "size", "last"}
  <2> DEFINE S == {"data", "size", "last"}
  <2>1. \A i \in 1..Len(g) : g[i] \notin S
    BY <1>4, NamesAssumption DEF OwnParts
  <2>2. \A i \in 1..Len(e) : e[i] \notin S
    BY <1>4
  <2>3. \A i \in 1..Len(own) : own[i] \notin S
    BY <1>4
  <2>4. \A i \in 1..Len(o) : o[i] \notin S
    BY <1>1 DEF EarlyParts
  <2> HIDE DEF S
  <2>5. \A i \in 1..Len(eg) : eg[i] \notin S
    BY <2>1, <2>2, NoneJoin, Zenon
  <2>6. \A i \in 1..Len(t) : t[i] \notin S
    BY <2>3, <2>5, NoneJoin, Zenon
  <2>7. \A i \in 1..Len(r) : r[i] \notin S
    BY <2>4, <2>6, NoneJoin, Zenon
  <2> QED BY <2>7 DEF S
<1>8. EndFirst(r) /\ LastAtEnd(r, "body", em)
  BY <1>7 DEF EndFirst, LastAtEnd
<1>9. Never(g, "Content-Length") /\ Never(own, "Content-Length")
  BY <1>4, NamesAssumption DEF Never, OwnParts
<1>10. CASE cl /\ stat = "content"
  <2>1. e = <<"Content-Length">>
    BY <1>10
  <2>2. Once(e, "Content-Length")
    <3> DEFINE one == <<"Content-Length">>
    <3>0. Len(one) = 1 /\ one[1] = "Content-Length"
      OBVIOUS
    <3>1. Len(e) = 1 /\ e[1] = "Content-Length"
      BY <2>1, <3>0, Zenon
    <3>2. 1 \in 1..1 /\ \A j \in 1..1 : j = 1
      OBVIOUS
    <3> QED BY <3>1, <3>2, Zenon DEF Once
  <2>3. Once(eg, "Content-Length")
    BY <1>9, <2>2, OnceJoin
  <2>4. Once(t, "Content-Length")
    BY <1>9, <2>3, OnceJoin
  <2>5. Never(o, "Content-Length")
    BY <1>10 DEF Shape, LengthDue
  <2>6. Once(r, "Content-Length")
    BY <2>4, <2>5, OnceJoin
  <2>7. LengthDue("body", stat, fr, cl)
    BY <1>10 DEF LengthDue
  <2> QED BY <1>2, <1>3, <1>6, <1>8, <2>6, <2>7 DEF Shape, Ended
<1>11. CASE ~(cl /\ stat = "content")
  <2>1. Never(e, "Content-Length")
    <3>1. e = <<>>
      BY <1>11
    <3> QED BY <3>1 DEF Never
  <2>2. Never(eg, "Content-Length")
    BY <1>9, <2>1, NeverJoin
  <2>3. Never(t, "Content-Length")
    BY <1>9, <2>2, NeverJoin
  <2>4. LengthDue("body", stat, fr, cl) <=> LengthDue("headers", stat, fr, cl)
    BY <1>11 DEF LengthDue
  <2>5. CASE LengthDue("headers", stat, fr, cl)
    <3>1. Once(o, "Content-Length")
      BY <2>5 DEF Shape, Ended
    <3>2. Once(r, "Content-Length")
      BY <2>3, <3>1, OnceJoin
    <3> QED BY <1>2, <1>3, <1>6, <1>8, <2>4, <2>5, <3>2 DEF Shape, Ended
  <2>6. CASE ~LengthDue("headers", stat, fr, cl)
    <3>1. Never(o, "Content-Length")
      BY <2>6 DEF Shape, Ended
    <3>2. Never(r, "Content-Length")
      BY <2>3, <3>1, NeverJoin
    <3> QED BY <1>2, <1>3, <1>6, <1>8, <2>4, <2>6, <3>2 DEF Shape, Ended
  <2> QED BY <2>5, <2>6
<1> QED BY <1>10, <1>11

-----------------------------------------------------------------------------
FormTypes ==
    /\ stage \in {"headers", "body", "done"} /\ status \in {"none", "content", "empty"}
    /\ content_length \in BOOLEAN /\ chunking_enabled \in BOOLEAN
    /\ given \in Seq(Names) /\ pieces \in Seq({"data", "empty"})
    /\ wire \in Seq(Parts) /\ tx \in Seq(Parts)

(* How the filters' state follows the calls made.                          *)
Control ==
    /\ stage = "headers" => headers = given /\ (phase = "EARLY_HEADERS" <=> status = "none")
    /\ stage # "headers" => tx = <<>> /\ status # "none"
    /\ chunking_enabled <=> framing = "chunked"
    /\ action = IF status = "none" THEN "UNKNOWN" ELSE ActionFor(status)
    /\ content_length => framing = "length"
    /\ stage = "headers" /\ status = "none" /\ framing = "length" => content_length

Emptied == "empty" \in ToSet(pieces)

SentShape == Shape(Sent, stage, status, framing, content_length, chunking_enabled, given, Emptied)

FormInv == FormTypes /\ Control /\ SentShape

(* What was sent so far is kept, and the parts t follow it.                *)
SentGrows(t) == Joined(Sent', Sent, t) /\ wire' \in Seq(Parts) /\ tx' \in Seq(Parts)

LEMMA SentGrowing ==
  ASSUME FormTypes, NEW t \in Seq(Parts), NEW n, Buffered(t, n) \/ Flushed(t, n) \/ (Written(t) /\ tx = <<>>)
  PROVE  SentGrows(t)
<1>1. wire \in Seq(Parts) /\ tx \in Seq(Parts)
  BY DEF FormTypes
<1>2. Sent \in Seq(Parts)
  BY <1>1, ConcatProperties DEF Sent
<1>3. Joined(Sent \o t, Sent, t)
  BY <1>2, JoinFacts
<1>4. (wire \o tx) \o t = wire \o (tx \o t)
  BY <1>1, ConcatAssociative
<1>5. Sent \o t \in Seq(Parts) /\ <<>> \in Seq(Parts)
  BY <1>3, EmptySeq DEF Joined
<1>6. CASE Buffered(t, n)
  <2>1. wire' = wire /\ tx' = tx \o t
    BY <1>6 DEF Buffered
  <2>2. Sent' = Sent \o t
    BY <1>4, <2>1, Zenon DEF Sent
  <2>3. tx' \in Seq(Parts)
    BY <1>1, <2>1, ConcatProperties
  <2> QED BY <1>1, <1>3, <2>1, <2>2, <2>3, Zenon DEF SentGrows
<1>7. CASE Flushed(t, n)
  <2>1. wire' = Sent \o t /\ tx' = <<>>
    BY <1>7, Zenon DEF Flushed, Sent
  <2>2. Sent' = (Sent \o t) \o <<>>
    BY <2>1, Zenon DEF Sent
  <2>3. (Sent \o t) \o <<>> = Sent \o t
    BY <1>5, ConcatEmptySeq
  <2> QED BY <1>3, <1>5, <2>1, <2>2, <2>3, Zenon DEF SentGrows
<1>8. CASE Written(t) /\ tx = <<>>
  <2>1. wire' = wire \o t /\ tx' = <<>>
    BY <1>8 DEF Written
  <2>2. Sent = wire
    <3>1. wire \o <<>> = wire
      BY <1>1, ConcatEmptySeq
    <3> QED BY <1>8, <3>1, Zenon DEF Sent
  <2>3. Sent' = (Sent \o t) \o <<>>
    BY <2>1, <2>2, Zenon DEF Sent
  <2>4. (Sent \o t) \o <<>> = Sent \o t
    BY <1>5, ConcatEmptySeq
  <2>5. wire' = Sent \o t
    BY <2>1, <2>2, Zenon
  <2> QED BY <1>3, <1>5, <2>1, <2>3, <2>4, <2>5, Zenon DEF SentGrows
<1> QED BY <1>6, <1>7, <1>8

LEMMA NoParts ==
  ASSUME FormTypes, SentGrows(<<>>)
  PROVE  Sent' = Sent
<1>1. Sent \in Seq(Parts) /\ Sent' \in Seq(Parts)
  <2>1. wire \in Seq(Parts) /\ tx \in Seq(Parts)
    BY DEF FormTypes
  <2>2. Sent \in Seq(Parts)
    BY <2>1, ConcatProperties DEF Sent
  <2> QED BY <2>2 DEF SentGrows, Joined
<1>2. Len(Sent') = Len(Sent) /\ \A i \in 1..Len(Sent) : Sent'[i] = Sent[i]
  BY DEF SentGrows, Joined
<1> DEFINE r == Sent'
           o == Sent
<1>3. r \in Seq(Parts) /\ o \in Seq(Parts) /\ Len(r) = Len(o) /\ \A i \in 1..Len(o) : r[i] = o[i]
  BY <1>1, <1>2
<1> HIDE DEF r, o
<1>4. r = o
  BY <1>3, SeqEqual
<1> QED BY <1>4 DEF r, o

(* The steps that send nothing and change no call that counts.             *)
LEMMA QuietKeeps ==
  ASSUME FormInv, FormTypes', Control', Sent' = Sent,
         UNCHANGED <<stage, status, chunking_enabled, pieces>>,
         given' = given \/ stage = "headers",
         LengthDue(stage, status, framing, content_length)' <=> LengthDue(stage, status, framing, content_length)
  PROVE  FormInv'
<1>1. Emptied' = Emptied
  BY DEF Emptied
<1>2. SentShape'
  BY <1>1 DEF FormInv, SentShape, Shape
<1> QED BY <1>2 DEF FormInv

LEMMA FormSend100 ==
  ASSUME FormInv, Send100Continue
  PROVE  FormInv'
<1> DEFINE t == <<"100">>
<1>0. FormTypes /\ Control /\ SentShape /\ stage = "headers" /\ status = "none" /\ framing = "none"
  BY DEF FormInv, Send100Continue
<1>1. t \in Seq(Parts) /\ Len(t) = 1 /\ t[1] = "100"
  BY DEF Parts, OwnParts
<1>2. Flushed(t, 1) /\ UNCHANGED <<filterVars, stage, status, framing, given, pieces>>
  BY DEF Send100Continue
<1> HIDE DEF t
<1>3. SentGrows(t)
  BY <1>0, <1>1, <1>2, SentGrowing
<1>4. FormTypes' /\ Control'
  <2>1. tx' = <<>>
    BY <1>2 DEF Flushed
  <2> QED BY <1>0, <1>2, <1>3, <2>1 DEF FormTypes, Control, SentGrows, filterVars
<1>5. UNCHANGED <<stage, status, framing, content_length, chunking_enabled, given, Emptied>>
  BY <1>2 DEF filterVars, Emptied
<1>6. \A i \in 1..Len(t) : t[i] = "100"
  BY <1>1
<1>7. /\ Shape(Sent, "headers", status, framing, content_length, chunking_enabled, given, Emptied)
      /\ content_length \in BOOLEAN /\ chunking_enabled \in BOOLEAN /\ Emptied \in BOOLEAN
  BY <1>0 DEF SentShape, FormTypes, Emptied
<1>8. First(Sent', chunking_enabled)
  BY <1>3, <1>6, <1>7, FirstJoin DEF SentGrows, Shape
<1>9. Never(Sent', "Content-Length")
  <2>1. Never(t, "Content-Length")
    BY <1>6 DEF Never
  <2>2. Never(Sent, "Content-Length")
    BY <1>0, <1>7 DEF Shape, LengthDue
  <2> QED BY <1>3, <2>1, <2>2, NeverJoin DEF SentGrows
<1>10. \A i \in 1..Len(t) : t[i] \in EarlyParts
  BY <1>6 DEF EarlyParts
<1>11. ~LengthDue("headers", status, framing, content_length)
  BY <1>0 DEF LengthDue
<1>12. Shape(Sent', "headers", status, framing, content_length, chunking_enabled, given, Emptied)
  BY <1>0, <1>3, <1>7, <1>8, <1>9, <1>10, <1>11, EarlyShape DEF SentGrows
<1>13. SentShape'
  BY <1>0, <1>5, <1>12 DEF SentShape
<1> QED BY <1>4, <1>13 DEF FormInv

LEMMA FormSendContentLength ==
  ASSUME FormInv, SendContentLength
  PROVE  FormInv'
<1>0. FormTypes /\ Control /\ SentShape /\ stage = "headers" /\ framing = "none" /\ ~content_length
  BY DEF FormInv, SendContentLength, Control, FormTypes
<1>1. /\ framing' = "length"
      /\ UNCHANGED <<phase, headers, chunking_enabled, action, stage, continued, status, given, pieces>>
  BY DEF SendContentLength
<1>2. CASE phase = "EARLY_HEADERS"
  <2>1. content_length' = TRUE /\ Buffered(<<>>, 0) /\ status = "none"
    BY <1>0, <1>2 DEF SendContentLength, Control
  <2>2. SentGrows(<<>>)
    <3>1. <<>> \in Seq(Parts)
      BY EmptySeq
    <3> QED BY <1>0, <2>1, <3>1, SentGrowing
  <2>3. FormTypes' /\ Control'
    BY <1>0, <1>1, <2>1, <2>2 DEF FormTypes, Control, SentGrows
  <2>4. ~LengthDue(stage, status, framing, content_length) /\ ~LengthDue(stage, status, framing, content_length)'
    BY <1>0, <1>1, <2>1 DEF LengthDue
  <2>5. Sent' = Sent
    BY <1>0, <2>2, NoParts
  <2> QED BY <1>0, <1>1, <2>3, <2>4, <2>5, QuietKeeps
<1>3. CASE phase # "EARLY_HEADERS"
  <2> DEFINE t == ConLenParts
  <2>1. UNCHANGED content_length /\ Buffered(t, ConLenRet) /\ status \in {"content", "empty"}
    BY <1>0, <1>3 DEF SendContentLength, Control, FormTypes
  <2>2. t = IF status = "content" THEN <<"Content-Length">> ELSE <<>>
    BY <1>0, <2>1 DEF Control, ActionFor, ConLenParts
  <2>3. t \in Seq(Parts) /\ \A i \in 1..Len(t) : t[i] = "Content-Length"
    <3>1. CASE t = <<"Content-Length">>
      BY <3>1 DEF Parts, OwnParts
    <3>2. CASE t = <<>>
      BY <3>2
    <3> QED BY <2>2, <3>1, <3>2
  <2> HIDE DEF t
  <2>4. SentGrows(t)
    BY <1>0, <2>1, <2>3, SentGrowing
  <2>5. FormTypes' /\ Control'
    BY <1>0, <1>1, <2>1, <2>4 DEF FormTypes, Control, SentGrows
  <2>6. UNCHANGED <<stage, status, content_length, chunking_enabled, given, Emptied>>
    BY <1>1, <2>1 DEF Emptied
  <2>7. /\ Shape(Sent, "headers", status, framing, content_length, chunking_enabled, given, Emptied)
        /\ content_length \in BOOLEAN /\ chunking_enabled \in BOOLEAN /\ Emptied \in BOOLEAN
    BY <1>0 DEF SentShape, FormTypes, Emptied
  <2>8. Begun(Sent) /\ First(Sent, chunking_enabled) /\ Never(Sent, "Content-Length")
    BY <1>0, <2>1, <2>7 DEF Shape, LengthDue
  <2>9. First(Sent', chunking_enabled) /\ Begun(Sent')
    BY <2>4, <2>7, <2>8, FirstJoin, BegunJoin DEF SentGrows
  <2>10. \A i \in 1..Len(t) : t[i] \in EarlyParts
    BY <2>3 DEF EarlyParts
  <2>11. IF LengthDue("headers", status, "length", content_length)
           THEN Once(Sent', "Content-Length") ELSE Never(Sent', "Content-Length")
    <3>1. CASE status = "content"
      <4>1. Len(t) = 1 /\ t[1] = "Content-Length"
        BY <2>2, <3>1
      <4>2. 1 \in 1..1 /\ \A j \in 1..1 : j = 1
        OBVIOUS
      <4>3. Once(t, "Content-Length")
        BY <4>1, <4>2, Zenon DEF Once
      <4>4. Once(Sent', "Content-Length")
        BY <2>4, <2>8, <4>3, OnceJoin DEF SentGrows
      <4>5. LengthDue("headers", status, "length", content_length)
        BY <1>0, <3>1 DEF LengthDue
      <4> QED BY <4>4, <4>5
    <3>2. CASE status # "content"
      <4>1. Never(t, "Content-Length")
        <5>1. t = <<>>
          BY <2>2, <3>2
        <5> QED BY <5>1 DEF Never
      <4>2. Never(Sent', "Content-Length")
        BY <2>4, <2>8, <4>1, NeverJoin DEF SentGrows
      <4>3. ~LengthDue("headers", status, "length", content_length)
        BY <3>2 DEF LengthDue
      <4> QED BY <4>2, <4>3
    <3> QED BY <3>1, <3>2
  <2>12. Shape(Sent', "headers", status, "length", content_length, chunking_enabled, given, Emptied)
    BY <2>4, <2>7, <2>9, <2>10, <2>11, EarlyShape DEF SentGrows
  <2>13. SentShape'
    BY <1>0, <1>1, <2>6, <2>12 DEF SentShape
  <2> QED BY <2>5, <2>13 DEF FormInv
<1> QED BY <1>2, <1>3

LEMMA FormSendChunked ==
  ASSUME FormInv, SendChunkedTransferEncoding
  PROVE  FormInv'
<1> DEFINE t == <<"Transfer-Encoding">>
<1>0. FormTypes /\ Control /\ SentShape /\ stage = "headers" /\ framing = "none" /\ ~content_length
  BY DEF FormInv, SendChunkedTransferEncoding, Control, FormTypes
<1>1. t \in Seq(Parts) /\ Len(t) = 1 /\ t[1] = "Transfer-Encoding"
  BY DEF Parts, OwnParts
<1>2. /\ framing' = "chunked" /\ chunking_enabled' = TRUE /\ Buffered(t, 1)
      /\ UNCHANGED <<phase, content_length, headers, action, stage, continued, status, given, pieces>>
  BY DEF SendChunkedTransferEncoding
<1> HIDE DEF t
<1>3. SentGrows(t)
  BY <1>0, <1>1, <1>2, SentGrowing
<1>4. FormTypes' /\ Control'
  BY <1>0, <1>2, <1>3 DEF FormTypes, Control, SentGrows
<1>5. UNCHANGED <<stage, status, content_length, given, Emptied>>
  BY <1>2 DEF Emptied
<1>6. \A i \in 1..Len(t) : t[i] = "Transfer-Encoding"
  BY <1>1
<1>7. /\ Shape(Sent, "headers", status, framing, content_length, chunking_enabled, given, Emptied)
      /\ content_length \in BOOLEAN /\ chunking_enabled \in BOOLEAN /\ Emptied \in BOOLEAN
  BY <1>0 DEF SentShape, FormTypes, Emptied
<1>8. chunking_enabled' \in BOOLEAN /\ First(Sent', chunking_enabled')
  <2>1. First(Sent, chunking_enabled)
    BY <1>7 DEF Shape
  <2>2. Joined(Sent', Sent, t)
    BY <1>3 DEF SentGrows
  <2>3. First(Sent', TRUE)
    BY <1>1, <2>1, <2>2, FirstChunked
  <2> QED BY <1>2, <2>3
<1>9. Never(Sent', "Content-Length")
  <2>1. Never(t, "Content-Length")
    BY <1>6 DEF Never
  <2>2. Never(Sent, "Content-Length")
    BY <1>0, <1>7 DEF Shape, LengthDue
  <2> QED BY <1>3, <2>1, <2>2, NeverJoin DEF SentGrows
<1>10. \A i \in 1..Len(t) : t[i] \in EarlyParts
  BY <1>6 DEF EarlyParts
<1>11. ~LengthDue("headers", status, "chunked", content_length)
  BY DEF LengthDue
<1>12. status # "none" => Begun(Sent')
  BY <1>3, <1>7, BegunJoin DEF SentGrows, Shape
<1>13. Shape(Sent', "headers", status, "chunked", content_length, chunking_enabled', given, Emptied)
  BY <1>3, <1>7, <1>8, <1>9, <1>10, <1>11, <1>12, EarlyShape DEF SentGrows
<1>14. SentShape'
  BY <1>0, <1>2, <1>5, <1>13 DEF SentShape
<1> QED BY <1>4, <1>14 DEF FormInv

LEMMA FormSendStatus ==
  ASSUME FormInv, NEW s \in {"content", "empty"}, SendStatus(s)
  PROVE  FormInv'
<1> DEFINE t == <<"status">>
<1>0. FormTypes /\ Control /\ SentShape /\ stage = "headers" /\ status = "none"
  BY DEF FormInv, SendStatus
<1>1. t \in Seq(Parts) /\ Len(t) = 1 /\ t[1] = "status"
  BY DEF Parts, OwnParts
<1>2. /\ status' = s /\ phase' = "STATUS_SEEN" /\ action' = ActionFor(s) /\ Buffered(t, 1)
      /\ UNCHANGED <<content_length, headers, chunking_enabled, stage, continued, framing, given, pieces>>
  BY DEF SendStatus
<1> HIDE DEF t
<1>3. SentGrows(t)
  BY <1>0, <1>1, <1>2, SentGrowing
<1>4. FormTypes' /\ Control'
  BY <1>0, <1>2, <1>3 DEF FormTypes, Control, SentGrows
<1>5. UNCHANGED <<stage, framing, content_length, chunking_enabled, given, Emptied>>
  BY <1>2 DEF Emptied
<1>6. \A i \in 1..Len(t) : t[i] = "status"
  BY <1>1
<1>7. /\ Shape(Sent, "headers", status, framing, content_length, chunking_enabled, given, Emptied)
      /\ content_length \in BOOLEAN /\ chunking_enabled \in BOOLEAN /\ Emptied \in BOOLEAN
  BY <1>0 DEF SentShape, FormTypes, Emptied
<1>8. First(Sent', chunking_enabled)
  <2>1. First(Sent, chunking_enabled)
    BY <1>7 DEF Shape
  <2> QED BY <1>1, <1>3, <1>7, <2>1, FirstJoin DEF SentGrows
<1>9. Never(Sent', "Content-Length")
  <2>1. Never(t, "Content-Length")
    BY <1>6 DEF Never
  <2>2. Never(Sent, "Content-Length")
    BY <1>0, <1>7 DEF Shape, LengthDue
  <2> QED BY <1>3, <2>1, <2>2, NeverJoin DEF SentGrows
<1>10. \A i \in 1..Len(t) : t[i] \in EarlyParts
  BY <1>6 DEF EarlyParts
<1>11. ~LengthDue("headers", s, framing, content_length)
  BY <1>0 DEF LengthDue, Control
<1>12. Begun(Sent')
  <2>1. Begun(t)
    BY <1>1 DEF Begun
  <2> QED BY <1>3, <2>1, BegunJoin DEF SentGrows
<1>13. Shape(Sent', "headers", s, framing, content_length, chunking_enabled, given, Emptied)
  BY <1>3, <1>7, <1>8, <1>9, <1>10, <1>11, <1>12, EarlyShape DEF SentGrows
<1>14. SentShape'
  BY <1>0, <1>2, <1>5, <1>13 DEF SentShape
<1> QED BY <1>4, <1>14 DEF FormInv

LEMMA FormSendHeader ==
  ASSUME FormInv, NEW h \in Names, SendHeader(h)
  PROVE  FormInv'
<1>0. FormTypes /\ Control /\ stage = "headers"
  BY DEF FormInv, SendHeader
<1>1. /\ given' = Append(given, h) /\ headers' = Append(headers, h) /\ Buffered(<<>>, 0)
      /\ UNCHANGED <<phase, content_length, chunking_enabled, action, stage, continued, status, framing, pieces>>
  BY DEF SendHeader
<1>2. SentGrows(<<>>)
  <2>1. <<>> \in Seq(Parts)
    BY EmptySeq
  <2> QED BY <1>0, <1>1, <2>1, SentGrowing
<1>3. given' \in Seq(Names)
  BY <1>0, <1>1 DEF FormTypes
<1>4. FormTypes' /\ Control'
  BY <1>0, <1>1, <1>2, <1>3 DEF FormTypes, Control, SentGrows
<1>5. Sent' = Sent
  BY <1>0, <1>2, NoParts
<1>6. LengthDue(stage, status, framing, content_length)' <=> LengthDue(stage, status, framing, content_length)
  BY <1>1 DEF LengthDue
<1> QED BY <1>0, <1>1, <1>4, <1>5, <1>6, QuietKeeps

LEMMA FormCompleteHeader ==
  ASSUME FormInv, CompleteHeader
  PROVE  FormInv'
<1> DEFINE e == IF content_length THEN ConLenParts ELSE <<>>
           own == <<"Date", "Connection", "end">>
           eg == e \o headers
           t == eg \o own
           n == (IF content_length THEN ConLenRet ELSE 0) + Len(headers) + 3
<1>0. FormTypes /\ Control /\ SentShape /\ stage = "headers" /\ status # "none" /\ headers = given
  BY DEF FormInv, CompleteHeader, Control
<1>1. /\ stage' = "body" /\ Flushed(t, n)
      /\ UNCHANGED <<content_length, chunking_enabled, action, continued, status, framing, given, pieces>>
  BY DEF CompleteHeader
<1>2. e = IF content_length /\ status = "content" THEN <<"Content-Length">> ELSE <<>>
  BY <1>0 DEF Control, ActionFor, ConLenParts, FormTypes
<1>3. e \in Seq(Parts)
  <2>1. <<"Content-Length">> \in Seq(Parts) /\ <<>> \in Seq(Parts)
    BY DEF Parts, OwnParts
  <2> QED BY <1>2, <2>1, Zenon
<1>4. headers \in Seq(Names) /\ headers \in Seq(Parts)
  BY <1>0 DEF FormTypes, Parts
<1>5. own \in Seq(Parts)
  BY DEF Parts, OwnParts
<1> HIDE DEF e, n
<1>6. Joined(eg, e, headers) /\ eg \in Seq(Parts)
  BY <1>3, <1>4, JoinFacts DEF Joined
<1> HIDE DEF own, eg
<1>7. Joined(t, eg, own) /\ t \in Seq(Parts)
  BY <1>5, <1>6, JoinFacts DEF Joined
<1> HIDE DEF t
<1>8. SentGrows(t) /\ tx' = <<>>
  BY <1>0, <1>1, <1>7, SentGrowing DEF Flushed
<1>9. FormTypes' /\ Control'
  BY <1>0, <1>1, <1>8 DEF FormTypes, Control, SentGrows
<1>10. /\ Shape(Sent, "headers", status, framing, content_length, chunking_enabled, headers, Emptied)
       /\ content_length \in BOOLEAN /\ chunking_enabled \in BOOLEAN /\ Emptied \in BOOLEAN
       /\ content_length => framing = "length"
  BY <1>0 DEF SentShape, FormTypes, Emptied, Control
<1>11. own = <<"Date", "Connection", "end">>
  BY DEF own
<1>12. Sent \in Seq(Parts)
  BY <1>0, ConcatProperties DEF FormTypes, Sent
<1>13. Shape(Sent', "body", status, framing, content_length, chunking_enabled, headers, Emptied)
  <2>1. Joined(Sent', Sent, t)
    BY <1>8 DEF SentGrows
  <2> QED BY <1>0, <1>2, <1>3, <1>4, <1>6, <1>7, <1>10, <1>11, <1>12, <2>1, HeaderShape
<1>14. SentShape'
  <2>1. Emptied' = Emptied
    BY <1>1 DEF Emptied
  <2> QED BY <1>0, <1>1, <1>13, <2>1 DEF SentShape
<1> QED BY <1>9, <1>14 DEF FormInv

(* What both calls that send a part of the body have in common.            *)
LEMMA BodyStep ==
  ASSUME FormInv, stage = "body", NEW t \in Seq(BodyParts), Written(t),
         stage' \in {"body", "done"}, pieces' \in Seq({"data", "empty"}),
         UNCHANGED <<filterVars, continued, status, framing, given>>,
         LastAtEnd(Sent', stage', Emptied'),
         Ended(Sent', stage', chunking_enabled)
  PROVE  FormInv'
<1>0. FormTypes /\ Control /\ SentShape /\ tx = <<>> /\ status # "none"
  BY DEF FormInv, Control
<1>1. t \in Seq(Parts) /\ \A i \in 1..Len(t) : t[i] \in BodyParts
  <2>1. BodyParts \subseteq Parts
    BY DEF BodyParts, Parts, OwnParts
  <2> QED BY <2>1, ElementOfSeq
<1>2. SentGrows(t) /\ tx' = <<>>
  <2>1. tx' = <<>>
    BY <1>0 DEF Written
  <2> QED BY <1>0, <1>1, <2>1, SentGrowing
<1>3. FormTypes' /\ Control'
  BY <1>0, <1>2 DEF FormTypes, Control, SentGrows, filterVars
<1>4. /\ Shape(Sent, "body", status, framing, content_length, chunking_enabled, given, Emptied)
      /\ Len(given) \in Nat
  BY <1>0 DEF SentShape, FormTypes, Emptied
<1>5. Joined(Sent', Sent, t)
  BY <1>2 DEF SentGrows
<1>6. Shape(Sent', stage', status, framing, content_length, chunking_enabled, given, Emptied')
  <2> DEFINE r == Sent'
             st2 == stage'
             em2 == Emptied'
  <2>1. /\ Joined(r, Sent, t) /\ st2 \in {"body", "done"} 
        /\ LastAtEnd(r, st2, em2)
        /\ Ended(r, st2, chunking_enabled)
    BY <1>4, <1>5
  <2> HIDE DEF r, st2, em2
  <2>3. \A i \in 1..Len(t) : t[i] \in BodyParts
    BY <1>1
  <2>4. status # "none"
    BY <1>0
  <2>2. Shape(r, st2, status, framing, content_length, chunking_enabled, given, em2)
    BY <1>4, <2>1, <2>3, <2>4, BodyShape
  <2> QED BY <2>2 DEF r, st2, em2
<1>7. SentShape'
  BY <1>6 DEF SentShape, filterVars
<1> QED BY <1>3, <1>7 DEF FormInv

LEMMA FormSendBody ==
  ASSUME FormInv, NEW p \in {"data", "empty"}, SendBody(p)
  PROVE  FormInv'
<1> DEFINE t == IF ~chunking_enabled THEN IF p = "empty" THEN <<>> ELSE <<p>>
                ELSE IF p = "empty" THEN <<"last">> ELSE <<"size", p, "crlf">>
<1>0. FormTypes /\ Control /\ SentShape /\ stage = "body" /\ tx = <<>>
  BY DEF FormInv, SendBody, Control
<1>1. /\ pieces' = Append(pieces, p) /\ Written(t) /\ stage' = stage
      /\ UNCHANGED <<filterVars, continued, status, framing, given>>
  BY DEF SendBody
<1>2. t \in Seq(BodyParts)
  <2>1. <<>> \in Seq(BodyParts) /\ <<"data">> \in Seq(BodyParts) /\ <<"last">> \in Seq(BodyParts)
        /\ <<"size", "data", "crlf">> \in Seq(BodyParts)
    BY DEF BodyParts
  <2>2. p = "empty" \/ p = "data"
    OBVIOUS
  <2> QED BY <2>1, <2>2, Zenon
<1>3. Never(t, "last") \/ p = "empty"
  <2>1. CASE p = "data"
    <3>1. CASE chunking_enabled
      <4>1. t = <<"size", "data", "crlf">>
        BY <2>1, <3>1
      <4> HIDE DEF t
      <4> QED BY <4>1 DEF Never
    <3>2. CASE ~chunking_enabled
      <4>1. t = <<"data">>
        BY <2>1, <3>2
      <4> HIDE DEF t
      <4> QED BY <4>1 DEF Never
    <3> QED BY <3>1, <3>2
  <2> QED BY <2>1
<1> HIDE DEF t
<1>4. t \in Seq(Parts)
  <2>1. BodyParts \subseteq Parts
    BY DEF BodyParts, Parts, OwnParts
  <2> QED BY <1>2, <2>1
<1>5. Joined(Sent', Sent, t)
  BY <1>0, <1>1, <1>4, SentGrowing DEF SentGrows
<1>6. pieces' \in Seq({"data", "empty"}) /\ (Emptied => Emptied') /\ (p = "empty" => Emptied')
  <2>1. pieces \in Seq({"data", "empty"})
    BY <1>0 DEF FormTypes
  <2>2. /\ pieces' \in Seq({"data", "empty"}) /\ Len(pieces') = Len(pieces) + 1 /\ Len(pieces) \in Nat
        /\ \A i \in 1..Len(pieces) : pieces'[i] = pieces[i]
        /\ pieces'[Len(pieces) + 1] = p
    BY <1>1, <2>1
  <2>3. DOMAIN pieces = 1..Len(pieces) /\ DOMAIN pieces' = 1..Len(pieces')
    BY <2>1, <2>2
  <2>4. Emptied => Emptied'
    BY <2>2, <2>3 DEF Emptied, ToSet
  <2>5. p = "empty" => Emptied'
    <3>1. Len(pieces) + 1 \in DOMAIN pieces'
      BY <2>2, <2>3
    <3> QED BY <2>2, <3>1 DEF Emptied, ToSet
  <2> QED BY <2>2, <2>4, <2>5
<1>7. LastAtEnd(Sent', stage', Emptied')
  <2>1. CASE Emptied'
    BY <2>1 DEF LastAtEnd
  <2>2. CASE ~Emptied'
    <3>1. LastAtEnd(Sent, "body", Emptied) /\ ~Emptied
      BY <1>0, <1>6, <2>2 DEF SentShape, Shape
    <3>2. Never(Sent, "last")
      BY <3>1 DEF LastAtEnd, Never
    <3>3. Never(t, "last")
      BY <1>3, <1>6, <2>2
    <3>4. Never(Sent', "last")
      BY <1>5, <3>2, <3>3, NeverJoin
    <3> QED BY <3>4 DEF LastAtEnd, Never
  <2> QED BY <2>1, <2>2
<1>8. Ended(Sent', stage', chunking_enabled)
  BY <1>0, <1>1 DEF Ended
<1>9. stage' \in {"body", "done"}
  BY <1>0, <1>1
<1> QED BY <1>0, <1>1, <1>2, <1>6, <1>7, <1>8, <1>9, BodyStep

LEMMA FormCompleteRequest ==
  ASSUME FormInv, CompleteRequest
  PROVE  FormInv'
<1> DEFINE t == IF chunking_enabled THEN <<"last">> ELSE <<>>
<1>0. FormTypes /\ Control /\ SentShape /\ stage = "body" /\ tx = <<>>
  BY DEF FormInv, CompleteRequest, Control
<1>1. /\ stage' = "done" /\ Written(t) /\ pieces' = pieces
      /\ UNCHANGED <<filterVars, continued, status, framing, given>>
  BY DEF CompleteRequest
<1>2. t \in Seq(BodyParts) /\ \A i \in 1..Len(t) : i = Len(t)
  <2>1. CASE chunking_enabled
    <3>1. t = <<"last">>
      BY <2>1
    <3> HIDE DEF t
    <3> QED BY <3>1 DEF BodyParts
  <2>2. CASE ~chunking_enabled
    <3>1. t = <<>>
      BY <2>2
    <3> HIDE DEF t
    <3> QED BY <3>1
  <2> QED BY <2>1, <2>2
<1>3. chunking_enabled => Len(t) = 1 /\ t[1] = "last"
  <2> SUFFICES ASSUME chunking_enabled PROVE Len(t) = 1 /\ t[1] = "last"
    OBVIOUS
  <2>1. t = <<"last">>
    OBVIOUS
  <2> HIDE DEF t
  <2> QED BY <2>1
<1> HIDE DEF t
<1>4. t \in Seq(Parts)
  <2>1. BodyParts \subseteq Parts
    BY DEF BodyParts, Parts, OwnParts
  <2> QED BY <1>2, <2>1
<1>5. Joined(Sent', Sent, t)
  BY <1>0, <1>1, <1>4, SentGrowing DEF SentGrows
<1>6. Emptied' = Emptied /\ pieces' \in Seq({"data", "empty"})
  BY <1>0, <1>1 DEF Emptied, FormTypes
<1>7. LastAtEnd(Sent', stage', Emptied')
  <2>1. LastAtEnd(Sent, "body", Emptied)
    BY <1>0 DEF SentShape, Shape
  <2> SUFFICES ASSUME NEW i \in 1..Len(Sent'), Sent'[i] = "last" PROVE i = Len(Sent') \/ Emptied
    BY <1>1, <1>6 DEF LastAtEnd
  <2>2. CASE i \in 1..Len(Sent) /\ Sent'[i] = Sent[i]
    BY <2>1, <2>2 DEF LastAtEnd
  <2>3. CASE i - Len(Sent) \in 1..Len(t) /\ i > Len(Sent)
    <3>1. i - Len(Sent) = Len(t)
      BY <1>2, <2>3
    <3> QED BY <1>5, <3>1 DEF Joined
  <2> QED BY <1>5, <2>2, <2>3 DEF Joined
<1>8. Ended(Sent', stage', chunking_enabled)
  <2> SUFFICES ASSUME chunking_enabled PROVE Sent' # <<>> /\ Sent'[Len(Sent')] = "last"
    BY DEF Ended
  <2>1. Len(Sent') = Len(Sent) + 1 /\ Sent'[Len(Sent) + 1] = "last" /\ Len(Sent) \in Nat
    <3>1. Len(t) = 1 /\ t[1] = "last" /\ 1 \in 1..Len(t)
      BY <1>3
    <3>2. Len(Sent') = Len(Sent) + Len(t) /\ Len(Sent) \in Nat /\ Sent'[Len(Sent) + 1] = t[1]
      BY <1>5, <3>1 DEF Joined
    <3> QED BY <3>1, <3>2
  <2>2. Len(Sent') # 0
    BY <2>1
  <2>3. Sent' # <<>>
    BY <2>2, EmptySeq
  <2> QED BY <2>1, <2>3
<1>9. stage' \in {"body", "done"}
  BY <1>1
<1> QED BY <1>0, <1>1, <1>2, <1>6, <1>7, <1>8, <1>9, BodyStep

(* flush() moves the buffer and adds nothing.                              *)
LEMMA FormFlush ==
  ASSUME FormInv, Flush
  PROVE  FormInv'
<1>0. FormTypes /\ Control
  BY DEF FormInv
<1>1. wire' = wire \o tx /\ tx' = <<>> /\ UNCHANGED <<filterVars, callVars>>
  BY DEF Flush
<1>2. Sent \in Seq(Parts)
  BY <1>0, ConcatProperties DEF FormTypes, Sent
<1>3. wire' = Sent
  BY <1>1 DEF Sent
<1>4. Sent \o <<>> = Sent
  BY <1>2, ConcatEmptySeq
<1>5. Sent' = Sent
  <2>1. Sent' = Sent \o <<>>
    BY <1>1, <1>3, Zenon DEF Sent
  <2> QED BY <1>4, <2>1, Zenon
<1>6. <<>> \in Seq(Parts)
  BY EmptySeq
<1>7. FormTypes'
  BY <1>0, <1>1, <1>2, <1>3, <1>6 DEF FormTypes, filterVars, callVars
<1>8. Control'
  BY <1>0, <1>1 DEF Control, filterVars, callVars
<1>9. LengthDue(stage, status, framing, content_length)' <=> LengthDue(stage, status, framing, content_length)
  BY <1>1 DEF LengthDue, filterVars, callVars
<1>10. UNCHANGED <<stage, status, chunking_enabled, pieces, given>>
  BY <1>1 DEF filterVars, callVars
<1> QED BY <1>5, <1>7, <1>8, <1>9, <1>10, QuietKeeps

LEMMA FormQuiet ==
  ASSUME FormInv, UNCHANGED <<filterVars, callVars, tx, wire>>
  PROVE  FormInv'
<1>1. FormTypes'
  BY DEF FormInv, FormTypes, filterVars, callVars
<1>2. Control'
  BY DEF FormInv, Control, filterVars, callVars
<1>3. Sent' = Sent
  BY DEF Sent
<1>4. LengthDue(stage, status, framing, content_length)' <=> LengthDue(stage, status, framing, content_length)
  BY DEF LengthDue, filterVars, callVars
<1>5. UNCHANGED <<stage, status, chunking_enabled, pieces, given>>
  BY DEF filterVars, callVars
<1> QED BY <1>1, <1>2, <1>3, <1>4, <1>5, QuietKeeps

(* In whatever order the caller makes its calls, and for any number of     *)
(* headers and body pieces, the response that leaves the filters has its   *)
(* status first, every header given once and in order, no content length   *)
(* beside a 204 or 304, no part of the body before the end of the header   *)
(* although send_body bypasses ClientIO's buffer, and a last chunk at its  *)
(* end if chunking was announced.                                          *)
THEOREM ResponseWellFormed == Spec => []WellFormed
<1>1. Init => FormInv
  <2> SUFFICES ASSUME Init PROVE FormInv
    OBVIOUS
  <2>1. /\ wire = <<>> /\ tx = <<>> /\ given = <<>> /\ headers = <<>> /\ pieces = <<>>
        /\ stage = "headers" /\ status = "none" /\ framing = "none"
        /\ content_length = FALSE /\ chunking_enabled = FALSE /\ action = "UNKNOWN" /\ phase = "EARLY_HEADERS"
    BY DEF Init, ReorderingFilter, ChunkingFilter, ConLenControllingFilter
  <2>2. <<>> \in Seq(Parts) /\ <<>> \in Seq(Names) /\ <<>> \in Seq({"data", "empty"})
    BY EmptySeq
  <2>3. Sent = <<>>
    <3>1. <<>> \o <<>> = <<>>
      BY <2>2, ConcatEmptySeq
    <3> QED BY <2>1, <3>1, Zenon DEF Sent
  <2>4. Len(Sent) = 0
    BY <2>3
  <2>5. 1..0 = {}
    OBVIOUS
  <2>6. SentShape
    <3> DEFINE o == Sent
    <3>1. Len(o) = 0
      BY <2>4
    <3> HIDE DEF o
    <3>2. Shape(o, stage, status, framing, content_length, chunking_enabled, given, Emptied)
      BY <2>1, <3>1 DEF Shape, First, LengthDue, Never, LastAtEnd, Ended
    <3> QED BY <3>2 DEF o, SentShape
  <2>7. FormTypes
    BY <2>1, <2>2 DEF FormTypes
  <2>8. Control
    BY <2>1 DEF Control
  <2> QED BY <2>6, <2>7, <2>8 DEF FormInv
<1>2. FormInv /\ [Next]_vars => FormInv'
  <2> SUFFICES ASSUME FormInv, [Next]_vars PROVE FormInv'
    OBVIOUS
  <2>1. CASE Calls
    <3>1. ASSUME NEW e \in BOOLEAN, SetAccount(e) PROVE FormInv'
      <4>1. UNCHANGED <<filterVars, callVars, tx, wire>>
        BY <3>1 DEF SetAccount
      <4> QED BY <4>1, FormQuiet
    <3> QED BY <2>1, <3>1, FormSend100, FormSendContentLength, FormSendChunked, FormCompleteHeader,
               FormCompleteRequest, FormFlush, FormSendStatus, FormSendHeader, FormSendBody DEF Calls
  <2>2. ASSUME NEW n \in {0, 1, SizeMod - 1}, RecvBody(n) PROVE FormInv'
    <3>1. UNCHANGED <<filterVars, callVars, tx, wire>>
      BY <2>2 DEF RecvBody, outVars
    <3> QED BY <3>1, FormQuiet
  <2>3. CASE UNCHANGED vars
    <3>1. UNCHANGED <<filterVars, callVars, tx, wire>>
      BY <2>3 DEF vars, outVars
    <3> QED BY <3>1, FormQuiet
  <2> QED BY <2>1, <2>2, <2>3 DEF Next, Done
<1>3. FormInv => WellFormed
  <2> SUFFICES ASSUME FormInv PROVE WellFormed
    OBVIOUS
  <2>0. FormTypes /\ Control /\ SentShape
    BY DEF FormInv
  <2>1. StatusFirst
    BY <2>0 DEF SentShape, Shape, First, StatusFirst
  <2>2. CASE stage = "headers"
    BY <2>1, <2>2 DEF WellFormed, HeadersKept, HeaderBeforeBody, ChunkedEnd
  <2>3. CASE stage # "headers"
    <3>1. tx = <<>> /\ wire \in Seq(Parts)
      BY <2>0, <2>3 DEF Control, FormTypes
    <3>2. Sent = wire
      <4>1. wire \o <<>> = wire
        BY <3>1, ConcatEmptySeq
      <4> QED BY <3>1, <4>1, Zenon DEF Sent
    <3>3. Shape(wire, stage, status, framing, content_length, chunking_enabled, given, Emptied)
      BY <2>0, <3>2 DEF SentShape
    <3>4. HeadersKept
      <4>1. HeadersIn(wire, given)
        BY <2>3, <3>3 DEF Shape
      <4>2. IF framing = "length" /\ status = "content" THEN Once(wire, "Content-Length")
                                                        ELSE Never(wire, "Content-Length")
        BY <2>3, <3>3 DEF Shape, LengthDue
      <4> QED BY <4>1, <4>2 DEF HeadersKept, HeadersIn
    <3>5. HeaderBeforeBody
      BY <2>3, <3>1, <3>3 DEF Shape, EndFirst, HeaderBeforeBody
    <3>6. ChunkedEnd
      <4> SUFFICES ASSUME stage = "done", framing = "chunked"
                   PROVE  wire # <<>> /\ wire[Len(wire)] = "last" /\ (Emptied \/ Once(wire, "last"))
        BY DEF ChunkedEnd, Emptied
      <4>1. wire # <<>> /\ wire[Len(wire)] = "last"
        BY <2>0, <3>3 DEF Shape, Ended, Control
      <4>2. LastAtEnd(wire, "done", Emptied)
        BY <3>3 DEF Shape
      <4>3. Len(wire) \in 1..Len(wire)
        BY <3>1, <4>1, EmptySeq
      <4>4. CASE ~Emptied
        <5>1. \A j \in 1..Len(wire) : wire[j] = "last" <=> j = Len(wire)
          BY <4>1, <4>2, <4>4 DEF LastAtEnd
        <5> QED BY <4>1, <4>3, <5>1 DEF Once
      <4> QED BY <4>1, <4>4
    <3> QED BY <2>1, <3>4, <3>5, <3>6 DEF WellFormed
  <2> QED BY <2>2, <2>3
<1> QED BY <1>1, <1>2, <1>3, PTL DEF Spec
=============================================================================
