----------------------- MODULE HttpConnectionProofs -------------------------
(***************************************************************************)
(* Theorems about HttpConnection, for any number of requests, bodies of    *)
(* any length and any width of int.                                        *)
(***************************************************************************)
EXTENDS HttpConnection, SequenceTheorems, TLAPS

Items == Requests \cup {BadHeader, Body}

TypeOK ==
    /\ pc \in Running \cup Waiting \cup Failed \cup Over
    /\ sock \in {"open", "shut", "closed"} /\ client \in {"up", "fin", "rst"}
    /\ req \in Items \cup {NoReq}
    /\ left \in Nat /\ room \in Nat /\ sending \in Nat /\ nreq \in Nat
    /\ inq \in Seq(Items) /\ nbuf \in 0..Len(inq)

(* The request stream q when the parser expects l more units of body and   *)
(* the client has n still to send: after a header, and at the beginning,   *)
(* come as many units of body as are announced, then another header, or    *)
(* the client has not got further yet.                                     *)
Size(q, l, i) == IF i = 0 THEN l ELSE q[i].size

FramedFrom(q, l, n, i) ==
    /\ \A j \in 1..Len(q) : i < j /\ j <= i + Size(q, l, i) => q[j] = Body
    /\ i + Size(q, l, i) < Len(q) => q[i + Size(q, l, i) + 1] # Body
    /\ i + Size(q, l, i) >= Len(q) => n = i + Size(q, l, i) - Len(q)

WellFramed(q, l, n) ==
    \A i \in 0..Len(q) : (i = 0 \/ q[i] # Body) => FramedFrom(q, l, n, i)

(* How far the request has been read, by the place of the coroutine.       *)
Progress ==
    /\ pc \in {"loop", "loop_wait"} => left = 0
    /\ pc \in {"got", "process", "cont_wait", "alloc"} => left = req.size
    /\ pc \in {"recv", "recv_wait"} => room = left
    /\ pc \in {"reply", "reply_wait"} => left = 0 /\ room = 0

(* putobj runs for a PUT or POST only, and nothing else throws but for     *)
(* the socket that stop() closed.                                          *)
InPutobj ==
    /\ pc \in {"cont_wait", "alloc", "recv", "recv_wait", "reply", "reply_wait", "throwing"}
         => req.method = "put"
    /\ pc = "threw" => req.method = "put" \/ sock = "closed"

(* Where the coroutine may be with "200" written, and what it writes       *)
(* before that.                                                            *)
Has200(s) == \E i \in 1..Len(s) : s[i] = "200"

Answer ==
    /\ pc \in {"got", "process", "cont_wait", "bad", "bad_wait"} => resp = <<>>
    /\ pc = "cont_wait" => tx = <<"100">>
    /\ Has200(resp) =>
         /\ left = 0 /\ room = 0
         /\ pc \in {"after", "discard", "loop", "loop_wait", "returning", "returned"}

ConnInv == TypeOK /\ WellFramed(inq, left, sending) /\ Progress /\ InPutobj /\ Answer

-----------------------------------------------------------------------------
(* What the parser can meet in the stream.                                 *)
LEMMA ItemFacts ==
  /\ \A x \in Items \cup {NoReq} : x.size \in Nat
  /\ \A x \in Requests \cup {BadHeader} : x # Body /\ x \in Items
  /\ Body \in Items /\ BadHeader \in Items
<1>1. \A x \in Requests : x.size \in Nat /\ x.method \in {"put", "other"}
  BY IntMaxAssumption DEF Requests
<1>2. BadHeader.size = 0 /\ Body.size = 0 /\ NoReq.size = 0
      /\ BadHeader.method = "bad" /\ Body.method = "body"
  BY DEF BadHeader, Body, NoReq
<1> QED BY <1>1, <1>2 DEF Items

(* What k of the minimum in BodyUnits is bounded by.                       *)
LEMMA MinBounds ==
  ASSUME NEW a \in Nat, NEW b \in Nat, NEW c \in Nat, NEW k \in 1..Min({a, b, c})
  PROVE  k \in Nat /\ k <= a /\ k <= b /\ k <= c
<1> DEFINE S == {a, b, c}
<1>1. \E x \in S : \A y \in S : x <= y
  <2>1. CASE a <= b /\ a <= c
    BY <2>1
  <2>2. CASE b <= a /\ b <= c
    BY <2>2
  <2>3. CASE c <= a /\ c <= b
    BY <2>3
  <2> QED BY <2>1, <2>2, <2>3
<1>2. Min(S) \in S /\ \A y \in S : Min(S) <= y
  BY <1>1 DEF Min
<1> QED BY <1>2

(* The client starts another request after the last unit of a body.        *)
LEMMA AppendHeader ==
  ASSUME NEW q \in Seq(Items), NEW l \in Nat, WellFramed(q, l, 0),
         NEW r \in Items, r # Body
  PROVE  WellFramed(Append(q, r), l, r.size)
<1> DEFINE p == Append(q, r)
<1>1. Len(p) = Len(q) + 1 /\ p[Len(p)] = r /\ (\A i \in 1..Len(q) : p[i] = q[i]) /\ Len(q) \in Nat
      /\ r.size \in Nat
  BY ItemFacts
<1> SUFFICES ASSUME NEW i \in 0..Len(p), i = 0 \/ p[i] # Body PROVE FramedFrom(p, l, r.size, i)
  BY DEF WellFramed
<1>2. CASE i = Len(p)
  BY <1>1, <1>2 DEF FramedFrom, Size
<1>3. CASE i < Len(p)
  <2>1. i \in 0..Len(q) /\ (i = 0 \/ q[i] # Body) /\ Size(p, l, i) = Size(q, l, i)
    BY <1>1, <1>3 DEF Size
  <2>2. FramedFrom(q, l, 0, i) /\ Size(q, l, i) \in Nat
    BY <1>1, <2>1, ItemFacts DEF WellFramed, Size
  <2> HIDE DEF p
  <2> QED BY <1>1, <2>1, <2>2 DEF FramedFrom
<1> QED BY <1>1, <1>2, <1>3

(* It sends the units of body that it owes.                                *)
LEMMA AppendBody ==
  ASSUME NEW q \in Seq(Items), NEW l \in Nat, NEW n \in Nat, n > 0, WellFramed(q, l, n)
  PROVE  WellFramed(Append(q, Body), l, n - 1)
<1> DEFINE p == Append(q, Body)
<1>1. Len(p) = Len(q) + 1 /\ p[Len(p)] = Body /\ (\A i \in 1..Len(q) : p[i] = q[i]) /\ Len(q) \in Nat
  BY ItemFacts
<1> HIDE DEF p
<1> SUFFICES ASSUME NEW i \in 0..Len(p), i = 0 \/ p[i] # Body PROVE FramedFrom(p, l, n - 1, i)
  BY DEF WellFramed, p
<1>2. i \in 0..Len(q) /\ (i = 0 \/ q[i] # Body) /\ Size(p, l, i) = Size(q, l, i)
  BY <1>1 DEF Size
<1>3. FramedFrom(q, l, n, i) /\ Size(q, l, i) \in Nat
  BY <1>2, ItemFacts DEF WellFramed, Size
<1> DEFINE z == Size(q, l, i)
<1>4. /\ \A j \in 1..Len(q) : i < j /\ j <= i + z => q[j] = Body
      /\ i + z < Len(q) => q[i + z + 1] # Body
      /\ i + z >= Len(q) => n = i + z - Len(q)
  BY <1>3 DEF FramedFrom
<1>5. z \in Nat /\ Size(p, l, i) = z
  BY <1>2, <1>3
<1> HIDE DEF z
<1>6. \A j \in 1..Len(p) : i < j /\ j <= i + z => p[j] = Body
  BY <1>1, <1>2, <1>4, <1>5
<1>7. i + z < Len(p) => p[i + z + 1] # Body
  BY <1>1, <1>2, <1>4, <1>5
<1>8. i + z >= Len(p) => n - 1 = i + z - Len(p)
  BY <1>1, <1>2, <1>4, <1>5
<1> QED BY <1>5, <1>6, <1>7, <1>8 DEF FramedFrom

(* With no body expected, the first item is a header, and the parser that  *)
(* takes it expects the body it announces.                                 *)
LEMMA TakeHeader ==
  ASSUME NEW q \in Seq(Items), NEW n \in Nat, WellFramed(q, 0, n), q # <<>>
  PROVE  /\ q[1] # Body /\ WellFramed(SubSeq(q, 2, Len(q)), q[1].size, n)
         /\ SubSeq(q, 2, Len(q)) \in Seq(Items) /\ Len(SubSeq(q, 2, Len(q))) = Len(q) - 1
<1> DEFINE p == SubSeq(q, 2, Len(q))
<1>1. Len(p) = Len(q) - 1 /\ (\A i \in 1..Len(p) : p[i] = q[i + 1]) /\ Len(q) \in Nat /\ Len(q) > 0
  <2>1. Len(q) \in Nat /\ Len(q) > 0
    BY EmptySeq
  <2>2. \A i \in 2..Len(q) : q[i] \in Items
    OBVIOUS
  <2>3. /\ Len(p) = IF 2 <= Len(q) THEN Len(q) - 2 + 1 ELSE 0
        /\ \A i \in 1..(Len(q) - 2 + 1) : p[i] = q[2 + i - 1]
    BY <2>1, <2>2, SubSeqProperties
  <2> HIDE DEF p
  <2>4. Len(p) = Len(q) - 1
    <3> DEFINE m == Len(q)
    <3>1. m \in Nat /\ m > 0 /\ Len(p) = IF 2 <= m THEN m - 2 + 1 ELSE 0
      BY <2>1, <2>3
    <3> HIDE DEF m
    <3>2. Len(p) = m - 1
      BY <3>1
    <3> QED BY <3>2 DEF m
  <2>5. ASSUME NEW i \in 1..Len(p) PROVE p[i] = q[i + 1]
    <3>1. i \in 1..(Len(q) - 2 + 1) /\ 2 + i - 1 = i + 1
      BY <2>1, <2>4
    <3> QED BY <2>3, <3>1
  <2> QED BY <2>1, <2>4, <2>5
<1> HIDE DEF p
<1>2. q[1] # Body
  BY <1>1 DEF WellFramed, FramedFrom, Size
<1>s. SubSeq(q, 2, Len(q)) \in Seq(Items)
  OBVIOUS
<1> SUFFICES ASSUME NEW i \in 0..Len(p), i = 0 \/ p[i] # Body PROVE FramedFrom(p, q[1].size, n, i)
  BY <1>1, <1>2, <1>s DEF WellFramed, p
<1>3. i + 1 \in 1..Len(q) /\ q[i + 1] # Body /\ Size(p, q[1].size, i) = Size(q, 0, i + 1)
  BY <1>1, <1>2 DEF Size
<1>4. FramedFrom(q, 0, n, i + 1) /\ Size(q, 0, i + 1) \in Nat
  BY <1>3, ItemFacts DEF WellFramed, Size
<1> DEFINE z == Size(q, 0, i + 1)
<1>5. /\ \A j \in 1..Len(q) : i + 1 < j /\ j <= i + 1 + z => q[j] = Body
      /\ i + 1 + z < Len(q) => q[i + 1 + z + 1] # Body
      /\ i + 1 + z >= Len(q) => n = i + 1 + z - Len(q)
  BY <1>4 DEF FramedFrom
<1>6. z \in Nat /\ Size(p, q[1].size, i) = z
  BY <1>3, <1>4
<1> HIDE DEF z
<1>7. \A j \in 1..Len(p) : i < j /\ j <= i + z => p[j] = Body
  BY <1>1, <1>5, <1>6
<1>8. i + z < Len(p) => p[i + z + 1] # Body
  BY <1>1, <1>5, <1>6
<1>9. i + z >= Len(p) => n = i + z - Len(p)
  BY <1>1, <1>5, <1>6
<1> QED BY <1>6, <1>7, <1>8, <1>9 DEF FramedFrom

(* The parser takes k of the units of body that it expects.                *)
LEMMA TakeBody ==
  ASSUME NEW q \in Seq(Items), NEW l \in Nat, NEW n \in Nat, WellFramed(q, l, n),
         NEW k \in Nat, k <= l, k <= Len(q)
  PROVE  WellFramed(SubSeq(q, k + 1, Len(q)), l - k, n)
<1> DEFINE p == SubSeq(q, k + 1, Len(q))
<1>1. Len(p) = Len(q) - k /\ (\A i \in 1..Len(p) : p[i] = q[i + k]) /\ Len(q) \in Nat
  OBVIOUS
<1> HIDE DEF p
<1> SUFFICES ASSUME NEW i \in 0..Len(p), i = 0 \/ p[i] # Body PROVE FramedFrom(p, l - k, n, i)
  BY DEF WellFramed, p
<1>2. CASE i = 0
  <2>1. FramedFrom(q, l, n, 0) /\ Size(q, l, 0) = l /\ Size(p, l - k, i) = l - k
    BY <1>1, <1>2 DEF WellFramed, Size
  <2>2. /\ \A j \in 1..Len(q) : 0 < j /\ j <= 0 + l => q[j] = Body
        /\ 0 + l < Len(q) => q[0 + l + 1] # Body
        /\ 0 + l >= Len(q) => n = 0 + l - Len(q)
    BY <2>1 DEF FramedFrom
  <2>3. \A j \in 1..Len(p) : i < j /\ j <= i + (l - k) => p[j] = Body
    BY <1>1, <1>2, <2>2
  <2>4. i + (l - k) < Len(p) => p[i + (l - k) + 1] # Body
    BY <1>1, <1>2, <2>2
  <2>5. i + (l - k) >= Len(p) => n = i + (l - k) - Len(p)
    BY <1>1, <1>2, <2>2
  <2> QED BY <2>1, <2>3, <2>4, <2>5 DEF FramedFrom
<1>3. CASE i > 0
  <2>1. i + k \in 1..Len(q) /\ q[i + k] # Body /\ Size(p, l - k, i) = Size(q, l, i + k)
    BY <1>1, <1>3 DEF Size
  <2>2. FramedFrom(q, l, n, i + k) /\ Size(q, l, i + k) \in Nat
    BY <2>1, ItemFacts DEF WellFramed, Size
  <2> DEFINE z == Size(q, l, i + k)
  <2>3. /\ \A j \in 1..Len(q) : i + k < j /\ j <= i + k + z => q[j] = Body
        /\ i + k + z < Len(q) => q[i + k + z + 1] # Body
        /\ i + k + z >= Len(q) => n = i + k + z - Len(q)
    BY <2>2 DEF FramedFrom
  <2>4. z \in Nat /\ Size(p, l - k, i) = z
    BY <2>1, <2>2
  <2> HIDE DEF z
  <2>5. \A j \in 1..Len(p) : i < j /\ j <= i + z => p[j] = Body
    BY <1>1, <2>3, <2>4
  <2>6. i + z < Len(p) => p[i + z + 1] # Body
    <3>1. i + z < Len(p) => p[i + z + 1] = q[i + z + 1 + k]
      BY <1>1, <2>4
    <3> QED BY <1>1, <2>3, <2>4, <3>1
  <2>7. i + z >= Len(p) => n = i + z - Len(p)
    BY <1>1, <2>3, <2>4
  <2> QED BY <2>4, <2>5, <2>6, <2>7 DEF FramedFrom
<1> QED BY <1>2, <1>3

-----------------------------------------------------------------------------
LEMMA ConnStarts == Init => ConnInv
<1> SUFFICES ASSUME Init PROVE ConnInv
  OBVIOUS
<1>1. TypeOK
  BY EmptySeq DEF Init, TypeOK, Running
<1>2. WellFramed(inq, left, sending)
  BY DEF Init, WellFramed, FramedFrom, Size
<1>3. Answer
  <2>1. ~Has200(resp)
    BY DEF Init, Has200
  <2> QED BY <2>1, EmptySeq DEF Init, Answer
<1> QED BY <1>1, <1>2, <1>3 DEF Init, ConnInv, Progress, InPutobj

(* A piece of body goes from the stream to the caller's buffer.            *)
LEMMA BodyUnitsTaken ==
  ASSUME TypeOK, WellFramed(inq, left, sending), NEW k, BodyUnits(k)
  PROVE  /\ k \in Nat /\ k > 0
         /\ left' = left - k /\ left' \in Nat /\ room' = room - k /\ room' \in Nat
         /\ inq' \in Seq(Items) /\ nbuf' \in 0..Len(inq')
         /\ WellFramed(inq', left', sending')
         /\ UNCHANGED <<client, sending, nreq>>
<1>0. nbuf \in Nat /\ left \in Nat /\ room \in Nat /\ Len(inq) \in Nat /\ nbuf <= Len(inq)
      /\ inq \in Seq(Items) /\ sending \in Nat
  BY DEF TypeOK
<1>1. k \in Nat /\ k > 0 /\ k <= nbuf /\ k <= left /\ k <= room
  BY <1>0, MinBounds DEF BodyUnits
<1>2. inq' = SubSeq(inq, k + 1, Len(inq)) /\ nbuf' = nbuf - k /\ UNCHANGED <<client, sending, nreq>>
      /\ left' = left - k /\ room' = room - k
  BY DEF BodyUnits, Consume
<1>3. inq' \in Seq(Items) /\ Len(inq') = Len(inq) - k
  BY <1>0, <1>1, <1>2
<1>4. WellFramed(inq', left', sending')
  BY <1>0, <1>1, <1>2, TakeBody
<1> QED BY <1>0, <1>1, <1>2, <1>3, <1>4

(* A header goes from the stream to the parser.                            *)
LEMMA HeaderTaken ==
  ASSUME TypeOK, WellFramed(inq, left, sending), Progress, HeaderRead
  PROVE  /\ req' \in Items /\ req' # Body /\ left' = req'.size /\ left' \in Nat /\ room' = 0
         /\ inq' \in Seq(Items) /\ nbuf' \in 0..Len(inq')
         /\ WellFramed(inq', left', sending')
         /\ UNCHANGED <<client, sending, nreq, sock>>
<1>0. nbuf \in Nat /\ Len(inq) \in Nat /\ nbuf <= Len(inq) /\ inq \in Seq(Items) /\ sending \in Nat
  BY DEF TypeOK
<1>1. nbuf > 0 /\ left = 0
  BY DEF HeaderRead, Progress
<1>2. inq # <<>> /\ Head(inq) = inq[1] /\ inq[1] \in Items
  BY <1>0, <1>1
<1>3. inq' = SubSeq(inq, 2, Len(inq)) /\ nbuf' = nbuf - 1 /\ UNCHANGED <<client, sending, nreq, sock>>
      /\ req' = inq[1] /\ left' = inq[1].size /\ room' = 0
  BY <1>2 DEF HeaderRead, Consume
<1>4. /\ inq[1] # Body /\ WellFramed(inq', left', sending')
      /\ inq' \in Seq(Items) /\ Len(inq') = Len(inq) - 1
  BY <1>0, <1>1, <1>2, <1>3, TakeHeader
<1> QED BY <1>0, <1>1, <1>2, <1>3, <1>4, ItemFacts

(* What the client does keeps the stream framed and leaves the server      *)
(* alone.                                                                  *)
LEMMA ClientKeeps == ASSUME ConnInv, Client PROVE ConnInv'
<1> USE DEF ConnInv
<1>1. UNCHANGED <<serverVars, sock>>
  BY DEF Client, ClientRequest, ClientBody, ClientGone
<1>2. Progress' /\ InPutobj' /\ Answer'
  BY <1>1 DEF serverVars, Progress, InPutobj, Answer, Has200
<1>3. ASSUME NEW r \in Requests \cup {BadHeader}, ClientRequest(r) PROVE ConnInv'
  <2>1. WellFramed(inq', left', sending')
    BY <1>1, <1>3, AppendHeader, ItemFacts DEF ClientRequest, serverVars, TypeOK
  <2>2. inq' \in Seq(Items) /\ Len(inq') = Len(inq) + 1 /\ Len(inq) \in Nat
    BY <1>3, ItemFacts DEF ClientRequest, TypeOK
  <2>3. sending' \in Nat
    BY <1>3, ItemFacts DEF ClientRequest
  <2> QED BY <1>1, <1>2, <1>3, <2>1, <2>2, <2>3 DEF ClientRequest, serverVars, TypeOK
<1>4. CASE ClientBody
  <2>1. WellFramed(inq', left', sending')
    BY <1>1, <1>4, AppendBody DEF ClientBody, serverVars, TypeOK
  <2>2. inq' \in Seq(Items) /\ Len(inq') = Len(inq) + 1 /\ Len(inq) \in Nat
    BY <1>4, ItemFacts DEF ClientBody, TypeOK
  <2> QED BY <1>1, <1>2, <1>4, <2>1, <2>2 DEF ClientBody, serverVars, TypeOK
<1>5. CASE ClientGone
  BY <1>1, <1>2, <1>5 DEF ClientGone, serverVars, TypeOK
<1> QED BY <1>3, <1>4, <1>5 DEF Client

(* The steps of the coroutine that read neither from the stream nor write: *)
(* they keep what the invariant says of the stream.                        *)
Quiet ==
    \/ LoopHead \/ HeaderEnd \/ HeaderOtherError \/ BadRequest \/ LocalEndpoint \/ Process
    \/ AfterProcess \/ Discard \/ DiscardFails \/ Alloc \/ RecvBody \/ BodyFails \/ Reply
    \/ Return \/ Throw

LEMMA QuietKeeps == ASSUME ConnInv, Quiet PROVE ConnInv'
<1> USE DEF ConnInv
<1>1. UNCHANGED <<inq, nbuf, left, client, sending, nreq>>
  BY DEF Quiet, LoopHead, HeaderEnd, HeaderOtherError, BadRequest, LocalEndpoint, Process,
         AfterProcess, Discard, DiscardFails, Alloc, RecvBody, BodyFails, Reply, Return, Throw, clientVars
<1>2. WellFramed(inq', left', sending')
  BY <1>1
<1>3. TypeOK'
  <2>1. pc' \in Running \cup Waiting \cup Failed \cup Over /\ sock' \in {"open", "shut", "closed"}
    BY DEF Quiet, LoopHead, HeaderEnd, HeaderOtherError, BadRequest, LocalEndpoint, Process,
           AfterProcess, Discard, DiscardFails, Alloc, RecvBody, BodyFails, Reply, Return, Throw,
           TypeOK, Running, Waiting, Failed, Over, ShutdownBoth, AfterDiscardError
  <2>2. req' \in Items \cup {NoReq}
    BY ItemFacts
       DEF Quiet, LoopHead, HeaderEnd, HeaderOtherError, BadRequest, LocalEndpoint, Process,
           AfterProcess, Discard, DiscardFails, Alloc, RecvBody, BodyFails, Reply, Return, Throw, TypeOK
  <2>3. room' \in Nat
    <3>1. CASE Alloc
      BY <3>1, ItemFacts DEF Alloc, InitEnv, HasVal, TypeOK
    <3>2. CASE ~Alloc
      BY <3>2 DEF Quiet, LoopHead, HeaderEnd, HeaderOtherError, BadRequest, LocalEndpoint, Process,
           AfterProcess, Discard, DiscardFails, RecvBody, BodyFails, Reply, Return, Throw, TypeOK
    <3> QED BY <3>1, <3>2
  <2> QED BY <1>1, <2>1, <2>2, <2>3 DEF TypeOK
<1>4. Progress'
  <2>1. CASE Alloc
    BY <1>1, <2>1, ItemFacts DEF Alloc, InitEnv, HasVal, Progress, TypeOK
  <2>2. CASE RecvBody
    BY <1>1, <2>2 DEF RecvBody, Progress, TypeOK
  <2>3. CASE LoopHead \/ Discard \/ Process \/ LocalEndpoint
    BY <1>1, <2>3 DEF LoopHead, Discard, IsDone, Process, LocalEndpoint, Progress
  <2>4. CASE \/ HeaderEnd \/ HeaderOtherError \/ BadRequest \/ AfterProcess \/ DiscardFails
             \/ BodyFails \/ Return \/ Throw
    BY <2>4 DEF HeaderEnd, HeaderOtherError, BadRequest, AfterProcess, DiscardFails,
                AfterDiscardError, BodyFails, Return, Throw, Progress
  <2>5. CASE Reply
    BY <1>1, <2>5 DEF Reply, Progress
  <2> QED BY <2>1, <2>2, <2>3, <2>4, <2>5 DEF Quiet
<1>5. InPutobj'
  <2>1. CASE Alloc \/ RecvBody \/ BodyFails \/ Reply \/ Process
    BY <2>1 DEF Alloc, RecvBody, BodyFails, Reply, Process, InPutobj
  <2>2. CASE LoopHead \/ HeaderEnd \/ HeaderOtherError \/ BadRequest \/ LocalEndpoint
    BY <2>2 DEF LoopHead, HeaderEnd, HeaderOtherError, BadRequest, LocalEndpoint, InPutobj
  <2>3. CASE AfterProcess \/ Discard \/ DiscardFails \/ Return \/ Throw
    BY <2>3 DEF AfterProcess, Discard, DiscardFails, AfterDiscardError, Return, Throw, InPutobj
  <2> QED BY <2>1, <2>2, <2>3 DEF Quiet
<1>6. Answer'
  <2>1. CASE Process
    BY <1>1, <2>1 DEF Process, Answer, Has200
  <2>2. CASE Reply
    BY <1>1, <2>2 DEF Reply, Answer, Has200
  <2>3. CASE HeaderOtherError
    <3>1. ~Has200(resp')
      BY <2>3 DEF HeaderOtherError, Has200
    <3> QED BY <2>3, <3>1, EmptySeq DEF HeaderOtherError, Answer
  <2>4. CASE \/ LoopHead \/ HeaderEnd \/ BadRequest \/ LocalEndpoint \/ AfterProcess \/ DiscardFails
             \/ RecvBody \/ BodyFails \/ Return \/ Throw \/ Discard \/ Alloc
    BY <1>1, <2>4 DEF LoopHead, HeaderEnd, BadRequest, LocalEndpoint, AfterProcess, DiscardFails,
                RecvBody, BodyFails, Return, Throw, Discard, IsDone, Alloc, AfterDiscardError, Answer,
                Has200
  <2> QED BY <2>1, <2>2, <2>3, <2>4 DEF Quiet
<1> QED BY <1>2, <1>3, <1>4, <1>5, <1>6

(* The steps that take something from the stream, or fill the parse        *)
(* buffer.                                                                 *)
LEMMA ReadKeeps ==
  ASSUME ConnInv,
         HeaderRead \/ Fill \/ \E k \in 1..(IntMax + 1) : Discarded(k) \/ BodyRead(k)
  PROVE  ConnInv'
<1> USE DEF ConnInv
<1>1. CASE HeaderRead
  <2>0. /\ pc' \in {"got", "bad"} /\ tx' = <<>> /\ resp' = <<>>
    BY <1>1 DEF HeaderRead, NewClientIO
  <2>1. TypeOK'
    BY <1>1, <2>0, HeaderTaken DEF TypeOK, Running
  <2>2. Progress' /\ InPutobj'
    BY <1>1, <2>0, HeaderTaken DEF Progress, InPutobj
  <2>3. ~Has200(resp')
    BY <2>0 DEF Has200
  <2> QED BY <1>1, <2>0, <2>1, <2>2, <2>3, HeaderTaken DEF Answer
<1>2. CASE Fill
  BY <1>2 DEF Fill, clientVars, TypeOK, Progress, InPutobj, Answer, Has200
<1>3. ASSUME NEW k, Discarded(k) \/ BodyRead(k) PROVE ConnInv'
  <2>0. /\ BodyUnits(k) /\ UNCHANGED <<req, tx, resp, sock>>
        /\ \/ pc = "discard_wait" /\ pc' = "discard"
           \/ pc = "recv_wait" /\ pc' = "recv"
    BY <1>3 DEF Discarded, BodyRead, AfterPiece
  <2>1. TypeOK'
    BY <2>0, BodyUnitsTaken DEF TypeOK, Running
  <2>2. Progress' /\ InPutobj'
    BY <2>0, BodyUnitsTaken DEF Progress, InPutobj, TypeOK
  <2>3. Answer'
    BY <2>0 DEF Answer, Has200
  <2> QED BY <2>0, <2>1, <2>2, <2>3, BodyUnitsTaken
<1> QED BY <1>1, <1>2, <1>3

(* The steps that write.                                                   *)
LEMMA WriteKeeps ==
  ASSUME ConnInv, BadRequestWritten \/ ContinueWritten \/ ReplyWritten PROVE ConnInv'
<1> USE DEF ConnInv
<1>1. UNCHANGED <<req, left, room, nbuf, clientVars>>
  BY DEF BadRequestWritten, ContinueWritten, ReplyWritten
<1>2. WellFramed(inq', left', sending')
  BY <1>1 DEF clientVars
<1>3. TypeOK' /\ Progress' /\ InPutobj'
  BY <1>1 DEF BadRequestWritten, ContinueWritten, ReplyWritten, WriteData, WriteOk, WriteFails,
              clientVars, TypeOK, Running, Waiting, Failed, Over, Progress, InPutobj
<1>4. Answer'
  <2>1. CASE BadRequestWritten
    <3>1. ~Has200(resp')
      BY <2>1 DEF BadRequestWritten, Answer, Has200
    <3> QED BY <2>1, <3>1 DEF BadRequestWritten, Answer
  <2>2. CASE ContinueWritten
    <3>1. ~Has200(resp')
      BY <2>2 DEF ContinueWritten, WriteData, Answer, Has200
    <3> QED BY <2>2, <3>1 DEF ContinueWritten, WriteData, Answer
  <2>3. CASE ReplyWritten
    BY <1>1, <2>3 DEF ReplyWritten, WriteData, Progress, Answer, Has200
  <2> QED BY <2>1, <2>2, <2>3
<1> QED BY <1>2, <1>3, <1>4

LEMMA ConnStep == ASSUME ConnInv, [Next]_vars PROVE ConnInv'
<1>1. CASE StopCloses
  BY <1>1 DEF StopCloses, ConnInv, TypeOK, Progress, InPutobj, Answer, Has200, serverVars, clientVars, Over
<1>2. CASE UNCHANGED vars
  BY <1>2 DEF vars, ConnInv, TypeOK, Progress, InPutobj, Answer, Has200, serverVars, clientVars
<1>3. CASE Connection
  BY <1>3, QuietKeeps, ReadKeeps, WriteKeeps DEF Connection, Quiet
<1> QED BY <1>1, <1>2, <1>3, ClientKeeps DEF Next, Ended

LEMMA ConnInvariant == Spec => []ConnInv
<1>1. Init => ConnInv
  BY ConnStarts
<1>2. ConnInv /\ [Next]_vars => ConnInv'
  BY ConnStep
<1> QED BY <1>1, <1>2, PTL DEF Spec

-----------------------------------------------------------------------------
(* However the client pipelines, splits, stalls or breaks off its          *)
(* requests, and whatever the server did with a body, the parser meets the *)
(* next header where the client put it.                                    *)
THEOREM RequestsFramed == Spec => []Framed
<1>1. ConnInv => Framed
  <2> SUFFICES ASSUME ConnInv, pc \in {"loop", "loop_wait"}
               PROVE  left = 0 /\ (inq # <<>> => Head(inq) # Body)
    BY DEF Framed
  <2>1. left = 0 /\ inq \in Seq(Items) /\ sending \in Nat /\ WellFramed(inq, 0, sending)
    BY DEF ConnInv, TypeOK, Progress
  <2>2. ASSUME inq # <<>> PROVE Head(inq) # Body
    BY <2>1, <2>2, TakeHeader
  <2> QED BY <2>1, <2>2
<1> QED BY <1>1, ConnInvariant, PTL

(* putobj answers "200 OK" only to a body that it has received as a whole. *)
THEOREM OkIsAfterBody == Spec => []OkAfterBody
<1>1. ConnInv => OkAfterBody
  BY DEF ConnInv, Answer, Has200, OkAfterBody, Contains
<1> QED BY <1>1, ConnInvariant, PTL

(* Only a PUT or POST, or stop(), makes handle_connection throw.           *)
THEOREM AbortHasCause == Spec => []AbortCause
<1>1. ConnInv => AbortCause
  BY DEF ConnInv, InPutobj, AbortCause
<1> QED BY <1>1, ConnInvariant, PTL

-----------------------------------------------------------------------------
(* What a place of the coroutine is to the rest of the server.             *)
LEMMA LifeOf ==
  /\ pc \in Running => Life = "running"
  /\ pc \in Waiting => Life = "waiting"
  /\ pc \in Failed => Life = "failed"
  /\ pc = "returned" => Life = "leaving"
  /\ pc = "threw" => Life = "aborted"
  BY DEF Life, Running, Waiting, Failed

LEMMA LifeOfNext ==
  /\ pc' \in Running => Life' = "running"
  /\ pc' \in Waiting => Life' = "waiting"
  /\ pc' \in Failed => Life' = "failed"
  /\ pc' = "returned" => Life' = "leaving"
  /\ pc' = "threw" => Life' = "aborted"
  BY DEF Life, Running, Waiting, Failed

(* Every step of the connection is a step of Session, or none.             *)
LEMMA SessionStep == ASSUME TypeOK, [Next]_vars PROVE [Abstract!Next]_<<Life, sock>>
<1> USE DEF Abstract!Next, Abstract!Await, Abstract!ResumeOk, Abstract!ResumeErr, Abstract!Return,
            Abstract!Throw, Abstract!StopCloses
<1>1. CASE LoopHead \/ BadRequest \/ Process \/ Discard \/ RecvBody \/ Reply
  <2>1. UNCHANGED sock /\ pc \in Running /\ pc' \in Running \cup Waiting
    BY <1>1 DEF LoopHead, BadRequest, Process, Discard, RecvBody, Reply, Running, Waiting
  <2> QED BY <2>1, LifeOf, LifeOfNext
<1>2. CASE HeaderRead \/ HeaderOtherError \/ \E k \in 1..(IntMax + 1) : Discarded(k) \/ BodyRead(k)
  <2>1. UNCHANGED sock /\ pc \in Waiting /\ pc' \in Running
    BY <1>2 DEF HeaderRead, HeaderOtherError, Discarded, BodyRead, AfterPiece, Running, Waiting
  <2> QED BY <2>1, LifeOf, LifeOfNext
<1>3. CASE HeaderEnd \/ BadRequestWritten \/ DiscardFails \/ BodyFails
  <2>1. UNCHANGED sock /\ pc \in Waiting /\ pc' \in Failed
    BY <1>3 DEF HeaderEnd, BadRequestWritten, DiscardFails, AfterDiscardError, BodyFails, Waiting, Failed
  <2> QED BY <2>1, LifeOf, LifeOfNext
<1>4. CASE LocalEndpoint \/ Alloc
  <2>1. UNCHANGED sock /\ pc \in Running /\ pc' \in Running \cup {"threw"}
    BY <1>4 DEF LocalEndpoint, Alloc, Running
  <2> QED BY <2>1, LifeOf, LifeOfNext
<1>5. CASE ContinueWritten \/ ReplyWritten
  <2>1. /\ pc \in Waiting
        /\ \/ pc' \in Running /\ UNCHANGED sock
           \/ pc' \in Failed /\ (UNCHANGED sock \/ (sock = "open" /\ sock' = "shut"))
    BY <1>5 DEF ContinueWritten, ReplyWritten, WriteData, Running, Waiting, Failed, TypeOK
  <2> QED BY <2>1, LifeOf, LifeOfNext
<1>6. CASE AfterProcess \/ Return
  <2>1. /\ pc \in Running \cup Failed
        /\ \/ pc \in Running /\ pc' \in Running /\ UNCHANGED sock
           \/ pc' = "returned" /\ sock' = IF sock = "open" THEN "shut" ELSE sock
    BY <1>6 DEF AfterProcess, Return, ShutdownBoth, Running, Failed
  <2> QED BY <2>1, LifeOf, LifeOfNext
<1>7. CASE Throw
  <2>1. pc \in Failed /\ pc' = "threw" /\ UNCHANGED sock
    BY <1>7 DEF Throw, Failed
  <2> QED BY <2>1, LifeOf, LifeOfNext
<1>8. CASE StopCloses
  <2>1. pc \in Running \cup Waiting \cup Failed /\ sock' = "closed" /\ UNCHANGED pc
    BY <1>8 DEF StopCloses, serverVars, TypeOK
  <2> QED BY <2>1, LifeOf, LifeOfNext
<1>9. CASE Fill \/ Client \/ UNCHANGED vars
  <2>1. UNCHANGED <<pc, sock>>
    BY <1>9 DEF Fill, Client, ClientRequest, ClientBody, ClientGone, vars, serverVars
  <2> QED BY <2>1 DEF Life
<1> QED BY <1>1, <1>2, <1>3, <1>4, <1>5, <1>6, <1>7, <1>8, <1>9 DEF Next, Connection, Ended

(* handle_connection is, step by step, the session that module Frontend    *)
(* is built on: no operation is started after one that failed, and the     *)
(* socket is shut down on every return.                                    *)
THEOREM SessionImplemented == Spec => Abstract!Init /\ [][Abstract!Next]_<<Life, sock>>
<1>1. Init => Abstract!Init
  BY LifeOf DEF Init, Abstract!Init, Running
<1>2. ConnInv /\ [Next]_vars => [Abstract!Next]_<<Life, sock>>
  BY SessionStep DEF ConnInv
<1> QED BY <1>1, <1>2, ConnInvariant, PTL DEF Spec
=============================================================================
