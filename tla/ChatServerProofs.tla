-------------------------- MODULE ChatServerProofs --------------------------
(***************************************************************************)
(* Theorems about ChatServer, for any number of sessions, any amount of    *)
(* text typed and any division of it into lines.                           *)
(***************************************************************************)
EXTENDS ChatServer, SequenceTheorems, NaturalsInduction, WellFoundedInduction, TLAPS

Messages ==
    {Welcome} \cup {Newcomer(s) : s \in Sessions} \cup {OneLess(s) : s \in Sessions}
        \cup {Says(s, t) : s \in Sessions, t \in Seq(Nat)}

Ops == {"none", "pending", "ok", "err"}

TypeOK ==
    /\ state \in [Sessions -> {"new", "open", "closed"}] /\ clients \subseteq Sessions
    /\ readOp \in [Sessions -> Ops] /\ writeOp \in [Sessions -> Ops]
    /\ outgoing \in [Sessions -> Seq(Messages)] /\ received \in [Sessions -> Seq(Messages)]
    /\ log \in Seq(Messages)
    /\ unread \in [Sessions -> Seq(Nat)] /\ inbuf \in [Sessions -> Seq(Nat)]
    /\ typed \in [Sessions -> Nat] /\ joined \in [Sessions -> Nat]

(* A session before its accept, and one whose socket is closed.            *)
Lives ==
    \A s \in Sessions :
        /\ s \in clients => state[s] # "new"
        /\ state[s] = "open" => s \in clients
        /\ state[s] = "new" => outgoing[s] = <<>> /\ received[s] = <<>> /\ writeOp[s] = "none"
                               /\ readOp[s] = "none"
        /\ state[s] = "closed" => readOp[s] # "pending" /\ writeOp[s] # "pending"

(* A write under way has a message, a departed session's too.              *)
Duty ==
    /\ \A s \in Sessions : writeOp[s] # "none" => outgoing[s] # <<>>
    /\ \A s \in clients : outgoing[s] # <<>> => writeOp[s] # "none"

Order(s) ==
    /\ joined[s] <= Len(log)
    /\ received[s] \o outgoing[s] = <<Welcome>> \o SubSeq(log, joined[s] + 1, Len(log))

Ordered == \A s \in clients : Order(s)

QueueInv == TypeOK /\ Lives /\ Duty /\ Ordered

(* After its last words a departed session has no completed read left.     *)
Speechless == \A s \in Sessions : AfterLess(s) # {} => readOp[s] # "ok"

ChatInv == QueueInv /\ OneLessOnce /\ LastWords /\ Speechless

-----------------------------------------------------------------------------
(* Messages of the four kinds are told apart.                              *)
LEMMA MessageFacts ==
  /\ Welcome \in Messages
  /\ \A s \in Sessions : Newcomer(s) \in Messages /\ OneLess(s) \in Messages
  /\ \A s \in Sessions : \A t \in Seq(Nat) : Says(s, t) \in Messages
  /\ \A s, t \in Sessions : OneLess(s) = OneLess(t) => s = t
  /\ \A s, t \in Sessions : Newcomer(s) # OneLess(t) /\ \A n : Says(s, n) # OneLess(t)
  /\ \A s, n : Says(s, n).kind = "says" /\ Says(s, n).of = s
  /\ \A s : Newcomer(s).kind # "says" /\ OneLess(s).kind # "says"
<1>1. Welcome \in Messages /\ \A s \in Sessions : Newcomer(s) \in Messages /\ OneLess(s) \in Messages
  BY DEF Messages
<1>2. \A s \in Sessions : \A t \in Seq(Nat) : Says(s, t) \in Messages
  BY DEF Messages
<1>3. \A s : Newcomer(s).kind = "newcomer" /\ OneLess(s).kind = "less" /\ OneLess(s).of = s
  BY DEF Newcomer, OneLess
<1>4. \A s, n : Says(s, n).kind = "says" /\ Says(s, n).of = s
  BY DEF Says
<1>5. \A s, t \in Sessions : OneLess(s) = OneLess(t) => s = t
  BY <1>3
<1>6. \A s, t \in Sessions : Newcomer(s) # OneLess(t) /\ \A n : Says(s, n) # OneLess(t)
  BY <1>3, <1>4
<1> QED BY <1>1, <1>2, <1>3, <1>4, <1>5, <1>6

(* A suffix of a log grows by what is appended to the log.                 *)
LEMMA SuffixGrows ==
  ASSUME NEW S, NEW l \in Seq(S), NEW m \in S, NEW j \in Nat, j <= Len(l)
  PROVE  SubSeq(Append(l, m), j + 1, Len(Append(l, m))) = Append(SubSeq(l, j + 1, Len(l)), m)
<1> DEFINE a == SubSeq(Append(l, m), j + 1, Len(Append(l, m)))
           b == Append(SubSeq(l, j + 1, Len(l)), m)
<1>1. a \in Seq(S) /\ b \in Seq(S)
  OBVIOUS
<1>2. Len(a) = Len(l) - j + 1 /\ Len(b) = Len(l) - j + 1
  OBVIOUS
<1>3. ASSUME NEW i \in 1..Len(a) PROVE a[i] = b[i]
  <2>1. i \in Nat /\ j \in Nat /\ Len(l) \in Nat /\ i + j <= Len(l) + 1 /\ i + j >= 1
    BY <1>2
  <2>2. a[i] = Append(l, m)[i + j]
    BY <1>2, <2>1
  <2>3. CASE i + j = Len(l) + 1
    BY <1>2, <2>1, <2>2, <2>3
  <2>4. CASE i + j <= Len(l)
    <3>1. a[i] = l[i + j]
      BY <2>1, <2>2, <2>4
    <3>2. b[i] = SubSeq(l, j + 1, Len(l))[i]
      BY <2>1, <2>4
    <3>3. SubSeq(l, j + 1, Len(l))[i] = l[i + j]
      BY <2>1, <2>4
    <3> QED BY <3>1, <3>2, <3>3
  <2> QED BY <2>1, <2>3, <2>4
<1> QED BY <1>1, <1>2, <1>3, SeqEqual

(* Writing the head of a queue moves it to what has been received.         *)
LEMMA WriteInOrder ==
  ASSUME NEW S, NEW r \in Seq(S), NEW o \in Seq(S), o # <<>>
  PROVE  Append(r, Head(o)) \o Tail(o) = r \o o
<1>1. Head(o) \in S /\ Tail(o) \in Seq(S) /\ <<Head(o)>> \o Tail(o) = o
  OBVIOUS
<1>2. Append(r, Head(o)) = r \o <<Head(o)>> /\ <<Head(o)>> \in Seq(S)
  BY <1>1
<1> QED BY <1>1, <1>2, ConcatAssociative

-----------------------------------------------------------------------------
LEMMA ChatStarts == Init => ChatInv
<1> SUFFICES ASSUME Init PROVE ChatInv
  OBVIOUS
<1>0. log = <<>> /\ Len(log) = 0
  BY DEF Init
<1>1. TypeOK
  BY EmptySeq DEF Init, TypeOK, Ops
<1>2. Lives /\ Duty /\ Ordered
  BY DEF Init, Lives, Duty, Ordered
<1>3. OneLessOnce
  BY <1>0 DEF Init, OneLessOnce, Announced
<1>4. \A s \in Sessions : AfterLess(s) = {}
  BY <1>0 DEF AfterLess
<1> QED BY <1>1, <1>2, <1>3, <1>4 DEF ChatInv, QueueInv, LastWords, Speechless

-----------------------------------------------------------------------------
(* A step that posts m to the sessions in cs, starting writes for those    *)
(* that were idle.                                                         *)
Posts(cs, m) ==
    /\ log' = Append(log, m)
    /\ \A s \in cs : /\ outgoing'[s] = Append(outgoing[s], m)
                     /\ outgoing[s] = <<>> => writeOp'[s] \in {"pending", "err"}
                     /\ outgoing[s] # <<>> => writeOp'[s] = writeOp[s]

(* It keeps the queue of a client in order and its duty to write.          *)
LEMMA PostKeeps ==
  ASSUME QueueInv, NEW cs, NEW m \in Messages, Posts(cs, m), NEW s \in clients, s \in cs,
         joined'[s] = joined[s], received'[s] = received[s]
  PROVE  Order(s)' /\ outgoing'[s] # <<>> /\ writeOp'[s] # "none"
<1> USE DEF QueueInv
<1>1. s \in Sessions /\ log \in Seq(Messages) /\ received[s] \in Seq(Messages)
      /\ outgoing[s] \in Seq(Messages) /\ joined[s] \in Nat /\ Welcome \in Messages
  BY MessageFacts DEF TypeOK
<1>2. Order(s)
  BY DEF Ordered
<1>3. outgoing'[s] = Append(outgoing[s], m) /\ log' = Append(log, m)
  BY DEF Posts
<1>4. joined[s] <= Len(log)
  BY <1>2 DEF Order
<1>5. received[s] \o Append(outgoing[s], m)
        = <<Welcome>> \o SubSeq(Append(log, m), joined[s] + 1, Len(Append(log, m)))
  <2> DEFINE r == received[s]
             o == outgoing[s]
             j == joined[s]
             w == Welcome
  <2>1. r \in Seq(Messages) /\ o \in Seq(Messages) /\ w \in Messages /\ j \in Nat /\ j <= Len(log)
        /\ log \in Seq(Messages)
    BY <1>1, <1>4
  <2>2. r \o o = <<w>> \o SubSeq(log, j + 1, Len(log))
    BY <1>2, Zenon DEF Order
  <2> HIDE DEF r, o, j, w
  <2> DEFINE rest == SubSeq(log, j + 1, Len(log))
             all == SubSeq(Append(log, m), j + 1, Len(Append(log, m)))
  <2>3. rest \in Seq(Messages)
    BY <2>1
  <2>4. all = Append(rest, m)
    BY <2>1, SuffixGrows
  <2>5. r \o o = <<w>> \o rest
    BY <2>2, Zenon
  <2> HIDE DEF rest, all
  <2>6. r \o Append(o, m) = Append(r \o o, m)
    BY <2>1
  <2>7. <<w>> \o Append(rest, m) = Append(<<w>> \o rest, m)
    BY <2>1, <2>3
  <2>8. r \o Append(o, m) = <<w>> \o all
    BY <2>4, <2>5, <2>6, <2>7, Zenon
  <2> QED BY <2>8, Zenon DEF r, o, j, w, all
<1>6. joined'[s] <= Len(log')
  BY <1>1, <1>3, <1>4
<1>7. Order(s)'
  BY <1>3, <1>5, <1>6 DEF Order
<1>8. outgoing'[s] # <<>>
  BY <1>1, <1>3, AppendProperties
<1>9. writeOp'[s] # "none"
  BY <1>1 DEF Posts, Duty
<1> QED BY <1>7, <1>8, <1>9

(* Where messages are after one has been appended to the log.              *)
LEMMA LogGrows ==
  ASSUME TypeOK, NEW m \in Messages, log' = Append(log, m), NEW s \in Sessions
  PROVE  /\ Len(log) \in Nat /\ Len(log') = Len(log) + 1
         /\ Announced(s)' = IF m = OneLess(s) THEN Announced(s) \cup {Len(log) + 1} ELSE Announced(s)
         /\ AfterLess(s)' = IF m.kind = "says" /\ m.of = s /\ Announced(s) # {}
                              THEN AfterLess(s) \cup {Len(log) + 1} ELSE AfterLess(s)
<1>1. /\ Len(log) \in Nat /\ Len(log') = Len(log) + 1 /\ log'[Len(log) + 1] = m
      /\ \A i \in 1..Len(log) : log'[i] = log[i]
  BY AppendProperties DEF TypeOK
<1>2. 1..Len(log') = (1..Len(log)) \cup {Len(log) + 1} /\ Len(log) + 1 \notin 1..Len(log)
  BY <1>1
<1>3. Announced(s)' = IF m = OneLess(s) THEN Announced(s) \cup {Len(log) + 1} ELSE Announced(s)
  BY <1>1, <1>2 DEF Announced
<1>4. ASSUME NEW i \in 1..Len(log) PROVE i \in AfterLess(s)' <=> i \in AfterLess(s)
  <2>1. log'[i] = log[i] /\ \A j \in 1..(i - 1) : log'[j] = log[j]
    BY <1>1
  <2> QED BY <1>1, <1>2, <2>1 DEF AfterLess
<1>5. Len(log) + 1 \in AfterLess(s)' <=> m.kind = "says" /\ m.of = s /\ Announced(s) # {}
  <2>1. \A j \in 1..(Len(log) + 1 - 1) : j \in 1..Len(log) /\ log'[j] = log[j]
    BY <1>1
  <2>2. (\E j \in 1..(Len(log) + 1 - 1) : log'[j] = OneLess(s)) <=> Announced(s) # {}
    BY <1>1, <2>1 DEF Announced
  <2> QED BY <1>1, <1>2, <2>2 DEF AfterLess
<1>6. AfterLess(s)' \subseteq 1..Len(log') /\ AfterLess(s) \subseteq 1..Len(log)
  BY DEF AfterLess
<1>7. AfterLess(s)' = IF m.kind = "says" /\ m.of = s /\ Announced(s) # {}
                        THEN AfterLess(s) \cup {Len(log) + 1} ELSE AfterLess(s)
  <2> DEFINE new == Len(log) + 1
             now == AfterLess(s)'
  <2>1. \A i \in now : i \in 1..Len(log) \/ i = new
    BY <1>2, <1>6
  <2>2. \A i \in 1..Len(log) : i \in now <=> i \in AfterLess(s)
    BY <1>4
  <2>3. CASE m.kind = "says" /\ m.of = s /\ Announced(s) # {}
    <3>1. new \in now
      BY <1>5, <2>3
    <3> HIDE DEF new, now
    <3>2. now = AfterLess(s) \cup {new}
      BY <1>6, <2>1, <2>2, <3>1
    <3> QED BY <2>3, <3>2 DEF new, now
  <2>4. CASE ~(m.kind = "says" /\ m.of = s /\ Announced(s) # {})
    <3>1. new \notin now
      BY <1>5, <2>4
    <3> HIDE DEF new, now
    <3>2. now = AfterLess(s)
      BY <1>6, <2>1, <2>2, <3>1
    <3> QED BY <2>4, <3>2 DEF now
  <2> QED BY <2>3, <2>4
<1> QED BY <1>1, <1>3, <1>7

(* What post() leaves of the types, and which writes it starts.            *)
PostFacts(cs, m, wop) ==
    /\ Posted(cs, m, outgoing) \in [Sessions -> Seq(Messages)]
    /\ Writing(cs, wop) \in [Sessions -> Ops]
    /\ \A t \in Sessions :
         /\ Posted(cs, m, outgoing)[t] = IF t \in cs THEN Append(outgoing[t], m) ELSE outgoing[t]
         /\ IF t \in cs /\ outgoing[t] = <<>>
              THEN /\ Writing(cs, wop)[t] \in {"pending", "err"}
                   /\ state[t] = "closed" => Writing(cs, wop)[t] = "err"
              ELSE Writing(cs, wop)[t] = wop[t]

LEMMA PostTypes ==
  ASSUME TypeOK, NEW cs \in SUBSET Sessions, NEW m \in Messages, NEW wop \in [Sessions -> Ops]
  PROVE  PostFacts(cs, m, wop)
<1>1. Posted(cs, m, outgoing) \in [Sessions -> Seq(Messages)]
  BY DEF Posted, TypeOK
<1>2. \A t \in Sessions : Started(t) \in {"pending", "err"} /\ (state[t] = "closed" => Started(t) = "err")
  BY DEF Started
<1>3. Writing(cs, wop) \in [Sessions -> Ops]
  BY <1>2 DEF Writing, Ops
<1>4. \A t \in Sessions :
        Posted(cs, m, outgoing)[t] = IF t \in cs THEN Append(outgoing[t], m) ELSE outgoing[t]
  BY DEF Posted
<1>5. \A t \in Sessions :
        Writing(cs, wop)[t] = IF t \in cs /\ outgoing[t] = <<>> THEN Started(t) ELSE wop[t]
  BY DEF Writing
<1> HIDE DEF Posted, Writing, Started
<1>6. ASSUME NEW t \in Sessions
      PROVE  IF t \in cs /\ outgoing[t] = <<>>
               THEN /\ Writing(cs, wop)[t] \in {"pending", "err"}
                    /\ state[t] = "closed" => Writing(cs, wop)[t] = "err"
               ELSE Writing(cs, wop)[t] = wop[t]
  BY <1>2, <1>5, Zenon
<1> QED BY <1>1, <1>3, <1>4, <1>6, Zenon DEF PostFacts

(* The history part of the invariant depends on little.                    *)
LEMMA HistoryStays ==
  ASSUME ChatInv, UNCHANGED <<log, state, clients>>,
         \A t \in Sessions : readOp'[t] = "ok" => readOp[t] = "ok"
  PROVE  OneLessOnce' /\ LastWords' /\ Speechless'
<1>1. \A t \in Sessions : Announced(t)' = Announced(t) /\ AfterLess(t)' = AfterLess(t)
  BY DEF Announced, AfterLess
<1>2. OneLessOnce'
  BY <1>1 DEF ChatInv, OneLessOnce
<1>3. LastWords' /\ Speechless'
  BY <1>1 DEF ChatInv, LastWords, Speechless
<1> QED BY <1>2, <1>3

(* Only a session that has departed has spoken after its departure.        *)
LEMMA SilentWhileHere ==
  ASSUME ChatInv, NEW s \in Sessions, state[s] = "new" \/ s \in clients
  PROVE  Announced(s) = {} /\ AfterLess(s) = {}
<1>1. Announced(s) = {}
  BY DEF ChatInv, OneLessOnce
<1>2. Len(log) \in Nat
  BY LenProperties DEF ChatInv, QueueInv, TypeOK
<1>3. \A i \in AfterLess(s) : \E j \in 1..Len(log) : log[j] = OneLess(s)
  BY <1>2 DEF AfterLess
<1> QED BY <1>1, <1>3 DEF Announced

-----------------------------------------------------------------------------
LEMMA AcceptKeeps ==
  ASSUME ChatInv, NEW s \in Sessions, Accept(s)
  PROVE  ChatInv'
<1> DEFINE m == Newcomer(s)
<1>1. m \in Messages /\ Welcome \in Messages
  BY MessageFacts
<1>2. TypeOK /\ Lives /\ Duty /\ Ordered /\ QueueInv
  BY DEF ChatInv, QueueInv
<1>3. state[s] = "new" /\ s \notin clients /\ received[s] = <<>>
  BY <1>2 DEF Accept, Lives
<1>4. PICK st \in {"open", "closed"}, op \in {"pending", "err"} :
        /\ st = "open" <=> op = "pending"
        /\ state' = [state EXCEPT ![s] = st]
        /\ outgoing' = [Posted(clients, m, outgoing) EXCEPT ![s] = <<Welcome>>]
        /\ writeOp' = [Writing(clients, writeOp) EXCEPT ![s] = op]
        /\ readOp' = [readOp EXCEPT ![s] = op]
  <2>1. PICK st \in {"open", "closed"} :
          LET op == IF st = "open" THEN "pending" ELSE "err" IN
          /\ state' = [state EXCEPT ![s] = st]
          /\ outgoing' = [Posted(clients, m, outgoing) EXCEPT ![s] = <<Welcome>>]
          /\ writeOp' = [Writing(clients, writeOp) EXCEPT ![s] = op]
          /\ readOp' = [readOp EXCEPT ![s] = op]
    BY DEF Accept
  <2>2. CASE st = "open"
    BY <2>1, <2>2
  <2>3. CASE st = "closed"
    BY <2>1, <2>3
  <2> QED BY <2>2, <2>3
<1>5. /\ log' = Append(log, m) /\ clients' = clients \cup {s}
      /\ joined' = [joined EXCEPT ![s] = Len(log) + 1]
      /\ UNCHANGED <<unread, inbuf, typed, received>>
  BY DEF Accept
<1> DEFINE out == Posted(clients, m, outgoing)
           wop == Writing(clients, writeOp)
<1>6. clients \subseteq Sessions /\ writeOp \in [Sessions -> Ops] /\ readOp \in [Sessions -> Ops]
      /\ log \in Seq(Messages) /\ Len(log) \in Nat /\ state \in [Sessions -> {"new", "open", "closed"}]
      /\ joined \in [Sessions -> Nat]
  BY <1>2, LenProperties DEF TypeOK
<1>7. /\ out \in [Sessions -> Seq(Messages)] /\ wop \in [Sessions -> Ops]
      /\ \A t \in Sessions :
           /\ out[t] = IF t \in clients THEN Append(outgoing[t], m) ELSE outgoing[t]
           /\ IF t \in clients /\ outgoing[t] = <<>>
                THEN wop[t] \in {"pending", "err"} /\ (state[t] = "closed" => wop[t] = "err")
                ELSE wop[t] = writeOp[t]
  <2> HIDE DEF m
  <2>1. clients \in SUBSET Sessions
    BY <1>6
  <2>2. PostFacts(clients, m, writeOp)
    BY <1>1, <1>2, <1>6, <2>1, PostTypes, Zenon
  <2> QED BY <2>2, Zenon DEF PostFacts
<1> HIDE DEF m, out, wop
<1>8. TypeOK'
  <2>1. outgoing' \in [Sessions -> Seq(Messages)]
    BY <1>1, <1>4, <1>7 DEF out
  <2>2. writeOp' \in [Sessions -> Ops] /\ readOp' \in [Sessions -> Ops]
    BY <1>4, <1>6, <1>7 DEF wop, Ops
  <2>3. log' \in Seq(Messages)
    BY <1>1, <1>5, <1>6
  <2>4. state' \in [Sessions -> {"new", "open", "closed"}] /\ clients' \subseteq Sessions
    BY <1>4, <1>5, <1>6
  <2>5. joined' \in [Sessions -> Nat]
    BY <1>5, <1>6
  <2> QED BY <1>2, <1>5, <2>1, <2>2, <2>3, <2>4, <2>5 DEF TypeOK
<1>9. ASSUME NEW t \in Sessions, t # s
      PROVE  /\ state'[t] = state[t] /\ readOp'[t] = readOp[t] /\ joined'[t] = joined[t]
             /\ outgoing'[t] = out[t] /\ writeOp'[t] = wop[t] /\ received'[t] = received[t]
             /\ t \in clients' <=> t \in clients
  <2>1. t \in clients' <=> t \in clients
    BY <1>5, <1>9
  <2>2. state'[t] = state[t] /\ readOp'[t] = readOp[t] /\ joined'[t] = joined[t]
    BY <1>4, <1>5, <1>6, <1>9
  <2>3. outgoing'[t] = out[t] /\ writeOp'[t] = wop[t]
    BY <1>4, <1>7, <1>9 DEF out, wop
  <2> QED BY <1>5, <2>1, <2>2, <2>3
<1>10. /\ state'[s] = st /\ readOp'[s] = op /\ writeOp'[s] = op /\ outgoing'[s] = <<Welcome>>
       /\ joined'[s] = Len(log) + 1 /\ received'[s] = <<>> /\ s \in clients'
  BY <1>3, <1>4, <1>5, <1>6, <1>7 DEF out, wop
<1>11. Lives'
  <2> SUFFICES ASSUME NEW t \in Sessions
               PROVE  /\ t \in clients' => state'[t] # "new"
                      /\ state'[t] = "open" => t \in clients'
                      /\ state'[t] = "new" => outgoing'[t] = <<>> /\ received'[t] = <<>>
                                              /\ writeOp'[t] = "none" /\ readOp'[t] = "none"
                      /\ state'[t] = "closed" => readOp'[t] # "pending" /\ writeOp'[t] # "pending"
    BY DEF Lives
  <2>1. CASE t = s
    BY <1>4, <1>10, <2>1
  <2>2. CASE t # s
    BY <1>2, <1>7, <1>9, <2>2 DEF Lives
  <2> QED BY <2>1, <2>2
<1>12. Posts(clients, m)
  BY <1>3, <1>5, <1>6, <1>7, <1>9 DEF Posts
<1>13. ASSUME NEW t \in clients PROVE Order(t)' /\ outgoing'[t] # <<>> /\ writeOp'[t] # "none"
  <2>1. t \in Sessions /\ t # s
    BY <1>3, <1>6
  <2>2. joined'[t] = joined[t] /\ received'[t] = received[t]
    BY <1>9, <2>1
  <2> QED BY <1>1, <1>2, <1>12, <2>2, PostKeeps
<1>14. Duty'
  <2>1. ASSUME NEW t \in Sessions PROVE writeOp'[t] # "none" => outgoing'[t] # <<>>
    <3>1. CASE t = s
      <4>1. <<Welcome>> # <<>>
        OBVIOUS
      <4> QED BY <1>10, <3>1, <4>1, Zenon
    <3>2. CASE t \in clients
      BY <1>13, <3>2
    <3>3. CASE t # s /\ t \notin clients
      BY <1>2, <1>7, <1>9, <3>3 DEF Duty
    <3> QED BY <3>1, <3>2, <3>3
  <2>2. \A t \in clients' : writeOp'[t] # "none"
    BY <1>4, <1>5, <1>10, <1>13
  <2> QED BY <2>1, <2>2 DEF Duty
<1>15. Ordered'
  <2>1. Order(s)'
    <3>1. Len(log') = Len(log) + 1 /\ log' \in Seq(Messages)
      BY <1>1, <1>5, <1>6
    <3>2. SubSeq(log', Len(log) + 2, Len(log) + 1) = <<>>
      BY <1>6, <3>1
    <3>3. <<>> \o <<Welcome>> = <<Welcome>> \o <<>>
      BY <1>1
    <3>4. joined'[s] <= Len(log') /\ joined'[s] + 1 = Len(log) + 2
      BY <1>6, <1>10, <3>1
    <3> QED BY <1>10, <3>1, <3>2, <3>3, <3>4, Zenon DEF Order
  <2> QED BY <1>5, <1>13, <2>1 DEF Ordered
<1>16. ASSUME NEW t \in Sessions PROVE Announced(t)' = Announced(t) /\ AfterLess(t)' = AfterLess(t)
  <2>1. m # OneLess(t) /\ m.kind # "says"
    BY MessageFacts DEF m
  <2> QED BY <1>1, <1>2, <1>5, <2>1, LogGrows
<1>17. OneLessOnce'
  <2>1. Len(log') = Len(log) + 1
    BY <1>1, <1>5, <1>6
  <2>2. ASSUME NEW t \in Sessions
        PROVE  IF state'[t] = "new" \/ t \in clients'
                 THEN Announced(t)' = {} ELSE \E i \in 1..Len(log') : Announced(t)' = {i}
    <3>1. CASE t = s
      BY <1>3, <1>10, <1>16, <3>1 DEF ChatInv, OneLessOnce
    <3>2. CASE t # s
      BY <1>6, <1>9, <1>16, <2>1, <3>2 DEF ChatInv, OneLessOnce
    <3> QED BY <3>1, <3>2
  <2> QED BY <2>2 DEF OneLessOnce
<1>18. LastWords'
  BY <1>16 DEF ChatInv, LastWords
<1>19. Speechless'
  <2>1. \A t \in Sessions : readOp'[t] = "ok" => readOp[t] = "ok"
    BY <1>4, <1>6
  <2> QED BY <1>16, <2>1 DEF ChatInv, Speechless
<1> QED BY <1>8, <1>11, <1>14, <1>15, <1>17, <1>18, <1>19 DEF ChatInv, QueueInv

LEMMA OnReadKeeps ==
  ASSUME ChatInv, NEW s \in Sessions, OnRead(s)
  PROVE  ChatInv'
<1> DEFINE m == Message(s)
           out == Posted(clients, m, outgoing)
           wop == Writing(clients, writeOp)
<1>1. TypeOK /\ Lives /\ Duty /\ Ordered /\ QueueInv
  BY DEF ChatInv, QueueInv
<1>2. m \in Messages /\ m.kind = "says" /\ m.of = s /\ \A t \in Sessions : m # OneLess(t)
  BY <1>1, MessageFacts DEF Message, TypeOK
<1>3. clients \in SUBSET Sessions /\ writeOp \in [Sessions -> Ops] /\ readOp \in [Sessions -> Ops]
      /\ log \in Seq(Messages) /\ Len(log) \in Nat /\ inbuf \in [Sessions -> Seq(Nat)]
  BY <1>1, LenProperties DEF TypeOK
<1>4. /\ readOp[s] = "ok" /\ outgoing' = out /\ log' = Append(log, m) /\ writeOp' = wop
      /\ inbuf' = [inbuf EXCEPT ![s] = <<>>] /\ readOp' = [readOp EXCEPT ![s] = Started(s)]
      /\ UNCHANGED <<state, clients, unread, typed, joined, received>>
  BY DEF OnRead, Audience
<1> HIDE DEF m
<1>5. PostFacts(clients, m, writeOp)
  BY <1>1, <1>2, <1>3, PostTypes, Zenon
<1>6. /\ out \in [Sessions -> Seq(Messages)] /\ wop \in [Sessions -> Ops]
      /\ \A t \in Sessions :
           /\ out[t] = IF t \in clients THEN Append(outgoing[t], m) ELSE outgoing[t]
           /\ IF t \in clients /\ outgoing[t] = <<>>
                THEN wop[t] \in {"pending", "err"} /\ (state[t] = "closed" => wop[t] = "err")
                ELSE wop[t] = writeOp[t]
  BY <1>5, Zenon DEF PostFacts
<1>7. Started(s) \in {"pending", "err"} /\ (state[s] = "closed" => Started(s) = "err")
  BY DEF Started
<1> HIDE DEF out, wop
<1>8. TypeOK'
  <2>1. log' \in Seq(Messages)
    BY <1>2, <1>3, <1>4
  <2>2. inbuf' \in [Sessions -> Seq(Nat)]
    BY <1>3, <1>4, EmptySeq
  <2>3. readOp' \in [Sessions -> Ops]
    BY <1>3, <1>4, <1>7 DEF Ops
  <2> QED BY <1>1, <1>4, <1>6, <2>1, <2>2, <2>3 DEF TypeOK
<1>9. Lives'
  <2> SUFFICES ASSUME NEW t \in Sessions
               PROVE  /\ t \in clients' => state'[t] # "new"
                      /\ state'[t] = "open" => t \in clients'
                      /\ state'[t] = "new" => outgoing'[t] = <<>> /\ received'[t] = <<>>
                                              /\ writeOp'[t] = "none" /\ readOp'[t] = "none"
                      /\ state'[t] = "closed" => readOp'[t] # "pending" /\ writeOp'[t] # "pending"
    BY DEF Lives
  <2>1. readOp'[t] = IF t = s THEN Started(s) ELSE readOp[t]
    BY <1>3, <1>4
  <2>2. state[s] # "new"
    BY <1>1, <1>4 DEF Lives
  <2> QED BY <1>1, <1>4, <1>6, <1>7, <2>1, <2>2 DEF Lives
<1>10. Posts(clients, m)
  BY <1>3, <1>4, <1>6 DEF Posts
<1>11. ASSUME NEW t \in clients PROVE Order(t)' /\ outgoing'[t] # <<>> /\ writeOp'[t] # "none"
  BY <1>1, <1>2, <1>4, <1>10, PostKeeps
<1>12. Duty'
  <2>1. ASSUME NEW t \in Sessions PROVE writeOp'[t] # "none" => outgoing'[t] # <<>>
    <3>1. CASE t \in clients
      BY <1>11, <3>1
    <3>2. CASE t \notin clients
      BY <1>1, <1>4, <1>6, <3>2 DEF Duty
    <3> QED BY <3>1, <3>2
  <2> QED BY <1>4, <1>11, <2>1 DEF Duty
<1>13. Ordered'
  BY <1>4, <1>11 DEF Ordered
<1>14. ASSUME NEW t \in Sessions
       PROVE  /\ Announced(t)' = Announced(t)
              /\ AfterLess(t)' = IF t = s /\ Announced(s) # {} THEN AfterLess(s) \cup {Len(log) + 1}
                                                               ELSE AfterLess(t)
  BY <1>1, <1>2, <1>4, LogGrows
<1>15. OneLessOnce'
  <2>1. Len(log') = Len(log) + 1
    BY <1>2, <1>3, <1>4
  <2>2. 1..Len(log) \subseteq 1..Len(log')
    BY <1>3, <2>1
  <2>3. ASSUME NEW t \in Sessions
        PROVE  IF state'[t] = "new" \/ t \in clients'
                 THEN Announced(t)' = {} ELSE \E i \in 1..Len(log') : Announced(t)' = {i}
    <3>1. Announced(t)' = Announced(t) /\ state' = state /\ clients' = clients
      BY <1>4, <1>14
    <3> QED BY <2>2, <3>1 DEF ChatInv, OneLessOnce
  <2> QED BY <2>3 DEF OneLessOnce
<1>16. AfterLess(s) = {}
  BY <1>4 DEF ChatInv, Speechless
<1>17. LastWords'
  <2>1. ASSUME NEW t \in Sessions, NEW i \in AfterLess(t)', NEW j \in AfterLess(t)' PROVE i = j
    <3>1. CASE t = s
      BY <1>14, <1>16, <2>1, <3>1
    <3>2. CASE t # s
      BY <1>14, <2>1, <3>2 DEF ChatInv, LastWords
    <3> QED BY <3>1, <3>2
  <2> QED BY <2>1 DEF LastWords
<1>18. Speechless'
  <2>1. ASSUME NEW t \in Sessions, AfterLess(t)' # {} PROVE readOp'[t] # "ok"
    <3>1. CASE t = s
      BY <1>3, <1>4, <1>7, <3>1
    <3>2. CASE t # s
      BY <1>3, <1>4, <1>14, <2>1, <3>2 DEF ChatInv, Speechless
    <3> QED BY <3>1, <3>2
  <2> QED BY <2>1 DEF Speechless
<1> QED BY <1>8, <1>9, <1>12, <1>13, <1>15, <1>17, <1>18 DEF ChatInv, QueueInv

LEMMA OnWriteKeeps ==
  ASSUME ChatInv, NEW s \in Sessions, OnWrite(s)
  PROVE  ChatInv'
<1>1. TypeOK /\ Lives /\ Duty /\ Ordered /\ QueueInv
  BY DEF ChatInv, QueueInv
<1>2. /\ writeOp[s] = "ok"
      /\ received' = [received EXCEPT ![s] = Append(received[s], Head(outgoing[s]))]
      /\ outgoing' = [outgoing EXCEPT ![s] = Tail(outgoing[s])]
      /\ writeOp' = [writeOp EXCEPT ![s] = NextWrite(s)]
      /\ UNCHANGED <<state, clients, readOp, unread, inbuf, typed, log, joined>>
  BY DEF OnWrite
<1>3. outgoing[s] \in Seq(Messages) /\ received[s] \in Seq(Messages) /\ outgoing[s] # <<>>
  BY <1>1, <1>2 DEF TypeOK, Duty
<1>4. Head(outgoing[s]) \in Messages /\ Tail(outgoing[s]) \in Seq(Messages)
      /\ Append(received[s], Head(outgoing[s])) \in Seq(Messages)
  BY <1>3
<1>5. /\ NextWrite(s) \in {"none", "pending", "err"} /\ (NextWrite(s) = "none" <=> Tail(outgoing[s]) = <<>>)
      /\ (state[s] = "closed" => NextWrite(s) # "pending")
  BY DEF NextWrite, Started
<1>6. /\ received'[s] = Append(received[s], Head(outgoing[s])) /\ outgoing'[s] = Tail(outgoing[s])
      /\ writeOp'[s] = NextWrite(s)
  BY <1>1, <1>2 DEF TypeOK
<1>7. ASSUME NEW t \in Sessions, t # s
      PROVE received'[t] = received[t] /\ outgoing'[t] = outgoing[t] /\ writeOp'[t] = writeOp[t]
  BY <1>1, <1>2, <1>7 DEF TypeOK
<1>8. TypeOK'
  BY <1>1, <1>2, <1>4, <1>5 DEF TypeOK, Ops
<1>9. state[s] # "new"
  BY <1>1, <1>2 DEF Lives
<1>10. Lives'
  BY <1>1, <1>2, <1>5, <1>6, <1>7, <1>9 DEF Lives
<1>11. Duty'
  <2>1. ASSUME NEW t \in Sessions
        PROVE  /\ writeOp'[t] # "none" => outgoing'[t] # <<>>
               /\ t \in clients /\ outgoing'[t] # <<>> => writeOp'[t] # "none"
    <3>1. CASE t = s
      BY <1>5, <1>6, <3>1, Zenon
    <3>2. CASE t # s
      BY <1>1, <1>7, <3>2 DEF Duty
    <3> QED BY <3>1, <3>2
  <2> QED BY <1>1, <1>2, <2>1 DEF Duty, TypeOK
<1>12. Ordered'
  <2>1. ASSUME NEW t \in clients PROVE received'[t] \o outgoing'[t] = received[t] \o outgoing[t]
    <3>1. CASE t = s
      <4>1. Append(received[s], Head(outgoing[s])) \o Tail(outgoing[s]) = received[s] \o outgoing[s]
        BY <1>3, WriteInOrder, Zenon
      <4> QED BY <1>6, <3>1, <4>1, Zenon
    <3>2. CASE t # s
      <4>1. t \in Sessions
        BY <1>1 DEF TypeOK
      <4> QED BY <1>7, <3>2, <4>1, Zenon
    <3> QED BY <3>1, <3>2
  <2>2. ASSUME NEW t \in clients PROVE Order(t)'
    <3>1. Order(t) /\ log' = log /\ joined' = joined
      BY <1>1, <1>2 DEF Ordered
    <3> QED BY <2>1, <3>1, Zenon DEF Order
  <2> QED BY <1>2, <2>2 DEF Ordered
<1>13. OneLessOnce' /\ LastWords' /\ Speechless'
  BY <1>2, HistoryStays
<1> QED BY <1>8, <1>10, <1>11, <1>12, <1>13 DEF ChatInv, QueueInv

(* Both errors of a session, whichever operation reports it.               *)
LEMMA FailKeeps ==
  ASSUME ChatInv, NEW s \in Sessions, state[s] # "new",
         NEW rop \in [Sessions -> Ops], NEW wop \in [Sessions -> Ops],
         rop[s] \in {readOp[s], "none"}, wop[s] \in {writeOp[s], "none"},
         \A t \in Sessions : t # s => rop[t] = readOp[t] /\ wop[t] = writeOp[t],
         Fail(s, rop, wop)
  PROVE  ChatInv'
<1> DEFINE m == OneLess(s)
           cs == clients \ {s}
           out == Posted(cs, m, outgoing)
           wr == Writing(cs, wop)
<1>1. TypeOK /\ Lives /\ Duty /\ Ordered /\ QueueInv
  BY DEF ChatInv, QueueInv
<1>2. /\ state' = [state EXCEPT ![s] = "closed"] /\ clients' = cs
      /\ readOp' = [rop EXCEPT ![s] = Aborted(rop[s])]
      /\ UNCHANGED <<unread, inbuf, typed, joined, received>>
  BY DEF Fail
<1>3. clients \in SUBSET Sessions /\ cs \in SUBSET Sessions /\ log \in Seq(Messages) /\ Len(log) \in Nat
      /\ state \in [Sessions -> {"new", "open", "closed"}]
  BY <1>1, LenProperties DEF TypeOK
<1>4. \A x \in Ops : /\ Aborted(x) \in Ops /\ Aborted(x) # "pending"
                     /\ Aborted(x) = "ok" => x = "ok"
                     /\ Aborted(x) # "none" => x # "none"
  BY DEF Aborted, Ops
<1> DEFINE ro == Aborted(rop[s])
           wo == Aborted(wop[s])
<1>5. /\ ro \in Ops /\ ro # "pending" /\ (ro = "ok" => readOp[s] = "ok")
      /\ wo \in Ops /\ wo # "pending" /\ (wo # "none" => writeOp[s] # "none")
  BY <1>4
<1> HIDE DEF ro, wo
<1>6. ASSUME NEW t \in Sessions, t # s
      PROVE  state'[t] = state[t] /\ readOp'[t] = readOp[t] /\ (t \in clients' <=> t \in clients)
  <2>1. t \in clients' <=> t \in clients
    BY <1>2, <1>6
  <2>2. state'[t] = state[t] /\ readOp'[t] = readOp[t]
    BY <1>2, <1>3, <1>6
  <2> QED BY <2>1, <2>2
<1>7. state'[s] = "closed" /\ readOp'[s] = ro /\ s \notin clients'
  BY <1>2, <1>3 DEF ro
<1>8. state' \in [Sessions -> {"new", "open", "closed"}] /\ readOp' \in [Sessions -> Ops]
      /\ clients' \subseteq Sessions
  BY <1>2, <1>3, <1>5 DEF ro
<1>9. \A t \in Sessions : readOp'[t] = "ok" => readOp[t] = "ok"
  BY <1>5, <1>6, <1>7
<1>10. CASE s \in clients
  <2>1. /\ outgoing' = out /\ log' = Append(log, m)
        /\ writeOp' = [wr EXCEPT ![s] = Aborted(wr[s])]
    BY <1>10 DEF Fail, Departs
  <2>2. m \in Messages /\ m.kind # "says" /\ \A t \in Sessions : m = OneLess(t) => t = s
    BY MessageFacts
  <2> HIDE DEF m
  <2>3. PostFacts(cs, m, wop)
    BY <1>1, <1>3, <2>2, PostTypes, Zenon
  <2>4. /\ out \in [Sessions -> Seq(Messages)] /\ wr \in [Sessions -> Ops]
        /\ \A t \in Sessions :
             /\ out[t] = IF t \in cs THEN Append(outgoing[t], m) ELSE outgoing[t]
             /\ IF t \in cs /\ outgoing[t] = <<>>
                  THEN wr[t] \in {"pending", "err"} /\ (state[t] = "closed" => wr[t] = "err")
                  ELSE wr[t] = wop[t]
    BY <2>3, Zenon DEF PostFacts
  <2> HIDE DEF out, wr
  <2>5. wr[s] = wop[s] /\ writeOp'[s] = wo /\ outgoing'[s] = outgoing[s]
    BY <2>1, <2>4 DEF wo
  <2>6. ASSUME NEW t \in Sessions, t # s PROVE writeOp'[t] = wr[t] /\ wop[t] = writeOp[t]
    BY <2>1, <2>4, <2>6
  <2>7. TypeOK'
    <3>1. log' \in Seq(Messages)
      BY <1>3, <2>1, <2>2
    <3>2. writeOp' \in [Sessions -> Ops]
      BY <1>4, <2>1, <2>4
    <3> QED BY <1>1, <1>2, <1>8, <2>1, <2>4, <3>1, <3>2 DEF TypeOK
  <2>8. Lives'
    <3> SUFFICES ASSUME NEW t \in Sessions
                 PROVE  /\ t \in clients' => state'[t] # "new"
                        /\ state'[t] = "open" => t \in clients'
                        /\ state'[t] = "new" => outgoing'[t] = <<>> /\ received'[t] = <<>>
                                                /\ writeOp'[t] = "none" /\ readOp'[t] = "none"
                        /\ state'[t] = "closed" => readOp'[t] # "pending" /\ writeOp'[t] # "pending"
      BY DEF Lives
    <3>1. CASE t = s
      BY <1>5, <1>7, <2>5, <3>1
    <3>2. CASE t # s
      <4>1. state'[t] = state[t] /\ readOp'[t] = readOp[t] /\ (t \in clients' <=> t \in clients)
            /\ writeOp'[t] = wr[t] /\ wop[t] = writeOp[t] /\ received'[t] = received[t]
        BY <1>2, <1>6, <2>6, <3>2
      <4>2. t \in clients' => state'[t] # "new"
        BY <1>1, <4>1 DEF Lives
      <4>3. state'[t] = "open" => t \in clients'
        BY <1>1, <4>1 DEF Lives
      <4>4. state'[t] = "new" => outgoing'[t] = <<>> /\ received'[t] = <<>>
                                 /\ writeOp'[t] = "none" /\ readOp'[t] = "none"
        BY <1>1, <2>1, <2>4, <4>1 DEF Lives
      <4>5. state'[t] = "closed" => readOp'[t] # "pending" /\ writeOp'[t] # "pending"
        BY <1>1, <2>4, <4>1 DEF Lives
      <4> QED BY <4>2, <4>3, <4>4, <4>5
    <3> QED BY <3>1, <3>2
  <2>9. Posts(cs, m)
    <3>1. ASSUME NEW t \in cs
          PROVE  /\ outgoing'[t] = Append(outgoing[t], m)
                 /\ outgoing[t] = <<>> => writeOp'[t] \in {"pending", "err"}
                 /\ outgoing[t] # <<>> => writeOp'[t] = writeOp[t]
      <4>1. t \in Sessions /\ t # s
        BY <1>3
      <4> QED BY <2>1, <2>4, <2>6, <4>1
    <3> QED BY <2>1, <3>1 DEF Posts
  <2>10. ASSUME NEW t \in cs PROVE Order(t)' /\ outgoing'[t] # <<>> /\ writeOp'[t] # "none"
    <3>1. t \in clients /\ joined'[t] = joined[t] /\ received'[t] = received[t]
      BY <1>2
    <3> HIDE DEF cs
    <3> QED BY <1>1, <2>2, <2>9, <2>10, <3>1, PostKeeps
  <2>11. Duty'
    <3>1. ASSUME NEW t \in Sessions PROVE writeOp'[t] # "none" => outgoing'[t] # <<>>
      <4>1. CASE t = s
        BY <1>1, <1>5, <2>5, <4>1 DEF Duty
      <4>2. CASE t \in cs
        BY <2>10, <4>2
      <4>3. CASE t # s /\ t \notin cs
        <5>1. writeOp'[t] = writeOp[t] /\ outgoing'[t] = outgoing[t]
          BY <2>1, <2>4, <2>6, <4>3
        <5> QED BY <1>1, <5>1 DEF Duty
      <4> QED BY <4>1, <4>2, <4>3
    <3> QED BY <1>2, <2>10, <3>1 DEF Duty
  <2>12. Ordered'
    BY <1>2, <2>10 DEF Ordered
  <2>13. ASSUME NEW t \in Sessions
         PROVE  /\ Announced(t)' = IF t = s THEN Announced(s) \cup {Len(log) + 1} ELSE Announced(t)
                /\ AfterLess(t)' = AfterLess(t)
    <3>1. m = OneLess(t) <=> t = s
      BY <2>2 DEF m
    <3> QED BY <1>1, <2>1, <2>2, <3>1, LogGrows
  <2>14. OneLessOnce'
    <3>1. Len(log') = Len(log) + 1
      BY <1>3, <2>1, <2>2
    <3>2. 1..Len(log) \subseteq 1..Len(log') /\ Len(log) + 1 \in 1..Len(log')
      BY <1>3, <3>1
    <3>3. ASSUME NEW t \in Sessions
          PROVE  IF state'[t] = "new" \/ t \in clients'
                   THEN Announced(t)' = {} ELSE \E i \in 1..Len(log') : Announced(t)' = {i}
      <4>1. CASE t = s
        <5>1. Announced(s) = {}
          BY <1>10 DEF ChatInv, OneLessOnce
        <5>2. Announced(s)' = {Len(log) + 1}
          BY <2>13, <5>1
        <5> QED BY <1>7, <3>2, <4>1, <5>2
      <4>2. CASE t # s
        <5>1. Announced(t)' = Announced(t) /\ state'[t] = state[t] /\ (t \in clients' <=> t \in clients)
          BY <1>6, <2>13, <4>2
        <5> QED BY <3>2, <5>1 DEF ChatInv, OneLessOnce
      <4> QED BY <4>1, <4>2
    <3> QED BY <3>3 DEF OneLessOnce
  <2>15. LastWords'
    BY <2>13 DEF ChatInv, LastWords
  <2>16. Speechless'
    BY <1>9, <2>13 DEF ChatInv, Speechless
  <2> QED BY <2>7, <2>8, <2>11, <2>12, <2>14, <2>15, <2>16 DEF ChatInv, QueueInv
<1>11. CASE s \notin clients
  <2>1. writeOp' = [wop EXCEPT ![s] = wo] /\ UNCHANGED <<outgoing, log>> /\ clients' = clients
    BY <1>2, <1>11 DEF Fail, Departs, wo
  <2>2. writeOp'[s] = wo /\ \A t \in Sessions : t # s => writeOp'[t] = writeOp[t]
    BY <2>1
  <2>3. TypeOK'
    <3>1. writeOp' \in [Sessions -> Ops]
      BY <1>5, <2>1
    <3> QED BY <1>1, <1>2, <1>8, <2>1, <3>1 DEF TypeOK
  <2>4. Lives'
    <3> SUFFICES ASSUME NEW t \in Sessions
                 PROVE  /\ t \in clients' => state'[t] # "new"
                        /\ state'[t] = "open" => t \in clients'
                        /\ state'[t] = "new" => outgoing'[t] = <<>> /\ received'[t] = <<>>
                                                /\ writeOp'[t] = "none" /\ readOp'[t] = "none"
                        /\ state'[t] = "closed" => readOp'[t] # "pending" /\ writeOp'[t] # "pending"
      BY DEF Lives
    <3>1. CASE t = s
      BY <1>5, <1>7, <2>2, <3>1
    <3>2. CASE t # s
      <4>1. state'[t] = state[t] /\ readOp'[t] = readOp[t] /\ writeOp'[t] = writeOp[t]
            /\ received' = received /\ outgoing' = outgoing /\ clients' = clients
        BY <1>2, <1>6, <2>1, <2>2, <3>2
      <4> QED BY <1>1, <4>1 DEF Lives
    <3> QED BY <3>1, <3>2
  <2>5. Duty'
    <3>1. ASSUME NEW t \in Sessions PROVE writeOp'[t] # "none" => writeOp[t] # "none"
      BY <1>5, <2>2
    <3>2. ASSUME NEW t \in clients PROVE writeOp'[t] = writeOp[t]
      BY <1>3, <1>11, <2>2
    <3> QED BY <1>1, <2>1, <3>1, <3>2 DEF Duty
  <2>6. Ordered'
    <3>1. joined' = joined /\ received' = received
      BY <1>2
    <3> QED BY <1>1, <2>1, <3>1 DEF Ordered, Order
  <2>7. \A t \in Sessions : Announced(t)' = Announced(t) /\ AfterLess(t)' = AfterLess(t)
    BY <2>1 DEF Announced, AfterLess
  <2>8. OneLessOnce'
    <3>1. \A t \in Sessions : state'[t] = "new" <=> state[t] = "new"
      BY <1>6, <1>7
    <3> QED BY <2>1, <2>7, <3>1 DEF ChatInv, OneLessOnce
  <2>9. LastWords' /\ Speechless'
    BY <1>9, <2>7 DEF ChatInv, LastWords, Speechless
  <2> QED BY <2>3, <2>4, <2>5, <2>6, <2>8, <2>9 DEF ChatInv, QueueInv
<1> QED BY <1>10, <1>11

LEMMA ErrorsKeep ==
  ASSUME ChatInv, NEW s \in Sessions, OnReadError(s) \/ OnWriteError(s)
  PROVE  ChatInv'
<1>1. readOp \in [Sessions -> Ops] /\ writeOp \in [Sessions -> Ops]
  BY DEF ChatInv, QueueInv, TypeOK
<1>2. state[s] # "new"
  BY DEF ChatInv, QueueInv, Lives, OnReadError, OnWriteError
<1>3. CASE OnReadError(s)
  <2> DEFINE rop == [readOp EXCEPT ![s] = "none"]
  <2>1. Fail(s, rop, writeOp)
    BY <1>3 DEF OnReadError
  <2>2. rop \in [Sessions -> Ops] /\ rop[s] = "none" /\ \A t \in Sessions : t # s => rop[t] = readOp[t]
    BY <1>1 DEF Ops
  <2> HIDE DEF rop
  <2> QED BY <1>1, <1>2, <2>1, <2>2, FailKeeps
<1>4. CASE OnWriteError(s)
  <2> DEFINE wop == [writeOp EXCEPT ![s] = "none"]
  <2>1. Fail(s, readOp, wop)
    BY <1>4 DEF OnWriteError
  <2>2. wop \in [Sessions -> Ops] /\ wop[s] = "none" /\ \A t \in Sessions : t # s => wop[t] = writeOp[t]
    BY <1>1 DEF Ops
  <2> HIDE DEF wop
  <2> QED BY <1>1, <1>2, <2>1, <2>2, FailKeeps
<1> QED BY <1>3, <1>4

(* The completions and the peers touch neither queues nor log.             *)
LEMMA PeersKeep ==
  ASSUME ChatInv, NEW s \in Sessions,
         Type(s) \/ ReadCompletes(s) \/ WriteCompletes(s) \/ PeerFails(s)
  PROVE  ChatInv'
<1>1. TypeOK /\ Lives /\ Duty /\ Ordered
  BY DEF ChatInv, QueueInv
<1>2. UNCHANGED <<state, clients, outgoing, log, joined, received>>
  BY DEF Type, ReadCompletes, WriteCompletes, PeerFails
<1>3. readOp' \in [Sessions -> Ops] /\ writeOp' \in [Sessions -> Ops]
  BY <1>1 DEF TypeOK, Type, ReadCompletes, WriteCompletes, PeerFails, Ops
<1>4. unread' \in [Sessions -> Seq(Nat)] /\ inbuf' \in [Sessions -> Seq(Nat)] /\ typed' \in [Sessions -> Nat]
  <2>1. unread \in [Sessions -> Seq(Nat)] /\ inbuf \in [Sessions -> Seq(Nat)] /\ typed \in [Sessions -> Nat]
    BY <1>1 DEF TypeOK
  <2> DEFINE u == unread[s]
             c == typed[s]
  <2>2. u \in Seq(Nat) /\ c \in Nat
    BY <2>1
  <2>3. CASE Type(s)
    <3>1. /\ unread' = [unread EXCEPT ![s] = Append(u, c + 1)] /\ inbuf' = inbuf
          /\ typed' = [typed EXCEPT ![s] = c + 1]
      BY <2>3 DEF Type
    <3> HIDE DEF u, c
    <3>2. c + 1 \in Nat /\ Append(u, c + 1) \in Seq(Nat)
      BY <2>2
    <3> QED BY <2>1, <3>1, <3>2
  <2>4. CASE ReadCompletes(s)
    <3>1. PICK n \in 1..Len(u) : /\ inbuf' = [inbuf EXCEPT ![s] = SubSeq(u, 1, n)]
                                 /\ unread' = [unread EXCEPT ![s] = SubSeq(u, n + 1, Len(u))]
      BY <2>4 DEF ReadCompletes
    <3>2. typed' = typed
      BY <2>4 DEF ReadCompletes
    <3> HIDE DEF u, c
    <3>3. SubSeq(u, 1, n) \in Seq(Nat) /\ SubSeq(u, n + 1, Len(u)) \in Seq(Nat)
      BY <2>2
    <3> QED BY <2>1, <3>1, <3>2, <3>3
  <2>5. CASE WriteCompletes(s) \/ PeerFails(s)
    BY <2>1, <2>5 DEF WriteCompletes, PeerFails
  <2> QED BY <2>3, <2>4, <2>5
<1>5. ASSUME NEW t \in Sessions
      PROVE  /\ readOp'[t] = readOp[t] \/ (readOp[t] = "pending" /\ readOp'[t] \in {"ok", "err"})
             /\ writeOp'[t] = writeOp[t] \/ (writeOp[t] = "pending" /\ writeOp'[t] \in {"ok", "err"})
  BY <1>1 DEF TypeOK, Type, ReadCompletes, WriteCompletes, PeerFails
<1>6. TypeOK'
  BY <1>1, <1>2, <1>3, <1>4 DEF TypeOK
<1>7. Lives'
  BY <1>1, <1>2, <1>5 DEF Lives
<1>8. Duty'
  <2>1. \A t \in Sessions : writeOp'[t] = "none" <=> writeOp[t] = "none"
    BY <1>5
  <2>2. clients \subseteq Sessions
    BY <1>1 DEF TypeOK
  <2> QED BY <1>1, <1>2, <2>1, <2>2 DEF Duty
<1>9. Ordered'
  BY <1>1, <1>2 DEF Ordered, Order
<1>10. \A t \in Sessions : Announced(t)' = Announced(t) /\ AfterLess(t)' = AfterLess(t)
  BY <1>2 DEF Announced, AfterLess
<1>11. OneLessOnce' /\ LastWords'
  <2>1. OneLessOnce'
    BY <1>2, <1>10 DEF ChatInv, OneLessOnce
  <2>2. LastWords'
    BY <1>10 DEF ChatInv, LastWords
  <2> QED BY <2>1, <2>2
<1>12. Speechless'
  <2>1. ASSUME NEW t \in Sessions, AfterLess(t) # {} PROVE readOp'[t] # "ok"
    <3>1. readOp[t] # "ok"
      BY <2>1 DEF ChatInv, Speechless
    <3>2. state[t] = "closed"
      <4>1. state[t] # "new" /\ t \notin clients
        BY <2>1, SilentWhileHere
      <4> QED BY <1>1, <4>1 DEF Lives, TypeOK
    <3>3. readOp[t] # "pending"
      BY <1>1, <3>2 DEF Lives
    <3> QED BY <1>5, <3>1, <3>3
  <2> QED BY <1>10, <2>1 DEF Speechless
<1> QED BY <1>6, <1>7, <1>8, <1>9, <1>11, <1>12 DEF ChatInv, QueueInv

-----------------------------------------------------------------------------
(* The inductive invariant of the server: what its queues hold, which      *)
(* operations are under way, and what a departed session may still say.    *)
THEOREM ChatInductive == Spec => []ChatInv
<1>1. ChatInv /\ [Next]_vars => ChatInv'
  <2> SUFFICES ASSUME ChatInv, [Next]_vars PROVE ChatInv'
    OBVIOUS
  <2>1. ASSUME NEW s \in Sessions,
               \/ Accept(s) \/ Handlers(s)
               \/ Type(s) \/ ReadCompletes(s) \/ WriteCompletes(s) \/ PeerFails(s)
        PROVE  ChatInv'
    <3>1. CASE Accept(s)
      BY <3>1, AcceptKeeps
    <3>2. CASE OnRead(s)
      BY <3>2, OnReadKeeps
    <3>3. CASE OnWrite(s)
      BY <3>3, OnWriteKeeps
    <3>4. CASE OnReadError(s) \/ OnWriteError(s)
      BY <3>4, ErrorsKeep
    <3>5. CASE Type(s) \/ ReadCompletes(s) \/ WriteCompletes(s) \/ PeerFails(s)
      BY <3>5, PeersKeep
    <3> QED BY <2>1, <3>1, <3>2, <3>3, <3>4, <3>5 DEF Handlers
  <2>2. CASE UNCHANGED vars
    <3>1. TypeOK' /\ Lives' /\ Duty'
      BY <2>2 DEF vars, ChatInv, QueueInv, TypeOK, Lives, Duty
    <3>2. Ordered'
      BY <2>2 DEF vars, ChatInv, QueueInv, Ordered, Order
    <3>3. OneLessOnce' /\ LastWords' /\ Speechless'
      BY <2>2, HistoryStays DEF vars
    <3> QED BY <3>1, <3>2, <3>3 DEF ChatInv, QueueInv
  <2> QED BY <2>1, <2>2 DEF Next
<1> QED BY <1>1, ChatStarts, PTL DEF Spec

(* In every reachable state of tcp-chat-server, with any number of         *)
(* sessions, post() and on_write() hand the duty to write to each other:   *)
(* no client has messages queued and no write under way.                   *)
THEOREM NoMessageStuck == Spec => []WriteDuty
<1>1. ChatInv => WriteDuty
  BY DEF ChatInv, QueueInv, TypeOK, Duty, WriteDuty
<1> QED BY <1>1, ChatInductive, PTL

(* Every client gets its welcome and then all that was posted since it     *)
(* joined, in the order of the posts.                                      *)
THEOREM ClientsAgree == Spec => []SameOrder
<1>1. ChatInv => SameOrder
  BY DEF ChatInv, QueueInv, Ordered, Order, SameOrder
<1> QED BY <1>1, ChatInductive, PTL

(* A session leaves once: its departure is announced exactly once although *)
(* both its operations fail, and it says one thing at most afterwards.     *)
THEOREM LeavesOnce == Spec => []Departure
<1>1. ChatInv => Departure
  BY DEF ChatInv, Departure
<1> QED BY <1>1, ChatInductive, PTL
-----------------------------------------------------------------------------
(* Facts about sequences: the text typed so far, its division by a read.   *)
CountTo(n) == [k \in 1..n |-> k]

LEMMA CountToFacts ==
  ASSUME NEW n \in Nat
  PROVE  CountTo(n) \in Seq(Nat) /\ Len(CountTo(n)) = n /\ Append(CountTo(n), n + 1) = CountTo(n + 1)
<1>1. \A m \in Nat : CountTo(m) \in Seq(Nat) /\ Len(CountTo(m)) = m /\ \A i \in 1..m : CountTo(m)[i] = i
  BY DEF CountTo
<1> DEFINE a == Append(CountTo(n), n + 1)
           b == CountTo(n + 1)
           c == CountTo(n)
<1>2. c \in Seq(Nat) /\ Len(c) = n /\ \A i \in 1..n : c[i] = i
  BY <1>1
<1>3. b \in Seq(Nat) /\ Len(b) = n + 1 /\ \A i \in 1..(n + 1) : b[i] = i
  BY <1>1
<1> HIDE DEF b, c
<1>4. /\ Append(c, n + 1) \in Seq(Nat) /\ Len(Append(c, n + 1)) = n + 1
      /\ \A i \in 1..n : Append(c, n + 1)[i] = c[i]
      /\ Append(c, n + 1)[n + 1] = n + 1
  BY <1>2, AppendProperties
<1>5. \A i \in 1..(n + 1) : Append(c, n + 1)[i] = b[i]
  BY <1>2, <1>3, <1>4
<1>6. Append(c, n + 1) = b
  BY <1>3, <1>4, <1>5, SeqEqual
<1> QED BY <1>2, <1>6 DEF b, c

LEMMA ConcatStart ==
  ASSUME NEW S, NEW a \in Seq(S), NEW b \in Seq(S), NEW i \in 1..Len(a)
  PROVE  (a \o b)[i] = a[i] /\ Len(a \o b) = Len(a) + Len(b)
<1>1. Len(a) \in Nat /\ Len(b) \in Nat
  BY LenProperties
<1>2. i \in 1..(Len(a) + Len(b)) /\ i <= Len(a)
  BY <1>1
<1> QED BY <1>2, ConcatProperties

Grouped(a, b, c) == (a \o b) \o c = a \o (b \o c)

LEMMA Grouping ==
  ASSUME NEW S, NEW a \in Seq(S), NEW b \in Seq(S), NEW c \in Seq(S)
  PROVE  Grouped(a, b, c)
  BY ConcatAssociative DEF Grouped

LEMMA Divided ==
  ASSUME NEW S, NEW u \in Seq(S), NEW n \in 1..Len(u)
  PROVE  SubSeq(u, 1, n) \o SubSeq(u, n + 1, Len(u)) = u
<1> DEFINE a == SubSeq(u, 1, n)
           b == SubSeq(u, n + 1, Len(u))
<1>1. Len(u) \in Nat /\ n \in Nat /\ n <= Len(u)
  BY LenProperties
<1>2. /\ a \in Seq(S) /\ Len(a) = n /\ \A i \in 1..n : a[i] = u[i]
      /\ b \in Seq(S) /\ Len(b) = Len(u) - n /\ \A i \in 1..(Len(u) - n) : b[i] = u[n + i]
  BY <1>1
<1> HIDE DEF a, b
<1>3. a \o b \in Seq(S) /\ Len(a \o b) = Len(u)
  <2>1. a \o b \in Seq(S) /\ Len(a \o b) = Len(a) + Len(b)
    BY <1>2, ConcatProperties
  <2>2. Len(a) + Len(b) = Len(u)
    BY <1>1, <1>2
  <2> QED BY <2>1, <2>2
<1>4. ASSUME NEW i \in 1..Len(u) PROVE (a \o b)[i] = u[i]
  <2>1. CASE i <= n
    <3>1. i \in 1..n /\ i \in 1..(Len(a) + Len(b)) /\ i <= Len(a)
      BY <1>1, <1>2, <2>1
    <3>2. (a \o b)[i] = a[i]
      BY <1>2, <3>1, ConcatProperties
    <3> QED BY <1>2, <3>1, <3>2
  <2>2. CASE i > n
    <3>1. i - n \in 1..(Len(u) - n) /\ n + (i - n) = i
      BY <1>1, <2>2
    <3>2. (a \o b)[i] = b[i - Len(a)]
      <4>1. i \in 1..(Len(a) + Len(b)) /\ ~(i <= Len(a))
        BY <1>1, <1>2, <2>2
      <4> QED BY <1>2, <4>1, ConcatProperties
    <3>3. b[i - n] = u[n + (i - n)]
      BY <1>2, <3>1
    <3>4. i - Len(a) = i - n
      BY <1>2
    <3>5. (a \o b)[i] = b[i - n]
      BY <3>2, <3>4, Zenon
    <3>6. u[n + (i - n)] = u[i]
      BY <3>1
    <3> QED BY <3>3, <3>5, <3>6, Zenon
  <2>3. i <= n \/ i > n
    BY <1>1
  <2> QED BY <2>1, <2>2, <2>3, Zenon
<1>5. a \o b = u
  BY <1>3, <1>4, SeqEqual
<1> QED BY <1>5 DEF a, b

(* Where the middle of a count starts.                                     *)
LEMMA Middle ==
  ASSUME NEW t \in Seq(Nat), NEW b \in Seq(Nat), NEW u \in Seq(Nat), NEW n \in Nat,
         t \o b \o u = CountTo(n)
  PROVE  \A k \in 1..Len(b) : b[k] = Len(t) + k
<1> SUFFICES ASSUME NEW k \in 1..Len(b) PROVE b[k] = Len(t) + k
  OBVIOUS
<1> DEFINE p == t \o b
<1>1. Len(t) \in Nat /\ Len(b) \in Nat /\ Len(u) \in Nat
  BY LenProperties
<1>2. p \in Seq(Nat) /\ Len(p) = Len(t) + Len(b) /\ p[Len(t) + k] = b[k]
  BY <1>1
<1>3. p \o u = CountTo(n)
  OBVIOUS
<1> HIDE DEF p
<1> DEFINE x == Len(t) + k
<1>4. x \in 1..Len(p)
  BY <1>1, <1>2
<1> HIDE DEF x
<1>5. (p \o u)[x] = p[x] /\ Len(p \o u) = Len(p) + Len(u)
  BY <1>2, <1>4, ConcatStart
<1>6. Len(p \o u) = n
  BY <1>3, CountToFacts
<1>7. x \in 1..n
  BY <1>1, <1>4, <1>5, <1>6
<1>8. CountTo(n)[x] = x
  BY <1>7 DEF CountTo
<1> QED BY <1>2, <1>3, <1>5, <1>8 DEF x

-----------------------------------------------------------------------------
(* f collects the text of s up to each message of l; t is what it comes    *)
(* to.                                                                     *)
Collects(f, l, s) ==
    /\ f \in [0..Len(l) -> Seq(Nat)] /\ f[0] = <<>>
    /\ \A i \in 1..Len(l) : f[i] = f[i - 1] \o TextOf(l[i], s)

SaidIs(l, s, t) == \E f : Collects(f, l, s) /\ f[Len(l)] = t

LEMMA TextOfFacts ==
  /\ \A m \in Messages, s \in Sessions : TextOf(m, s) \in Seq(Nat)
  /\ \A s, t \in Sessions : TextOf(Newcomer(t), s) = <<>> /\ TextOf(OneLess(t), s) = <<>>
  /\ \A s, t \in Sessions : \A x : TextOf(Says(t, x), s) = IF s = t THEN x ELSE <<>>
<1>1. \A s, t \in Sessions : TextOf(Newcomer(t), s) = <<>> /\ TextOf(OneLess(t), s) = <<>>
  BY MessageFacts DEF TextOf
<1>2. \A s, t \in Sessions : \A x : TextOf(Says(t, x), s) = IF s = t THEN x ELSE <<>>
  BY DEF TextOf, Says
<1>3. \A s : TextOf(Welcome, s) = <<>>
  BY DEF TextOf, Welcome
<1>4. <<>> \in Seq(Nat)
  BY EmptySeq
<1>5. ASSUME NEW m \in Messages, NEW s \in Sessions PROVE TextOf(m, s) \in Seq(Nat)
  <2>1. \/ m = Welcome
        \/ \E t \in Sessions : m = Newcomer(t) \/ m = OneLess(t)
        \/ \E t \in Sessions, x \in Seq(Nat) : m = Says(t, x)
    BY DEF Messages
  <2>2. CASE m = Welcome
    BY <1>3, <1>4, <2>2, Zenon
  <2>3. CASE \E t \in Sessions : m = Newcomer(t) \/ m = OneLess(t)
    BY <1>1, <1>4, <2>3, Zenon
  <2>4. CASE \E t \in Sessions, x \in Seq(Nat) : m = Says(t, x)
    <3>1. PICK t \in Sessions, x \in Seq(Nat) : m = Says(t, x)
      BY <2>4
    <3>2. TextOf(m, s) = IF s = t THEN x ELSE <<>>
      BY <1>2, <3>1, Zenon
    <3> QED BY <1>4, <3>2, Zenon
  <2> QED BY <2>1, <2>2, <2>3, <2>4
<1> QED BY <1>1, <1>2, <1>5

(* What the recursive function Said computes.  It exists since f does, and *)
(* the first place where the two differ cannot be.                         *)
LEMMA SaidUnique ==
  ASSUME NEW l \in Seq(Messages), NEW s, NEW t, SaidIs(l, s, t)
  PROVE  Said(l, s) = t
<1> DEFINE D == 0..Len(l)
           Step(g) == [i \in D |-> IF i = 0 THEN <<>> ELSE g[i - 1] \o TextOf(l[i], s)]
           text == CHOOSE g : g = [i \in 0..Len(l) |-> IF i = 0 THEN <<>> ELSE g[i - 1] \o TextOf(l[i], s)]
<1>0. Len(l) \in Nat
  BY LenProperties
<1>1. PICK f : Collects(f, l, s) /\ f[Len(l)] = t
  BY DEF SaidIs
<1>2. f = Step(f)
  <2>1. f \in [D -> Seq(Nat)]
    BY <1>1 DEF Collects
  <2>2. ASSUME NEW i \in D PROVE f[i] = Step(f)[i]
    <3>1. CASE i = 0
      BY <1>1, <3>1 DEF Collects
    <3>2. CASE i # 0
      <4>1. i \in 1..Len(l)
        BY <1>0, <3>2
      <4>2. f[i] = f[i - 1] \o TextOf(l[i], s)
        BY <1>1, <4>1 DEF Collects
      <4> QED BY <3>2, <4>2, Zenon
    <3> QED BY <3>1, <3>2
  <2> QED BY <2>1, <2>2
<1>3. text = Step(text)
  BY <1>2, Zenon
<1>4. Said(l, s) = text[Len(l)]
  BY DEF Said
<1> HIDE DEF text
<1>5. text[0] = <<>> /\ \A i \in 1..Len(l) : text[i] = text[i - 1] \o TextOf(l[i], s)
  <2>1. \A i \in D : text[i] = IF i = 0 THEN <<>> ELSE text[i - 1] \o TextOf(l[i], s)
    BY <1>3, Zenon
  <2>2. 0 \in D /\ \A i \in 1..Len(l) : i \in D /\ i # 0
    BY <1>0
  <2> HIDE DEF D
  <2> QED BY <2>1, <2>2, Zenon
<1> DEFINE Bad == {i \in 0..Len(l) : text[i] # f[i]}
<1>6. Bad = {}
  <2> SUFFICES ASSUME Bad # {} PROVE FALSE
    OBVIOUS
  <2>1. Bad \in SUBSET Nat
    BY <1>0
  <2>2. PICK x \in Bad : \A y \in Bad : ~(<<y, x>> \in OpToRel(<, Nat))
    BY <2>1, NatLessThanWellFounded, WFMin
  <2>3. x \in 1..Len(l)
    BY <1>0, <1>1, <1>5 DEF Collects
  <2>4. x - 1 \notin Bad
    <3>1. <<x - 1, x>> \in OpToRel(<, Nat)
      BY <1>0, <2>3 DEF OpToRel
    <3> QED BY <2>2, <3>1
  <2>5. text[x - 1] = f[x - 1]
    BY <1>0, <2>3, <2>4
  <2>6. text[x] = text[x - 1] \o TextOf(l[x], s) /\ f[x] = f[x - 1] \o TextOf(l[x], s)
    BY <1>1, <1>5, <2>3, Zenon DEF Collects
  <2>7. text[x] = f[x]
    BY <2>5, <2>6, Zenon
  <2> QED BY <2>2, <2>7
<1>7. text[Len(l)] = f[Len(l)]
  BY <1>0, <1>6
<1> QED BY <1>1, <1>4, <1>7

LEMMA SaidGrows ==
  ASSUME NEW l \in Seq(Messages), NEW m \in Messages, NEW s \in Sessions, NEW t \in Seq(Nat), SaidIs(l, s, t)
  PROVE  SaidIs(Append(l, m), s, t \o TextOf(m, s)) /\ t \o TextOf(m, s) \in Seq(Nat)
<1>1. PICK f : Collects(f, l, s) /\ f[Len(l)] = t
  BY DEF SaidIs
<1> DEFINE k == Len(l)
           r == Append(l, m)
           c == t \o TextOf(m, s)
           g == [i \in 0..(k + 1) |-> IF i <= k THEN f[i] ELSE c]
<1>2. /\ k \in Nat /\ r \in Seq(Messages) /\ Len(r) = k + 1 /\ r[k + 1] = m
      /\ \A i \in 1..k : r[i] = l[i]
  BY AppendProperties, LenProperties
<1>3. c \in Seq(Nat)
  <2>1. TextOf(m, s) \in Seq(Nat)
    BY TextOfFacts
  <2> QED BY <2>1, ConcatProperties
<1>4. /\ f \in [0..k -> Seq(Nat)] /\ f[0] = <<>> /\ f[k] = t
      /\ \A i \in 1..k : f[i] = f[i - 1] \o TextOf(l[i], s)
  BY <1>1 DEF Collects
<1>5. c = t \o TextOf(r[k + 1], s)
  BY <1>2, Zenon
<1> HIDE DEF k, r, c
<1>6. g \in [0..(k + 1) -> Seq(Nat)] /\ g[0] = <<>> /\ g[k + 1] = c
  BY <1>2, <1>3, <1>4
<1>7. ASSUME NEW i \in 1..(k + 1) PROVE g[i] = g[i - 1] \o TextOf(r[i], s)
  <2>1. CASE i <= k
    <3>1. i \in 1..k /\ i \in 0..(k + 1) /\ i - 1 \in 0..(k + 1) /\ i - 1 <= k
      BY <1>2, <2>1
    <3>2. g[i] = f[i] /\ g[i - 1] = f[i - 1]
      BY <2>1, <3>1
    <3>3. f[i] = f[i - 1] \o TextOf(l[i], s) /\ r[i] = l[i]
      BY <1>2, <1>4, <3>1, Zenon
    <3> HIDE DEF g
    <3> QED BY <3>2, <3>3, Zenon
  <2>2. CASE i = k + 1
    <3>1. k \in 0..(k + 1) /\ i - 1 = k
      BY <1>2, <2>2
    <3>2. g[k] = t
      BY <1>2, <1>4, <3>1
    <3> HIDE DEF g
    <3>3. g[i - 1] = t /\ g[i] = c /\ c = t \o TextOf(r[i], s)
      BY <1>5, <1>6, <2>2, <3>1, <3>2, Zenon
    <3> QED BY <3>3, Zenon
  <2>3. i <= k \/ i = k + 1
    BY <1>2
  <2> HIDE DEF g
  <2> QED BY <2>1, <2>2, <2>3, Zenon
<1> HIDE DEF g
<1>8. Collects(g, r, s) /\ g[Len(r)] = c
  BY <1>2, <1>6, <1>7, Zenon DEF Collects
<1>9. SaidIs(r, s, c)
  BY <1>8 DEF SaidIs
<1> QED BY <1>3, <1>9 DEF r, c

-----------------------------------------------------------------------------
(* The messages of s in l are of its first n units, in order, and each     *)
(* holds a line end.                                                       *)
InOrder(l, s, n) ==
    \A i \in 1..Len(l) :
        /\ \A a \in UnitsOf(l[i], s) : a \in Nat /\ a <= n
        /\ UnitsOf(l[i], s) # {} => \E e \in UnitsOf(l[i], s) : e \in LineEnds
        /\ \A j \in 1..Len(l) : i < j => \A a \in UnitsOf(l[i], s), b \in UnitsOf(l[j], s) : a < b

LEMMA OrderGrows ==
  ASSUME NEW l \in Seq(Messages), NEW m \in Messages, NEW s, NEW n \in Nat, NEW c \in Nat, InOrder(l, s, n),
         \A a \in UnitsOf(m, s) : a \in Nat /\ n < a /\ a <= n + c,
         UnitsOf(m, s) # {} => \E e \in UnitsOf(m, s) : e \in LineEnds
  PROVE  InOrder(Append(l, m), s, n + c)
<1> DEFINE r == Append(l, m)
           k == Len(l)
<1>1. k \in Nat /\ Len(r) = k + 1 /\ r[k + 1] = m /\ \A i \in 1..k : r[i] = l[i]
  BY AppendProperties, LenProperties
<1>2. /\ \A i \in 1..k : \A a \in UnitsOf(l[i], s) : a \in Nat /\ a <= n
      /\ \A i \in 1..k : UnitsOf(l[i], s) # {} => \E e \in UnitsOf(l[i], s) : e \in LineEnds
      /\ \A i, j \in 1..k : i < j => \A a \in UnitsOf(l[i], s), b \in UnitsOf(l[j], s) : a < b
  BY DEF InOrder
<1> HIDE DEF r, k
<1>3. \A i \in 1..(k + 1) : \A a \in UnitsOf(r[i], s) : a \in Nat /\ a <= n + c
  <2> SUFFICES ASSUME NEW i \in 1..(k + 1), NEW a \in UnitsOf(r[i], s) PROVE a \in Nat /\ a <= n + c
    OBVIOUS
  <2>1. CASE i = k + 1
    <3>1. a \in UnitsOf(m, s)
      BY <1>1, <2>1, Zenon
    <3> QED BY <3>1
  <2>2. CASE i \in 1..k
    <3>1. a \in UnitsOf(l[i], s)
      BY <1>1, <2>2, Zenon
    <3>2. a \in Nat /\ a <= n
      BY <1>2, <2>2, <3>1, Zenon
    <3> QED BY <3>2
  <2> QED BY <1>1, <2>1, <2>2
<1>4. \A i \in 1..(k + 1) : UnitsOf(r[i], s) # {} => \E e \in UnitsOf(r[i], s) : e \in LineEnds
  <2> SUFFICES ASSUME NEW i \in 1..(k + 1)
               PROVE  UnitsOf(r[i], s) # {} => \E e \in UnitsOf(r[i], s) : e \in LineEnds
    OBVIOUS
  <2>1. CASE i = k + 1
    BY <1>1, <2>1, Zenon
  <2>2. CASE i \in 1..k
    BY <1>1, <1>2, <2>2, Zenon
  <2> QED BY <1>1, <2>1, <2>2
<1>5. \A i, j \in 1..(k + 1) : i < j => \A a \in UnitsOf(r[i], s), b \in UnitsOf(r[j], s) : a < b
  <2> SUFFICES ASSUME NEW i \in 1..(k + 1), NEW j \in 1..(k + 1), i < j,
                      NEW a \in UnitsOf(r[i], s), NEW b \in UnitsOf(r[j], s)
               PROVE  a < b
    OBVIOUS
  <2>1. i \in 1..k /\ r[i] = l[i]
    BY <1>1
  <2>2. CASE j = k + 1
    <3>1. a \in Nat /\ a <= n
      BY <1>2, <2>1, Zenon
    <3>2. b \in UnitsOf(m, s)
      BY <1>1, <2>2, Zenon
    <3>3. b \in Nat /\ n < b
      BY <3>2
    <3> QED BY <3>1, <3>3
  <2>3. CASE j \in 1..k
    BY <1>1, <1>2, <2>1, <2>3
  <2> QED BY <1>1, <2>2, <2>3
<1>6. Len(r) = k + 1
  BY <1>1
<1>7. InOrder(r, s, n + c)
  BY <1>3, <1>4, <1>5, <1>6, Zenon DEF InOrder
<1> QED BY <1>7 DEF r

LEMMA UnitsOfFacts ==
  ASSUME NEW m, NEW s, NEW t \in Seq(Nat), TextOf(m, s) = t
  PROVE  /\ \A a \in UnitsOf(m, s) : \E k \in 1..Len(t) : a = t[k]
         /\ HasLineEnd(t) => \E e \in UnitsOf(m, s) : e \in LineEnds
         /\ t = <<>> => UnitsOf(m, s) = {}
<1>1. DOMAIN t = 1..Len(t)
  BY LenProperties
<1>2. UnitsOf(m, s) = {t[k] : k \in 1..Len(t)}
  BY <1>1 DEF UnitsOf, Range
<1>3. HasLineEnd(t) => \E k \in 1..Len(t) : t[k] \in LineEnds
  BY <1>1 DEF HasLineEnd
<1>4. t = <<>> => 1..Len(t) = {}
  OBVIOUS
<1> QED BY <1>2, <1>3, <1>4

(* What s typed is in the messages, in the streambuf or still unread, in   *)
(* this order; the streambuf holds text only between a read and its        *)
(* handler, and then a line end.                                           *)
Place(l, s, t) ==
    /\ t \in Seq(Nat) /\ SaidIs(l, s, t) /\ InOrder(l, s, Len(t))

Tally(s) ==
    /\ readOp[s] # "ok" => inbuf[s] = <<>>
    /\ readOp[s] = "ok" => HasLineEnd(inbuf[s])
    /\ \E t : Place(log, s, t) /\ t \o inbuf[s] \o unread[s] = CountTo(typed[s])

LineInv == \A s \in Sessions : Tally(s)

(* A message without text of s changes nothing for s.                      *)
LEMMA PlaceStays ==
  ASSUME NEW l \in Seq(Messages), NEW m \in Messages, NEW s \in Sessions, NEW t, Place(l, s, t),
         TextOf(m, s) = <<>>
  PROVE  Place(Append(l, m), s, t)
<1>1. t \in Seq(Nat) /\ SaidIs(l, s, t) /\ InOrder(l, s, Len(t)) /\ Len(t) \in Nat
  BY LenProperties DEF Place
<1>2. t \o <<>> = t
  BY <1>1, ConcatEmptySeq
<1>3. SaidIs(Append(l, m), s, t \o TextOf(m, s))
  BY <1>1, SaidGrows
<1>4. SaidIs(Append(l, m), s, t)
  BY <1>2, <1>3, Zenon
<1>5. UnitsOf(m, s) = {}
  BY EmptySeq, UnitsOfFacts
<1>6. InOrder(Append(l, m), s, Len(t) + 0)
  BY <1>1, <1>5, OrderGrows
<1>7. Len(t) + 0 = Len(t)
  BY <1>1
<1> QED BY <1>1, <1>4, <1>6, <1>7, Zenon DEF Place

(* The handlers of one session leave the text of the others alone.         *)
LEMMA TallyKept ==
  ASSUME TypeOK, NEW s \in Sessions, Tally(s), NEW m \in Messages,
         log' = log \/ (log' = Append(log, m) /\ TextOf(m, s) = <<>>),
         typed'[s] = typed[s], inbuf'[s] = inbuf[s], unread'[s] = unread[s],
         readOp'[s] = "ok" <=> readOp[s] = "ok"
  PROVE  Tally(s)'
<1>1. PICK t : Place(log, s, t) /\ t \o inbuf[s] \o unread[s] = CountTo(typed[s])
  BY DEF Tally
<1>2. Place(log', s, t)
  <2>1. log \in Seq(Messages)
    BY DEF TypeOK
  <2> QED BY <1>1, <2>1, PlaceStays, Zenon
<1>3. t \o inbuf'[s] \o unread'[s] = CountTo(typed'[s])
  BY <1>1, Zenon
<1>4. (readOp'[s] # "ok" => inbuf'[s] = <<>>) /\ (readOp'[s] = "ok" => HasLineEnd(inbuf'[s]))
  BY Zenon DEF Tally
<1>5. HasLineEnd(inbuf[s])' <=> HasLineEnd(inbuf'[s])
  BY DEF HasLineEnd
<1> QED BY <1>2, <1>3, <1>4, <1>5, Zenon DEF Tally

LEMMA LinesStep ==
  ASSUME QueueInv, LineInv, NEW p \in Sessions,
         \/ Accept(p) \/ Handlers(p) \/ Type(p) \/ ReadCompletes(p) \/ WriteCompletes(p) \/ PeerFails(p)
  PROVE  LineInv'
<1>0. TypeOK /\ \A s \in Sessions : Tally(s)
  BY DEF LineInv, QueueInv
<1>1. /\ readOp \in [Sessions -> Ops] /\ unread \in [Sessions -> Seq(Nat)] /\ inbuf \in [Sessions -> Seq(Nat)]
      /\ log \in Seq(Messages) /\ typed \in [Sessions -> Nat]
  BY <1>0 DEF TypeOK
<1>2. CASE Accept(p)
  <2>1. log' = Append(log, Newcomer(p)) /\ UNCHANGED <<unread, inbuf, typed>> /\ readOp[p] # "ok"
    BY <1>2 DEF Accept, QueueInv, Lives
  <2>2. PICK op \in {"pending", "err"} : readOp' = [readOp EXCEPT ![p] = op]
    BY <1>2 DEF Accept
  <2>3. ASSUME NEW s \in Sessions PROVE Tally(s)'
    <3>1. readOp'[s] = "ok" <=> readOp[s] = "ok"
      BY <1>1, <2>1, <2>2
    <3>2. Newcomer(p) \in Messages /\ TextOf(Newcomer(p), s) = <<>>
      BY MessageFacts, TextOfFacts
    <3> QED BY <1>0, <2>1, <3>1, <3>2, TallyKept
  <2> QED BY <2>3 DEF LineInv
<1>3. CASE OnRead(p)
  <2> DEFINE b == inbuf[p]
             u == unread[p]
             m == Says(p, b)
             n == typed[p]
  <2>1. /\ log' = Append(log, m) /\ inbuf' = [inbuf EXCEPT ![p] = <<>>] /\ UNCHANGED <<unread, typed>>
        /\ readOp' = [readOp EXCEPT ![p] = Started(p)] /\ readOp[p] = "ok"
    BY <1>3 DEF OnRead, Message
  <2>2. b \in Seq(Nat) /\ u \in Seq(Nat) /\ n \in Nat /\ m \in Messages
    BY <1>1, MessageFacts
  <2>3. ASSUME NEW s \in Sessions, s # p PROVE Tally(s)'
    <3>1. readOp'[s] = readOp[s] /\ inbuf'[s] = inbuf[s]
      BY <1>1, <2>1, <2>3
    <3>2. TextOf(m, s) = <<>>
      BY <2>3, TextOfFacts
    <3> HIDE DEF m
    <3> QED BY <1>0, <2>1, <2>2, <3>1, <3>2, TallyKept
  <2>4. Tally(p)'
    <3>1. PICK t : Place(log, p, t) /\ t \o b \o u = CountTo(n)
      BY <1>0 DEF Tally
    <3>2. t \in Seq(Nat) /\ SaidIs(log, p, t) /\ InOrder(log, p, Len(t)) /\ Len(t) \in Nat /\ Len(b) \in Nat
      BY <2>2, <3>1, LenProperties DEF Place
    <3>3. TextOf(m, p) = b
      BY TextOfFacts
    <3>4. HasLineEnd(b)
      BY <1>0, <2>1 DEF Tally
    <3>5. inbuf'[p] = <<>> /\ unread'[p] = u /\ typed'[p] = n /\ readOp'[p] # "ok"
      BY <1>1, <2>1 DEF Started
    <3> HIDE DEF b, u, m, n
    <3> DEFINE w == t \o b
    <3>6. SaidIs(Append(log, m), p, w) /\ w \in Seq(Nat)
      <4>1. SaidIs(Append(log, m), p, t \o TextOf(m, p))
        BY <1>1, <2>2, <3>2, SaidGrows
      <4> QED BY <2>2, <3>2, <3>3, <4>1, ConcatProperties, Zenon
    <3>7. Len(w) = Len(t) + Len(b)
      BY <2>2, <3>2, ConcatProperties
    <3>8. \A k \in 1..Len(b) : b[k] = Len(t) + k
      BY <2>2, <3>1, <3>2, Middle
    <3>9. \A a \in UnitsOf(m, p) : \E k \in 1..Len(b) : a = b[k]
      BY <2>2, <3>3, UnitsOfFacts
    <3>10. \A a \in UnitsOf(m, p) : a \in Nat /\ Len(t) < a /\ a <= Len(t) + Len(b)
      BY <3>2, <3>8, <3>9
    <3>11. \E e \in UnitsOf(m, p) : e \in LineEnds
      BY <2>2, <3>3, <3>4, UnitsOfFacts
    <3>12. InOrder(Append(log, m), p, Len(t) + Len(b))
      BY <1>1, <2>2, <3>2, <3>10, <3>11, OrderGrows
    <3>13. Place(log', p, w)
      BY <2>1, <3>6, <3>7, <3>12, Zenon DEF Place
    <3>14. w \o u = CountTo(n) /\ w \o <<>> = w
      BY <3>1, <3>6, ConcatEmptySeq
    <3> HIDE DEF w
    <3>15. w \o inbuf'[p] \o unread'[p] = CountTo(typed'[p])
      BY <3>5, <3>14, Zenon
    <3> QED BY <3>5, <3>13, <3>15, Zenon DEF Tally
  <2> QED BY <2>3, <2>4 DEF LineInv
<1>4. CASE OnReadError(p) \/ OnWriteError(p)
  <2>1. PICK rop, wop : Fail(p, rop, wop) /\ (rop = readOp \/ (readOp[p] # "ok" /\ rop = [readOp EXCEPT ![p] = "none"]))
    BY <1>4 DEF OnReadError, OnWriteError
  <2>2. /\ UNCHANGED <<unread, inbuf, typed>> /\ readOp' = [rop EXCEPT ![p] = Aborted(@)]
        /\ log' = log \/ log' = Append(log, OneLess(p))
    BY <2>1 DEF Fail
  <2>3. ASSUME NEW s \in Sessions PROVE Tally(s)'
    <3>1. readOp'[s] = "ok" <=> readOp[s] = "ok"
      BY <1>1, <2>1, <2>2 DEF Aborted
    <3>2. OneLess(p) \in Messages /\ TextOf(OneLess(p), s) = <<>>
      BY MessageFacts, TextOfFacts
    <3> QED BY <1>0, <2>2, <3>1, <3>2, TallyKept
  <2> QED BY <2>3 DEF LineInv
<1>5. CASE OnWrite(p) \/ WriteCompletes(p) \/ PeerFails(p)
  <2>1. UNCHANGED <<log, unread, inbuf, typed>>
    BY <1>5 DEF OnWrite, WriteCompletes, PeerFails
  <2>2. readOp' = readOp \/ (readOp[p] # "ok" /\ readOp' = [readOp EXCEPT ![p] = "err"])
    BY <1>5 DEF OnWrite, WriteCompletes, PeerFails
  <2>3. ASSUME NEW s \in Sessions PROVE Tally(s)'
    <3>1. readOp'[s] = "ok" <=> readOp[s] = "ok"
      BY <1>1, <2>2
    <3>2. Welcome \in Messages
      BY MessageFacts
    <3> QED BY <1>0, <2>1, <3>1, <3>2, TallyKept
  <2> QED BY <2>3 DEF LineInv
<1>6. CASE Type(p)
  <2> DEFINE b == inbuf[p]
             u == unread[p]
             n == typed[p]
  <2>1. /\ typed' = [typed EXCEPT ![p] = n + 1] /\ unread' = [unread EXCEPT ![p] = Append(u, n + 1)]
        /\ UNCHANGED <<log, inbuf, readOp>>
    BY <1>6 DEF Type
  <2>2. b \in Seq(Nat) /\ u \in Seq(Nat) /\ n \in Nat
    BY <1>1
  <2>3. typed'[p] = n + 1 /\ unread'[p] = Append(u, n + 1) /\ inbuf'[p] = b
    BY <1>1, <2>1
  <2>4. ASSUME NEW s \in Sessions, s # p PROVE Tally(s)'
    <3>1. typed'[s] = typed[s] /\ unread'[s] = unread[s] /\ inbuf'[s] = inbuf[s]
      BY <1>1, <2>1, <2>4
    <3> QED BY <1>0, <2>1, <3>1, MessageFacts, TallyKept
  <2>5. Tally(p)'
    <3>1. PICK t : Place(log, p, t) /\ t \o b \o u = CountTo(n)
      BY <1>0 DEF Tally
    <3>2. /\ readOp'[p] # "ok" => inbuf'[p] = <<>>
          /\ readOp'[p] = "ok" => HasLineEnd(inbuf[p])'
      BY <1>0, <2>1 DEF Tally, HasLineEnd
    <3> HIDE DEF b, u, n
    <3> DEFINE w == t \o b
    <3>3. w \in Seq(Nat) /\ n + 1 \in Nat
      BY <2>2, <3>1, ConcatProperties DEF Place
    <3>4. w \o u = CountTo(n)
      BY <3>1
    <3> HIDE DEF w
    <3>5. w \o Append(u, n + 1) = Append(w \o u, n + 1)
      BY <2>2, <3>3
    <3>6. w \o Append(u, n + 1) = CountTo(n + 1)
      <4>1. Append(CountTo(n), n + 1) = CountTo(n + 1)
        BY <2>2, CountToFacts
      <4> QED BY <3>4, <3>5, <4>1, Zenon
    <3>7. t \o inbuf'[p] \o unread'[p] = CountTo(typed'[p])
      BY <2>3, <3>6, Zenon DEF w
    <3>8. Place(log', p, t)
      BY <2>1, <3>1, Zenon
    <3> QED BY <3>2, <3>7, <3>8, Zenon DEF Tally
  <2> QED BY <2>4, <2>5 DEF LineInv
<1>7. CASE ReadCompletes(p)
  <2> DEFINE u == unread[p]
             n == typed[p]
  <2>1. PICK k \in 1..Len(u) :
          /\ HasLineEnd(SubSeq(u, 1, k)) /\ inbuf' = [inbuf EXCEPT ![p] = SubSeq(u, 1, k)]
          /\ unread' = [unread EXCEPT ![p] = SubSeq(u, k + 1, Len(u))]
    BY <1>7 DEF ReadCompletes
  <2>2. readOp[p] = "pending" /\ readOp' = [readOp EXCEPT ![p] = "ok"] /\ UNCHANGED <<log, typed>>
    BY <1>7 DEF ReadCompletes
  <2>3. u \in Seq(Nat) /\ n \in Nat
    BY <1>1
  <2>4. ASSUME NEW s \in Sessions, s # p PROVE Tally(s)'
    <3>1. readOp'[s] = readOp[s] /\ unread'[s] = unread[s] /\ inbuf'[s] = inbuf[s]
      BY <1>1, <2>1, <2>2, <2>4
    <3> QED BY <1>0, <2>2, <3>1, MessageFacts, TallyKept
  <2>5. Tally(p)'
    <3> DEFINE x == SubSeq(u, 1, k)
               y == SubSeq(u, k + 1, Len(u))
    <3>1. PICK t : Place(log, p, t) /\ t \o inbuf[p] \o u = CountTo(n)
      BY <1>0 DEF Tally
    <3>2. inbuf[p] = <<>>
      BY <1>0, <2>2 DEF Tally
    <3>3. inbuf'[p] = x /\ unread'[p] = y /\ readOp'[p] = "ok" /\ typed'[p] = n /\ HasLineEnd(x)
      BY <1>1, <2>1, <2>2
    <3> HIDE DEF u, n
    <3>4. x \in Seq(Nat) /\ y \in Seq(Nat) /\ x \o y = u
      BY <2>3, Divided
    <3>5. t \in Seq(Nat)
      BY <3>1 DEF Place
    <3> HIDE DEF x, y
    <3>6. t \o <<>> = t
      BY <3>5, ConcatEmptySeq
    <3>7. t \o u = CountTo(n)
      BY <3>1, <3>2, <3>6, Zenon
    <3>8. (t \o x) \o y = t \o u
      <4>1. x \in Seq(Nat) /\ y \in Seq(Nat)
        BY <3>4
      <4>2. Grouped(t, x, y)
        BY <3>5, <4>1, Grouping
      <4> QED BY <3>4, <4>2, Zenon DEF Grouped
    <3>9. t \o inbuf'[p] \o unread'[p] = CountTo(typed'[p])
      BY <3>3, <3>7, <3>8, Zenon
    <3>10. HasLineEnd(inbuf[p])'
      BY <3>3 DEF HasLineEnd
    <3>11. Place(log', p, t)
      BY <2>2, <3>1, Zenon
    <3> QED BY <3>3, <3>9, <3>10, <3>11, Zenon DEF Tally
  <2> QED BY <2>4, <2>5 DEF LineInv
<1> QED BY <1>2, <1>3, <1>4, <1>5, <1>6, <1>7 DEF Handlers

(* What a client typed is in the posted messages, in the streambuf or      *)
(* unread, all of it once and in order: on_read posts the whole streambuf, *)
(* and no read starts before it has.  Since every read ends a line, a line *)
(* that on_read breaks off is ended by the session's next message.         *)
THEOREM NoTextLost == Spec => []LinesKept
<1>1. Init => LineInv
  <2> SUFFICES ASSUME Init, NEW s \in Sessions PROVE Tally(s)
    BY DEF LineInv
  <2>1. log = <<>> /\ Len(<<>>) = 0 /\ 1..0 = {} /\ <<>> \in Seq(Nat)
    BY EmptySeq DEF Init
  <2>2. SaidIs(log, s, <<>>)
    <3> DEFINE f == [i \in 0..0 |-> <<>>]
    <3>1. f \in [0..0 -> Seq(Nat)] /\ f[0] = <<>>
      BY <2>1
    <3> HIDE DEF f
    <3>2. Collects(f, log, s) /\ f[Len(log)] = <<>>
      BY <2>1, <3>1 DEF Collects
    <3> QED BY <3>2 DEF SaidIs
  <2>3. Place(log, s, <<>>)
    BY <2>1, <2>2 DEF Place, InOrder
  <2>4. typed[s] = 0 /\ inbuf[s] = <<>> /\ unread[s] = <<>> /\ readOp[s] = "none"
    BY DEF Init
  <2>5. <<>> \o <<>> \o <<>> = CountTo(0)
    <3>1. CountTo(0) \in Seq(Nat) /\ Len(CountTo(0)) = 0
      BY CountToFacts
    <3>2. CountTo(0) = <<>>
      BY <3>1, EmptySeq
    <3>3. <<>> \o <<>> = <<>>
      BY <2>1, ConcatEmptySeq
    <3> QED BY <3>2, <3>3, Zenon
  <2>6. <<>> \o inbuf[s] \o unread[s] = CountTo(typed[s])
    BY <2>4, <2>5, Zenon
  <2> QED BY <2>3, <2>4, <2>6 DEF Tally
<1>2. ChatInv /\ LineInv /\ [Next]_vars => LineInv'
  <2> SUFFICES ASSUME ChatInv, LineInv, [Next]_vars PROVE LineInv'
    OBVIOUS
  <2>1. CASE Next
    BY <2>1, LinesStep DEF Next, ChatInv
  <2>2. CASE UNCHANGED vars
    <3>1. UNCHANGED <<log, typed, inbuf, unread, readOp>>
      BY <2>2 DEF vars
    <3>2. ASSUME NEW s \in Sessions PROVE Tally(s)'
      <4>1. Tally(s) /\ TypeOK
        BY DEF LineInv, ChatInv, QueueInv
      <4> QED BY <3>1, <4>1, MessageFacts, TallyKept
    <3> QED BY <3>2 DEF LineInv
  <2> QED BY <2>1, <2>2
<1>3. ChatInv /\ LineInv => LinesKept
  <2> SUFFICES ASSUME ChatInv, LineInv PROVE TextKept /\ SplitOnce
    BY DEF LinesKept
  <2>1. log \in Seq(Messages)
    BY DEF ChatInv, QueueInv, TypeOK
  <2>2. ASSUME NEW s \in Sessions PROVE Said(log, s) \o inbuf[s] \o unread[s] = [k \in 1..typed[s] |-> k]
    <3>1. PICK t : Place(log, s, t) /\ t \o inbuf[s] \o unread[s] = CountTo(typed[s])
      BY DEF LineInv, Tally
    <3>2. Said(log, s) = t
      BY <2>1, <3>1, SaidUnique DEF Place
    <3> QED BY <3>1, <3>2, Zenon DEF CountTo
  <2>3. ASSUME NEW s \in Sessions, NEW i \in 1..Len(log), NEW j \in 1..Len(log), i < j,
               UnitsOf(log[j], s) # {}, NEW a \in UnitsOf(log[i], s)
        PROVE  \E e \in LineEnds, b \in UnitsOf(log[j], s) : a <= e /\ e <= b
    <3>1. PICK n : InOrder(log, s, n)
      BY DEF LineInv, Tally, Place
    <3>2. PICK e \in UnitsOf(log[j], s) : e \in LineEnds
      BY <2>3, <3>1 DEF InOrder
    <3>3. a < e /\ a \in Nat /\ e \in Nat
      BY <2>3, <3>1, <3>2 DEF InOrder
    <3> QED BY <3>2, <3>3
  <2> QED BY <2>2, <2>3 DEF TextKept, SplitOnce
<1> QED BY <1>1, <1>2, <1>3, ChatInductive, PTL DEF Spec
=============================================================================
