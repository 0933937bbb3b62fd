--------------------------- MODULE GatewayProofs ---------------------------
(***************************************************************************)
(* Theorems about Gateway, for any number of clusters, gateways, streams   *)
(* and processes: the variables keep their types; the data path loses and  *)
(* repeats no message, and the gateways count theirs; and with one stream  *)
(* between every two gateways it implements the service of PointToPoint,   *)
(* in which the messages of a pair of processes do not overtake each       *)
(* other.  Nothing of the kind can be shown for several streams.           *)
(*                                                                         *)
(* All lists, queues and buffers of the state are seen as lines of         *)
(* messages at places.  A step moves the first messages of one line to the *)
(* end of another, once or several times, takes one out of a line, or adds *)
(* a new one; what these moves preserve is shown for lines in general.     *)
(***************************************************************************)
EXTENDS Gateway, SequenceTheorems, FiniteSetTheorems, WellFoundedInduction, NaturalsInduction, TLAPS

-----------------------------------------------------------------------------
(* The operators on sequences *)

\* Drop leaves the elements after the first i, in order.
LEMMA DropLemma ==
  ASSUME NEW S, NEW q \in Seq(S), NEW i \in 0 .. Len(q)
  PROVE  /\ Drop(q, i) \in Seq(S)
         /\ Len(Drop(q, i)) = Len(q) - i
         /\ \A j \in 1 .. Len(q) - i : Drop(q, i)[j] = q[i + j]
<1>1. \A k \in i + 1 .. Len(q) : q[k] \in S
  BY ElementOfSeq
<1>. QED  BY <1>1, LenProperties, SubSeqProperties DEF Drop

\* A prefix holds the first i elements, in order.
LEMMA PrefixLemma ==
  ASSUME NEW S, NEW q \in Seq(S), NEW i \in 0 .. Len(q)
  PROVE  /\ SubSeq(q, 1, i) \in Seq(S)
         /\ Len(SubSeq(q, 1, i)) = i
         /\ \A j \in 1 .. i : SubSeq(q, 1, i)[j] = q[j]
<1>1. \A k \in 1 .. i : q[k] \in S
  BY ElementOfSeq
<1>. QED  BY <1>1, LenProperties, SubSeqProperties

\* Removing an element leaves the others, in order.
LEMMA RemoveLemma ==
  ASSUME NEW S, NEW q \in Seq(S), NEW i \in 1 .. Len(q)
  PROVE  /\ Remove(q, i) \in Seq(S)
         /\ Len(Remove(q, i)) = Len(q) - 1
         /\ \A j \in 1 .. Len(q) - 1 :
              Remove(q, i)[j] = IF j < i THEN q[j] ELSE q[j + 1]
<1>1. /\ SubSeq(q, 1, i - 1) \in Seq(S)
      /\ Len(SubSeq(q, 1, i - 1)) = i - 1
      /\ \A j \in 1 .. i - 1 : SubSeq(q, 1, i - 1)[j] = q[j]
  BY PrefixLemma, LenProperties
<1>2. /\ Drop(q, i) \in Seq(S)
      /\ Len(Drop(q, i)) = Len(q) - i
      /\ \A j \in 1 .. Len(q) - i : Drop(q, i)[j] = q[i + j]
  BY DropLemma, LenProperties
<1>3. Remove(q, i) = SubSeq(q, 1, i - 1) \o Drop(q, i)
  BY DEF Remove, Drop
<1>. QED  BY <1>1, <1>2, <1>3, ConcatProperties, LenProperties

\* FirstOf and Drop(q, 1) split a sequence.
LEMMA FirstOfLemma ==
  ASSUME NEW S, NEW q \in Seq(S)
  PROVE  /\ FirstOf(q) \in Seq(S)
         /\ Len(FirstOf(q)) <= 1
         /\ q # << >> => Len(FirstOf(q)) = 1 /\ FirstOf(q)[1] = q[1]
         /\ q = << >> => FirstOf(q) = << >>
         /\ Drop(q, 1) \in Seq(S)
         /\ Len(Drop(q, 1)) = Len(q) - Len(FirstOf(q))
<1>1. CASE q = << >>
  <2>1. Len(q) = 0 /\ Drop(q, 1) = << >>
    BY <1>1, SubSeqProperties, EmptySeq DEF Drop
  <2>2. FirstOf(q) = << >> /\ << >> \in Seq(S) /\ Len(<< >>) = 0
    BY <1>1, EmptySeq DEF FirstOf
  <2>3. FirstOf(q) \in Seq(S) /\ Len(FirstOf(q)) = 0 /\ Drop(q, 1) \in Seq(S) /\ Len(Drop(q, 1)) = 0
    BY <2>1, <2>2, Zenon
  <2>. QED  BY <1>1, <2>1, <2>2, <2>3
<1>2. CASE q # << >>
  <2>1. 1 \in 0 .. Len(q) /\ q[1] \in S /\ Head(q) = q[1]
    BY <1>2, LenProperties, EmptySeq, ElementOfSeq, HeadTailProperties
  <2>2. Drop(q, 1) \in Seq(S) /\ Len(Drop(q, 1)) = Len(q) - 1
    BY <2>1, DropLemma
  <2>3. FirstOf(q) = <<q[1]>>
    BY <1>2, <2>1 DEF FirstOf
  <2>4. <<q[1]>> \in Seq(S) /\ Len(<<q[1]>>) = 1 /\ <<q[1]>>[1] = q[1]
    BY <2>1
  <2>5. FirstOf(q) \in Seq(S) /\ Len(FirstOf(q)) = 1 /\ FirstOf(q)[1] = q[1]
    BY <2>3, <2>4, Zenon
  <2>. QED  BY <1>2, <2>2, <2>5
<1>. QED  BY <1>1, <1>2

-----------------------------------------------------------------------------
(* Type correctness *)

\* The constant sets that index the variables.
LEMMA IndexLemma ==
  /\ \A g \in Gateways : g = <<g[1], g[2]>> /\ g[1] \in Cluster /\ g[2] \in Column
  /\ \A a \in App : GatewayOf(a) \in Gateways
  /\ \A g \in Gateways : \A x \in ConnectionsOf(g) :
       x \in Connection /\ x[1] = g /\ x[2] \in Gateways /\ Reverse(x) \in Connection
  /\ \A g \in Gateways : \A y \in SocketsOf(g) :
       /\ y \in Socket /\ y[1] \in ConnectionsOf(g) /\ y[2] \in Stream
       /\ OtherEnd(y) \in Socket /\ OtherEnd(y) # y
  /\ \A y \in Socket : y[1] \in Connection /\ y \in SocketsOf(y[1][1])
BY TopologyAssumption
   DEF Gateways, GatewayOf, Connection, ConnectionsOf, Reverse, Socket, SocketsOf, OtherEnd

\* Initially every variable has its type.
LEMMA TypeInit == Init => TypeOK
BY LimitsAssumption
   DEF Init, TypeOK, MessageSeq


\* Every step keeps every variable in its type.
LEMMA TypeStep == TypeOK /\ [Next]_vars => TypeOK'
<1> SUFFICES ASSUME TypeOK, [Next]_vars PROVE TypeOK'
  OBVIOUS
<1> USE DEF TypeOK, MessageSeq
<1>1. CASE UNCHANGED vars
  BY <1>1 DEF vars, appVars, gatewayVars
<1>2. ASSUME NEW a \in App, NEW b \in App, NEW c \in Comm, NEW t \in Tag,
             MessagingSend(a, b, c, t)
      PROVE  TypeOK'
  <2> DEFINE m == [src |-> a, dst |-> b, comm |-> c, tag |-> t, n |-> Len(sent[a]) + 1]
  <2>1. m \in Message
    BY LenProperties DEF Message
  <2>2. sent' = [sent EXCEPT ![a] = Append(@, m)] /\ toGateway' = [toGateway EXCEPT ![a] = Append(@, m)]
    BY <1>2 DEF MessagingSend
  <2>3. sent' \in [App -> Seq(Message)] /\ toGateway' \in [App -> Seq(Message)]
    <3> HIDE DEF m
    <3>. QED  BY <2>1, <2>2
  <2>. QED  BY <1>2, <2>3 DEF MessagingSend, gatewayVars
<1>3. ASSUME NEW b \in App, NEW p \in Request, MessagingReceive(b, p)
      PROVE  TypeOK'
  BY <1>3 DEF MessagingReceive, gatewayVars
<1>4. ASSUME NEW b \in App, TakePending(b)
      PROVE  TypeOK'
  <2> DEFINE c == waiting[b].comm
  <2>1. c \in Comm
    BY <1>4 DEF TakePending, Request
  <2> HIDE DEF c
  <2>2. PICK i \in DOMAIN queue[b][c] :
          /\ got' = [got EXCEPT ![b] = @ \cup {queue[b][c][i]}]
          /\ queue' = [queue EXCEPT ![b][c] = Remove(@, i)]
    BY <1>4 DEF TakePending, c
  <2>3. queue[b][c] \in Seq(Message) /\ i \in 1 .. Len(queue[b][c])
    BY <2>1, <2>2, LenProperties
  <2>4. Remove(queue[b][c], i) \in Seq(Message) /\ queue[b][c][i] \in Message
    BY <2>3, RemoveLemma, ElementOfSeq
  <2>5. queue' \in [App -> [Comm -> Seq(Message)]]
    BY <2>1, <2>2, <2>4
  <2>6. got' \in [App -> SUBSET Message]
    BY <2>2, <2>4
  <2>. QED  BY <1>4, <2>5, <2>6 DEF TakePending, Return, gatewayVars
<1>5. ASSUME NEW b \in App, NEW g \in Gateways, ProbeLoop(b, g)
      PROVE  TypeOK'
  <2> DEFINE m == Head(toApp[<<g, b>>])
             left == Tail(toApp[<<g, b>>])
             stored == Append(queue[b][m.comm], m)
  <2>1. /\ <<g, b>> \in Lane /\ toApp[<<g, b>>] \in Seq(Message) /\ toApp[<<g, b>>] # << >>
        /\ toApp' = [toApp EXCEPT ![<<g, b>>] = left]
        /\ \/ /\ got' = [got EXCEPT ![b] = @ \cup {m}]
              /\ Return(b) /\ UNCHANGED queue
           \/ /\ queue' = [queue EXCEPT ![b][m.comm] = stored]
              /\ (UNCHANGED waiting \/ Return(b)) /\ UNCHANGED got
    BY <1>5 DEF ProbeLoop
  <2>2. m \in Message /\ left \in Seq(Message)
    BY <2>1, HeadTailProperties
  <2>3. m.comm \in Comm
    BY <2>2 DEF Message
  <2>4. stored \in Seq(Message)
    BY <2>2, <2>3, AppendProperties
  <2> HIDE DEF m, left, stored
  <2>5. toApp' \in [Lane -> Seq(Message)]
    BY <2>1, <2>2
  <2>6. ASSUME UNCHANGED queue, got' = [got EXCEPT ![b] = @ \cup {m}]
        PROVE  got' \in [App -> SUBSET Message] /\ queue' \in [App -> [Comm -> Seq(Message)]]
    <3>1. got' \in [App -> SUBSET Message]
      BY <2>2, <2>6
    <3>. QED  BY <2>6, <3>1
  <2>7. ASSUME UNCHANGED got, queue' = [queue EXCEPT ![b][m.comm] = stored]
        PROVE  got' \in [App -> SUBSET Message] /\ queue' \in [App -> [Comm -> Seq(Message)]]
    <3>1. queue' \in [App -> [Comm -> Seq(Message)]]
      BY <2>3, <2>4, <2>7
    <3>. QED  BY <2>7, <3>1
  <2>8. waiting' \in [App -> Request \cup {NotWaiting}]
    BY <2>1 DEF Return
  <2>. QED  BY <1>5, <2>1, <2>5, <2>6, <2>7, <2>8 DEF ProbeLoop, gatewayVars
<1>6. ASSUME NEW b \in App, ProbeNothing(b)
      PROVE  TypeOK'
  BY <1>6 DEF ProbeNothing, Return, gatewayVars
<1>7. ASSUME NEW g \in Gateways, ForwardDataMessage(g)
      PROVE  TypeOK'
  <2> DEFINE m == Head(incoming[g])
  <2>1. m \in Message /\ Tail(incoming[g]) \in Seq(Message)
    BY <1>7, HeadTailProperties DEF ForwardDataMessage
  <2>2. m.dst \in App /\ Home[m.dst] = g[1]
    BY <1>7, <2>1 DEF ForwardDataMessage, Message
  <2>3. <<g, m.dst>> \in Lane
    BY <2>2 DEF Lane
  <2> HIDE DEF m
  <2>4. toApp' = [toApp EXCEPT ![<<g, m.dst>>] = Append(@, m)]
    BY <1>7 DEF ForwardDataMessage, m
  <2>5. toApp' \in [Lane -> Seq(Message)] /\ incoming' \in [Gateways -> Seq(Message)]
    <3> DEFINE handed == Append(toApp[<<g, m.dst>>], m)
               left == Tail(incoming[g])
    <3>1. handed \in Seq(Message) /\ left \in Seq(Message)
      BY <2>1, <2>3, AppendProperties
    <3>2. toApp' = [toApp EXCEPT ![<<g, m.dst>>] = handed] /\ incoming' = [incoming EXCEPT ![g] = left]
      BY <1>7, <2>3, <2>4 DEF ForwardDataMessage
    <3> HIDE DEF handed, left
    <3>. QED  BY <2>3, <3>1, <3>2
  <2>. QED  BY <1>7, <2>5 DEF ForwardDataMessage, appVars
<1>8. ASSUME NEW g \in Gateways, NEW a \in App, ReceiveDataMessage(g, a)
      PROVE  TypeOK'
  <2> DEFINE m == Head(toGateway[a])
  <2>1. m \in Message /\ Tail(toGateway[a]) \in Seq(Message)
    BY <1>8, HeadTailProperties DEF ReceiveDataMessage
  <2> HIDE DEF m
  <2>2. outQueue' = [outQueue EXCEPT ![Target(g, m)] = Append(@, m)]
    BY <1>8 DEF ReceiveDataMessage, m
  <2>3. outQueue' \in [Connection -> Seq(Message)]
    <3> DEFINE queued == Append(outQueue[Target(g, m)], m)
    <3>1. Target(g, m) \in Connection => /\ queued \in Seq(Message)
                                         /\ outQueue' = [outQueue EXCEPT ![Target(g, m)] = queued]
      BY <2>1, <2>2, AppendProperties
    <3>2. Target(g, m) \notin Connection => outQueue' = outQueue
      BY <2>2
    <3> HIDE DEF queued
    <3>. QED  BY <3>1, <3>2
  <2>4. pending' \in [Gateways -> Int] /\ received' \in [Gateways -> 0 .. MaxReceiveSequence]
    <3>1. /\ received[g] < MaxReceiveSequence
          /\ received' = [received EXCEPT ![g] = @ + 1]
          /\ pending' = [pending EXCEPT ![g] = @ + 1]
      BY <1>8 DEF ReceiveDataMessage, MayReceive
    <3>2. pending' \in [Gateways -> Int]
      BY <3>1
    <3>3. received' \in [Gateways -> 0 .. MaxReceiveSequence]
      BY <3>1, LimitsAssumption
    <3>. QED  BY <3>2, <3>3
  <2>. QED  BY <1>8, <2>1, <2>3, <2>4 DEF ReceiveDataMessage, appVars
<1>9. ASSUME NEW g \in Gateways, NEW y \in SocketsOf(g), PrepareMessage(g, y)
       PROVE  TypeOK'
  <2>1. y[1] \in Connection /\ outQueue[y[1]] \in Seq(Message) /\ outQueue[y[1]] # << >>
    BY <1>9, IndexLemma DEF PrepareMessage, Prepare
  <2>2. Head(outQueue[y[1]]) \in Message /\ Tail(outQueue[y[1]]) \in Seq(Message)
    BY <2>1, HeadTailProperties
  <2>3. /\ out' = [out EXCEPT ![y] = <<Head(outQueue[y[1]])>>]
        /\ outQueue' = [outQueue EXCEPT ![y[1]] = Tail(@)]
    BY <1>9 DEF PrepareMessage, Prepare
  <2> DEFINE taken == <<Head(outQueue[y[1]])>>
             left == Tail(outQueue[y[1]])
  <2>4. taken \in Seq(Message) /\ Len(taken) <= 1 /\ left \in Seq(Message)
    BY <2>2
  <2>5. out' = [out EXCEPT ![y] = taken] /\ outQueue' = [outQueue EXCEPT ![y[1]] = left]
    BY <2>1, <2>3
  <2> HIDE DEF taken, left
  <2>6. outQueue' \in [Connection -> Seq(Message)]
    BY <2>4, <2>5
  <2>7. /\ out' \in [Socket -> Seq(Message)]
        /\ \A z \in Socket : Len(out'[z]) <= 1
    BY <2>4, <2>5
  <2>. QED  BY <1>9, <2>6, <2>7 DEF PrepareMessage, appVars
<1>10. ASSUME NEW g \in Gateways, PollSockets(g)
       PROVE  TypeOK'
  BY <1>10, IndexLemma, LimitsAssumption DEF PollSockets, appVars
<1>11. ASSUME NEW g \in Gateways, NEW y \in SocketsOf(g),
              NEW w \in 0 .. WireCapacity, NEW r \in 0 .. MaxReadSequence,
              HandleSocketEvent(g, y, w, r)
       PROVE  TypeOK'
  <2> DEFINE line == out[y] \o outQueue[y[1]]
             rest == Drop(line, w)
             other == wire[OtherEnd(y)]
  <2>1. y \in Socket /\ y[1] \in Connection /\ y[1][1] \in Gateways /\ OtherEnd(y) \in Socket
        /\ OtherEnd(y) # y
    BY IndexLemma DEF Connection
  <2>2. w \in 0 .. Len(line) /\ r \in 0 .. Len(other) /\ line \in Seq(Message)
        /\ other \in Seq(Message)
    BY <1>11, <2>1, ConcatProperties, LenProperties, LimitsAssumption
       DEF HandleSocketEvent, WriteMessages, ReadMessages
  <2>3. rest \in Seq(Message) /\ FirstOf(rest) \in Seq(Message) /\ Len(FirstOf(rest)) <= 1
        /\ Drop(rest, 1) \in Seq(Message)
    BY <2>2, DropLemma, FirstOfLemma
  <2>4. SubSeq(line, 1, w) \in Seq(Message) /\ SubSeq(other, 1, r) \in Seq(Message)
        /\ Drop(other, r) \in Seq(Message)
    BY <2>2, PrefixLemma, DropLemma
  <2> HIDE DEF line, rest, other
  <2>5. /\ out' = IF w = 0 THEN out ELSE [out EXCEPT ![y] = FirstOf(rest)]
        /\ outQueue' = IF w = 0 THEN outQueue
                                ELSE [outQueue EXCEPT ![y[1]] = Drop(rest, 1)]
        /\ pending' = [pending EXCEPT ![y[1][1]] = @ - w]
        /\ incoming' = [incoming EXCEPT ![y[1][1]] = @ \o SubSeq(other, 1, r)]
        /\ wire' = [wire EXCEPT ![y] = @ \o SubSeq(line, 1, w),
                                ![OtherEnd(y)] = Drop(@, r)]
    BY <1>11 DEF HandleSocketEvent, WriteMessages, ReadMessages, CountWritten, line, rest, other
  <2>6. /\ out' \in [Socket -> Seq(Message)]
        /\ \A z \in Socket : Len(out'[z]) <= 1
        /\ outQueue' \in [Connection -> Seq(Message)]
        /\ pending' \in [Gateways -> Int]
    <3> DEFINE first == FirstOf(rest)
               tail == Drop(rest, 1)
    <3>1. /\ first \in Seq(Message) /\ Len(first) <= 1 /\ tail \in Seq(Message)
          /\ out' = IF w = 0 THEN out ELSE [out EXCEPT ![y] = first]
          /\ outQueue' = IF w = 0 THEN outQueue ELSE [outQueue EXCEPT ![y[1]] = tail]
      BY <2>3, <2>5
    <3> HIDE DEF first, tail
    <3>2. pending' \in [Gateways -> Int]
      <4>1. w \in Int /\ pending' = [pending EXCEPT ![y[1][1]] = @ - w]
        BY <2>5, LimitsAssumption
      <4>. QED  BY <2>1, <4>1
    <3>3. outQueue' \in [Connection -> Seq(Message)]
      BY <3>1
    <3>4. out' \in [Socket -> Seq(Message)]
      BY <3>1
    <3>5. \A z \in Socket : Len(out'[z]) <= 1
      BY <3>1
    <3>. QED  BY <3>2, <3>3, <3>4, <3>5
  <2>7. /\ incoming[y[1][1]] \o SubSeq(other, 1, r) \in Seq(Message)
        /\ wire[y] \o SubSeq(line, 1, w) \in Seq(Message)
    BY <2>1, <2>4, ConcatProperties
  <2>8. incoming' \in [Gateways -> Seq(Message)] /\ wire' \in [Socket -> Seq(Message)]
    <3> DEFINE read == incoming[y[1][1]] \o SubSeq(other, 1, r)
               written == wire[y] \o SubSeq(line, 1, w)
               left == Drop(other, r)
    <3>1. /\ incoming' = [incoming EXCEPT ![y[1][1]] = read]
          /\ wire' = [wire EXCEPT ![y] = written, ![OtherEnd(y)] = left]
      BY <2>1, <2>5 DEF other
    <3>2. read \in Seq(Message) /\ written \in Seq(Message) /\ left \in Seq(Message)
      BY <2>4, <2>7
    <3> HIDE DEF read, written, left
    <3>. QED  BY <2>1, <3>1, <3>2
  <2>9. unvisited' \in [Gateways -> SUBSET Socket]
    BY <1>11 DEF HandleSocketEvent
  <2>. QED  BY <1>11, <2>6, <2>8, <2>9 DEF HandleSocketEvent, appVars
<1>. QED
  BY <1>1, <1>2, <1>3, <1>4, <1>5, <1>6, <1>7, <1>8, <1>9, <1>10, <1>11
     DEF Next, GatewayStep, AppStep, HandleAnyEvent

\* The data path is type correct.
THEOREM TypeCorrect == Spec => []TypeOK
BY TypeInit, TypeStep, PTL DEF Spec

-----------------------------------------------------------------------------
(* Where the messages are *)

Place == ({"toGateway"} \X App) \cup ({"outQueue"} \X Connection)
         \cup ({"out"} \X Socket) \cup ({"wire"} \X Socket)
         \cup ({"incoming"} \X Gateways) \cup ({"toApp"} \X Lane)
         \cup ({"queue"} \X (App \X Comm))

Layout == [Place -> Seq(Message)]

\* The places that lead from the sender of m to its receiver.
Path(m) ==
  LET g == GatewayOf(m.src)
      h == <<Home[m.dst], g[2]>>
      x == <<g, h>>
  IN  { <<"toGateway", m.src>>, <<"outQueue", x>>, <<"incoming", h>>,
        <<"toApp", <<h, m.dst>>>>, <<"queue", <<m.dst, m.comm>>>> }
      \cup { <<"out", <<x, s>>>> : s \in Stream } \cup { <<"wire", <<x, s>>>> : s \in Stream }

\* No message is twice in the lines of L.
Once(L) ==
  \A p, q \in Place : \A i \in 1 .. Len(L[p]), j \in 1 .. Len(L[q]) :
    L[p][i] = L[q][j] => p = q /\ i = j
Placed(L) == \A p \in Place : \A i \in 1 .. Len(L[p]) : p \in Path(L[p][i])
Content(L) == { m \in Message : \E p \in Place : \E i \in 1 .. Len(L[p]) : L[p][i] = m }

-----------------------------------------------------------------------------
(* Moves *)

\* The first k messages at p go to the end of the line at q.
Moved(L, M, p, q, k) ==
  /\ p \in Place /\ q \in Place /\ p # q /\ k \in 0 .. Len(L[p])
  /\ \A r \in Place \ {p, q} : M[r] = L[r]
  /\ Len(M[p]) = Len(L[p]) - k
  /\ \A j \in 1 .. Len(L[p]) - k : M[p][j] = L[p][k + j]
  /\ Len(M[q]) = Len(L[q]) + k
  /\ \A j \in 1 .. Len(L[q]) : M[q][j] = L[q][j]
  /\ \A j \in 1 .. k : M[q][Len(L[q]) + j] = L[p][j]

\* The i-th message at p is taken out of the lines.
Taken(L, M, p, i) ==
  /\ p \in Place /\ i \in 1 .. Len(L[p])
  /\ \A r \in Place \ {p} : M[r] = L[r]
  /\ Len(M[p]) = Len(L[p]) - 1
  /\ \A j \in 1 .. Len(L[p]) - 1 : M[p][j] = IF j < i THEN L[p][j] ELSE L[p][j + 1]

\* The message m is new, at the end of the line at p.
Added(L, M, p, m) ==
  /\ p \in Place /\ m \in Message /\ m \notin Content(L)
  /\ \A r \in Place \ {p} : M[r] = L[r]
  /\ Len(M[p]) = Len(L[p]) + 1
  /\ \A j \in 1 .. Len(L[p]) : M[p][j] = L[p][j]
  /\ M[p][Len(L[p]) + 1] = m

\* Where a message was before a move: each comes from one position.
Source(L, p, q, k, r, i) ==
  IF r = p THEN <<p, k + i>>
  ELSE IF r = q /\ i > Len(L[q]) THEN <<p, i - Len(L[q])>>
  ELSE <<r, i>>

LEMMA SourceLemma ==
  ASSUME NEW L \in Layout, NEW M \in Layout, NEW p, NEW q, NEW k, Moved(L, M, p, q, k),
         NEW r \in Place, NEW i \in 1 .. Len(M[r])
  PROVE  \E s \in Place : \E j \in 1 .. Len(L[s]) :
           Source(L, p, q, k, r, i) = <<s, j>> /\ M[r][i] = L[s][j]
<1>1. Len(L[r]) \in Nat /\ Len(L[p]) \in Nat /\ Len(L[q]) \in Nat /\ p \in Place /\ q \in Place
  BY LenProperties DEF Moved, Layout
<1>2. CASE r = p
  <2>1. k + i \in 1 .. Len(L[p]) /\ M[p][i] = L[p][k + i]
    BY <1>1, <1>2 DEF Moved
  <2>. QED  BY <1>1, <1>2, <2>1 DEF Source
<1>3. CASE r = q /\ i > Len(L[q])
  <2>1. r # p
    BY <1>3 DEF Moved
  <2>2. i - Len(L[q]) \in 1 .. k /\ i = Len(L[q]) + (i - Len(L[q])) /\ k \in 0 .. Len(L[p])
    BY <1>1, <1>3 DEF Moved
  <2>3. M[q][Len(L[q]) + (i - Len(L[q]))] = L[p][i - Len(L[q])]
    BY <2>2 DEF Moved
  <2>4. i - Len(L[q]) \in 1 .. Len(L[p]) /\ M[q][i] = L[p][i - Len(L[q])]
    BY <1>1, <2>2, <2>3
  <2>. QED  BY <1>1, <1>3, <2>1, <2>4 DEF Source
<1>4. CASE r # p /\ ~(r = q /\ i > Len(L[q]))
  <2>1. i \in 1 .. Len(L[r]) /\ M[r][i] = L[r][i]
    BY <1>1, <1>4 DEF Moved
  <2>. QED  BY <1>4, <2>1 DEF Source
<1>. QED  BY <1>2, <1>3, <1>4

\* Messages come from different positions.
LEMMA SourcesDiffer ==
  ASSUME NEW L \in Layout, NEW M \in Layout, NEW p, NEW q, NEW k, Moved(L, M, p, q, k),
         NEW r \in Place, NEW i \in 1 .. Len(M[r]),
         NEW s \in Place, NEW j \in 1 .. Len(M[s]),
         Source(L, p, q, k, r, i) = Source(L, p, q, k, s, j)
  PROVE  r = s /\ i = j
<1>1. Len(L[q]) \in Nat /\ Len(L[p]) \in Nat /\ k \in 0 .. Len(L[p]) /\ p # q
  BY LenProperties DEF Moved, Layout
<1>2. i \in Nat /\ j \in Nat /\ i > 0 /\ j > 0
  OBVIOUS
<1>3. r = q /\ i > Len(L[q]) => i - Len(L[q]) <= k
  BY <1>1 DEF Moved
<1>4. s = q /\ j > Len(L[q]) => j - Len(L[q]) <= k
  BY <1>1 DEF Moved
<1>. QED  BY <1>1, <1>2, <1>3, <1>4 DEF Source

\* And no message is left behind.
LEMMA Onward ==
  ASSUME NEW L \in Layout, NEW M \in Layout, NEW p, NEW q, NEW k, Moved(L, M, p, q, k),
         NEW r \in Place, NEW i \in 1 .. Len(L[r])
  PROVE  \E s \in Place : \E j \in 1 .. Len(M[s]) :
           M[s][j] = L[r][i] /\ s = (IF r = p /\ i <= k THEN q ELSE r)
<1>1. Len(L[r]) \in Nat /\ Len(L[p]) \in Nat /\ Len(L[q]) \in Nat /\ p \in Place /\ q \in Place
      /\ k \in 0 .. Len(L[p]) /\ p # q
  BY LenProperties DEF Moved, Layout
<1>2. CASE r = p /\ i <= k
  <2>1. Len(L[q]) + i \in 1 .. Len(M[q]) /\ M[q][Len(L[q]) + i] = L[p][i]
    BY <1>1, <1>2 DEF Moved
  <2>. QED  BY <1>1, <1>2, <2>1
<1>3. CASE r = p /\ i > k
  <2>1. i - k \in 1 .. Len(L[p]) - k /\ k + (i - k) = i
    BY <1>1, <1>3
  <2>2. M[p][i - k] = L[p][k + (i - k)] /\ Len(M[p]) = Len(L[p]) - k
    BY <2>1 DEF Moved
  <2>. QED  BY <1>1, <1>3, <2>1, <2>2
<1>4. CASE r # p
  <2>1. CASE r = q
    BY <1>1, <1>4, <2>1 DEF Moved
  <2>2. CASE r # q
    BY <1>4, <2>2 DEF Moved
  <2>. QED  BY <2>1, <2>2
<1>. QED  BY <1>1, <1>2, <1>3, <1>4

\* A move neither loses nor repeats a message.
LEMMA MoveLemma ==
  ASSUME NEW L \in Layout, NEW M \in Layout, NEW p, NEW q, NEW k, Moved(L, M, p, q, k),
         Once(L), Placed(L), \A i \in 1 .. k : q \in Path(L[p][i])
  PROVE  Once(M) /\ Placed(M) /\ Content(M) = Content(L)
<1>1. ASSUME NEW r \in Place, NEW i \in 1 .. Len(M[r]),
             NEW s \in Place, NEW j \in 1 .. Len(M[s]), M[r][i] = M[s][j]
      PROVE  r = s /\ i = j
  <2>1. PICK r1 \in Place : \E i1 \in 1 .. Len(L[r1]) :
          Source(L, p, q, k, r, i) = <<r1, i1>> /\ M[r][i] = L[r1][i1]
    BY SourceLemma
  <2>4. PICK i1 \in 1 .. Len(L[r1]) :
          Source(L, p, q, k, r, i) = <<r1, i1>> /\ M[r][i] = L[r1][i1]
    BY <2>1
  <2>2. PICK s1 \in Place : \E j1 \in 1 .. Len(L[s1]) :
          Source(L, p, q, k, s, j) = <<s1, j1>> /\ M[s][j] = L[s1][j1]
    BY SourceLemma
  <2>5. PICK j1 \in 1 .. Len(L[s1]) :
          Source(L, p, q, k, s, j) = <<s1, j1>> /\ M[s][j] = L[s1][j1]
    BY <2>2
  <2>6. L[r1][i1] = L[s1][j1]
    BY <1>1, <2>4, <2>5
  <2>3. r1 = s1 /\ i1 = j1
    BY <2>6 DEF Once
  <2>. QED  BY <2>3, <2>4, <2>5, SourcesDiffer
<1>2. ASSUME NEW r \in Place, NEW i \in 1 .. Len(M[r])
      PROVE  r \in Path(M[r][i])
  <2>1. Len(L[q]) \in Nat /\ Len(L[p]) \in Nat /\ k \in 0 .. Len(L[p]) /\ p # q
    BY LenProperties DEF Moved, Layout
  <2>5. PICK s \in Place : \E j \in 1 .. Len(L[s]) :
          Source(L, p, q, k, r, i) = <<s, j>> /\ M[r][i] = L[s][j]
    BY SourceLemma
  <2>2. PICK j \in 1 .. Len(L[s]) :
          Source(L, p, q, k, r, i) = <<s, j>> /\ M[r][i] = L[s][j]
    BY <2>5
  <2>3. CASE s = r
    BY <2>2, <2>3 DEF Placed
  <2>4. CASE s # r
    <3>1. r = q /\ s = p /\ j = i - Len(L[q]) /\ i > Len(L[q])
      BY <2>2, <2>4 DEF Source
    <3>2. j \in 1 .. k
      BY <2>1, <3>1 DEF Moved
    <3>. QED  BY <2>2, <3>1, <3>2
  <2>. QED  BY <2>3, <2>4
<1>3. Content(M) \subseteq Content(L)
  BY SourceLemma DEF Content
<1>4. Content(L) \subseteq Content(M)
  BY Onward DEF Content
<1>5. Once(M)
  BY <1>1 DEF Once
<1>6. Placed(M)
  BY <1>2 DEF Placed
<1>. QED  BY <1>3, <1>4, <1>5, <1>6

\* Taking a message out leaves the others.
LEMMA TakeLemma ==
  ASSUME NEW L \in Layout, NEW M \in Layout, NEW p, NEW i, Taken(L, M, p, i),
         Once(L), Placed(L)
  PROVE  Once(M) /\ Placed(M) /\ Content(M) = Content(L) \ {L[p][i]} /\ L[p][i] \in Content(L)
<1>1. Len(L[p]) \in Nat /\ p \in Place /\ i \in 1 .. Len(L[p]) /\ L[p][i] \in Message
  BY LenProperties, ElementOfSeq DEF Taken, Layout
<1> DEFINE from(r, j) == IF r = p /\ j >= i THEN j + 1 ELSE j
<1>2. \A r \in Place : \A j \in 1 .. Len(M[r]) :
        /\ from(r, j) \in 1 .. Len(L[r])
        /\ M[r][j] = L[r][from(r, j)]
        /\ ~(r = p /\ from(r, j) = i)
  BY <1>1 DEF Taken
<1>3. \A r \in Place : \A j, k \in 1 .. Len(M[r]) : from(r, j) = from(r, k) => j = k
  BY <1>1
<1>4. Once(M)
  <2> SUFFICES ASSUME NEW r \in Place, NEW j \in 1 .. Len(M[r]),
                      NEW s \in Place, NEW k \in 1 .. Len(M[s]), M[r][j] = M[s][k]
               PROVE  r = s /\ j = k
    BY DEF Once
  <2>2. L[r][from(r, j)] = L[s][from(s, k)] /\ from(r, j) \in 1 .. Len(L[r])
        /\ from(s, k) \in 1 .. Len(L[s])
    BY <1>2
  <2> HIDE DEF from
  <2>1. r = s /\ from(r, j) = from(s, k)
    BY <2>2 DEF Once
  <2>. QED  BY <1>3, <2>1
<1>5. Placed(M)
  BY <1>2 DEF Placed
<1>6. \A r \in Place : \A j \in 1 .. Len(M[r]) : M[r][j] # L[p][i]
  <2> SUFFICES ASSUME NEW r \in Place, NEW j \in 1 .. Len(M[r]), M[r][j] = L[p][i]
               PROVE  FALSE
    OBVIOUS
  <2>. QED  BY <1>1, <1>2 DEF Once
<1>7. \A r \in Place : \A j \in 1 .. Len(L[r]) :
        L[r][j] = L[p][i] \/ \E k \in 1 .. Len(M[r]) : M[r][k] = L[r][j]
  <2> SUFFICES ASSUME NEW r \in Place, NEW j \in 1 .. Len(L[r]), L[r][j] # L[p][i]
               PROVE  \E k \in 1 .. Len(M[r]) : M[r][k] = L[r][j]
    OBVIOUS
  <2>1. CASE r # p
    BY <2>1 DEF Taken
  <2>2. CASE r = p /\ j < i
    <3>1. j \in 1 .. Len(L[p]) - 1
      BY <1>1, <2>2
    <3>. QED  BY <2>2, <3>1 DEF Taken
  <2>3. CASE r = p /\ j > i
    <3>1. j - 1 \in 1 .. Len(L[p]) - 1 /\ ~(j - 1 < i) /\ (j - 1) + 1 = j
      BY <1>1, <2>3
    <3>2. M[p][j - 1] = L[p][(j - 1) + 1] /\ Len(M[p]) = Len(L[p]) - 1
      BY <3>1 DEF Taken
    <3>. QED  BY <2>3, <3>1, <3>2
  <2>. QED  BY <1>1, <2>1, <2>2, <2>3
<1>8. Content(M) = Content(L) \ {L[p][i]}
  <2>1. \A m \in Content(M) : m \in Content(L) /\ m # L[p][i]
    BY <1>2, <1>6 DEF Content
  <2>2. \A m \in Content(L) : m # L[p][i] => m \in Content(M)
    BY <1>7 DEF Content
  <2>. QED  BY <2>1, <2>2
<1>9. L[p][i] \in Content(L)
  BY <1>1 DEF Content
<1>. QED  BY <1>4, <1>5, <1>8, <1>9

\* A new message joins the others.
LEMMA AddLemma ==
  ASSUME NEW L \in Layout, NEW M \in Layout, NEW p, NEW m, Added(L, M, p, m),
         Once(L), Placed(L), p \in Path(m)
  PROVE  Once(M) /\ Placed(M) /\ Content(M) = Content(L) \cup {m}
<1>1. /\ Len(L[p]) \in Nat /\ p \in Place /\ m \in Message
      /\ \A r \in Place : \A i \in 1 .. Len(L[r]) : L[r][i] \in Message /\ L[r][i] # m
  BY LenProperties, ElementOfSeq DEF Added, Layout, Content
<1>2. \A r \in Place : \A i \in 1 .. Len(M[r]) :
        \/ r = p /\ i = Len(L[p]) + 1 /\ M[r][i] = m
        \/ i \in 1 .. Len(L[r]) /\ M[r][i] = L[r][i]
  BY <1>1 DEF Added
<1>3. \A r \in Place : \A i \in 1 .. Len(L[r]) : i \in 1 .. Len(M[r]) /\ M[r][i] = L[r][i]
  BY <1>1 DEF Added
<1>4. Once(M)
  <2> SUFFICES ASSUME NEW r \in Place, NEW i \in 1 .. Len(M[r]),
                      NEW s \in Place, NEW j \in 1 .. Len(M[s]), M[r][i] = M[s][j]
               PROVE  r = s /\ i = j
    BY DEF Once
  <2>1. CASE r = p /\ i = Len(L[p]) + 1 /\ M[r][i] = m
    BY <1>1, <1>2, <2>1
  <2>2. CASE i \in 1 .. Len(L[r]) /\ M[r][i] = L[r][i]
    <3>1. j \in 1 .. Len(L[s]) /\ M[s][j] = L[s][j]
      BY <1>1, <1>2, <2>2
    <3>2. i \in 1 .. Len(L[r]) /\ L[r][i] = L[s][j]
      BY <2>2, <3>1
    <3>. QED  BY <3>1, <3>2 DEF Once
  <2>3. \/ r = p /\ i = Len(L[p]) + 1 /\ M[r][i] = m
        \/ i \in 1 .. Len(L[r]) /\ M[r][i] = L[r][i]
    BY <1>2
  <2>. QED  BY <2>1, <2>2, <2>3
<1>5. Placed(M)
  BY <1>2 DEF Placed
<1>6. Len(L[p]) + 1 \in 1 .. Len(M[p]) /\ M[p][Len(L[p]) + 1] = m
  BY <1>1 DEF Added
<1>7. Content(M) = Content(L) \cup {m}
  <2>1. \A k \in Content(M) : k \in Content(L) \/ k = m
    BY <1>2 DEF Content
  <2>2. \A k \in Content(L) : k \in Content(M)
    BY <1>3 DEF Content
  <2>3. m \in Content(M)
    BY <1>1, <1>6 DEF Content
  <2>. QED  BY <2>1, <2>2, <2>3
<1>. QED  BY <1>4, <1>5, <1>7

-----------------------------------------------------------------------------
(* The number of messages at some of the places *)

In(L, H) == { m \in Message : \E p \in H : \E i \in 1 .. Len(L[p]) : L[p][i] = m }
Size(L, H, n) == IsFiniteSet(In(L, H)) /\ Cardinality(In(L, H)) = n

\* The first k messages of a line are k messages.
Front(L, p, k) == { L[p][i] : i \in 1 .. k }

LEMMA FrontLemma ==
  ASSUME NEW L \in Layout, NEW p \in Place, Once(L), NEW k \in 0 .. Len(L[p])
  PROVE  IsFiniteSet(Front(L, p, k)) /\ Cardinality(Front(L, p, k)) = k
<1> DEFINE f == [i \in 1 .. k |-> L[p][i]]
<1>1. Len(L[p]) \in Nat
  BY LenProperties DEF Layout
<1>2. IsFiniteSet(1 .. k) /\ Cardinality(1 .. k) = k
  <2>1. 1 \in Int /\ k \in Int
    BY <1>1
  <2>2. IsFiniteSet(1 .. k) /\ Cardinality(1 .. k) = IF 1 > k THEN 0 ELSE k - 1 + 1
    BY <2>1, FS_Interval
  <2>. QED  BY <1>1, <2>2
<1>3. f \in [1 .. k -> Front(L, p, k)] /\ \A t \in Front(L, p, k) : \E i \in 1 .. k : f[i] = t
  BY DEF Front
<1>4. \A i, j \in 1 .. k : f[i] = f[j] => i = j
  BY <1>1 DEF Once
<1>5. f \in Bijection(1 .. k, Front(L, p, k))
  BY <1>3, <1>4 DEF Bijection, Injection, Surjection, IsInjective
<1>6. ExistsBijection(1 .. k, Front(L, p, k))
  BY <1>5 DEF ExistsBijection
<1>. QED  BY <1>2, <1>6, FS_Bijection

\* A line outside H that is moved into H adds its messages to those of H.
LEMMA MoveIn ==
  ASSUME NEW L \in Layout, NEW M \in Layout, NEW p, NEW q, NEW k, Moved(L, M, p, q, k),
         Once(L), NEW H \in SUBSET Place, q \in H, p \notin H, NEW n, Size(L, H, n)
  PROVE  Size(M, H, n + k)
<1>1. /\ p \in Place /\ k \in 0 .. Len(L[p]) /\ Len(L[p]) \in Nat /\ Len(L[q]) \in Nat
      /\ Front(L, p, k) \subseteq Message
  BY LenProperties, ElementOfSeq DEF Moved, Layout, Front
<1>2. In(M, H) \subseteq In(L, H) \cup Front(L, p, k)
  <2> SUFFICES ASSUME NEW r \in H, NEW i \in 1 .. Len(M[r]), M[r][i] \in Message
               PROVE  M[r][i] \in In(L, H) \cup Front(L, p, k)
    BY DEF In
  <2>1. PICK s \in Place : \E j \in 1 .. Len(L[s]) :
          Source(L, p, q, k, r, i) = <<s, j>> /\ M[r][i] = L[s][j]
    BY SourceLemma
  <2>2. PICK j \in 1 .. Len(L[s]) : Source(L, p, q, k, r, i) = <<s, j>> /\ M[r][i] = L[s][j]
    BY <2>1
  <2>3. CASE s = r
    BY <2>2, <2>3 DEF In
  <2>4. CASE s # r
    <3>1. r = q /\ s = p /\ j = i - Len(L[q]) /\ i > Len(L[q])
      BY <2>2, <2>4 DEF Source
    <3>2. j \in 1 .. k
      BY <1>1, <3>1 DEF Moved
    <3>. QED  BY <2>2, <3>1, <3>2 DEF Front
  <2>. QED  BY <2>3, <2>4
<1>3. In(L, H) \subseteq In(M, H)
  BY Onward DEF In
<1>4. Front(L, p, k) \subseteq In(M, H)
  <2> SUFFICES ASSUME NEW i \in 1 .. k PROVE L[p][i] \in In(M, H)
    BY DEF Front
  <2>1. i \in 1 .. Len(L[p]) /\ i <= k
    BY <1>1
  <2>2. Len(L[q]) + i \in 1 .. Len(M[q]) /\ M[q][Len(L[q]) + i] = L[p][i]
    BY <1>1, <2>1 DEF Moved
  <2>3. L[p][i] \in Message
    BY <1>1 DEF Front
  <2>. QED  BY <2>2, <2>3 DEF In
<1>5. In(L, H) \cap Front(L, p, k) = {}
  BY <1>1 DEF In, Front, Once
<1>6. IsFiniteSet(Front(L, p, k)) /\ Cardinality(Front(L, p, k)) = k
  BY <1>1, FrontLemma
<1>7. In(M, H) = In(L, H) \cup Front(L, p, k)
  BY <1>2, <1>3, <1>4
<1>8. IsFiniteSet(In(L, H)) /\ Cardinality(In(L, H)) = n /\ n \in Nat
  BY FS_CardinalityType DEF Size
<1>9. /\ IsFiniteSet(In(M, H))
      /\ Cardinality(In(M, H)) = Cardinality(In(L, H)) + Cardinality(Front(L, p, k)) - Cardinality({})
  BY <1>5, <1>6, <1>7, <1>8, FS_Union
<1>. QED  BY <1>1, <1>6, <1>8, <1>9, FS_EmptySet DEF Size

\* A line of H that is moved out of H takes its messages away.
LEMMA MoveOut ==
  ASSUME NEW L \in Layout, NEW M \in Layout, NEW p, NEW q, NEW k, Moved(L, M, p, q, k),
         Once(L), NEW H \in SUBSET Place, p \in H, q \notin H, NEW n, Size(L, H, n)
  PROVE  Size(M, H, n - k)
<1>1. /\ p \in Place /\ k \in 0 .. Len(L[p]) /\ Len(L[p]) \in Nat /\ Len(L[q]) \in Nat
      /\ Front(L, p, k) \subseteq Message
  BY LenProperties, ElementOfSeq DEF Moved, Layout, Front
<1>2. In(M, H) \subseteq In(L, H) \ Front(L, p, k)
  <2> SUFFICES ASSUME NEW r \in H, NEW i \in 1 .. Len(M[r]), M[r][i] \in Message
               PROVE  M[r][i] \in In(L, H) /\ M[r][i] \notin Front(L, p, k)
    BY DEF In
  <2>1. PICK s \in Place : \E j \in 1 .. Len(L[s]) :
          Source(L, p, q, k, r, i) = <<s, j>> /\ M[r][i] = L[s][j]
    BY SourceLemma
  <2>2. PICK j \in 1 .. Len(L[s]) : Source(L, p, q, k, r, i) = <<s, j>> /\ M[r][i] = L[s][j]
    BY <2>1
  <2>3. r = s /\ (r = p => j = k + i)
    BY <2>2 DEF Source
  <2>4. M[r][i] \in In(L, H)
    BY <2>2, <2>3 DEF In
  <2>5. \A t \in 1 .. k : L[p][t] # M[r][i]
    <3> SUFFICES ASSUME NEW t \in 1 .. k, L[p][t] = L[s][j] PROVE FALSE
      BY <2>2
    <3>1. t \in 1 .. Len(L[p])
      BY <1>1
    <3>2. p = s /\ t = j
      BY <1>1, <3>1 DEF Once
    <3>. QED  BY <1>1, <2>3, <3>2
  <2>. QED  BY <2>4, <2>5 DEF Front
<1>3. In(L, H) \ Front(L, p, k) \subseteq In(M, H)
  <2> SUFFICES ASSUME NEW r \in H, NEW i \in 1 .. Len(L[r]), L[r][i] \in Message,
                      L[r][i] \notin Front(L, p, k)
               PROVE  L[r][i] \in In(M, H)
    BY DEF In
  <2>1. PICK s \in Place : \E j \in 1 .. Len(M[s]) :
          M[s][j] = L[r][i] /\ s = (IF r = p /\ i <= k THEN q ELSE r)
    BY Onward
  <2>2. ~ (r = p /\ i <= k)
    BY <1>1 DEF Front
  <2>. QED  BY <2>1, <2>2 DEF In
<1>4. Front(L, p, k) \subseteq In(L, H)
  BY <1>1 DEF In, Front
<1>5. IsFiniteSet(Front(L, p, k)) /\ Cardinality(Front(L, p, k)) = k
  BY <1>1, FrontLemma
<1>6. In(M, H) = In(L, H) \ Front(L, p, k) /\ In(L, H) \cap Front(L, p, k) = Front(L, p, k)
  BY <1>2, <1>3, <1>4
<1>7. IsFiniteSet(In(L, H)) /\ Cardinality(In(L, H)) = n
  BY DEF Size
<1>8. /\ IsFiniteSet(In(M, H))
      /\ Cardinality(In(M, H)) = Cardinality(In(L, H)) - Cardinality(Front(L, p, k))
  BY <1>6, <1>7, FS_Difference
<1>. QED  BY <1>5, <1>7, <1>8 DEF Size

\* A move inside H, or outside of it, leaves the messages of H the same.
LEMMA MoveWithin ==
  ASSUME NEW L \in Layout, NEW M \in Layout, NEW p, NEW q, NEW k, Moved(L, M, p, q, k),
         NEW H \in SUBSET Place, p \in H <=> q \in H, NEW n, Size(L, H, n)
  PROVE  Size(M, H, n)
<1>1. In(M, H) \subseteq In(L, H)
  <2> SUFFICES ASSUME NEW r \in H, NEW i \in 1 .. Len(M[r]), M[r][i] \in Message
               PROVE  M[r][i] \in In(L, H)
    BY DEF In
  <2>1. PICK s \in Place : \E j \in 1 .. Len(L[s]) :
          Source(L, p, q, k, r, i) = <<s, j>> /\ M[r][i] = L[s][j]
    BY SourceLemma
  <2>2. s \in H
    BY <2>1 DEF Source
  <2>. QED  BY <2>1, <2>2 DEF In
<1>2. In(L, H) \subseteq In(M, H)
  <2> SUFFICES ASSUME NEW r \in H, NEW i \in 1 .. Len(L[r]), L[r][i] \in Message
               PROVE  L[r][i] \in In(M, H)
    BY DEF In
  <2>1. \E s \in H : \E j \in 1 .. Len(M[s]) : M[s][j] = L[r][i]
    BY Onward
  <2>. QED  BY <2>1 DEF In
<1>3. In(M, H) = In(L, H)
  BY <1>1, <1>2
<1>. QED  BY <1>3 DEF Size

\* So do steps that leave the lines of H alone.
LEMMA LeftAlone ==
  ASSUME NEW L, NEW M, NEW H, \A r \in H : M[r] = L[r], NEW n, Size(L, H, n)
  PROVE  Size(M, H, n)
<1>1. In(M, H) = In(L, H)
  BY DEF In
<1>. QED  BY <1>1 DEF Size

-----------------------------------------------------------------------------
(* The lines of a state *)

LinesOf(A, B, O, W, I, T, Q) ==
  [p \in Place |-> CASE p[1] = "toGateway" -> A[p[2]]
                     [] p[1] = "outQueue"  -> B[p[2]]
                     [] p[1] = "out"       -> O[p[2]]
                     [] p[1] = "wire"      -> W[p[2]]
                     [] p[1] = "incoming"  -> I[p[2]]
                     [] p[1] = "toApp"     -> T[p[2]]
                     [] p[1] = "queue"     -> Q[p[2][1]][p[2][2]]]

Lines == LinesOf(toGateway, outQueue, out, wire, incoming, toApp, queue)

\* A place is of one of seven kinds.
LEMMA KindsOfPlace ==
  ASSUME NEW p
  PROVE  p \in Place <=>
           \/ \E a \in App : p = <<"toGateway", a>>
           \/ \E x \in Connection : p = <<"outQueue", x>>
           \/ \E y \in Socket : p = <<"out", y>>
           \/ \E y \in Socket : p = <<"wire", y>>
           \/ \E g \in Gateways : p = <<"incoming", g>>
           \/ \E l \in Lane : p = <<"toApp", l>>
           \/ \E b \in App, c \in Comm : p = <<"queue", <<b, c>>>>
BY DEF Place

LEMMA LinesLemma ==
  ASSUME NEW A, NEW B, NEW O, NEW W, NEW I, NEW T, NEW Q
  PROVE  LET L == LinesOf(A, B, O, W, I, T, Q)
         IN  /\ \A a \in App : L[<<"toGateway", a>>] = A[a]
             /\ \A x \in Connection : L[<<"outQueue", x>>] = B[x]
             /\ \A y \in Socket : L[<<"out", y>>] = O[y]
             /\ \A y \in Socket : L[<<"wire", y>>] = W[y]
             /\ \A g \in Gateways : L[<<"incoming", g>>] = I[g]
             /\ \A l \in Lane : L[<<"toApp", l>>] = T[l]
             /\ \A b \in App, c \in Comm : L[<<"queue", <<b, c>>>>] = Q[b][c]
<1> DEFINE L == LinesOf(A, B, O, W, I, T, Q)
<1>1. \A a \in App : <<"toGateway", a>> \in Place /\ L[<<"toGateway", a>>] = A[a]
  BY DEF LinesOf, Place
<1>2. \A x \in Connection : <<"outQueue", x>> \in Place /\ L[<<"outQueue", x>>] = B[x]
  BY DEF LinesOf, Place
<1>3. \A y \in Socket : <<"out", y>> \in Place /\ L[<<"out", y>>] = O[y]
  BY DEF LinesOf, Place
<1>4. \A y \in Socket : <<"wire", y>> \in Place /\ L[<<"wire", y>>] = W[y]
  BY DEF LinesOf, Place
<1>5. \A g \in Gateways : <<"incoming", g>> \in Place /\ L[<<"incoming", g>>] = I[g]
  BY DEF LinesOf, Place
<1>6. \A l \in Lane : <<"toApp", l>> \in Place /\ L[<<"toApp", l>>] = T[l]
  BY DEF LinesOf, Place
<1>7. \A b \in App, c \in Comm :
        <<"queue", <<b, c>>>> \in Place /\ L[<<"queue", <<b, c>>>>] = Q[b][c]
  BY DEF LinesOf, Place
<1>. QED  BY <1>1, <1>2, <1>3, <1>4, <1>5, <1>6, <1>7

\* Lines of messages make a layout.
LEMMA LayoutLemma ==
  ASSUME NEW A \in [App -> Seq(Message)], NEW B \in [Connection -> Seq(Message)],
         NEW O \in [Socket -> Seq(Message)], NEW W \in [Socket -> Seq(Message)],
         NEW I \in [Gateways -> Seq(Message)], NEW T \in [Lane -> Seq(Message)],
         NEW Q \in [App -> [Comm -> Seq(Message)]]
  PROVE  LinesOf(A, B, O, W, I, T, Q) \in Layout
<1> DEFINE L == LinesOf(A, B, O, W, I, T, Q)
           line(p) == CASE p[1] = "toGateway" -> A[p[2]]
                        [] p[1] = "outQueue"  -> B[p[2]]
                        [] p[1] = "out"       -> O[p[2]]
                        [] p[1] = "wire"      -> W[p[2]]
                        [] p[1] = "incoming"  -> I[p[2]]
                        [] p[1] = "toApp"     -> T[p[2]]
                        [] p[1] = "queue"     -> Q[p[2][1]][p[2][2]]
<1>1. \A p \in Place : L[p] \in Seq(Message)
  BY KindsOfPlace, LinesLemma
<1>2. L = [p \in Place |-> line(p)]
  BY DEF LinesOf
<1> HIDE DEF L, line
<1>3. L \in [Place -> Seq(Message)]
  BY <1>1, <1>2
<1>. QED  BY <1>3 DEF L, Layout

\* Which places are on the path of m.
LEMMA PathLemma ==
  ASSUME NEW m \in Message
  PROVE  LET h == <<Home[m.dst], Via[m.src]>>
             x == <<GatewayOf(m.src), h>>
         IN  /\ \A a \in App : <<"toGateway", a>> \in Path(m) <=> a = m.src
             /\ \A z \in Connection : <<"outQueue", z>> \in Path(m) <=> z = x
             /\ \A y \in Socket : <<"out", y>> \in Path(m) <=> y[1] = x
             /\ \A y \in Socket : <<"wire", y>> \in Path(m) <=> y[1] = x
             /\ \A g \in Gateways : <<"incoming", g>> \in Path(m) <=> g = h
             /\ \A l \in Lane : <<"toApp", l>> \in Path(m) <=> l = <<h, m.dst>>
             /\ \A b \in App, c \in Comm :
                  <<"queue", <<b, c>>>> \in Path(m) <=> b = m.dst /\ c = m.comm
<1>1. GatewayOf(m.src) = <<Home[m.src], Via[m.src]>>
  BY DEF GatewayOf
<1>2. \A y \in Socket : y = <<y[1], y[2]>> /\ y[2] \in Stream
  BY DEF Socket
<1>. QED  BY <1>1, <1>2 DEF Path

-----------------------------------------------------------------------------
(* The order of the messages *)

\* How far along its path a message at place p is.
Stage(p) == CASE p[1] = "toGateway" -> 1
              [] p[1] = "outQueue"  -> 2
              [] p[1] = "out"       -> 3
              [] p[1] = "wire"      -> 4
              [] p[1] = "incoming"  -> 5
              [] p[1] = "toApp"     -> 6
              [] p[1] = "queue"     -> 7

SamePair(m, k) == m.src = k.src /\ m.dst = k.dst

\* A later message of a pair of processes is not ahead of an earlier one.  In
\* the queues of two communicators neither is ahead.
Ordered(L) ==
  \A p, q \in Place : \A i \in 1 .. Len(L[p]), j \in 1 .. Len(L[q]) :
    SamePair(L[p][i], L[q][j]) /\ L[p][i].n < L[q][j].n =>
      Stage(q) <= Stage(p) /\ (p = q => i < j)

\* With several streams between two gateways a message may overtake another.
InOrder(L) == StreamCount = 1 => Ordered(L)

\* From p a line leads to q, and no message of the same pair is in between.
Between(p, r, q) == Stage(p) < Stage(r) /\ Stage(r) < Stage(q)
NoneBetween(L, p, q) ==
  \A r \in Place : Between(p, r, q) =>
    \A i \in 1 .. Len(L[p]), j \in 1 .. Len(L[r]) : ~ SamePair(L[p][i], L[r][j])
Adjacent(L, p, q) ==
  /\ Stage(p) < Stage(q)
  /\ StreamCount = 1 => NoneBetween(L, p, q)

LEMMA StageLemma ==
  ASSUME NEW v
  PROVE  /\ Stage(<<"toGateway", v>>) = 1 /\ Stage(<<"outQueue", v>>) = 2
         /\ Stage(<<"out", v>>) = 3 /\ Stage(<<"wire", v>>) = 4
         /\ Stage(<<"incoming", v>>) = 5 /\ Stage(<<"toApp", v>>) = 6
         /\ Stage(<<"queue", v>>) = 7
BY DEF Stage

\* The places of each stage.
LEMMA StageKinds ==
  ASSUME NEW p \in Place
  PROVE  /\ Stage(p) \in 1 .. 7
         /\ Stage(p) = 1 => \E a \in App : p = <<"toGateway", a>>
         /\ Stage(p) = 2 => \E x \in Connection : p = <<"outQueue", x>>
         /\ Stage(p) = 3 => \E y \in Socket : p = <<"out", y>>
         /\ Stage(p) = 4 => \E y \in Socket : p = <<"wire", y>>
         /\ Stage(p) = 5 => \E g \in Gateways : p = <<"incoming", g>>
         /\ Stage(p) = 6 => \E l \in Lane : p = <<"toApp", l>>
         /\ Stage(p) = 7 => \E b \in App, c \in Comm : p = <<"queue", <<b, c>>>>
<1>1. CASE \E a \in App : p = <<"toGateway", a>>
  <2>1. Stage(p) = 1
    BY <1>1, StageLemma
  <2>. QED  BY <1>1, <2>1
<1>2. CASE \E x \in Connection : p = <<"outQueue", x>>
  <2>1. Stage(p) = 2
    BY <1>2, StageLemma
  <2>. QED  BY <1>2, <2>1
<1>3. CASE \E y \in Socket : p = <<"out", y>>
  <2>1. Stage(p) = 3
    BY <1>3, StageLemma
  <2>. QED  BY <1>3, <2>1
<1>4. CASE \E y \in Socket : p = <<"wire", y>>
  <2>1. Stage(p) = 4
    BY <1>4, StageLemma
  <2>. QED  BY <1>4, <2>1
<1>5. CASE \E g \in Gateways : p = <<"incoming", g>>
  <2>1. Stage(p) = 5
    BY <1>5, StageLemma
  <2>. QED  BY <1>5, <2>1
<1>6. CASE \E l \in Lane : p = <<"toApp", l>>
  <2>1. Stage(p) = 6
    BY <1>6, StageLemma
  <2>. QED  BY <1>6, <2>1
<1>7. CASE \E b \in App, c \in Comm : p = <<"queue", <<b, c>>>>
  <2>1. Stage(p) = 7
    BY <1>7, StageLemma
  <2>. QED  BY <1>7, <2>1
<1>. QED  BY <1>1, <1>2, <1>3, <1>4, <1>5, <1>6, <1>7, KindsOfPlace

LEMMA StageType == \A p \in Place : Stage(p) \in 1 .. 7
BY StageKinds

\* The next stage is adjacent.
LEMMA NextStage ==
  ASSUME NEW L, NEW p \in Place, NEW q \in Place, Stage(q) = Stage(p) + 1
  PROVE  Adjacent(L, p, q)
<1>1. \A r \in Place : Stage(r) \in Int
  BY StageType
<1>2. \A r \in Place : ~ Between(p, r, q)
  BY <1>1 DEF Between
<1>3. Stage(p) < Stage(q)
  BY <1>1
<1>. QED  BY <1>2, <1>3 DEF Adjacent, NoneBetween

\* With one stream, the messages of a pair that are equally far are at one
\* place, until they are in the queues of their communicators.
LEMMA OnePlace ==
  ASSUME StreamCount = 1, NEW m \in Message, NEW k \in Message, SamePair(m, k),
         NEW p \in Place, NEW q \in Place, p \in Path(m), q \in Path(k),
         Stage(p) = Stage(q), Stage(p) # 7
  PROVE  p = q
<1>1. m.src = k.src /\ m.dst = k.dst
  BY DEF SamePair
<1>2. \A y, z \in Socket : y[1] = z[1] => y = z
  BY DEF Socket, Stream
<1>3. CASE \E a \in App : p = <<"toGateway", a>>
  <2>1. Stage(q) = 1
    BY <1>3, StageLemma
  <2>2. PICK b \in App : q = <<"toGateway", b>>
    BY <2>1, StageKinds
  <2>. QED  BY <1>1, <1>3, <2>2, PathLemma
<1>4. CASE \E x \in Connection : p = <<"outQueue", x>>
  <2>1. Stage(q) = 2
    BY <1>4, StageLemma
  <2>2. PICK z \in Connection : q = <<"outQueue", z>>
    BY <2>1, StageKinds
  <2>. QED  BY <1>1, <1>4, <2>2, PathLemma
<1>5. CASE \E y \in Socket : p = <<"out", y>>
  <2>1. Stage(q) = 3
    BY <1>5, StageLemma
  <2>2. PICK z \in Socket : q = <<"out", z>>
    BY <2>1, StageKinds
  <2>. QED  BY <1>1, <1>2, <1>5, <2>2, PathLemma
<1>6. CASE \E y \in Socket : p = <<"wire", y>>
  <2>1. Stage(q) = 4
    BY <1>6, StageLemma
  <2>2. PICK z \in Socket : q = <<"wire", z>>
    BY <2>1, StageKinds
  <2>. QED  BY <1>1, <1>2, <1>6, <2>2, PathLemma
<1>7. CASE \E g \in Gateways : p = <<"incoming", g>>
  <2>1. Stage(q) = 5
    BY <1>7, StageLemma
  <2>2. PICK h \in Gateways : q = <<"incoming", h>>
    BY <2>1, StageKinds
  <2>. QED  BY <1>1, <1>7, <2>2, PathLemma
<1>8. CASE \E l \in Lane : p = <<"toApp", l>>
  <2>1. Stage(q) = 6
    BY <1>8, StageLemma
  <2>2. PICK d \in Lane : q = <<"toApp", d>>
    BY <2>1, StageKinds
  <2>. QED  BY <1>1, <1>8, <2>2, PathLemma
<1>9. CASE \E b \in App, c \in Comm : p = <<"queue", <<b, c>>>>
  BY <1>9, StageLemma
<1>. QED  BY <1>3, <1>4, <1>5, <1>6, <1>7, <1>8, <1>9, KindsOfPlace

\* What is at r after a move has moved to q, or was at r before.
LEMMA OriginLemma ==
  ASSUME NEW L \in Layout, NEW M \in Layout, NEW p, NEW q, NEW k, Moved(L, M, p, q, k),
         NEW r \in Place, NEW i \in 1 .. Len(M[r]), NEW r1, NEW i1,
         Source(L, p, q, k, r, i) = <<r1, i1>>
  PROVE  \/ r1 = p /\ r = q /\ i = Len(L[q]) + i1 /\ i1 <= k
         \/ r1 = r /\ i1 = (IF r = p THEN k + i ELSE i) /\ (r = q => i <= Len(L[q]))
<1>1. Len(L[q]) \in Nat /\ Len(L[p]) \in Nat /\ k \in 0 .. Len(L[p]) /\ p # q
  BY LenProperties DEF Moved, Layout
<1>2. r = q => i <= Len(L[q]) + k
  BY <1>1 DEF Moved
<1>3. CASE r = p
  BY <1>1, <1>3 DEF Source
<1>4. CASE r # p /\ r = q /\ i > Len(L[q])
  <2>1. r1 = p /\ i1 = i - Len(L[q])
    BY <1>4 DEF Source
  <2>. QED  BY <1>1, <1>2, <1>4, <2>1
<1>5. CASE r # p /\ ~ (r = q /\ i > Len(L[q]))
  <2>1. r1 = r /\ i1 = i
    BY <1>5 DEF Source
  <2>. QED  BY <1>1, <1>5, <2>1
<1>. QED  BY <1>3, <1>4, <1>5

\* A move to an adjacent place keeps the order.
LEMMA MoveInOrder ==
  ASSUME NEW L \in Layout, NEW M \in Layout, NEW p, NEW q, NEW k, Moved(L, M, p, q, k),
         Placed(L), Adjacent(L, p, q), InOrder(L)
  PROVE  InOrder(M)
<1> SUFFICES ASSUME StreamCount = 1,
                    NEW r \in Place, NEW s \in Place,
                    NEW i \in 1 .. Len(M[r]), NEW j \in 1 .. Len(M[s]),
                    SamePair(M[r][i], M[s][j]), M[r][i].n < M[s][j].n
             PROVE  Stage(s) <= Stage(r) /\ (r = s => i < j)
  BY DEF InOrder, Ordered
<1>1. /\ p \in Place /\ q \in Place /\ p # q /\ k \in 0 .. Len(L[p])
      /\ Len(L[p]) \in Nat /\ Len(L[q]) \in Nat /\ i \in Nat /\ j \in Nat
  BY LenProperties DEF Moved, Layout
<1>2. PICK r1 \in Place : \E t \in 1 .. Len(L[r1]) :
        Source(L, p, q, k, r, i) = <<r1, t>> /\ M[r][i] = L[r1][t]
  BY SourceLemma
<1>3. PICK i1 \in 1 .. Len(L[r1]) :
        Source(L, p, q, k, r, i) = <<r1, i1>> /\ M[r][i] = L[r1][i1]
  BY <1>2
<1>4. PICK s1 \in Place : \E t \in 1 .. Len(L[s1]) :
        Source(L, p, q, k, s, j) = <<s1, t>> /\ M[s][j] = L[s1][t]
  BY SourceLemma
<1>5. PICK j1 \in 1 .. Len(L[s1]) :
        Source(L, p, q, k, s, j) = <<s1, j1>> /\ M[s][j] = L[s1][j1]
  BY <1>4
<1>6. /\ SamePair(L[r1][i1], L[s1][j1])
      /\ Stage(s1) <= Stage(r1) /\ (r1 = s1 => i1 < j1)
  BY <1>3, <1>5 DEF InOrder, Ordered
<1>7. /\ Stage(r) \in 1 .. 7 /\ Stage(s) \in 1 .. 7 /\ Stage(p) \in 1 .. 7 /\ Stage(q) \in 1 .. 7
      /\ Stage(p) < Stage(q)
  BY <1>1, StageType DEF Adjacent
<1>8. \/ r1 = p /\ r = q /\ i = Len(L[q]) + i1 /\ i1 <= k
      \/ r1 = r /\ i1 = (IF r = p THEN k + i ELSE i) /\ (r = q => i <= Len(L[q]))
  BY <1>1, <1>3, OriginLemma
<1>9. \/ s1 = p /\ s = q /\ j = Len(L[q]) + j1 /\ j1 <= k
      \/ s1 = s /\ j1 = (IF s = p THEN k + j ELSE j) /\ (s = q => j <= Len(L[q]))
  BY <1>1, <1>5, OriginLemma
<1>10. i1 \in Nat /\ j1 \in Nat /\ i1 > 0 /\ j1 > 0
  BY LimitsAssumption
<1>11. CASE r1 = p /\ r = q /\ i = Len(L[q]) + i1 /\ i1 <= k
  <2>1. CASE s1 = p /\ s = q /\ j = Len(L[q]) + j1 /\ j1 <= k
    <3>1. r1 = s1 /\ r = s
      BY <1>11, <2>1
    <3>2. i1 < j1
      BY <1>6, <3>1
    <3>3. i < j
      BY <1>1, <1>10, <1>11, <2>1, <3>2
    <3>. QED  BY <1>7, <3>1, <3>3
  <2>2. CASE s1 = s /\ j1 = (IF s = p THEN k + j ELSE j) /\ (s = q => j <= Len(L[q]))
    BY <1>6, <1>7, <1>11, <2>2
  <2>. QED  BY <1>9, <2>1, <2>2
<1>12. CASE r1 = r /\ i1 = (IF r = p THEN k + i ELSE i) /\ (r = q => i <= Len(L[q]))
  <2>1. CASE s1 = p /\ s = q /\ j = Len(L[q]) + j1 /\ j1 <= k
    <3>1. ~ Between(p, r, q)
      <4>1. SamePair(L[p][j1], L[r][i1])
        BY <1>6, <1>12, <2>1 DEF SamePair
      <4>. QED  BY <1>12, <2>1, <4>1 DEF Adjacent, NoneBetween
    <3>2. Stage(p) # Stage(r)
      <4> SUFFICES ASSUME Stage(p) = Stage(r) PROVE FALSE
        OBVIOUS
      <4>1. L[p][j1] \in Message /\ L[r][i1] \in Message /\ p \in Path(L[p][j1]) /\ r \in Path(L[r][i1])
        BY <1>12, <2>1, ElementOfSeq DEF Layout, Placed
      <4>2. SamePair(L[p][j1], L[r][i1])
        BY <1>6, <1>12, <2>1 DEF SamePair
      <4>3. p = r
        <5>1. p \in Place /\ r \in Place
          BY <1>1, <1>7
        <5>2. StreamCount = 1 /\ Stage(p) = Stage(r) /\ Stage(p) # 7
          BY <1>1, <1>7
        <5>. QED  BY <4>1, <4>2, <5>1, <5>2, OnePlace
      <4>. QED  BY <1>1, <1>6, <1>10, <1>12, <2>1, <4>3
    <3>3. Stage(s) <= Stage(r)
      <4>1. s = q /\ s1 = p /\ r1 = r
        BY <1>12, <2>1
      <4>2. Stage(r) < Stage(p) \/ Stage(q) < Stage(r) \/ Stage(q) = Stage(r)
        BY <1>7, <3>1, <3>2, <4>1 DEF Between
      <4>. QED  BY <1>6, <1>7, <4>1, <4>2
    <3>. QED  BY <1>1, <1>10, <1>12, <2>1, <3>3
  <2>2. CASE s1 = s /\ j1 = (IF s = p THEN k + j ELSE j) /\ (s = q => j <= Len(L[q]))
    BY <1>1, <1>6, <1>10, <1>12, <2>2
  <2>. QED  BY <1>9, <2>1, <2>2
<1>. QED  BY <1>8, <1>11, <1>12

\* So does taking a message out of a line.
LEMMA TakeInOrder ==
  ASSUME NEW L \in Layout, NEW M \in Layout, NEW p, NEW i, Taken(L, M, p, i), InOrder(L)
  PROVE  InOrder(M)
<1>1. Len(L[p]) \in Nat /\ p \in Place /\ i \in 1 .. Len(L[p])
  BY LenProperties DEF Taken, Layout
<1> DEFINE from(r, j) == IF r = p /\ j >= i THEN j + 1 ELSE j
<1>2. \A r \in Place : \A j \in 1 .. Len(M[r]) :
        from(r, j) \in 1 .. Len(L[r]) /\ M[r][j] = L[r][from(r, j)]
  <2> SUFFICES ASSUME NEW r \in Place, NEW j \in 1 .. Len(M[r])
               PROVE  from(r, j) \in 1 .. Len(L[r]) /\ M[r][j] = L[r][from(r, j)]
    OBVIOUS
  <2>1. CASE r = p
    <3>1. j \in 1 .. Len(L[p]) - 1 /\ M[p][j] = IF j < i THEN L[p][j] ELSE L[p][j + 1]
      BY <2>1 DEF Taken
    <3>. QED  BY <1>1, <2>1, <3>1
  <2>2. CASE r # p
    BY <2>2 DEF Taken
  <2>. QED  BY <2>1, <2>2
<1>3. \A r \in Place : \A j, k \in 1 .. Len(M[r]) : from(r, j) < from(r, k) => j < k
  BY <1>1
<1> HIDE DEF from
<1> SUFFICES ASSUME StreamCount = 1,
                    NEW r \in Place, NEW s \in Place,
                    NEW j \in 1 .. Len(M[r]), NEW k \in 1 .. Len(M[s]),
                    SamePair(M[r][j], M[s][k]), M[r][j].n < M[s][k].n
             PROVE  Stage(s) <= Stage(r) /\ (r = s => j < k)
  BY DEF InOrder, Ordered
<1>4. /\ from(r, j) \in 1 .. Len(L[r]) /\ M[r][j] = L[r][from(r, j)]
      /\ from(s, k) \in 1 .. Len(L[s]) /\ M[s][k] = L[s][from(s, k)]
  BY <1>2
<1>5. Stage(s) <= Stage(r) /\ (r = s => from(r, j) < from(s, k))
  BY <1>4 DEF InOrder, Ordered
<1>. QED  BY <1>3, <1>5

\* And adding the latest message at the first stage.
LEMMA AddInOrder ==
  ASSUME NEW L \in Layout, NEW M \in Layout, NEW p, NEW m, Added(L, M, p, m), InOrder(L),
         Stage(p) = 1, \A k \in Content(L) : k.src = m.src => k.n < m.n
  PROVE  InOrder(M)
<1>1. /\ Len(L[p]) \in Nat /\ p \in Place /\ m \in Message /\ m.n \in Nat
      /\ \A r \in Place : \A i \in 1 .. Len(L[r]) :
           L[r][i] \in Message /\ L[r][i] \in Content(L) /\ L[r][i].n \in Nat
  <2>1. \A k \in Message : k.n \in Nat
    BY DEF Message
  <2>2. Len(L[p]) \in Nat /\ p \in Place /\ m \in Message
    BY LenProperties DEF Added, Layout
  <2>3. \A r \in Place : \A i \in 1 .. Len(L[r]) : L[r][i] \in Message
    BY ElementOfSeq DEF Layout
  <2>4. \A r \in Place : \A i \in 1 .. Len(L[r]) : L[r][i] \in Content(L)
    BY <2>3 DEF Content
  <2>. QED  BY <2>1, <2>2, <2>3, <2>4
<1>2. \A r \in Place : \A i \in 1 .. Len(M[r]) :
        \/ r = p /\ i = Len(L[p]) + 1 /\ M[r][i] = m
        \/ i \in 1 .. Len(L[r]) /\ M[r][i] = L[r][i]
  BY <1>1 DEF Added
<1> SUFFICES ASSUME StreamCount = 1,
                    NEW r \in Place, NEW s \in Place,
                    NEW i \in 1 .. Len(M[r]), NEW j \in 1 .. Len(M[s]),
                    SamePair(M[r][i], M[s][j]), M[r][i].n < M[s][j].n
             PROVE  Stage(s) <= Stage(r) /\ (r = s => i < j)
  BY DEF InOrder, Ordered
<1>3. CASE i \in 1 .. Len(L[r]) /\ M[r][i] = L[r][i] /\ j \in 1 .. Len(L[s]) /\ M[s][j] = L[s][j]
  BY <1>3 DEF InOrder, Ordered
<1>4. CASE i \in 1 .. Len(L[r]) /\ M[r][i] = L[r][i] /\ s = p /\ j = Len(L[p]) + 1
  <2>1. Stage(r) \in 1 .. 7
    BY StageType
  <2>2. r = s => i < j
    BY <1>1, <1>4
  <2>. QED  BY <1>4, <2>1, <2>2
<1>5. CASE r = p /\ M[r][i] = m
  <2>1. M[s][j] = m \/ (M[s][j] = L[s][j] /\ j \in 1 .. Len(L[s]))
    BY <1>2
  <2>2. CASE M[s][j] = m
    BY <1>1, <1>5, <2>2
  <2>3. CASE M[s][j] = L[s][j] /\ j \in 1 .. Len(L[s])
    <3>1. L[s][j].n < m.n /\ L[s][j].n \in Nat /\ m.n \in Nat
      BY <1>1, <1>5, <2>3 DEF SamePair
    <3>. QED  BY <1>5, <2>3, <3>1
  <2>. QED  BY <2>1, <2>2, <2>3
<1>. QED  BY <1>2, <1>3, <1>4, <1>5

-----------------------------------------------------------------------------
(* The invariant *)

\* What has been handed over, and what has been received.
AllSent == { m \in Message : m.n \in 1 .. Len(sent[m.src]) /\ sent[m.src][m.n] = m }
AllGot  == { m \in Message : m \in got[m.dst] }

\* A message carries its sender and its number, and is for another cluster.
SentRight ==
  \A a \in App : \A i \in 1 .. Len(sent[a]) :
    /\ sent[a][i].src = a /\ sent[a][i].n = i
    /\ Home[sent[a][i].dst] # Home[a]

GotRight == \A b \in App : \A m \in got[b] : m \in AllSent /\ m.dst = b

\* Where gateway g holds the messages it counts.
HeldPlaces(g) == ({"outQueue"} \X ConnectionsOf(g)) \cup ({"out"} \X SocketsOf(g))

Counted == \A g \in Gateways : Size(Lines, HeldPlaces(g), pending[g])

DeliveryInv ==
  /\ TypeOK
  /\ Once(Lines) /\ Placed(Lines)
  /\ Content(Lines) = AllSent \ AllGot
  /\ InOrder(Lines)
  /\ SentRight /\ GotRight
  /\ Counted

LEMMA LineValues ==
  /\ \A a \in App : Lines[<<"toGateway", a>>] = toGateway[a]
  /\ \A x \in Connection : Lines[<<"outQueue", x>>] = outQueue[x]
  /\ \A y \in Socket : Lines[<<"out", y>>] = out[y]
  /\ \A y \in Socket : Lines[<<"wire", y>>] = wire[y]
  /\ \A g \in Gateways : Lines[<<"incoming", g>>] = incoming[g]
  /\ \A l \in Lane : Lines[<<"toApp", l>>] = toApp[l]
  /\ \A b \in App, c \in Comm : Lines[<<"queue", <<b, c>>>>] = queue[b][c]
BY LinesLemma DEF Lines

LEMMA NextLineValues ==
  /\ \A a \in App : Lines'[<<"toGateway", a>>] = toGateway'[a]
  /\ \A x \in Connection : Lines'[<<"outQueue", x>>] = outQueue'[x]
  /\ \A y \in Socket : Lines'[<<"out", y>>] = out'[y]
  /\ \A y \in Socket : Lines'[<<"wire", y>>] = wire'[y]
  /\ \A g \in Gateways : Lines'[<<"incoming", g>>] = incoming'[g]
  /\ \A l \in Lane : Lines'[<<"toApp", l>>] = toApp'[l]
  /\ \A b \in App, c \in Comm : Lines'[<<"queue", <<b, c>>>>] = queue'[b][c]
BY LinesLemma DEF Lines

LEMMA LinesType == (TypeOK => Lines \in Layout) /\ (TypeOK' => Lines' \in Layout)
<1>1. ASSUME TypeOK PROVE Lines \in Layout
  BY <1>1, LayoutLemma DEF TypeOK, MessageSeq, Lines
<1>2. ASSUME TypeOK' PROVE Lines' \in Layout
  BY <1>2, LayoutLemma DEF TypeOK, MessageSeq, Lines
<1>. QED  BY <1>1, <1>2

\* Only the lines at the places of P may change.
SameBut(P) ==
  /\ \A a \in App : <<"toGateway", a>> \notin P => toGateway'[a] = toGateway[a]
  /\ \A x \in Connection : <<"outQueue", x>> \notin P => outQueue'[x] = outQueue[x]
  /\ \A y \in Socket : <<"out", y>> \notin P => out'[y] = out[y]
  /\ \A y \in Socket : <<"wire", y>> \notin P => wire'[y] = wire[y]
  /\ \A g \in Gateways : <<"incoming", g>> \notin P => incoming'[g] = incoming[g]
  /\ \A l \in Lane : <<"toApp", l>> \notin P => toApp'[l] = toApp[l]
  /\ \A b \in App, c \in Comm : <<"queue", <<b, c>>>> \notin P => queue'[b][c] = queue[b][c]

LEMMA Frame ==
  ASSUME NEW P, SameBut(P)
  PROVE  \A p \in Place \ P : Lines'[p] = Lines[p]
<1> SUFFICES ASSUME NEW p \in Place, p \notin P
             PROVE  Lines'[p] = Lines[p]
  OBVIOUS
<1> USE LineValues, NextLineValues DEF SameBut
<1>1. CASE \E a \in App : p = <<"toGateway", a>>
  BY <1>1
<1>2. CASE \E x \in Connection : p = <<"outQueue", x>>
  BY <1>2
<1>3. CASE \E y \in Socket : p = <<"out", y>>
  BY <1>3
<1>4. CASE \E y \in Socket : p = <<"wire", y>>
  BY <1>4
<1>5. CASE \E g \in Gateways : p = <<"incoming", g>>
  BY <1>5
<1>6. CASE \E l \in Lane : p = <<"toApp", l>>
  BY <1>6
<1>7. CASE \E b \in App, c \in Comm : p = <<"queue", <<b, c>>>>
  BY <1>7
<1>. QED  BY <1>1, <1>2, <1>3, <1>4, <1>5, <1>6, <1>7, KindsOfPlace

LEMMA HeldLemma ==
  ASSUME NEW g \in Gateways
  PROVE  /\ HeldPlaces(g) \in SUBSET Place
         /\ \A x \in Connection : <<"outQueue", x>> \in HeldPlaces(g) <=> x[1] = g
         /\ \A y \in Socket : <<"out", y>> \in HeldPlaces(g) <=> y[1][1] = g
         /\ \A v : /\ <<"toGateway", v>> \notin HeldPlaces(g)
                   /\ <<"wire", v>> \notin HeldPlaces(g)
                   /\ <<"incoming", v>> \notin HeldPlaces(g)
                   /\ <<"toApp", v>> \notin HeldPlaces(g)
                   /\ <<"queue", v>> \notin HeldPlaces(g)
<1>1. \A y \in Socket : y \in SocketsOf(g) <=> y[1][1] = g
  BY DEF SocketsOf, Socket, ConnectionsOf
<1>2. SocketsOf(g) \subseteq Socket /\ ConnectionsOf(g) \subseteq Connection
  BY DEF SocketsOf, Socket, ConnectionsOf
<1>3. \A x \in Connection : x \in ConnectionsOf(g) <=> x[1] = g
  BY DEF ConnectionsOf
<1>. QED  BY <1>1, <1>2, <1>3 DEF HeldPlaces, Place

\* A message in a line has been sent, from one cluster to another.
LEMMA InLineLemma ==
  ASSUME DeliveryInv, NEW p \in Place, NEW i \in 1 .. Len(Lines[p])
  PROVE  /\ Lines[p][i] \in Message
         /\ Lines[p][i] \in AllSent
         /\ p \in Path(Lines[p][i])
         /\ Home[Lines[p][i].dst] # Home[Lines[p][i].src]
<1>1. Lines \in Layout
  BY LinesType DEF DeliveryInv
<1>2. Lines[p][i] \in Message
  BY <1>1, ElementOfSeq DEF Layout
<1>3. Lines[p][i] \in Content(Lines)
  BY <1>2 DEF Content
<1>4. Lines[p][i] \in AllSent
  BY <1>3 DEF DeliveryInv
<1>5. Lines[p][i].src \in App
  BY <1>2 DEF Message
<1>6. Home[Lines[p][i].dst] # Home[Lines[p][i].src]
  BY <1>4, <1>5 DEF AllSent, DeliveryInv, SentRight
<1>. QED  BY <1>2, <1>4, <1>6 DEF DeliveryInv, Placed

\* A step that only moves messages.
LEMMA OnlyMoves ==
  ASSUME DeliveryInv, TypeOK', UNCHANGED <<sent, got>>,
         Once(Lines'), Placed(Lines'), Content(Lines') = Content(Lines), InOrder(Lines'),
         Counted'
  PROVE  DeliveryInv'
<1>1. AllSent' = AllSent /\ AllGot' = AllGot
  BY DEF AllSent, AllGot
<1>2. SentRight' /\ GotRight'
  BY <1>1 DEF DeliveryInv, SentRight, GotRight
<1>3. Once(Lines)' /\ Placed(Lines)' /\ InOrder(Lines)'
  BY DEF Once, Placed, InOrder, Ordered
<1>4. Content(Lines)' = Content(Lines)
  BY DEF Content
<1>5. Content(Lines)' = AllSent' \ AllGot'
  BY <1>1, <1>4 DEF DeliveryInv
<1>. QED  BY <1>2, <1>3, <1>5 DEF DeliveryInv

\* Moving within, or outside of, what every gateway holds.
LEMMA CountedMove ==
  ASSUME DeliveryInv, TypeOK', UNCHANGED pending, NEW p, NEW q, NEW k,
         Moved(Lines, Lines', p, q, k),
         \A g \in Gateways : p \in HeldPlaces(g) <=> q \in HeldPlaces(g)
  PROVE  Counted'
<1>1. Lines \in Layout /\ Lines' \in Layout
  BY LinesType DEF DeliveryInv
<1>2. ASSUME NEW g \in Gateways PROVE Size(Lines', HeldPlaces(g), pending'[g])
  <2>1. HeldPlaces(g) \in SUBSET Place /\ Size(Lines, HeldPlaces(g), pending[g])
    BY HeldLemma DEF DeliveryInv, Counted
  <2>2. p \in HeldPlaces(g) <=> q \in HeldPlaces(g)
    OBVIOUS
  <2>3. Size(Lines', HeldPlaces(g), pending[g])
    BY <1>1, <2>1, <2>2, MoveWithin
  <2>. QED  BY <2>3
<1>3. \A g \in Gateways : Size(Lines, HeldPlaces(g), pending[g])' <=> Size(Lines', HeldPlaces(g), pending'[g])
  BY DEF Size, In, HeldPlaces
<1>. QED  BY <1>2, <1>3 DEF Counted

\* Nor does a step count that leaves those lines alone.
LEMMA CountedSame ==
  ASSUME DeliveryInv, UNCHANGED pending,
         \A g \in Gateways : \A r \in HeldPlaces(g) : Lines'[r] = Lines[r]
  PROVE  Counted'
<1>2. ASSUME NEW g \in Gateways PROVE Size(Lines', HeldPlaces(g), pending'[g])
  <2>1. Size(Lines, HeldPlaces(g), pending[g])
    BY DEF DeliveryInv, Counted
  <2>2. Size(Lines', HeldPlaces(g), pending[g])
    BY <2>1, LeftAlone
  <2>. QED  BY <2>2
<1>3. \A g \in Gateways : Size(Lines, HeldPlaces(g), pending[g])' <=> Size(Lines', HeldPlaces(g), pending'[g])
  BY DEF Size, In, HeldPlaces
<1>. QED  BY <1>2, <1>3 DEF Counted

-----------------------------------------------------------------------------
(* The steps *)

LEMMA SendStep ==
  ASSUME DeliveryInv, TypeOK', NEW a \in App, NEW b \in App, NEW c \in Comm, NEW t \in Tag,
         MessagingSend(a, b, c, t)
  PROVE  DeliveryInv'
<1> DEFINE m == [src |-> a, dst |-> b, comm |-> c, tag |-> t, n |-> Len(sent[a]) + 1]
           p == <<"toGateway", a>>
<1>1. /\ sent \in [App -> Seq(Message)] /\ toGateway \in [App -> Seq(Message)]
      /\ sent[a] \in Seq(Message) /\ Len(sent[a]) \in Nat
      /\ toGateway[a] \in Seq(Message) /\ Len(toGateway[a]) \in Nat
      /\ Lines \in Layout /\ Lines' \in Layout
  BY LinesType, LenProperties DEF DeliveryInv, TypeOK, MessageSeq
<1>2. /\ m \in Message /\ m.src = a /\ m.dst = b /\ m.n = Len(sent[a]) + 1
      /\ p \in Path(m)
  BY <1>1 DEF Message, Path
<1>3. /\ sent' = [sent EXCEPT ![a] = Append(@, m)]
      /\ toGateway' = [toGateway EXCEPT ![a] = Append(@, m)]
      /\ UNCHANGED <<queue, got, toApp, pending, outQueue, out, incoming, wire>>
      /\ Home[a] # Home[b]
  BY DEF MessagingSend, gatewayVars
<1> HIDE DEF m
<1>4. m \notin AllSent
  BY <1>1, <1>2 DEF AllSent
<1>5. SameBut({p})
  BY <1>1, <1>3 DEF SameBut
<1>6. Added(Lines, Lines', p, m)
  <2>1. p \in Place
    BY DEF Place
  <2>2. Lines[p] = toGateway[a] /\ Lines'[p] = Append(toGateway[a], m)
    BY <1>1, <1>3, LineValues, NextLineValues
  <2>3. m \notin Content(Lines)
    BY <1>4 DEF DeliveryInv
  <2>4. \A r \in Place \ {p} : Lines'[r] = Lines[r]
    BY <1>5, Frame
  <2> HIDE DEF p
  <2>. QED  BY <1>1, <1>2, <2>1, <2>2, <2>3, <2>4, AppendProperties DEF Added
<1>7. Once(Lines') /\ Placed(Lines') /\ Content(Lines') = Content(Lines) \cup {m}
  BY <1>1, <1>2, <1>6, AddLemma DEF DeliveryInv
<1>8. /\ Len(sent'[a]) = Len(sent[a]) + 1
      /\ \A i \in 1 .. Len(sent[a]) : sent'[a][i] = sent[a][i]
      /\ sent'[a][Len(sent[a]) + 1] = m
      /\ \A d \in App \ {a} : sent'[d] = sent[d]
  <2>1. sent'[a] = Append(sent[a], m) /\ \A d \in App \ {a} : sent'[d] = sent[d]
    BY <1>1, <1>3
  <2>. QED  BY <1>1, <1>2, <2>1, AppendProperties
<1>9. AllSent' = AllSent \cup {m}
  <2>1. \A k \in Message : k.src \in App /\ k.n \in Nat
    BY DEF Message
  <2>2. ASSUME NEW k \in Message PROVE k \in AllSent' <=> k \in AllSent \/ k = m
    <3>1. /\ k \in AllSent <=> k.n \in 1 .. Len(sent[k.src]) /\ sent[k.src][k.n] = k
          /\ k \in AllSent' <=> k.n \in 1 .. Len(sent'[k.src]) /\ sent'[k.src][k.n] = k
      BY DEF AllSent
    <3>2. k = m => k.src = a /\ k.n = Len(sent[a]) + 1
      BY <1>2
    <3>3. CASE k.src # a
      <4>1. sent'[k.src] = sent[k.src]
        BY <1>8, <2>1, <3>3
      <4>. QED  BY <3>1, <3>2, <3>3, <4>1
    <3>4. CASE k.src = a
      <4>1. CASE k.n = Len(sent[a]) + 1
        BY <1>1, <1>8, <3>1, <3>4, <4>1
      <4>2. CASE k.n # Len(sent[a]) + 1
        BY <1>1, <1>8, <2>1, <3>1, <3>2, <3>4, <4>2
      <4>. QED  BY <4>1, <4>2
    <3>. QED  BY <3>3, <3>4
  <2>3. AllSent' \subseteq Message /\ AllSent \subseteq Message
    BY DEF AllSent
  <2>. QED  BY <1>2, <2>2, <2>3
<1>10. AllGot' = AllGot /\ m \notin AllGot
  BY <1>2, <1>3, <1>4 DEF AllGot, DeliveryInv, GotRight
<1>11. Content(Lines') = AllSent' \ AllGot'
  BY <1>7, <1>9, <1>10 DEF DeliveryInv
<1>12. SentRight'
  <2> SUFFICES ASSUME NEW d \in App, NEW i \in 1 .. Len(sent'[d])
               PROVE  /\ sent'[d][i].src = d /\ sent'[d][i].n = i
                      /\ Home[sent'[d][i].dst] # Home[d]
    BY DEF SentRight
  <2>1. \A e \in App : \A j \in 1 .. Len(sent[e]) :
          sent[e][j].src = e /\ sent[e][j].n = j /\ Home[sent[e][j].dst] # Home[e]
    BY DEF DeliveryInv, SentRight
  <2>2. CASE d # a
    BY <1>8, <2>1, <2>2
  <2>3. CASE d = a
    BY <1>1, <1>2, <1>3, <1>8, <2>1, <2>3
  <2>. QED  BY <2>2, <2>3
<1>13. GotRight'
  BY <1>3, <1>9 DEF GotRight, DeliveryInv
<1>14. Counted'
  <2>1. \A g \in Gateways : p \notin HeldPlaces(g) /\ HeldPlaces(g) \subseteq Place
    BY HeldLemma
  <2>2. \A g \in Gateways : \A r \in HeldPlaces(g) : Lines'[r] = Lines[r]
    BY <1>6, <2>1 DEF Added
  <2>. QED  BY <1>3, <2>2, CountedSame
<1>15. InOrder(Lines')
  <2>1. \A k \in Content(Lines) : k.src = m.src => k.n < m.n
    <3> SUFFICES ASSUME NEW k \in AllSent, k.src = m.src PROVE k.n < m.n
      BY DEF DeliveryInv
    <3>1. k.n \in 1 .. Len(sent[a])
      BY <1>2 DEF AllSent
    <3>. QED  BY <1>1, <1>2, <3>1
  <2>2. Stage(p) = 1
    BY StageLemma
  <2>. QED  BY <1>1, <1>6, <2>1, <2>2, AddInOrder DEF DeliveryInv
<1>16. Once(Lines)' /\ Placed(Lines)' /\ Content(Lines)' = Content(Lines') /\ InOrder(Lines)'
  BY <1>7, <1>15 DEF Once, Placed, Content, InOrder, Ordered
<1>. QED  BY <1>11, <1>12, <1>13, <1>14, <1>16 DEF DeliveryInv

\* A message that is received leaves the lines.
LEMMA GetStep ==
  ASSUME DeliveryInv, TypeOK', NEW b \in App, NEW p \in Place, NEW i \in 1 .. Len(Lines[p]),
         Taken(Lines, Lines', p, i), Lines[p][i].dst = b,
         got' = [got EXCEPT ![b] = @ \cup {Lines[p][i]}], UNCHANGED <<sent, pending>>,
         \A g \in Gateways : p \notin HeldPlaces(g)
  PROVE  DeliveryInv'
<1> DEFINE m == Lines[p][i]
<1>1. Lines \in Layout /\ Lines' \in Layout /\ got \in [App -> SUBSET Message]
  BY LinesType DEF DeliveryInv, TypeOK
<1>2. m \in Message /\ m \in AllSent
  BY InLineLemma
<1>3. Once(Lines') /\ Placed(Lines') /\ Content(Lines') = Content(Lines) \ {m}
  BY <1>1, TakeLemma DEF DeliveryInv
<1>4. AllSent' = AllSent
  BY DEF AllSent
<1>5. AllGot' = AllGot \cup {m}
  <2>1. ASSUME NEW k \in Message PROVE k \in AllGot' <=> k \in AllGot \/ k = m
    <3>1. k.dst \in App
      BY DEF Message
    <3>. QED  BY <1>1, <3>1 DEF AllGot
  <2>2. AllGot' \subseteq Message /\ AllGot \subseteq Message
    BY DEF AllGot
  <2>. QED  BY <1>2, <2>1, <2>2
<1>6. Content(Lines') = AllSent' \ AllGot'
  BY <1>3, <1>4, <1>5 DEF DeliveryInv
<1>7. GotRight'
  BY <1>1, <1>2, <1>4 DEF GotRight, DeliveryInv
<1>8. SentRight'
  BY DEF SentRight, DeliveryInv
<1>9. Counted'
  <2>1. \A g \in Gateways : \A r \in HeldPlaces(g) : Lines'[r] = Lines[r]
    BY HeldLemma DEF Taken
  <2>. QED  BY <2>1, CountedSame
<1>10. InOrder(Lines')
  BY <1>1, TakeInOrder DEF DeliveryInv
<1>11. Once(Lines)' /\ Placed(Lines)' /\ Content(Lines)' = Content(Lines') /\ InOrder(Lines)'
  BY <1>3, <1>10 DEF Once, Placed, Content, InOrder, Ordered
<1>. QED  BY <1>6, <1>7, <1>8, <1>9, <1>11 DEF DeliveryInv

\* The head of one line goes to the end of another.
LEMMA HeadMoves ==
  ASSUME DeliveryInv, TypeOK', NEW p \in Place, NEW q \in Place, p # q, SameBut({p, q}),
         Lines[p] # << >>, Lines'[p] = Tail(Lines[p]),
         Lines'[q] = Append(Lines[q], Head(Lines[p]))
  PROVE  Moved(Lines, Lines', p, q, 1)
<1>1. Lines[p] \in Seq(Message) /\ Lines[q] \in Seq(Message)
  BY LinesType DEF DeliveryInv, Layout
<1>2. /\ Len(Lines[p]) \in Nat \ {0} /\ Len(Lines[q]) \in Nat
      /\ Head(Lines[p]) = Lines[p][1] /\ Head(Lines[p]) \in Message
      /\ Len(Tail(Lines[p])) = Len(Lines[p]) - 1
      /\ \A j \in 1 .. Len(Lines[p]) - 1 : Tail(Lines[p])[j] = Lines[p][j + 1]
  <2>1. /\ Len(Tail(Lines[p])) = Len(Lines[p]) - 1 /\ Head(Lines[p]) \in Message
        /\ \A j \in 1 .. Len(Tail(Lines[p])) : Tail(Lines[p])[j] = Lines[p][j + 1]
    BY <1>1, HeadTailProperties
  <2>. QED  BY <1>1, <2>1, EmptySeq, LenProperties
<1>3. /\ Len(Append(Lines[q], Head(Lines[p]))) = Len(Lines[q]) + 1
      /\ \A j \in 1 .. Len(Lines[q]) : Append(Lines[q], Head(Lines[p]))[j] = Lines[q][j]
      /\ Append(Lines[q], Head(Lines[p]))[Len(Lines[q]) + 1] = Head(Lines[p])
  BY <1>1, <1>2, AppendProperties
<1>4. \A r \in Place \ {p, q} : Lines'[r] = Lines[r]
  BY Frame
<1>. QED  BY <1>2, <1>3, <1>4 DEF Moved

\* Such a step keeps the invariant if it leads its message on.
LEMMA HeadMoveStep ==
  ASSUME DeliveryInv, TypeOK', NEW p \in Place, NEW q \in Place, p # q, SameBut({p, q}),
         Lines[p] # << >>, Lines'[p] = Tail(Lines[p]),
         Lines'[q] = Append(Lines[q], Head(Lines[p])),
         q \in Path(Head(Lines[p])), Stage(q) = Stage(p) + 1, UNCHANGED <<sent, got>>, Counted'
  PROVE  DeliveryInv'
<1>1. Moved(Lines, Lines', p, q, 1)
  BY HeadMoves
<1>2. Lines \in Layout /\ Lines' \in Layout /\ Head(Lines[p]) = Lines[p][1]
  <2>1. Lines[p] \in Seq(Message) /\ Lines \in Layout /\ Lines' \in Layout
    BY LinesType DEF DeliveryInv, Layout
  <2>. QED  BY <2>1, HeadTailProperties
<1>3. \A i \in 1 .. 1 : q \in Path(Lines[p][i])
  BY <1>2
<1>4. Once(Lines') /\ Placed(Lines') /\ Content(Lines') = Content(Lines)
  BY <1>1, <1>2, <1>3, MoveLemma DEF DeliveryInv
<1>5. InOrder(Lines')
  BY <1>1, <1>2, NextStage, MoveInOrder DEF DeliveryInv
<1>. QED  BY <1>4, <1>5, OnlyMoves

\* The head of a line that is not empty has been sent along a path.
LEMMA HeadLemma ==
  ASSUME DeliveryInv, NEW p \in Place, Lines[p] # << >>
  PROVE  /\ Head(Lines[p]) = Lines[p][1] /\ 1 \in 1 .. Len(Lines[p])
         /\ Head(Lines[p]) \in Message
         /\ Head(Lines[p]) \in AllSent
         /\ p \in Path(Head(Lines[p]))
         /\ Home[Head(Lines[p]).dst] # Home[Head(Lines[p]).src]
<1>1. Lines[p] \in Seq(Message)
  BY LinesType DEF DeliveryInv, Layout
<1>2. Head(Lines[p]) = Lines[p][1] /\ 1 \in 1 .. Len(Lines[p])
  BY <1>1, HeadTailProperties, EmptySeq
<1>. QED  BY <1>2, InLineLemma

LEMMA TakePendingStep ==
  ASSUME DeliveryInv, TypeOK', NEW b \in App, TakePending(b)
  PROVE  DeliveryInv'
<1> DEFINE c == waiting[b].comm
           p == <<"queue", <<b, c>>>>
<1>1. c \in Comm /\ queue \in [App -> [Comm -> Seq(Message)]]
  BY DEF TakePending, Request, DeliveryInv, TypeOK, MessageSeq
<1> HIDE DEF c
<1>2. PICK i \in DOMAIN queue[b][c] :
        /\ got' = [got EXCEPT ![b] = @ \cup {queue[b][c][i]}]
        /\ queue' = [queue EXCEPT ![b][c] = Remove(@, i)]
  BY DEF TakePending, c
<1>3. queue[b][c] \in Seq(Message) /\ i \in 1 .. Len(queue[b][c])
  BY <1>1, <1>2, LenProperties
<1>4. p \in Place /\ Lines[p] = queue[b][c] /\ Lines'[p] = Remove(queue[b][c], i)
  <2>1. queue'[b][c] = Remove(queue[b][c], i)
    BY <1>1, <1>2
  <2>. QED  BY <1>1, <2>1, LineValues, NextLineValues DEF Place
<1>5. SameBut({p})
  <2>1. \A d \in App, e \in Comm : ~ (d = b /\ e = c) => queue'[d][e] = queue[d][e]
    BY <1>1, <1>2
  <2>2. UNCHANGED <<toGateway, toApp, outQueue, out, incoming, wire>>
    BY DEF TakePending, gatewayVars
  <2>. QED  BY <2>1, <2>2 DEF SameBut
<1>6. \A r \in Place \ {p} : Lines'[r] = Lines[r]
  BY <1>5, Frame
<1>7. Taken(Lines, Lines', p, i)
  <2> HIDE DEF p
  <2>. QED  BY <1>3, <1>4, <1>6, RemoveLemma DEF Taken
<1>8. i \in 1 .. Len(Lines[p]) /\ Lines[p][i].dst = b
  <2>1. i \in 1 .. Len(Lines[p])
    BY <1>3, <1>4
  <2>2. Lines[p][i] \in Message /\ p \in Path(Lines[p][i])
    BY <1>4, <2>1, InLineLemma
  <2>. QED  BY <1>1, <2>1, <2>2, PathLemma
<1>9. \A g \in Gateways : p \notin HeldPlaces(g)
  BY HeldLemma
<1>10. got' = [got EXCEPT ![b] = @ \cup {Lines[p][i]}] /\ UNCHANGED <<sent, pending>>
  BY <1>2, <1>4 DEF TakePending, gatewayVars
<1> HIDE DEF p
<1>. QED  BY <1>4, <1>7, <1>8, <1>9, <1>10, GetStep

LEMMA ProbeLoopStep ==
  ASSUME DeliveryInv, TypeOK', NEW b \in App, NEW g \in Gateways, ProbeLoop(b, g)
  PROVE  DeliveryInv'
<1> DEFINE l == <<g, b>>
           m == Head(toApp[l])
           p == <<"toApp", l>>
           q == <<"queue", <<b, m.comm>>>>
<1>1. /\ l \in Lane /\ toApp[l] # << >>
      /\ toApp' = [toApp EXCEPT ![l] = Tail(@)]
      /\ toApp \in [Lane -> Seq(Message)] /\ queue \in [App -> [Comm -> Seq(Message)]]
      /\ UNCHANGED <<sent, toGateway, outQueue, out, incoming, wire, pending>>
  BY DEF ProbeLoop, DeliveryInv, TypeOK, MessageSeq, gatewayVars
<1>2. /\ p \in Place /\ Lines[p] = toApp[l] /\ Lines'[p] = Tail(toApp[l])
      /\ \A d \in Lane \ {l} : toApp'[d] = toApp[d]
  BY <1>1, LineValues, NextLineValues DEF Place
<1>3. m \in Message /\ p \in Path(m) /\ m = toApp[l][1] /\ 1 \in 1 .. Len(Lines[p])
  BY <1>1, <1>2, HeadLemma
<1>4. m.dst = b /\ g = <<Home[m.dst], Via[m.src]>> /\ m.comm \in Comm
  <2>1. l = <<<<Home[m.dst], Via[m.src]>>, m.dst>>
    BY <1>1, <1>3, PathLemma
  <2>. QED  BY <1>3, <2>1 DEF Message
<1> HIDE DEF m
<1>5. CASE got' = [got EXCEPT ![b] = @ \cup {m}] /\ UNCHANGED queue
  <2>1. SameBut({p})
    BY <1>1, <1>2, <1>5 DEF SameBut
  <2>2. \A r \in Place \ {p} : Lines'[r] = Lines[r]
    BY <2>1, Frame
  <2>3. \A h \in Gateways : p \notin HeldPlaces(h)
    BY HeldLemma
  <2>4. Taken(Lines, Lines', p, 1)
    <3>1. toApp[l] \in Seq(Message)
      BY <1>1
    <3>2. /\ Len(toApp[l]) \in Nat /\ Len(Tail(toApp[l])) = Len(toApp[l]) - 1
          /\ \A j \in 1 .. Len(Tail(toApp[l])) : Tail(toApp[l])[j] = toApp[l][j + 1]
      BY <1>1, <3>1, HeadTailProperties, LenProperties
    <3> HIDE DEF p, l
    <3>. QED  BY <1>2, <1>3, <2>2, <3>2 DEF Taken
  <2>5. Lines[p][1] = m /\ Lines[p][1].dst = b
    BY <1>2, <1>3, <1>4
  <2>6. got' = [got EXCEPT ![b] = @ \cup {Lines[p][1]}]
    BY <1>5, <2>5
  <2> HIDE DEF p, l
  <2>. QED  BY <1>1, <1>2, <1>3, <2>3, <2>4, <2>5, <2>6, GetStep
<1>6. CASE queue' = [queue EXCEPT ![b][m.comm] = Append(@, m)] /\ UNCHANGED got
  <2>1. queue'[b][m.comm] = Append(queue[b][m.comm], m)
        /\ \A d \in App, e \in Comm : ~ (d = b /\ e = m.comm) => queue'[d][e] = queue[d][e]
    BY <1>1, <1>4, <1>6
  <2>2. q \in Place /\ Lines[q] = queue[b][m.comm] /\ Lines'[q] = Append(queue[b][m.comm], m)
    <3>1. q \in Place
      BY <1>4 DEF Place
    <3>2. Lines[q] = queue[b][m.comm]
      BY <1>4, LineValues
    <3>3. Lines'[q] = queue'[b][m.comm]
      BY <1>4, NextLineValues
    <3>. QED  BY <2>1, <3>1, <3>2, <3>3
  <2>3. SameBut({p, q})
    BY <1>1, <1>2, <2>1 DEF SameBut
  <2>4. p # q /\ Stage(q) = Stage(p) + 1
    <3>1. Stage(p) = 6 /\ Stage(q) = 7
      BY StageLemma
    <3>. QED  BY <3>1
  <2>5. q \in Path(m)
    BY <1>3, <1>4, PathLemma
  <2>6. \A h \in Gateways : p \notin HeldPlaces(h) /\ q \notin HeldPlaces(h)
    BY HeldLemma
  <2>7. Lines[p] # << >> /\ Head(Lines[p]) = m /\ Lines'[p] = Tail(Lines[p])
        /\ Lines'[q] = Append(Lines[q], Head(Lines[p]))
    BY <1>1, <1>2, <2>2 DEF m
  <2> HIDE DEF p, q, l
  <2>8. Moved(Lines, Lines', p, q, 1)
    BY <1>2, <2>2, <2>3, <2>4, <2>7, HeadMoves
  <2>9. Counted'
    BY <1>1, <2>6, <2>8, CountedMove
  <2>. QED  BY <1>1, <1>2, <1>6, <2>2, <2>3, <2>4, <2>5, <2>7, <2>9, HeadMoveStep
<1>. QED  BY <1>5, <1>6 DEF ProbeLoop, m

LEMMA ForwardStep ==
  ASSUME DeliveryInv, TypeOK', NEW g \in Gateways, ForwardDataMessage(g)
  PROVE  DeliveryInv'
<1> DEFINE m == Head(incoming[g])
           l == <<g, m.dst>>
           p == <<"incoming", g>>
           q == <<"toApp", l>>
<1>1. /\ incoming[g] # << >>
      /\ incoming' = [incoming EXCEPT ![g] = Tail(@)]
      /\ toApp' = [toApp EXCEPT ![l] = Append(@, m)]
      /\ incoming \in [Gateways -> Seq(Message)] /\ toApp \in [Lane -> Seq(Message)]
      /\ UNCHANGED <<sent, got, queue, toGateway, outQueue, out, wire, pending>>
  BY DEF ForwardDataMessage, DeliveryInv, TypeOK, MessageSeq, appVars
<1>2. /\ p \in Place /\ Lines[p] = incoming[g] /\ Lines'[p] = Tail(incoming[g])
      /\ \A h \in Gateways \ {g} : incoming'[h] = incoming[h]
  BY <1>1, LineValues, NextLineValues DEF Place
<1>3. m \in Message /\ p \in Path(m)
  BY <1>1, <1>2, HeadLemma
<1>4. g = <<Home[m.dst], Via[m.src]>> /\ m.dst \in App
  BY <1>3, PathLemma DEF Message
<1>5. l \in Lane
  BY <1>4 DEF Lane
<1> HIDE DEF m
<1>6. /\ q \in Place /\ Lines[q] = toApp[l] /\ Lines'[q] = Append(toApp[l], m)
      /\ \A d \in Lane \ {l} : toApp'[d] = toApp[d]
  <2> HIDE DEF l
  <2>1. q \in Place /\ toApp'[l] = Append(toApp[l], m) /\ \A d \in Lane \ {l} : toApp'[d] = toApp[d]
    BY <1>1, <1>5 DEF Place
  <2>. QED  BY <1>5, <2>1, LineValues, NextLineValues
<1>7. SameBut({p, q})
  BY <1>1, <1>2, <1>6 DEF SameBut
<1>8. q \in Path(m) /\ p # q /\ Stage(q) = Stage(p) + 1
  <2>1. Stage(p) = 5 /\ Stage(q) = 6
    BY StageLemma
  <2>2. q \in Path(m) /\ p # q
    BY <1>3, <1>4, <1>5, PathLemma
  <2>. QED  BY <2>1, <2>2
<1>9. \A h \in Gateways : p \notin HeldPlaces(h) /\ q \notin HeldPlaces(h)
  BY HeldLemma
<1>10. Lines[p] # << >> /\ Head(Lines[p]) = m /\ Lines'[p] = Tail(Lines[p])
       /\ Lines'[q] = Append(Lines[q], Head(Lines[p]))
  BY <1>1, <1>2, <1>6 DEF m
<1> HIDE DEF p, q
<1>11. Moved(Lines, Lines', p, q, 1)
  BY <1>2, <1>6, <1>7, <1>8, <1>10, HeadMoves
<1>12. Counted'
  BY <1>1, <1>9, <1>11, CountedMove
<1>. QED  BY <1>1, <1>2, <1>6, <1>7, <1>8, <1>10, <1>12, HeadMoveStep

LEMMA ReceiveStep ==
  ASSUME DeliveryInv, TypeOK', NEW g \in Gateways, NEW a \in App, ReceiveDataMessage(g, a)
  PROVE  DeliveryInv'
<1> DEFINE m == Head(toGateway[a])
           x == Target(g, m)
           p == <<"toGateway", a>>
           q == <<"outQueue", x>>
<1>1. /\ toGateway[a] # << >> /\ GatewayOf(a) = g
      /\ toGateway' = [toGateway EXCEPT ![a] = Tail(@)]
      /\ outQueue' = [outQueue EXCEPT ![x] = Append(@, m)]
      /\ pending' = [pending EXCEPT ![g] = @ + 1]
      /\ toGateway \in [App -> Seq(Message)] /\ outQueue \in [Connection -> Seq(Message)]
      /\ pending \in [Gateways -> Int]
      /\ UNCHANGED <<sent, got, queue, toApp, incoming, out, wire>>
  BY DEF ReceiveDataMessage, DeliveryInv, TypeOK, MessageSeq, appVars
<1>2. /\ p \in Place /\ Lines[p] = toGateway[a] /\ Lines'[p] = Tail(toGateway[a])
      /\ \A d \in App \ {a} : toGateway'[d] = toGateway[d]
  BY <1>1, LineValues, NextLineValues DEF Place
<1>3. m \in Message /\ p \in Path(m) /\ Home[m.dst] # Home[m.src]
  BY <1>1, <1>2, HeadLemma
<1>4. a = m.src /\ m.dst \in App /\ g = <<Home[m.src], Via[m.src]>>
      /\ x = <<GatewayOf(m.src), <<Home[m.dst], Via[m.src]>>>>
  <2>1. a = m.src /\ m.dst \in App
    BY <1>3, PathLemma DEF Message
  <2>. QED  BY <1>1, <2>1 DEF GatewayOf, Target
<1>5. x \in Connection /\ x[1] = g
  <2>1. Home[m.dst] \in Cluster /\ Home[m.src] \in Cluster /\ Via[m.src] \in Column
    BY <1>4, TopologyAssumption
  <2> DEFINE h == <<Home[m.dst], Via[m.src]>>
  <2>2. h \in Gateways /\ h[1] = Home[m.dst] /\ h[2] = Via[m.src]
    BY <2>1 DEF Gateways
  <2>3. g[1] = Home[m.src] /\ g[2] = Via[m.src] /\ g[1] # h[1]
    BY <1>3, <1>4, <2>2
  <2>4. x = <<g, h>>
    BY <1>1, <1>4
  <2> HIDE DEF h, x
  <2>. QED  BY <2>2, <2>3, <2>4 DEF Connection
<1> HIDE DEF m, x
<1>6. /\ q \in Place /\ Lines[q] = outQueue[x] /\ Lines'[q] = Append(outQueue[x], m)
      /\ \A d \in Connection \ {x} : outQueue'[d] = outQueue[d]
  <2>1. q \in Place /\ outQueue'[x] = Append(outQueue[x], m)
        /\ \A d \in Connection \ {x} : outQueue'[d] = outQueue[d]
    BY <1>1, <1>5 DEF Place
  <2>. QED  BY <1>5, <2>1, LineValues, NextLineValues
<1>7. SameBut({p, q})
  BY <1>1, <1>2, <1>6 DEF SameBut
<1>8. q \in Path(m) /\ p # q /\ Stage(q) = Stage(p) + 1
  <2>1. Stage(p) = 1 /\ Stage(q) = 2
    BY StageLemma
  <2>2. q \in Path(m) /\ p # q
    BY <1>3, <1>4, <1>5, PathLemma
  <2>. QED  BY <2>1, <2>2
<1>9. \A h \in Gateways : p \notin HeldPlaces(h) /\ (q \in HeldPlaces(h) <=> h = g)
  BY <1>5, HeldLemma
<1>10. Lines[p] # << >> /\ Head(Lines[p]) = m /\ Lines'[p] = Tail(Lines[p])
       /\ Lines'[q] = Append(Lines[q], Head(Lines[p]))
  BY <1>1, <1>2, <1>6 DEF m
<1> HIDE DEF p, q
<1>11. Moved(Lines, Lines', p, q, 1)
  BY <1>2, <1>6, <1>7, <1>8, <1>10, HeadMoves
<1>12. Lines \in Layout /\ Lines' \in Layout /\ Once(Lines)
  BY LinesType DEF DeliveryInv
<1>13. ASSUME NEW h \in Gateways PROVE Size(Lines', HeldPlaces(h), pending'[h])
  <2>1. HeldPlaces(h) \in SUBSET Place /\ Size(Lines, HeldPlaces(h), pending[h])
    BY HeldLemma DEF DeliveryInv, Counted
  <2>2. CASE h = g
    <3>1. Size(Lines', HeldPlaces(h), pending[h] + 1)
      BY <1>9, <1>11, <1>12, <2>1, <2>2, MoveIn
    <3>2. pending'[h] = pending[h] + 1
      BY <1>1, <2>2
    <3>. QED  BY <3>1, <3>2
  <2>3. CASE h # g
    <3>1. p \in HeldPlaces(h) <=> q \in HeldPlaces(h)
      BY <1>9, <2>3
    <3>2. Size(Lines', HeldPlaces(h), pending[h])
      BY <1>11, <1>12, <2>1, <3>1, MoveWithin
    <3>3. pending'[h] = pending[h]
      BY <1>1, <2>3
    <3>. QED  BY <3>2, <3>3
  <2>. QED  BY <2>2, <2>3
<1>14. Counted'
  <2>1. \A h \in Gateways : Size(Lines, HeldPlaces(h), pending[h])' <=> Size(Lines', HeldPlaces(h), pending'[h])
    BY DEF Size, In, HeldPlaces
  <2>. QED  BY <1>13, <2>1 DEF Counted
<1>. QED  BY <1>1, <1>2, <1>6, <1>7, <1>8, <1>10, <1>14, HeadMoveStep

LEMMA PrepareStep ==
  ASSUME DeliveryInv, TypeOK', NEW g \in Gateways, NEW y \in SocketsOf(g), PrepareMessage(g, y)
  PROVE  DeliveryInv'
<1> DEFINE x == y[1]
           m == Head(outQueue[x])
           p == <<"outQueue", x>>
           q == <<"out", y>>
<1>1. /\ outQueue[x] # << >> /\ out[y] = << >>
      /\ outQueue' = [outQueue EXCEPT ![x] = Tail(@)]
      /\ out' = [out EXCEPT ![y] = <<m>>]
      /\ out \in [Socket -> Seq(Message)] /\ outQueue \in [Connection -> Seq(Message)]
      /\ UNCHANGED <<sent, got, queue, toGateway, toApp, incoming, wire, pending>>
  BY DEF PrepareMessage, Prepare, DeliveryInv, TypeOK, MessageSeq, appVars
<1>2. y \in Socket /\ x \in Connection
  BY IndexLemma
<1>3. /\ p \in Place /\ Lines[p] = outQueue[x] /\ Lines'[p] = Tail(outQueue[x])
      /\ \A d \in Connection \ {x} : outQueue'[d] = outQueue[d]
  <2> HIDE DEF x
  <2>1. p \in Place /\ outQueue'[x] = Tail(outQueue[x])
        /\ \A d \in Connection \ {x} : outQueue'[d] = outQueue[d]
    BY <1>1, <1>2 DEF Place
  <2>. QED  BY <1>2, <2>1, LineValues, NextLineValues
<1>4. m \in Message /\ p \in Path(m)
  BY <1>1, <1>3, HeadLemma
<1> HIDE DEF m
<1>5. /\ q \in Place /\ Lines[q] = << >> /\ Lines'[q] = <<m>>
      /\ \A d \in Socket \ {y} : out'[d] = out[d]
  <2>1. q \in Place /\ out'[y] = <<m>> /\ \A d \in Socket \ {y} : out'[d] = out[d]
    BY <1>1, <1>2 DEF Place
  <2>. QED  BY <1>1, <1>2, <2>1, LineValues, NextLineValues
<1>6. SameBut({p, q})
  BY <1>1, <1>3, <1>5 DEF SameBut
<1>7. q \in Path(m) /\ p # q /\ Stage(q) = Stage(p) + 1
  <2>1. Stage(p) = 2 /\ Stage(q) = 3
    BY StageLemma
  <2>2. q \in Path(m) /\ p # q
    BY <1>2, <1>4, PathLemma
  <2>. QED  BY <2>1, <2>2
<1>8. \A h \in Gateways : p \in HeldPlaces(h) <=> q \in HeldPlaces(h)
  BY <1>2, HeldLemma
<1>9. Lines[p] # << >> /\ Head(Lines[p]) = m /\ Lines'[p] = Tail(Lines[p])
      /\ Lines'[q] = Append(Lines[q], Head(Lines[p]))
  BY <1>1, <1>3, <1>5 DEF m
<1> HIDE DEF p, q
<1>10. Moved(Lines, Lines', p, q, 1)
  BY <1>3, <1>5, <1>6, <1>7, <1>9, HeadMoves
<1>11. Counted'
  BY <1>1, <1>8, <1>10, CountedMove
<1>. QED  BY <1>1, <1>3, <1>5, <1>6, <1>7, <1>9, <1>11, HeadMoveStep

-----------------------------------------------------------------------------
(* A socket event *)

\* A concatenation holds the first sequence, then the second.
LEMMA ConcatLemma ==
  ASSUME NEW s \in Seq(Message), NEW t \in Seq(Message)
  PROVE  /\ s \o t \in Seq(Message)
         /\ Len(s \o t) = Len(s) + Len(t)
         /\ \A j \in 1 .. Len(s) : (s \o t)[j] = s[j]
         /\ \A j \in 1 .. Len(t) : (s \o t)[Len(s) + j] = t[j]
<1>1. /\ s \o t \in Seq(Message) /\ Len(s \o t) = Len(s) + Len(t)
      /\ \A j \in 1 .. Len(s) + Len(t) :
           (s \o t)[j] = IF j <= Len(s) THEN s[j] ELSE t[j - Len(s)]
  BY ConcatProperties
<1>2. Len(s) \in Nat /\ Len(t) \in Nat
  BY LenProperties
<1>3. ASSUME NEW j \in 1 .. Len(t) PROVE (s \o t)[Len(s) + j] = t[j]
  <2>1. Len(s) + j \in 1 .. Len(s) + Len(t) /\ ~ (Len(s) + j <= Len(s)) /\ (Len(s) + j) - Len(s) = j
    BY <1>2
  <2>. QED  BY <1>1, <2>1
<1>4. ASSUME NEW j \in 1 .. Len(s) PROVE (s \o t)[j] = s[j]
  <2>1. j \in 1 .. Len(s) + Len(t) /\ j <= Len(s)
    BY <1>2
  <2>. QED  BY <1>1, <2>1
<1>. QED  BY <1>1, <1>3, <1>4

\* Of the message in progress and the queue, w are written; the next of the
\* queue is then in progress.
LEMMA WriteLemma ==
  ASSUME NEW o \in Seq(Message), NEW s \in Seq(Message), Len(o) = 1,
         NEW w \in Nat \ {0}, w <= Len(o \o s)
  PROVE  LET line == o \o s
             rest == Drop(line, w)
             f == Len(FirstOf(rest))
         IN  /\ Len(line) = 1 + Len(s)
             /\ line[1] = o[1] /\ \A j \in 1 .. Len(s) : line[1 + j] = s[j]
             /\ FirstOf(rest) \in Seq(Message) /\ Drop(rest, 1) \in Seq(Message)
             /\ f \in 0 .. 1 /\ f <= Len(s) - (w - 1)
             /\ Len(Drop(rest, 1)) = Len(s) - (w - 1) - f
             /\ \A j \in 1 .. f : FirstOf(rest)[j] = s[(w - 1) + j]
             /\ \A j \in 1 .. Len(s) - (w - 1) - f : Drop(rest, 1)[j] = s[(w - 1) + (f + j)]
<1> DEFINE line == o \o s
           rest == Drop(line, w)
           f == Len(FirstOf(rest))
<1>1. /\ line \in Seq(Message) /\ Len(line) = 1 + Len(s) /\ Len(s) \in Nat
      /\ line[1] = o[1] /\ \A j \in 1 .. Len(s) : line[1 + j] = s[j]
  <2>1. /\ line \in Seq(Message) /\ Len(line) = 1 + Len(s) /\ Len(s) \in Nat
        /\ \A j \in 1 .. 1 + Len(s) : line[j] = IF j <= 1 THEN o[j] ELSE s[j - 1]
    <3>1. o \in Seq(Message) /\ s \in Seq(Message) /\ Len(o) = 1
      OBVIOUS
    <3>2. /\ line \in Seq(Message) /\ Len(line) = Len(o) + Len(s)
          /\ \A j \in 1 .. Len(o) + Len(s) : line[j] = IF j <= Len(o) THEN o[j] ELSE s[j - Len(o)]
      BY <3>1, ConcatProperties
    <3>. QED  BY <3>1, <3>2, LenProperties
  <2>. QED  BY <2>1
<1>2. w \in 0 .. Len(line)
  BY <1>1
<1> HIDE DEF line
<1>3. /\ rest \in Seq(Message) /\ Len(rest) = Len(line) - w
      /\ \A j \in 1 .. Len(line) - w : rest[j] = line[w + j]
  <2>1. line \in Seq(Message) /\ w \in 0 .. Len(line)
    BY <1>1, <1>2
  <2>. QED  BY <2>1, DropLemma, Zenon
<1>4. \A j \in 1 .. Len(rest) : rest[j] = s[(w - 1) + j]
  <2> SUFFICES ASSUME NEW j \in 1 .. Len(rest) PROVE rest[j] = s[(w - 1) + j]
    OBVIOUS
  <2>1. rest[j] = line[w + j]
    BY <1>3
  <2>2. (w - 1) + j \in 1 .. Len(s) /\ 1 + ((w - 1) + j) = w + j
    BY <1>1, <1>3
  <2>3. line[1 + ((w - 1) + j)] = s[(w - 1) + j]
    BY <1>1, <2>2
  <2>. QED  BY <2>1, <2>2, <2>3
<1> HIDE DEF rest
<1>5. /\ FirstOf(rest) \in Seq(Message) /\ f <= 1 /\ Drop(rest, 1) \in Seq(Message)
      /\ rest # << >> => f = 1 /\ FirstOf(rest)[1] = rest[1]
      /\ rest = << >> => FirstOf(rest) = << >>
      /\ Len(Drop(rest, 1)) = Len(rest) - f
  BY <1>3, FirstOfLemma
<1>6. f \in 0 .. 1 /\ Len(rest) \in Nat
  BY <1>3, <1>5, LenProperties
<1>7. CASE rest = << >>
  <2>1. Len(rest) = 0 /\ f = 0
    BY <1>5, <1>7
  <2>. QED  BY <1>1, <1>3, <1>5, <1>6, <2>1 DEF line, rest
<1>8. CASE rest # << >>
  <2>1. f = 1 /\ 1 \in 0 .. Len(rest) /\ Len(rest) > 0
    BY <1>3, <1>5, <1>6, <1>8, EmptySeq
  <2>2. \A j \in 1 .. Len(rest) - 1 : Drop(rest, 1)[j] = rest[1 + j]
    <3>1. rest \in Seq(Message) /\ 1 \in 0 .. Len(rest)
      BY <1>3, <2>1
    <3>. QED  BY <3>1, DropLemma, Zenon
  <2>3. \A j \in 1 .. Len(rest) - 1 : Drop(rest, 1)[j] = s[(w - 1) + (1 + j)]
    <3> SUFFICES ASSUME NEW j \in 1 .. Len(rest) - 1
                 PROVE  Drop(rest, 1)[j] = s[(w - 1) + (1 + j)]
      OBVIOUS
    <3>1. 1 + j \in 1 .. Len(rest)
      BY <1>6
    <3>2. rest[1 + j] = s[(w - 1) + (1 + j)]
      BY <1>4, <3>1
    <3>. QED  BY <2>2, <3>2
  <2>4. FirstOf(rest)[1] = s[(w - 1) + 1]
    BY <1>4, <1>5, <1>8, <2>1
  <2>5. Len(s) - (w - 1) = Len(rest)
    BY <1>1, <1>3
  <2>6. \A j \in 1 .. f : FirstOf(rest)[j] = s[(w - 1) + j]
    BY <2>1, <2>4
  <2>7. \A j \in 1 .. Len(s) - (w - 1) - f : Drop(rest, 1)[j] = s[(w - 1) + (f + j)]
    BY <2>1, <2>3, <2>5
  <2>8. f <= Len(s) - (w - 1) /\ Len(Drop(rest, 1)) = Len(s) - (w - 1) - f
    BY <1>5, <2>1, <2>5
  <2>. QED  BY <1>1, <1>5, <1>6, <2>6, <2>7, <2>8 DEF line, rest
<1>. QED  BY <1>7, <1>8

\* L has the messages of the present state, k fewer of them held by g.
Kept(L, g, k) ==
  /\ L \in Layout /\ Once(L) /\ Placed(L) /\ Content(L) = Content(Lines) /\ InOrder(L)
  /\ \A h \in Gateways :
       Size(L, HeldPlaces(h), IF h = g THEN pending[h] - k ELSE pending[h])

LEMMA KeptWithin ==
  ASSUME NEW L, NEW g, NEW k, Kept(L, g, k), NEW M \in Layout,
         NEW p, NEW q, NEW j, Moved(L, M, p, q, j), \A i \in 1 .. j : q \in Path(L[p][i]),
         Adjacent(L, p, q),
         \A h \in Gateways : p \in HeldPlaces(h) <=> q \in HeldPlaces(h)
  PROVE  Kept(M, g, k)
<1>1. L \in Layout /\ Once(L) /\ Placed(L) /\ Content(L) = Content(Lines) /\ InOrder(L)
  BY DEF Kept
<1>2. Once(M) /\ Placed(M) /\ Content(M) = Content(Lines) /\ InOrder(M)
  BY <1>1, MoveLemma, MoveInOrder
<1>3. ASSUME NEW h \in Gateways
      PROVE  Size(M, HeldPlaces(h), IF h = g THEN pending[h] - k ELSE pending[h])
  <2>1. /\ HeldPlaces(h) \in SUBSET Place /\ (p \in HeldPlaces(h) <=> q \in HeldPlaces(h))
        /\ Size(L, HeldPlaces(h), IF h = g THEN pending[h] - k ELSE pending[h])
    BY HeldLemma DEF Kept
  <2>. QED  BY <1>1, <2>1, MoveWithin
<1>. QED  BY <1>2, <1>3 DEF Kept

LEMMA KeptOut ==
  ASSUME NEW L, NEW g \in Gateways, NEW k \in Int, Kept(L, g, k), NEW M \in Layout,
         pending \in [Gateways -> Int],
         NEW p, NEW q, NEW j \in Int, Moved(L, M, p, q, j), \A i \in 1 .. j : q \in Path(L[p][i]),
         Adjacent(L, p, q),
         \A h \in Gateways : (p \in HeldPlaces(h) <=> h = g) /\ q \notin HeldPlaces(h)
  PROVE  Kept(M, g, k + j)
<1>1. L \in Layout /\ Once(L) /\ Placed(L) /\ Content(L) = Content(Lines) /\ InOrder(L)
  BY DEF Kept
<1>2. Once(M) /\ Placed(M) /\ Content(M) = Content(Lines) /\ InOrder(M)
  BY <1>1, MoveLemma, MoveInOrder
<1>3. ASSUME NEW h \in Gateways
      PROVE  Size(M, HeldPlaces(h), IF h = g THEN pending[h] - (k + j) ELSE pending[h])
  <2>1. /\ HeldPlaces(h) \in SUBSET Place
        /\ Size(L, HeldPlaces(h), IF h = g THEN pending[h] - k ELSE pending[h])
    BY HeldLemma DEF Kept
  <2>2. CASE h = g
    <3>1. Size(L, HeldPlaces(h), pending[h] - k)
      BY <2>1, <2>2
    <3>2. p \in HeldPlaces(h) /\ q \notin HeldPlaces(h)
      BY <2>2
    <3>3. Size(M, HeldPlaces(h), (pending[h] - k) - j)
      BY <1>1, <2>1, <3>1, <3>2, MoveOut
    <3>4. (pending[h] - k) - j = pending[h] - (k + j)
      OBVIOUS
    <3>. QED  BY <2>2, <3>3, <3>4
  <2>3. CASE h # g
    <3>1. Size(L, HeldPlaces(h), pending[h])
      BY <2>1, <2>3
    <3>2. p \in HeldPlaces(h) <=> q \in HeldPlaces(h)
      BY <2>3
    <3>3. Size(M, HeldPlaces(h), pending[h])
      BY <1>1, <2>1, <3>1, <3>2, MoveWithin
    <3>. QED  BY <2>3, <3>3
  <2>. QED  BY <2>2, <2>3
<1>. QED  BY <1>2, <1>3 DEF Kept

LEMMA EventStep ==
  ASSUME DeliveryInv, TypeOK', NEW g \in Gateways, NEW y \in SocketsOf(g),
         NEW w \in 0 .. WireCapacity, NEW r \in 0 .. MaxReadSequence,
         HandleSocketEvent(g, y, w, r)
  PROVE  DeliveryInv'
<1> DEFINE x == y[1]
           c == OtherEnd(y)
           line == out[y] \o outQueue[x]
           rest == Drop(line, w)
           pO == <<"out", y>>
           pQ == <<"outQueue", x>>
           pW == <<"wire", y>>
           pC == <<"wire", c>>
           pI == <<"incoming", g>>
<1>1. /\ y \in Socket /\ x \in Connection /\ x[1] = g /\ c \in Socket /\ c # y
      /\ c[1] = <<x[2], x[1]>> /\ x = <<x[1], x[2]>>
  <2>1. y \in Socket /\ x \in ConnectionsOf(g) /\ c \in Socket /\ c # y
    BY IndexLemma
  <2>. QED  BY <2>1 DEF ConnectionsOf, Connection, OtherEnd, Reverse
<1>2. /\ out \in [Socket -> Seq(Message)] /\ outQueue \in [Connection -> Seq(Message)]
      /\ wire \in [Socket -> Seq(Message)] /\ incoming \in [Gateways -> Seq(Message)]
      /\ pending \in [Gateways -> Int] /\ Len(out[y]) <= 1
      /\ out' \in [Socket -> Seq(Message)] /\ outQueue' \in [Connection -> Seq(Message)]
      /\ wire' \in [Socket -> Seq(Message)]
      /\ Lines \in Layout /\ Lines' \in Layout
  BY <1>1, LinesType DEF DeliveryInv, TypeOK, MessageSeq
<1>3. /\ w > 0 => out[y] # << >>
      /\ w <= Len(line) /\ r <= Len(wire[c])
      /\ out' = IF w = 0 THEN out ELSE [out EXCEPT ![y] = FirstOf(rest)]
      /\ outQueue' = IF w = 0 THEN outQueue ELSE [outQueue EXCEPT ![x] = Drop(rest, 1)]
      /\ pending' = [pending EXCEPT ![g] = @ - w]
      /\ incoming' = [incoming EXCEPT ![g] = @ \o SubSeq(wire[c], 1, r)]
      /\ wire' = [wire EXCEPT ![y] = @ \o SubSeq(line, 1, w), ![c] = Drop(@, r)]
      /\ UNCHANGED <<sent, got, queue, toGateway, toApp>>
  BY <1>1 DEF HandleSocketEvent, WriteMessages, ReadMessages, CountWritten, appVars
<1>4. /\ line \in Seq(Message) /\ Len(line) \in Nat /\ w \in 0 .. Len(line)
      /\ wire[c] \in Seq(Message) /\ Len(wire[c]) \in Nat /\ r \in 0 .. Len(wire[c])
      /\ wire[y] \in Seq(Message) /\ Len(wire[y]) \in Nat /\ w \in Nat /\ r \in Nat
      /\ incoming[g] \in Seq(Message) /\ Len(incoming[g]) \in Nat
  BY <1>1, <1>2, <1>3, ConcatProperties, LenProperties, LimitsAssumption
<1> HIDE DEF line, rest, x, c
<1>5. /\ Len(incoming'[g]) = Len(incoming[g]) + r
      /\ \A j \in 1 .. Len(incoming[g]) : incoming'[g][j] = incoming[g][j]
      /\ \A j \in 1 .. r : incoming'[g][Len(incoming[g]) + j] = wire[c][j]
      /\ \A h \in Gateways \ {g} : incoming'[h] = incoming[h]
  <2> DEFINE read == SubSeq(wire[c], 1, r)
  <2>1. read \in Seq(Message) /\ Len(read) = r /\ \A j \in 1 .. r : read[j] = wire[c][j]
    <3>1. wire[c] \in Seq(Message) /\ r \in 0 .. Len(wire[c])
      BY <1>4
    <3>. QED  BY <3>1, PrefixLemma, Zenon
  <2> HIDE DEF read
  <2>2. incoming'[g] = incoming[g] \o read /\ \A h \in Gateways \ {g} : incoming'[h] = incoming[h]
    BY <1>2, <1>3 DEF read
  <2>3. /\ Len(incoming[g] \o read) = Len(incoming[g]) + Len(read)
        /\ \A j \in 1 .. Len(incoming[g]) : (incoming[g] \o read)[j] = incoming[g][j]
        /\ \A j \in 1 .. Len(read) : (incoming[g] \o read)[Len(incoming[g]) + j] = read[j]
    <3>1. incoming[g] \in Seq(Message) /\ read \in Seq(Message)
      BY <1>4, <2>1
    <3>. QED  BY <3>1, ConcatLemma, Zenon
  <2>. QED  BY <2>1, <2>2, <2>3
<1>6. /\ Len(wire'[c]) = Len(wire[c]) - r
      /\ \A j \in 1 .. Len(wire[c]) - r : wire'[c][j] = wire[c][r + j]
      /\ \A z \in Socket \ {y, c} : wire'[z] = wire[z]
  <2>1. wire'[c] = Drop(wire[c], r) /\ \A z \in Socket \ {y, c} : wire'[z] = wire[z]
    BY <1>1, <1>2, <1>3
  <2>2. wire[c] \in Seq(Message) /\ r \in 0 .. Len(wire[c])
    BY <1>4
  <2>3. /\ Len(Drop(wire[c], r)) = Len(wire[c]) - r
        /\ \A j \in 1 .. Len(wire[c]) - r : Drop(wire[c], r)[j] = wire[c][r + j]
    BY <2>2, DropLemma, Zenon
  <2>. QED  BY <2>1, <2>3, Zenon
<1>7. /\ Len(wire'[y]) = Len(wire[y]) + w
      /\ \A j \in 1 .. Len(wire[y]) : wire'[y][j] = wire[y][j]
      /\ \A j \in 1 .. w : wire'[y][Len(wire[y]) + j] = line[j]
  <2> DEFINE written == SubSeq(line, 1, w)
  <2>1. written \in Seq(Message) /\ Len(written) = w /\ \A j \in 1 .. w : written[j] = line[j]
    <3>1. line \in Seq(Message) /\ w \in 0 .. Len(line)
      BY <1>4
    <3>. QED  BY <3>1, PrefixLemma, Zenon
  <2> HIDE DEF written
  <2>2. wire'[y] = wire[y] \o written
    BY <1>1, <1>2, <1>3 DEF written
  <2>3. /\ Len(wire[y] \o written) = Len(wire[y]) + Len(written)
        /\ \A j \in 1 .. Len(wire[y]) : (wire[y] \o written)[j] = wire[y][j]
        /\ \A j \in 1 .. Len(written) : (wire[y] \o written)[Len(wire[y]) + j] = written[j]
    <3>1. wire[y] \in Seq(Message) /\ written \in Seq(Message)
      BY <1>4, <2>1
    <3>. QED  BY <3>1, ConcatLemma, Zenon
  <2>. QED  BY <2>1, <2>2, <2>3
<1>8. /\ pO \in Place /\ pQ \in Place /\ pW \in Place /\ pC \in Place /\ pI \in Place
      /\ pO # pQ /\ pO # pW /\ pO # pC /\ pO # pI /\ pQ # pW /\ pQ # pC /\ pQ # pI
      /\ pW # pC /\ pW # pI /\ pC # pI
  BY <1>1 DEF Place
<1>9. /\ Lines[pO] = out[y] /\ Lines[pQ] = outQueue[x] /\ Lines[pW] = wire[y]
      /\ Lines[pC] = wire[c] /\ Lines[pI] = incoming[g]
      /\ Lines'[pO] = out'[y] /\ Lines'[pQ] = outQueue'[x] /\ Lines'[pW] = wire'[y]
      /\ Lines'[pC] = wire'[c] /\ Lines'[pI] = incoming'[g]
  BY <1>1, LineValues, NextLineValues
<1>10. \A m \in Message : /\ pO \in Path(m) <=> pW \in Path(m)
                          /\ pQ \in Path(m) <=> pW \in Path(m)
                          /\ pC \in Path(m) => pI \in Path(m)
  BY <1>1, PathLemma DEF x
<1>11. \A h \in Gateways : /\ pO \in HeldPlaces(h) <=> h = g
                           /\ pQ \in HeldPlaces(h) <=> h = g
                           /\ pW \notin HeldPlaces(h) /\ pC \notin HeldPlaces(h)
                           /\ pI \notin HeldPlaces(h)
  BY <1>1, HeldLemma DEF x
<1>stages. Stage(pQ) = 2 /\ Stage(pO) = 3 /\ Stage(pW) = 4 /\ Stage(pC) = 4 /\ Stage(pI) = 5
  BY StageLemma
<1>12. SameBut({pO, pQ, pW, pC, pI})
  <2>1. \A z \in Connection : z # x => outQueue'[z] = outQueue[z]
    BY <1>2, <1>3
  <2>2. \A z \in Socket : z # y => out'[z] = out[z]
    BY <1>2, <1>3
  <2>. QED  BY <1>3, <1>5, <1>6, <2>1, <2>2 DEF SameBut
<1> HIDE DEF pO, pQ, pW, pC, pI
<1>13. \A p \in Place \ {pO, pQ, pW, pC, pI} : Lines'[p] = Lines[p]
  BY <1>12, Frame
<1>14. Kept(Lines, g, 0)
  <2>1. \A h \in Gateways : pending[h] \in Int
    BY <1>2
  <2>2. \A h \in Gateways :
          Size(Lines, HeldPlaces(h), IF h = g THEN pending[h] - 0 ELSE pending[h])
    <3> SUFFICES ASSUME NEW h \in Gateways
                 PROVE  Size(Lines, HeldPlaces(h), IF h = g THEN pending[h] - 0 ELSE pending[h])
      OBVIOUS
    <3>1. (IF h = g THEN pending[h] - 0 ELSE pending[h]) = pending[h]
      BY <2>1
    <3>2. Size(Lines, HeldPlaces(h), pending[h])
      BY DEF DeliveryInv, Counted
    <3>. QED  BY <3>1, <3>2
  <2>. QED  BY <1>2, <2>2 DEF Kept, DeliveryInv

\* What is read last goes from the wire to the incoming messages.
<1>15. ASSUME NEW K, Kept(K, g, w), K[pC] = wire[c], K[pI] = incoming[g],
              \A p \in Place \ {pC, pI} : Lines'[p] = K[p]
       PROVE  DeliveryInv'
  <2>1. Moved(K, Lines', pC, pI, r)
    BY <1>4, <1>5, <1>6, <1>8, <1>9, <1>15 DEF Moved
  <2>2. K \in Layout /\ Placed(K)
    BY <1>15 DEF Kept
  <2>3. \A i \in 1 .. r : pI \in Path(K[pC][i])
    <3> SUFFICES ASSUME NEW i \in 1 .. r PROVE pI \in Path(K[pC][i])
      OBVIOUS
    <3>1. i \in 1 .. Len(K[pC]) /\ K[pC][i] \in Message
      BY <1>4, <1>15, ElementOfSeq
    <3>2. pC \in Path(K[pC][i])
      BY <1>8, <2>2, <3>1 DEF Placed
    <3>. QED  BY <1>10, <3>1, <3>2
  <2>next. Adjacent(K, pC, pI)
    BY <1>8, <1>stages, NextStage
  <2>4. Kept(Lines', g, w)
    BY <1>2, <1>11, <1>15, <2>1, <2>3, <2>next, KeptWithin
  <2>5. \A h \in Gateways : pending'[h] = IF h = g THEN pending[h] - w ELSE pending[h]
    BY <1>2, <1>3
  <2>6. \A h \in Gateways : Size(Lines', HeldPlaces(h), pending'[h])
    <3> SUFFICES ASSUME NEW h \in Gateways PROVE Size(Lines', HeldPlaces(h), pending'[h])
      OBVIOUS
    <3>1. Size(Lines', HeldPlaces(h), IF h = g THEN pending[h] - w ELSE pending[h])
      BY <2>4 DEF Kept
    <3>. QED  BY <2>5, <3>1
  <2>7. Counted'
    <3>1. \A h \in Gateways :
            Size(Lines, HeldPlaces(h), pending[h])' <=> Size(Lines', HeldPlaces(h), pending'[h])
      BY DEF Size, In, HeldPlaces
    <3>. QED  BY <2>6, <3>1 DEF Counted
  <2>8. Once(Lines') /\ Placed(Lines') /\ Content(Lines') = Content(Lines) /\ InOrder(Lines')
    BY <2>4 DEF Kept
  <2>. QED  BY <1>3, <2>7, <2>8, OnlyMoves

<1>16. CASE w = 0
  <2>1. wire'[y] = wire[y]
    <3>1. wire'[y] \in Seq(Message) /\ Len(wire'[y]) = Len(wire[y])
      BY <1>1, <1>2, <1>4, <1>7, <1>16
    <3>. QED  BY <1>4, <1>7, <3>1, SeqEqual
  <2>2. out' = out /\ outQueue' = outQueue
    BY <1>3, <1>16
  <2>3. \A p \in Place \ {pC, pI} : Lines'[p] = Lines[p]
    BY <1>9, <1>13, <2>1, <2>2
  <2>. QED  BY <1>9, <1>14, <1>15, <1>16, <2>3

<1>17. CASE w > 0
  <2>1. w \in Nat \ {0} /\ Len(out[y]) = 1 /\ w - 1 \in Nat
    <3>1. out[y] \in Seq(Message) /\ out[y] # << >>
      BY <1>1, <1>2, <1>3, <1>17
    <3>2. Len(out[y]) \in Nat \ {0}
      BY <3>1, EmptySeq
    <3>3. Len(out[y]) <= 1 /\ w \in Nat
      BY <1>2, <1>4
    <3>4. Len(out[y]) = 1
      <4> DEFINE n == Len(out[y])
      <4>1. n \in Nat \ {0} /\ n <= 1
        BY <3>2, <3>3
      <4> HIDE DEF n
      <4>2. n = 1
        BY <4>1, LimitsAssumption
      <4>. QED  BY <4>2 DEF n
    <3>. QED  BY <1>17, <3>3, <3>4
  <2>2. out[y] \in Seq(Message) /\ outQueue[x] \in Seq(Message) /\ Len(outQueue[x]) \in Nat
        /\ out[y][1] \in Message
    <3>1. out[y] \in Seq(Message) /\ outQueue[x] \in Seq(Message) /\ 1 \in 1 .. Len(out[y])
      BY <1>1, <1>2, <2>1
    <3>. QED  BY <3>1, LenProperties, ElementOfSeq
  <2> DEFINE s == outQueue[x]
             m == out[y][1]
             f == Len(FirstOf(rest))
  <2>3. /\ Len(line) = 1 + Len(s)
        /\ line[1] = m /\ \A j \in 1 .. Len(s) : line[1 + j] = s[j]
        /\ FirstOf(rest) \in Seq(Message) /\ Drop(rest, 1) \in Seq(Message)
        /\ f \in 0 .. 1 /\ f <= Len(s) - (w - 1)
        /\ Len(Drop(rest, 1)) = Len(s) - (w - 1) - f
        /\ \A j \in 1 .. f : FirstOf(rest)[j] = s[(w - 1) + j]
        /\ \A j \in 1 .. Len(s) - (w - 1) - f : Drop(rest, 1)[j] = s[(w - 1) + (f + j)]
    <3>1. w <= Len(out[y] \o outQueue[x])
      BY <1>3 DEF line
    <3>2. w \in Nat \ {0} /\ Len(out[y]) = 1 /\ out[y] \in Seq(Message) /\ outQueue[x] \in Seq(Message)
      BY <2>1, <2>2
    <3>. QED  BY <3>1, <3>2, WriteLemma, Zenon DEF line, rest
  <2>4. out'[y] = FirstOf(rest) /\ outQueue'[x] = Drop(rest, 1)
    BY <1>1, <1>2, <1>3, <1>17
  <2>5. w - 1 \in 0 .. Len(s)
    BY <1>4, <2>1, <2>2, <2>3
  <2> DEFINE L1 == [Lines EXCEPT ![pO] = << >>, ![pW] = Append(wire[y], m)]
             L2 == [L1 EXCEPT ![pQ] = Drop(s, w - 1), ![pW] = wire'[y]]
             L3 == [L2 EXCEPT ![pQ] = outQueue'[x], ![pO] = out'[y]]
  <2>6. /\ Append(wire[y], m) \in Seq(Message) /\ Drop(s, w - 1) \in Seq(Message)
        /\ << >> \in Seq(Message) /\ wire'[y] \in Seq(Message)
        /\ out'[y] \in Seq(Message) /\ outQueue'[x] \in Seq(Message)
    BY <1>1, <1>2, <1>4, <2>2, <2>5, AppendProperties, DropLemma, EmptySeq
  <2> HIDE DEF s, m
  <2>7. /\ L1 \in Layout /\ L1[pO] = << >> /\ L1[pW] = Append(wire[y], m)
        /\ \A p \in Place \ {pO, pW} : L1[p] = Lines[p]
    BY <1>2, <1>8, <2>6 DEF Layout
  <2> HIDE DEF L1
  <2>8. /\ L2 \in Layout /\ L2[pQ] = Drop(s, w - 1) /\ L2[pW] = wire'[y]
        /\ \A p \in Place \ {pQ, pW} : L2[p] = L1[p]
    BY <1>8, <2>6, <2>7 DEF Layout
  <2> HIDE DEF L2
  <2>9. /\ L3 \in Layout /\ L3[pQ] = outQueue'[x] /\ L3[pO] = out'[y]
        /\ \A p \in Place \ {pQ, pO} : L3[p] = L2[p]
    BY <1>8, <2>6, <2>8 DEF Layout
  <2> HIDE DEF L3
  \* The message in progress goes to the wire.
  <2>10. Moved(Lines, L1, pO, pW, 1)
    <3>1. /\ Len(Append(wire[y], m)) = Len(wire[y]) + 1
          /\ \A j \in 1 .. Len(wire[y]) : Append(wire[y], m)[j] = wire[y][j]
          /\ Append(wire[y], m)[Len(wire[y]) + 1] = m
      BY <1>4, <2>2, AppendProperties DEF m
    <3>2. Len(<< >>) = 0
      BY EmptySeq
    <3>. QED  BY <1>8, <1>9, <2>1, <2>7, <3>1, <3>2 DEF Moved, m
  <2>11. Kept(L1, g, 1)
    <3>1. \A i \in 1 .. 1 : pW \in Path(Lines[pO][i])
      <4>1. Lines[pO][1] \in Message /\ pO \in Path(Lines[pO][1])
        BY <1>8, <1>9, <2>1, InLineLemma
      <4>. QED  BY <1>10, <4>1
    <3>2. \A h \in Gateways : (pO \in HeldPlaces(h) <=> h = g) /\ pW \notin HeldPlaces(h)
      BY <1>11
    <3>3. 0 \in Int /\ 1 \in Int /\ 0 + 1 = 1
      OBVIOUS
    <3>next. Adjacent(Lines, pO, pW)
      BY <1>8, <1>stages, NextStage
    <3>4. Kept(L1, g, 0 + 1)
      BY <1>2, <1>14, <2>7, <2>10, <3>1, <3>2, <3>3, <3>next, KeptOut
    <3>. QED  BY <3>3, <3>4
  \* So do the next of the queue.
  <2>12. Moved(L1, L2, pQ, pW, w - 1)
    <3>1. L1[pQ] = s /\ L1[pW] = Append(wire[y], m) /\ L2[pQ] = Drop(s, w - 1) /\ L2[pW] = wire'[y]
      BY <1>8, <1>9, <2>7, <2>8 DEF s
    <3>2. /\ Len(Drop(s, w - 1)) = Len(s) - (w - 1)
          /\ \A j \in 1 .. Len(s) - (w - 1) : Drop(s, w - 1)[j] = s[(w - 1) + j]
      BY <2>2, <2>5, DropLemma DEF s
    <3>3. /\ Len(Append(wire[y], m)) = Len(wire[y]) + 1
          /\ \A j \in 1 .. Len(wire[y]) : Append(wire[y], m)[j] = wire[y][j]
          /\ Append(wire[y], m)[Len(wire[y]) + 1] = m
      BY <1>4, <2>2, AppendProperties DEF m
    <3>4. Len(wire'[y]) = (Len(wire[y]) + 1) + (w - 1)
      BY <1>4, <1>7
    <3>5. ASSUME NEW j \in 1 .. Len(wire[y]) + 1
          PROVE  wire'[y][j] = Append(wire[y], m)[j]
      <4>1. CASE j <= Len(wire[y])
        BY <1>4, <1>7, <3>3, <4>1
      <4>2. CASE j = Len(wire[y]) + 1
        <5>1. 1 \in 1 .. w
          BY <1>4, <1>17
        <5>2. wire'[y][Len(wire[y]) + 1] = line[1]
          BY <1>7, <5>1
        <5>. QED  BY <2>3, <3>3, <4>2, <5>2 DEF m
      <4>. QED  BY <1>4, <4>1, <4>2
    <3>6. ASSUME NEW j \in 1 .. w - 1
          PROVE  wire'[y][(Len(wire[y]) + 1) + j] = s[j]
      <4>1. 1 + j \in 1 .. w /\ (Len(wire[y]) + 1) + j = Len(wire[y]) + (1 + j) /\ j \in 1 .. Len(s)
        <5>1. Len(s) \in Nat /\ w \in Nat /\ Len(wire[y]) \in Nat
          BY <1>4, <2>2 DEF s
        <5>2. w - 1 <= Len(s)
          BY <2>5, <5>1
        <5>3. 1 + j \in 1 .. w
          BY <5>1, LimitsAssumption
        <5>4. (Len(wire[y]) + 1) + j = Len(wire[y]) + (1 + j)
          <6> DEFINE n == Len(wire[y])
          <6>1. n \in Nat /\ j \in Nat
            BY <5>1, LimitsAssumption
          <6> HIDE DEF n
          <6>2. (n + 1) + j = n + (1 + j)
            BY <6>1
          <6>. QED  BY <6>2 DEF n
        <5>5. j \in 1 .. Len(s)
          BY <5>1, <5>2, LimitsAssumption
        <5>. QED  BY <5>3, <5>4, <5>5
      <4>2. wire'[y][Len(wire[y]) + (1 + j)] = line[1 + j]
        BY <1>7, <4>1
      <4>3. line[1 + j] = s[j]
        BY <2>3, <4>1
      <4>. QED  BY <4>1, <4>2, <4>3
    <3>. QED  BY <1>8, <2>5, <2>8, <3>1, <3>2, <3>3, <3>4, <3>5, <3>6 DEF Moved
  <2>13. Kept(L2, g, w)
    <3>1. \A i \in 1 .. w - 1 : pW \in Path(L1[pQ][i])
      <4> SUFFICES ASSUME NEW i \in 1 .. w - 1 PROVE pW \in Path(L1[pQ][i])
        OBVIOUS
      <4>1. L1[pQ] = Lines[pQ] /\ i \in 1 .. Len(Lines[pQ])
        BY <1>8, <1>9, <2>2, <2>5, <2>7 DEF s
      <4>2. Lines[pQ][i] \in Message /\ pQ \in Path(Lines[pQ][i])
        BY <1>8, <4>1, InLineLemma
      <4>. QED  BY <1>10, <4>1, <4>2
    <3>2. \A h \in Gateways : (pQ \in HeldPlaces(h) <=> h = g) /\ pW \notin HeldPlaces(h)
      BY <1>11
    <3>3. 1 \in Int /\ w - 1 \in Int /\ 1 + (w - 1) = w
      BY <2>1
    <3>next. Adjacent(L1, pQ, pW)
      <4>1. ASSUME StreamCount = 1, NEW z \in Place, Between(pQ, z, pW),
                   NEW i \in 1 .. Len(L1[pQ]), NEW j \in 1 .. Len(L1[z]),
                   SamePair(L1[pQ][i], L1[z][j])
            PROVE  FALSE
        <5>1. Stage(z) = 3
          BY <1>stages, <4>1, StageType DEF Between
        <5>2. z # pO
          BY <2>7, EmptySeq
        <5>3. /\ L1[pQ][i] \in Message /\ pQ \in Path(L1[pQ][i])
              /\ L1[z][j] \in Message /\ z \in Path(L1[z][j])
          BY <1>8, <2>7, <2>11, ElementOfSeq DEF Kept, Placed, Layout
        <5>4. pO \in Path(L1[pQ][i])
          BY <1>10, <5>3
        <5>5. SamePair(L1[pQ][i], L1[z][j]) /\ Stage(pO) = Stage(z) /\ Stage(pO) # 7
          BY <1>stages, <4>1, <5>1
        <5>6. pO = z
          BY <1>8, <4>1, <5>3, <5>4, <5>5, OnePlace
        <5>. QED  BY <5>2, <5>6
      <4>2. Stage(pQ) < Stage(pW)
        BY <1>stages
      <4>. QED  BY <4>1, <4>2 DEF Adjacent, NoneBetween
    <3>4. Kept(L2, g, 1 + (w - 1))
      BY <1>2, <2>8, <2>11, <2>12, <3>1, <3>2, <3>3, <3>next, KeptOut
    <3>. QED  BY <3>3, <3>4
  \* The one after them is then in progress.
  <2>14. Moved(L2, L3, pQ, pO, f)
    <3>1. L2[pQ] = Drop(s, w - 1) /\ L2[pO] = << >> /\ L3[pQ] = Drop(rest, 1) /\ L3[pO] = FirstOf(rest)
      BY <1>8, <2>4, <2>7, <2>8, <2>9
    <3>2. /\ Len(Drop(s, w - 1)) = Len(s) - (w - 1)
          /\ \A j \in 1 .. Len(s) - (w - 1) : Drop(s, w - 1)[j] = s[(w - 1) + j]
      BY <2>2, <2>5, DropLemma DEF s
    <3>3. f \in 0 .. Len(Drop(s, w - 1)) /\ Len(s) \in Nat
      BY <2>2, <2>3, <2>5, <3>2 DEF s
    <3>4. Len(Drop(rest, 1)) = Len(Drop(s, w - 1)) - f
      BY <2>3, <3>2 DEF s
    <3>5. ASSUME NEW j \in 1 .. Len(Drop(s, w - 1)) - f
          PROVE  Drop(rest, 1)[j] = Drop(s, w - 1)[f + j]
      <4>0. w \in Nat /\ f \in Nat /\ j \in Nat
        BY <2>1, <3>3
      <4>1. f + j \in 1 .. Len(s) - (w - 1) /\ j \in 1 .. Len(s) - (w - 1) - f
        BY <3>2, <3>3, <4>0
      <4>. QED  BY <2>3, <3>2, <4>1 DEF s
    <3>6. ASSUME NEW j \in 1 .. f PROVE FirstOf(rest)[j] = Drop(s, w - 1)[j]
      <4>1. j \in 1 .. Len(s) - (w - 1)
        BY <2>1, <3>2, <3>3
      <4>. QED  BY <2>3, <3>2, <4>1 DEF s
    <3>7. Len(<< >>) = 0 /\ \A j \in 1 .. f : 0 + j = j
      BY EmptySeq
    <3>8. \A p \in Place \ {pQ, pO} : L3[p] = L2[p]
      BY <2>9
    <3> HIDE DEF f
    <3>. QED  BY <1>8, <3>1, <3>3, <3>4, <3>5, <3>6, <3>7, <3>8 DEF Moved, f
  <2>15. Kept(L3, g, w)
    <3>1. \A i \in 1 .. f : pO \in Path(L2[pQ][i])
      <4> SUFFICES ASSUME NEW i \in 1 .. f PROVE pO \in Path(L2[pQ][i])
        OBVIOUS
      <4>1. i \in 1 .. Len(L2[pQ]) /\ L2[pQ] \in Seq(Message)
        BY <1>8, <2>8, <2>14 DEF Moved, Layout
      <4>2. L2[pQ][i] \in Message /\ pQ \in Path(L2[pQ][i])
        BY <1>8, <2>13, <4>1, ElementOfSeq DEF Kept, Placed
      <4>. QED  BY <1>10, <4>2
    <3>2. \A h \in Gateways : pQ \in HeldPlaces(h) <=> pO \in HeldPlaces(h)
      BY <1>11
    <3>3. Adjacent(L2, pQ, pO)
      BY <1>8, <1>stages, NextStage
    <3>. QED  BY <2>9, <2>13, <2>14, <3>1, <3>2, <3>3, KeptWithin
  <2>16. /\ L3[pC] = wire[c] /\ L3[pI] = incoming[g]
         /\ \A p \in Place \ {pC, pI} : Lines'[p] = L3[p]
    <3>1. L3[pC] = Lines[pC] /\ L3[pI] = Lines[pI]
      BY <1>8, <2>7, <2>8, <2>9
    <3>2. L3[pO] = Lines'[pO] /\ L3[pQ] = Lines'[pQ] /\ L3[pW] = Lines'[pW]
      BY <1>8, <1>9, <2>8, <2>9
    <3>3. \A p \in Place \ {pO, pQ, pW, pC, pI} : L3[p] = Lines[p]
      BY <2>7, <2>8, <2>9
    <3>. QED  BY <1>9, <1>13, <3>1, <3>2, <3>3
  <2>. QED  BY <1>15, <2>15, <2>16
<1>. QED  BY <1>4, <1>16, <1>17

-----------------------------------------------------------------------------
(* The theorems *)

\* Initially there are no messages anywhere.
LEMMA DeliveryInit == Init => DeliveryInv
<1> SUFFICES ASSUME Init PROVE DeliveryInv
  OBVIOUS
<1>1. TypeOK
  BY TypeInit
<1>2. \A p \in Place : Lines[p] = << >>
  <2>1. /\ \A a \in App : toGateway[a] = << >>
        /\ \A x \in Connection : outQueue[x] = << >>
        /\ \A y \in Socket : out[y] = << >> /\ wire[y] = << >>
        /\ \A g \in Gateways : incoming[g] = << >>
        /\ \A l \in Lane : toApp[l] = << >>
        /\ \A b \in App, c \in Comm : queue[b][c] = << >>
    BY DEF Init
  <2> SUFFICES ASSUME NEW p \in Place PROVE Lines[p] = << >>
    OBVIOUS
  <2>. QED  BY <2>1, KindsOfPlace, LineValues
<1>3. \A p \in Place : 1 .. Len(Lines[p]) = {}
  BY <1>2, EmptySeq
<1>4. Once(Lines) /\ Placed(Lines) /\ Content(Lines) = {} /\ InOrder(Lines)
  BY <1>3 DEF Once, Placed, Content, InOrder, Ordered
<1>5. \A a \in App : 1 .. Len(sent[a]) = {}
  BY EmptySeq DEF Init
<1>6. AllSent = {}
  <2>1. \A m \in Message : m.src \in App
    BY DEF Message
  <2>. QED  BY <1>5, <2>1 DEF AllSent
<1>7. SentRight /\ GotRight
  BY <1>5 DEF SentRight, GotRight, Init
<1>8. Counted
  <2> SUFFICES ASSUME NEW g \in Gateways PROVE Size(Lines, HeldPlaces(g), pending[g])
    BY DEF Counted
  <2>1. pending[g] = 0
    BY DEF Init
  <2>2. In(Lines, HeldPlaces(g)) = {}
    BY <1>3, HeldLemma DEF In
  <2>. QED  BY <2>1, <2>2, FS_EmptySet DEF Size
<1>. QED  BY <1>1, <1>4, <1>6, <1>7, <1>8 DEF DeliveryInv

\* Steps that leave all messages where they are.
LEMMA IdleStep ==
  ASSUME DeliveryInv, TypeOK',
         UNCHANGED <<sent, got, queue, toGateway, toApp, pending, outQueue, out, incoming, wire>>
  PROVE  DeliveryInv'
<1>1. Lines' = Lines
  BY DEF Lines
<1>2. Counted'
  BY <1>1, CountedSame
<1>3. Once(Lines') /\ Placed(Lines') /\ Content(Lines') = Content(Lines) /\ InOrder(Lines')
  BY <1>1 DEF DeliveryInv
<1>. QED  BY <1>2, <1>3, OnlyMoves

\* Every step keeps the invariant.
LEMMA DeliveryStep == DeliveryInv /\ [Next]_vars => DeliveryInv'
<1> SUFFICES ASSUME DeliveryInv, [Next]_vars PROVE DeliveryInv'
  OBVIOUS
<1>1. TypeOK'
  BY TypeStep DEF DeliveryInv
<1>2. CASE UNCHANGED vars
  BY <1>1, <1>2, IdleStep DEF vars, appVars, gatewayVars
<1>3. ASSUME NEW g \in Gateways, GatewayStep(g) PROVE DeliveryInv'
  <2>1. CASE PollSockets(g)
    BY <1>1, <2>1, IdleStep DEF PollSockets, appVars
  <2>2. ASSUME NEW y \in SocketsOf(g), HandleAnyEvent(g, y) PROVE DeliveryInv'
    BY <1>1, <2>2, EventStep DEF HandleAnyEvent
  <2>. QED  BY <1>1, <1>3, <2>1, <2>2, ForwardStep, ReceiveStep, PrepareStep DEF GatewayStep
<1>4. ASSUME NEW a \in App, AppStep(a) PROVE DeliveryInv'
  <2>1. ASSUME NEW p \in Request, MessagingReceive(a, p) PROVE DeliveryInv'
    BY <1>1, <2>1, IdleStep DEF MessagingReceive, gatewayVars
  <2>2. CASE ProbeNothing(a)
    BY <1>1, <2>2, IdleStep DEF ProbeNothing, gatewayVars
  <2>. QED  BY <1>1, <1>4, <2>1, <2>2, SendStep, TakePendingStep, ProbeLoopStep DEF AppStep
<1>. QED  BY <1>2, <1>3, <1>4 DEF Next

\* At every moment each message is at one place on its path, or received.
THEOREM DeliveryInvariant == Spec => []DeliveryInv
BY DeliveryInit, DeliveryStep, PTL DEF Spec

\* The elements of a line.
LEMMA ElementsLemma ==
  ASSUME NEW q \in Seq(Message), NEW m
  PROVE  m \in Elements(q) <=> \E i \in 1 .. Len(q) : q[i] = m
BY LenProperties DEF Elements

LEMMA InTransitLemma ==
  ASSUME DeliveryInv, NEW m \in AllSent
  PROVE  InTransit(m) <=> m \in Content(Lines)
<1> DEFINE g == GatewayOf(m.src)
           h == <<Home[m.dst], g[2]>>
           x == <<g, h>>
<1>1. m \in Message /\ m.src \in App /\ m.dst \in App /\ m.comm \in Comm
  BY DEF AllSent, Message
<1>2. Home[m.dst] # Home[m.src]
  BY <1>1 DEF AllSent, DeliveryInv, SentRight
<1>3. /\ g = <<Home[m.src], Via[m.src]>> /\ g \in Gateways /\ h \in Gateways
      /\ x \in Connection /\ <<h, m.dst>> \in Lane
      /\ \A s \in Stream : <<x, s>> \in Socket
  <2>1. Home[m.dst] \in Cluster /\ Home[m.src] \in Cluster /\ Via[m.src] \in Column
    BY <1>1, TopologyAssumption
  <2>. QED  BY <1>1, <1>2, <2>1 DEF GatewayOf, Gateways, Connection, Lane, Socket
<1>4. Lines \in Layout /\ Placed(Lines)
  BY LinesType DEF DeliveryInv
<1>5. \A p \in Place : m \in Elements(Lines[p]) <=> \E i \in 1 .. Len(Lines[p]) : Lines[p][i] = m
  BY <1>4, ElementsLemma DEF Layout
<1> HIDE DEF g, h, x
<1>6. Path(m) \subseteq Place
  BY <1>1, <1>3 DEF Path, Place, g, h, x
<1>7. InTransit(m) <=> \E p \in Path(m) : m \in Elements(Lines[p])
  <2>1. /\ Lines[<<"toGateway", m.src>>] = toGateway[m.src]
        /\ Lines[<<"outQueue", x>>] = outQueue[x]
        /\ Lines[<<"incoming", h>>] = incoming[h]
        /\ Lines[<<"toApp", <<h, m.dst>>>>] = toApp[<<h, m.dst>>]
        /\ Lines[<<"queue", <<m.dst, m.comm>>>>] = queue[m.dst][m.comm]
        /\ \A s \in Stream : /\ Lines[<<"out", <<x, s>>>>] = out[<<x, s>>]
                             /\ Lines[<<"wire", <<x, s>>>>] = wire[<<x, s>>]
    BY <1>1, <1>3, LineValues
  <2>2. InTransit(m) <=>
          \/ m \in Elements(toGateway[m.src]) \/ m \in Elements(outQueue[x])
          \/ m \in Elements(incoming[h]) \/ m \in Elements(toApp[<<h, m.dst>>])
          \/ m \in Elements(queue[m.dst][m.comm])
          \/ \E s \in Stream : m \in Elements(out[<<x, s>>])
          \/ \E s \in Stream : m \in Elements(wire[<<x, s>>])
    BY DEF InTransit, g, h, x
  <2>3. Path(m) = { <<"toGateway", m.src>>, <<"outQueue", x>>, <<"incoming", h>>,
                    <<"toApp", <<h, m.dst>>>>, <<"queue", <<m.dst, m.comm>>>> }
                  \cup { <<"out", <<x, s>>>> : s \in Stream } \cup { <<"wire", <<x, s>>>> : s \in Stream }
    BY DEF Path, g, h, x
  <2>4. (\E p \in Path(m) : m \in Elements(Lines[p])) <=>
          \/ m \in Elements(Lines[<<"toGateway", m.src>>]) \/ m \in Elements(Lines[<<"outQueue", x>>])
          \/ m \in Elements(Lines[<<"incoming", h>>]) \/ m \in Elements(Lines[<<"toApp", <<h, m.dst>>>>])
          \/ m \in Elements(Lines[<<"queue", <<m.dst, m.comm>>>>])
          \/ \E s \in Stream : m \in Elements(Lines[<<"out", <<x, s>>>>])
          \/ \E s \in Stream : m \in Elements(Lines[<<"wire", <<x, s>>>>])
    BY <2>3, Zenon
  <2>. QED  BY <2>1, <2>2, <2>4
<1>8. m \in Content(Lines) <=> \E p \in Place : m \in Elements(Lines[p])
  BY <1>1, <1>5 DEF Content
<1>9. \A p \in Place : m \in Elements(Lines[p]) => p \in Path(m)
  BY <1>4, <1>5 DEF Placed
<1>. QED  BY <1>6, <1>7, <1>8, <1>9

\* No message is lost or delivered twice between the processes: until it is
\* received a message is in a queue, a buffer or a stream that leads to its
\* destination, and then in none.
THEOREM NothingLostOrRepeated == Spec => []NoLossNoDuplication
<1>1. DeliveryInv => NoLossNoDuplication
  <2> SUFFICES ASSUME DeliveryInv, NEW a \in App, NEW i \in DOMAIN sent[a]
               PROVE  InTransit(sent[a][i]) <=> sent[a][i] \notin got[sent[a][i].dst]
    BY DEF NoLossNoDuplication
  <2>1. sent[a] \in Seq(Message) /\ i \in 1 .. Len(sent[a])
    BY LenProperties DEF DeliveryInv, TypeOK, MessageSeq
  <2>2. sent[a][i] \in Message /\ sent[a][i].src = a /\ sent[a][i].n = i
    BY <2>1, ElementOfSeq DEF DeliveryInv, SentRight
  <2>3. sent[a][i] \in AllSent
    BY <2>1, <2>2 DEF AllSent
  <2>4. InTransit(sent[a][i]) <=> sent[a][i] \in Content(Lines)
    BY <2>3, InTransitLemma
  <2>5. Content(Lines) = AllSent \ AllGot
    BY DEF DeliveryInv
  <2>. QED  BY <2>2, <2>3, <2>4, <2>5 DEF AllGot
<1>. QED  BY <1>1, DeliveryInvariant, PTL

\* pending_data_messages is the number of messages the gateway holds, whatever
\* the interleaving of receiving and writing.
THEOREM PendingIsExact == Spec => []PendingExact
<1>1. DeliveryInv => PendingExact
  <2> SUFFICES ASSUME DeliveryInv, NEW g \in Gateways
               PROVE  pending[g] = Cardinality(Held(g))
    BY DEF PendingExact
  <2>1. Lines \in Layout /\ HeldPlaces(g) \in SUBSET Place
    BY LinesType, HeldLemma DEF DeliveryInv
  <2>2. \A x \in ConnectionsOf(g) : x \in Connection /\ Lines[<<"outQueue", x>>] = outQueue[x]
    BY LineValues DEF ConnectionsOf
  <2>3. \A y \in SocketsOf(g) : y \in Socket /\ Lines[<<"out", y>>] = out[y]
    BY IndexLemma, LineValues
  <2>4. \A p \in Place : \A m : m \in Elements(Lines[p]) <=> \E i \in 1 .. Len(Lines[p]) : Lines[p][i] = m
    BY <2>1, ElementsLemma DEF Layout
  <2>5. \A p \in Place : \A m \in Elements(Lines[p]) : m \in Message
    BY <2>1, <2>4, ElementOfSeq DEF Layout
  <2>6. \A m : m \in In(Lines, HeldPlaces(g)) <=> \E p \in HeldPlaces(g) : m \in Elements(Lines[p])
    BY <2>1, <2>4, <2>5 DEF In
  <2>7. \A m : m \in Held(g) <=> \/ \E x \in ConnectionsOf(g) : m \in Elements(outQueue[x])
                                \/ \E y \in SocketsOf(g) : m \in Elements(out[y])
    BY DEF Held
  <2>8. \A m : (\E p \in HeldPlaces(g) : m \in Elements(Lines[p])) <=>
                 \/ \E x \in ConnectionsOf(g) : m \in Elements(Lines[<<"outQueue", x>>])
                 \/ \E y \in SocketsOf(g) : m \in Elements(Lines[<<"out", y>>])
    <3>1. \A p : p \in HeldPlaces(g) <=> \/ \E x \in ConnectionsOf(g) : p = <<"outQueue", x>>
                                         \/ \E y \in SocketsOf(g) : p = <<"out", y>>
      BY DEF HeldPlaces
    <3>. QED  BY <3>1, Zenon
  <2>9. \A m : m \in Held(g) <=> m \in In(Lines, HeldPlaces(g))
    BY <2>2, <2>3, <2>6, <2>7, <2>8
  <2>10. Held(g) = In(Lines, HeldPlaces(g))
    BY <2>9
  <2>. QED  BY <2>10 DEF DeliveryInv, Counted, Size
<1>. QED  BY <1>1, DeliveryInvariant, PTL

-----------------------------------------------------------------------------
(* The first message that matches *)

LEMMA FirstLemma ==
  ASSUME NEW b, NEW p, queue[b][p.comm] \in Seq(Message),
         NEW i \in DOMAIN queue[b][p.comm], Matches(queue[b][p.comm][i], p)
  PROVE  \E j \in DOMAIN queue[b][p.comm] : FindsPending(b, p, j)
<1> DEFINE q == queue[b][p.comm]
           S == { j \in DOMAIN q : Matches(q[j], p) }
<1>1. DOMAIN q = 1 .. Len(q) /\ Len(q) \in Nat
  BY LenProperties
<1> HIDE DEF q
<1>2. S \in SUBSET Nat /\ S # {}
  BY <1>1 DEF q
<1> HIDE DEF S
<1>3. PICK x \in S : \A y \in S : ~ (<<y, x>> \in OpToRel(<, Nat))
  BY <1>2, NatLessThanWellFounded, WFMin, Zenon
<1>4. \A y \in S : ~ (y < x)
  BY <1>2, <1>3 DEF OpToRel
<1>5. x \in DOMAIN q /\ Matches(q[x], p)
  BY DEF S
<1>6. ASSUME NEW j \in 1 .. x - 1 PROVE ~ Matches(q[j], p)
  <2>1. j \in DOMAIN q /\ j < x
    BY <1>1, <1>5
  <2>. QED  BY <1>4, <2>1 DEF S
<1>. QED  BY <1>5, <1>6 DEF FindsPending, q

-----------------------------------------------------------------------------
(* What a receive takes is the first it could take *)

\* A receive could take the messages of one sender that the service names.
LEMMA CandidateLemma ==
  ASSUME DeliveryInv, NEW a \in App, NEW b \in App, NEW p,
         NEW i \in Service!Candidates(a, b, p)
  PROVE  /\ i \in Nat /\ sent[a][i] \in Message
         /\ sent[a][i].src = a /\ sent[a][i].dst = b /\ sent[a][i].n = i
         /\ Matches(sent[a][i], p)
         /\ \E q \in Place : \E j \in 1 .. Len(Lines[q]) : Lines[q][j] = sent[a][i]
<1>1. sent[a] \in Seq(Message)
  BY DEF DeliveryInv, TypeOK, MessageSeq
<1>2. i \in 1 .. Len(sent[a]) /\ sent[a][i].dst = b /\ Matches(sent[a][i], p) /\ sent[a][i] \notin got[b]
  BY <1>1, LenProperties DEF Service!Candidates, Service!Accepts, Matches
<1>3. sent[a][i] \in Message /\ sent[a][i].src = a /\ sent[a][i].n = i
  BY <1>1, <1>2, ElementOfSeq DEF DeliveryInv, SentRight
<1>4. sent[a][i] \in AllSent \ AllGot
  BY <1>2, <1>3 DEF AllSent, AllGot
<1>5. sent[a][i] \in Content(Lines)
  BY <1>4 DEF DeliveryInv
<1>. QED  BY <1>2, <1>3, <1>5 DEF Content

\* A message in a line is one of them if the receive matches it.
LEMMA InLineCandidate ==
  ASSUME DeliveryInv, NEW p, NEW q \in Place, NEW i \in 1 .. Len(Lines[q]),
         Matches(Lines[q][i], p)
  PROVE  LET m == Lines[q][i] IN
         /\ m \in Message /\ m.src \in App /\ m.dst \in App /\ m.n \in Nat
         /\ m.n \in Service!Candidates(m.src, m.dst, p)
         /\ sent[m.src][m.n] = m
<1>1. Lines[q][i] \in Message /\ Lines[q][i] \in AllSent
  BY InLineLemma
<1>2. Lines[q][i] \in Content(Lines)
  BY <1>1 DEF Content
<1> DEFINE m == Lines[q][i]
<1>3. m \in Message /\ m \in AllSent /\ m \notin AllGot /\ Matches(m, p)
  BY <1>1, <1>2 DEF DeliveryInv
<1> HIDE DEF m
<1>4. m.src \in App /\ m.dst \in App /\ m.n \in Nat
  BY <1>3 DEF Message
<1>5. sent[m.src] \in Seq(Message)
  BY <1>4 DEF DeliveryInv, TypeOK, MessageSeq
<1>6. m.n \in DOMAIN sent[m.src] /\ sent[m.src][m.n] = m
  BY <1>3, <1>5, LenProperties DEF AllSent
<1>7. m \notin got[m.dst]
  BY <1>3 DEF AllGot
<1>8. m.n \in Service!Candidates(m.src, m.dst, p)
  BY <1>3, <1>6, <1>7 DEF Service!Candidates, Service!Accepts, Matches
<1>. QED  BY <1>3, <1>4, <1>6, <1>8 DEF m

\* An earlier candidate is at least as far.
LEMMA EarlierIsAhead ==
  ASSUME DeliveryInv, StreamCount = 1, NEW p, NEW q \in Place, NEW i \in 1 .. Len(Lines[q]),
         NEW j \in Service!Candidates(Lines[q][i].src, Lines[q][i].dst, p), j < Lines[q][i].n
  PROVE  \E r \in Place : \E t \in 1 .. Len(Lines[r]) :
           /\ Lines[r][t] \in Message /\ Matches(Lines[r][t], p)
           /\ SamePair(Lines[q][i], Lines[r][t])
           /\ r \in Path(Lines[r][t])
           /\ Stage(q) <= Stage(r)
           /\ q = r => t < i
<1>1. Lines[q][i] \in Message
  BY InLineLemma
<1> DEFINE m == Lines[q][i]
           k == sent[m.src][j]
<1>2. m.src \in App /\ m.dst \in App
  BY <1>1 DEF Message
<1>3. /\ k \in Message /\ k.src = m.src /\ k.dst = m.dst /\ k.n = j /\ Matches(k, p)
      /\ \E r \in Place : \E t \in 1 .. Len(Lines[r]) : Lines[r][t] = k
  BY <1>2, CandidateLemma
<1>4. PICK r \in Place : \E t \in 1 .. Len(Lines[r]) : Lines[r][t] = k
  BY <1>3
<1>5. PICK t \in 1 .. Len(Lines[r]) : Lines[r][t] = k
  BY <1>4
<1> HIDE DEF k
<1>6. SamePair(Lines[r][t], m) /\ Lines[r][t].n < m.n /\ SamePair(m, Lines[r][t])
  BY <1>3, <1>5 DEF SamePair
<1> HIDE DEF m
<1>7. Stage(q) <= Stage(r) /\ (r = q => t < i)
  BY <1>6 DEF DeliveryInv, InOrder, Ordered, m
<1>8. r \in Path(Lines[r][t])
  BY InLineLemma
<1>. QED  BY <1>3, <1>5, <1>6, <1>7, <1>8 DEF m

\* The queue of the receive's communicator.
LEMMA QueueOfReceive ==
  ASSUME DeliveryInv, NEW b \in App, NEW p, NEW r \in Place, NEW t \in 1 .. Len(Lines[r]),
         Matches(Lines[r][t], p), Lines[r][t].dst = b, Stage(r) = 7
  PROVE  /\ r = <<"queue", <<b, p.comm>>>> /\ p.comm \in Comm
         /\ queue[b][p.comm] \in Seq(Message)
         /\ Lines[r] = queue[b][p.comm] /\ t \in DOMAIN queue[b][p.comm]
<1>1. Lines[r][t] \in Message /\ r \in Path(Lines[r][t])
  BY InLineLemma
<1>2. PICK d \in App, c \in Comm : r = <<"queue", <<d, c>>>>
  BY StageKinds
<1>3. d = b /\ c = p.comm
  BY <1>1, <1>2, PathLemma DEF Matches
<1>4. Lines[r] = queue[b][p.comm]
  BY <1>2, <1>3, LineValues
<1>5. queue[b][p.comm] \in Seq(Message)
  BY <1>2, <1>3 DEF DeliveryInv, TypeOK, MessageSeq
<1>. QED  BY <1>2, <1>3, <1>4, <1>5, LenProperties

-----------------------------------------------------------------------------
(* The steps *)

\* A receive of the service, from the line of the message.
LEMMA ReceiveOf ==
  ASSUME DeliveryInv, NEW b \in App, waiting[b] # NotWaiting,
         NEW q \in Place, NEW i \in 1 .. Len(Lines[q]),
         Matches(Lines[q][i], waiting[b]), Lines[q][i].dst = b,
         \A j \in Service!Candidates(Lines[q][i].src, b, waiting[b]) : ~ (j < Lines[q][i].n),
         got' = [got EXCEPT ![b] = @ \cup {Lines[q][i]}],
         Return(b), UNCHANGED sent
  PROVE  Service!Receive(b)
<1> DEFINE m == Lines[q][i]
<1>1. /\ m.src \in App /\ m.n \in Nat
      /\ m.n \in Service!Candidates(m.src, b, waiting[b]) /\ sent[m.src][m.n] = m
  BY InLineCandidate
<1>2. ASSUME NEW j \in Service!Candidates(m.src, b, waiting[b]) PROVE m.n <= j
  <2>1. j \in Nat /\ ~ (j < m.n)
    BY <1>1, CandidateLemma
  <2>. QED  BY <1>1, <2>1
<1>3. got' = [got EXCEPT ![b] = @ \cup {sent[m.src][m.n]}]
  BY <1>1
<1>4. waiting' = [waiting EXCEPT ![b] = Service!NotWaiting] /\ waiting[b] # Service!NotWaiting
  BY DEF Return, NotWaiting, Service!NotWaiting
<1> HIDE DEF m
<1>. QED  BY <1>1, <1>2, <1>3, <1>4 DEF Service!Receive

\* What is taken from a queue is the first of its sender.
LEMMA TakeRefines ==
  ASSUME DeliveryInv, StreamCount = 1, NEW b \in App, TakePending(b)
  PROVE  Service!Receive(b)
<1> DEFINE p == waiting[b]
           c == p.comm
           q == <<"queue", <<b, c>>>>
<1>1. c \in Comm /\ queue \in [App -> [Comm -> Seq(Message)]]
  BY DEF TakePending, Request, DeliveryInv, TypeOK, MessageSeq
<1>2. PICK i \in DOMAIN queue[b][c] :
        /\ FindsPending(b, p, i)
        /\ got' = [got EXCEPT ![b] = @ \cup {queue[b][c][i]}]
  BY DEF TakePending
<1>3. p # NotWaiting /\ Return(b) /\ UNCHANGED sent
  BY DEF TakePending
<1> HIDE DEF p
<1>4. queue[b][c] \in Seq(Message) /\ i \in 1 .. Len(queue[b][c])
  BY <1>1, <1>2, LenProperties
<1>5. q \in Place /\ Lines[q] = queue[b][c]
  BY <1>1, LineValues DEF Place
<1>6. i \in 1 .. Len(Lines[q]) /\ Matches(Lines[q][i], p)
  BY <1>2, <1>4, <1>5 DEF FindsPending
<1>7. Lines[q][i].dst = b
  BY <1>1, <1>5, <1>6, InLineLemma, PathLemma
<1>8. ASSUME NEW j \in Service!Candidates(Lines[q][i].src, b, p), j < Lines[q][i].n
      PROVE  FALSE
  <2>1. \E r \in Place : \E t \in 1 .. Len(Lines[r]) :
           /\ Lines[r][t] \in Message /\ Matches(Lines[r][t], p)
           /\ SamePair(Lines[q][i], Lines[r][t])
           /\ r \in Path(Lines[r][t])
           /\ Stage(q) <= Stage(r)
           /\ q = r => t < i
    BY <1>5, <1>6, <1>7, <1>8, EarlierIsAhead
  <2>2. PICK r \in Place : \E t \in 1 .. Len(Lines[r]) :
           /\ Matches(Lines[r][t], p) /\ SamePair(Lines[q][i], Lines[r][t])
           /\ Stage(q) <= Stage(r) /\ (q = r => t < i)
    BY <2>1
  <2>3. PICK t \in 1 .. Len(Lines[r]) :
           /\ Matches(Lines[r][t], p) /\ SamePair(Lines[q][i], Lines[r][t])
           /\ Stage(q) <= Stage(r) /\ (q = r => t < i)
    BY <2>2
  <2>4. Stage(r) = 7
    <3>1. Stage(q) = 7 /\ Stage(r) \in 1 .. 7
      BY StageLemma, StageType
    <3> HIDE DEF q
    <3>. QED  BY <2>3, <3>1
  <2>5. Lines[r][t].dst = b
    BY <1>7, <2>3 DEF SamePair
  <2>6. r = q /\ t \in DOMAIN queue[b][c] /\ Lines[r] = queue[b][c]
    BY <2>3, <2>4, <2>5, QueueOfReceive
  <2>7. t \in 1 .. i - 1
    BY <1>4, <2>3, <2>6
  <2>. QED  BY <1>2, <2>3, <2>6, <2>7 DEF FindsPending
<1>9. got' = [got EXCEPT ![b] = @ \cup {Lines[q][i]}]
  BY <1>2, <1>5
<1> HIDE DEF q
<1>. QED  BY <1>3, <1>5, <1>6, <1>7, <1>8, <1>9, ReceiveOf DEF p

\* What is received from a gateway is the first of its sender.
LEMMA ProbeRefines ==
  ASSUME DeliveryInv, StreamCount = 1, NEW b \in App, NEW g \in Gateways, ProbeLoop(b, g)
  PROVE  [Service!Next]_(Service!vars)
<1> DEFINE p == waiting[b]
           l == <<g, b>>
           q == <<"toApp", l>>
           m == Head(toApp[l])
<1>1. /\ NonePending(b) /\ l \in Lane /\ toApp[l] # << >> /\ p # NotWaiting /\ UNCHANGED sent
  BY DEF ProbeLoop, NonePending
<1>2. q \in Place /\ Lines[q] = toApp[l]
  BY <1>1, LineValues DEF Place
<1>3. m = Lines[q][1] /\ 1 \in 1 .. Len(Lines[q]) /\ m \in Message /\ q \in Path(m)
  BY <1>1, <1>2, HeadLemma
<1>4. m.dst = b
  BY <1>1, <1>3, PathLemma
<1>5. CASE ~ Matches(m, p) /\ UNCHANGED got /\ (IF p.blocking THEN UNCHANGED waiting ELSE Return(b))
  <2>1. CASE p.blocking
    BY <1>1, <1>5, <2>1 DEF Service!vars
  <2>2. CASE ~ p.blocking
    <3>1. Service!GiveUp(b)
      BY <1>1, <1>5, <2>2 DEF Service!GiveUp, Return, NotWaiting, Service!NotWaiting
    <3>. QED  BY <3>1 DEF Service!Next
  <2>. QED  BY <2>1, <2>2
<1>6. CASE Matches(m, p) /\ got' = [got EXCEPT ![b] = @ \cup {m}] /\ Return(b)
  <2>1. ASSUME NEW j \in Service!Candidates(m.src, b, p), j < m.n
        PROVE  FALSE
    <3>1. \E r \in Place : \E t \in 1 .. Len(Lines[r]) :
             /\ Lines[r][t] \in Message /\ Matches(Lines[r][t], p)
             /\ SamePair(Lines[q][1], Lines[r][t])
             /\ r \in Path(Lines[r][t])
             /\ Stage(q) <= Stage(r)
             /\ q = r => t < 1
      <4> HIDE DEF q, m, p
      <4>. QED  BY <1>2, <1>3, <1>4, <2>1, EarlierIsAhead
    <3>2. PICK r \in Place : \E t \in 1 .. Len(Lines[r]) :
             /\ Lines[r][t] \in Message /\ Matches(Lines[r][t], p)
             /\ SamePair(Lines[q][1], Lines[r][t])
             /\ r \in Path(Lines[r][t])
             /\ Stage(q) <= Stage(r)
             /\ q = r => t < 1
      BY <3>1
    <3>3. PICK t \in 1 .. Len(Lines[r]) :
             /\ Lines[r][t] \in Message /\ Matches(Lines[r][t], p)
             /\ SamePair(m, Lines[r][t])
             /\ r \in Path(Lines[r][t])
             /\ Stage(q) <= Stage(r)
             /\ q = r => t < 1
      BY <1>3, <3>2
    <3>4. r # q
      BY <3>3
    <3>far. Stage(q) = 6 /\ Stage(r) \in 1 .. 7
      BY StageLemma, StageType
    <3>5. Stage(r) # 6
      <4> HIDE DEF q, m
      <4>. QED  BY <1>2, <1>3, <3>3, <3>4, <3>far, OnePlace
    <3>6. Stage(r) = 7
      <4> HIDE DEF q
      <4>. QED  BY <3>3, <3>5, <3>far
    <3>7. Lines[r][t].dst = b
      BY <1>4, <3>3 DEF SamePair
    <3> HIDE DEF p, q, m
    <3>8. /\ queue[b][p.comm] \in Seq(Message) /\ Lines[r] = queue[b][p.comm]
          /\ t \in DOMAIN queue[b][p.comm]
      BY <3>3, <3>6, <3>7, QueueOfReceive
    <3>9. \E j1 \in DOMAIN queue[b][p.comm] : FindsPending(b, p, j1)
      BY <3>3, <3>8, FirstLemma
    <3>. QED  BY <1>1, <3>9 DEF NonePending, p
  <2>2. Service!Receive(b)
    <3> HIDE DEF q
    <3>. QED  BY <1>1, <1>2, <1>3, <1>4, <1>6, <2>1, ReceiveOf
  <2>. QED  BY <2>2 DEF Service!Next
<1>. QED  BY <1>5, <1>6 DEF ProbeLoop

\* Every step is a step of the service, or none.
LEMMA StepRefines ==
  ASSUME StreamCount = 1
  PROVE  DeliveryInv /\ [Next]_vars => [Service!Next]_(Service!vars)
<1> SUFFICES ASSUME DeliveryInv, [Next]_vars PROVE [Service!Next]_(Service!vars)
  OBVIOUS
<1>1. CASE UNCHANGED vars
  BY <1>1 DEF vars, appVars, Service!vars
<1>2. ASSUME NEW g \in Gateways, GatewayStep(g) PROVE [Service!Next]_(Service!vars)
  <2>1. UNCHANGED appVars
    BY <1>2 DEF GatewayStep, ForwardDataMessage, ReceiveDataMessage, PrepareMessage,
                PollSockets, HandleAnyEvent, HandleSocketEvent
  <2>. QED  BY <2>1 DEF appVars, Service!vars
<1>3. ASSUME NEW a \in App, AppStep(a) PROVE [Service!Next]_(Service!vars)
  <2>1. ASSUME NEW b \in App, NEW c \in Comm, NEW t \in Tag, MessagingSend(a, b, c, t)
        PROVE  Service!Next
    <3>1. Service!Send(a, b, c, t)
      <4>1. sent \in [App -> Seq(Message)]
        BY DEF DeliveryInv, TypeOK, MessageSeq
      <4>. QED  BY <2>1, <4>1 DEF MessagingSend, Service!Send, NotWaiting, Service!NotWaiting
    <3>. QED  BY <3>1 DEF Service!Next
  <2>2. ASSUME NEW p \in Request, MessagingReceive(a, p)
        PROVE  Service!Next
    <3>1. Service!Ask(a, p) /\ p \in Service!Request
      BY <2>2 DEF MessagingReceive, Service!Ask, NotWaiting, Service!NotWaiting, Request,
                  Service!Request
    <3>. QED  BY <3>1 DEF Service!Next
  <2>3. CASE TakePending(a)
    <3>1. Service!Receive(a)
      BY <2>3, TakeRefines
    <3>. QED  BY <3>1 DEF Service!Next
  <2>4. CASE ProbeNothing(a)
    <3>1. Service!GiveUp(a)
      BY <2>4 DEF ProbeNothing, NonePending, Return, Service!GiveUp, NotWaiting, Service!NotWaiting
    <3>. QED  BY <3>1 DEF Service!Next
  <2>. QED  BY <1>3, <2>1, <2>2, <2>3, <2>4, ProbeRefines DEF AppStep
<1>. QED  BY <1>1, <1>2, <1>3 DEF Next

\* With one stream between two gateways a receive always takes the first of a
\* sender's messages that it could take: messaging keeps MPI's promise that the
\* messages of a pair of processes do not overtake each other, whichever path
\* through buffers, queues and probes they take.
THEOREM OneStreamKeepsOrder ==
  ASSUME StreamCount = 1
  PROVE  Spec => Implements
<1>1. Init => Service!Init
  BY DEF Init, Service!Init, NotWaiting, Service!NotWaiting
<1>2. DeliveryInv /\ [Next]_vars => [Service!Next]_(Service!vars)
  BY StepRefines
<1>. QED  BY <1>1, <1>2, DeliveryInvariant, PTL DEF Spec, Implements, Service!Spec
=============================================================================
