---------------------------- MODULE LibraryProofs ----------------------------
(***************************************************************************)
(* Proofs about three parts that share no state with any other: that the   *)
(* gateways of a cluster are connected when its application starts         *)
(* (Startup), for every number of clusters, of gateways and of streams but *)
(* one, and every backlog; that handles denote the objects they were given *)
(* out for (Tables), for tables of every size and programs that create,    *)
(* use and free objects in any order; and that the linked list of messages *)
(* is a queue (MessageQueue), whatever is put into it and taken out of it. *)
(***************************************************************************)
EXTENDS Startup, Tables, MessageQueue,
        WellFoundedInduction, FiniteSetTheorems, SequenceTheorems, TLAPS

-----------------------------------------------------------------------------
(* Connecting the gateways *)

\* What the proof needs: more than one stream, and gateways that have an address.
Connectable == StartupAssumption /\ Streams > 1 /\ Addressless = {}

Stream == 0 .. Streams - 1

-----------------------------------------------------------------------------
(* The inductive invariant.  A gateway goes through its connections in the *)
(* order of the clusters, and of the streams for each of them.             *)

\* The gateways in position p have the connection to cluster d on stream s.
HasConnected(p, d, s) ==
  \/ p.at = "connect" /\ (d < p.peer \/ (d = p.peer /\ s < p.stream))
  \/ p.at \in {"greet", "done"}

\* Or have accepted the one from cluster c, and closed the listening socket.
HasAccepted(p, c, s) ==
  \/ p.at \in {"listen", "close"} /\ (c < p.peer \/ (c = p.peer /\ s < p.stream))
  \/ p.at = "await" /\ c <= p.peer
  \/ p.at \in {"connect", "greet", "done"}

\* It listens for the connection from cluster c on stream s.
ListensFor(p, c, s) == p.at \in {"listen", "close"} /\ p.peer = c /\ p.stream = s

\* It has heard from cluster c that its connections are made, and it has made its own.
HasAwaited(p, c) ==
  \/ p.at \in {"listen", "close", "await"} /\ c < p.peer
  \/ p.at \in {"connect", "greet", "done"}
AllConnected(p) == p.at \in {"greet", "done"}

\* The positions, and those that a gateway of cluster c can be in.
Places == {"init", "offer", "forward", "table", "listen", "close", "await", "connect", "greet", "done"}
Position == [at : Places, peer : Int, stream : Int]
InRange(p, c) ==
  /\ p.at \in {"listen", "close", "await"} => p.peer \in 0 .. c - 1
  /\ p.at \in {"connect", "greet"} => p.peer \in c + 1 .. ClusterCount - 1
  /\ p.at \in {"listen", "close", "connect"} => p.stream \in Stream

PositionsTyped == pos \in [Node -> Position] /\ \A n \in Node : InRange(pos[n], n[1])

\* Two gateways of the same rank, in positions p and q in the clusters i < j: the
\* connections that one has made are those the other has accepted, and at most the
\* one it listens for; and the one that has heard of the other was right to.
InStep(p, q, i, j) ==
  /\ \A s \in Stream : /\ HasAccepted(q, i, s) => HasConnected(p, j, s)
                       /\ HasConnected(p, j, s) => HasAccepted(q, i, s) \/ ListensFor(q, i, s)
  /\ HasAwaited(q, i) => AllConnected(p)
PairsInStep ==
  \A i, j \in Cluster, g \in Gateway : i < j => InStep(pos[<<i, g>>], pos[<<j, g>>], i, j)

\* The only connection in the backlog is the one that the gateway listens for, and
\* that one is there when it is accepted.
Expected(n) == <<pos[n].peer, n[1], n[2], pos[n].stream>>
IsExpected(n) ==
  /\ pos[n].at \in {"listen", "close"}
  /\ HasConnected(pos[<<pos[n].peer, n[2]>>], n[1], pos[n].stream)
BacklogExact ==
  /\ backlog = [n \in Node |-> IF IsExpected(n) THEN <<Expected(n)>> ELSE << >>]
  /\ \A n \in Node : pos[n].at = "close" => IsExpected(n)

\* What was done on a connection is seen in the position of the gateway that made it.
Recorded ==
  /\ \A n \in Node, d \in Cluster, s \in Stream :
       d > n[1] /\ HasConnected(pos[n], d, s) => <<n[1], d, n[2], s>> \in opened
  /\ \A n \in Node, d \in Cluster : <<n[1], d, n[2], 0>> \in greeted => AllConnected(pos[n])

\* An application starts when its gateways are done.
StartedDone == \A c \in started, g \in Gateway : c \in Cluster /\ pos[<<c, g>>].at = "done"

IInv == PositionsTyped /\ PairsInStep /\ BacklogExact /\ Recorded /\ StartedDone /\ broken = {}

-----------------------------------------------------------------------------
(* Lemmas *)

\* Gateways that have not begun to connect have no connections.
LEMMA InitKeepsIInv ==
  ASSUME Connectable, StartupInit
  PROVE  IInv
<1>1. \A n \in Node : pos[n] = At("init", 0, 0)
  BY DEF StartupInit
<1>2. \A i \in Cluster, g \in Gateway : pos[<<i, g>>].at = "init"
  BY <1>1 DEF Node, At
<1>3. PositionsTyped
  BY DEF StartupInit, PositionsTyped, Position, Places, InRange, At
<1>4. PairsInStep
  BY <1>2 DEF PairsInStep, InStep, HasAccepted, HasConnected, HasAwaited
<1>5. \A n \in Node : ~ IsExpected(n) /\ pos[n].at # "close"
  BY <1>1 DEF IsExpected, At
<1>6. BacklogExact
  BY <1>5 DEF BacklogExact, StartupInit
<1>7. Recorded
  <2>1. \A n \in Node : \A d, s : ~ HasConnected(pos[n], d, s)
    BY <1>1 DEF HasConnected, At
  <2>2. greeted = {}
    BY DEF StartupInit
  <2>. QED  BY <2>1, <2>2 DEF Recorded
<1>8. StartedDone /\ broken = {}
  BY DEF StartedDone, StartupInit
<1>. QED  BY <1>3, <1>4, <1>6, <1>7, <1>8 DEF IInv

\* A step of the server, or of the configuration of a job, does not touch the
\* connections.
LEMMA ElsewhereKeepsIInv ==
  ASSUME IInv, UNCHANGED <<pos, tcpVars, started>>
  PROVE  IInv'
<1>1. UNCHANGED <<pos, backlog, opened, broken, greeted, started>>
  BY DEF tcpVars
<1>2. PositionsTyped' /\ PairsInStep'
  BY <1>1 DEF IInv, PositionsTyped, PairsInStep
<1>3. \A n : (IsExpected(n)' <=> IsExpected(n)) /\ Expected(n)' = Expected(n)
  BY <1>1 DEF IsExpected, Expected
<1>4. BacklogExact'
  BY <1>1, <1>3 DEF IInv, BacklogExact
<1>5. Recorded' /\ StartedDone' /\ broken' = {}
  BY <1>1 DEF IInv, Recorded, StartedDone
<1>. QED  BY <1>2, <1>4, <1>5 DEF IInv

\* A gateway is one of its cluster and rank.
LEMMA NodeLemma ==
  ASSUME NEW n \in Node
  PROVE  n[1] \in Cluster /\ n[2] \in Gateway /\ n = <<n[1], n[2]>>
BY DEF Node

\* When one gateway moves, the pairs it is in are looked at again.
LEMMA PairsKept ==
  ASSUME PositionsTyped, PairsInStep, NEW n \in Node, NEW q,
         pos' = [pos EXCEPT ![n] = q],
         \A i \in Cluster : i < n[1] => InStep(pos[<<i, n[2]>>], q, i, n[1]),
         \A j \in Cluster : n[1] < j => InStep(q, pos[<<j, n[2]>>], n[1], j)
  PROVE  PairsInStep'
<1> SUFFICES ASSUME NEW i \in Cluster, NEW j \in Cluster, NEW g \in Gateway, i < j
             PROVE  InStep(pos'[<<i, g>>], pos'[<<j, g>>], i, j)
  BY DEF PairsInStep
<1>1. <<i, g>> \in Node /\ <<j, g>> \in Node /\ i # j /\ i \in Int /\ j \in Int
  BY DEF Node, Cluster
<1>2. pos'[<<i, g>>] = (IF <<i, g>> = n THEN q ELSE pos[<<i, g>>])
  BY <1>1 DEF PositionsTyped
<1>3. pos'[<<j, g>>] = (IF <<j, g>> = n THEN q ELSE pos[<<j, g>>])
  BY <1>1 DEF PositionsTyped
<1>4. CASE <<i, g>> = n
  <2>1. <<j, g>> # n /\ n[1] = i /\ n[2] = g
    BY <1>1, <1>4
  <2>. QED  BY <1>2, <1>3, <1>4, <2>1
<1>5. CASE <<j, g>> = n
  <2>1. <<i, g>> # n /\ n[1] = j /\ n[2] = g
    BY <1>1, <1>5
  <2>. QED  BY <1>2, <1>3, <1>5, <2>1
<1>6. CASE <<i, g>> # n /\ <<j, g>> # n
  BY <1>2, <1>3, <1>6 DEF PairsInStep
<1>. QED  BY <1>4, <1>5, <1>6

\* Whether a gateway has what it expects depends on its own position, and on that of
\* the gateway at the other end.
Pending(q, n) ==
  /\ q.at \in {"listen", "close"}
  /\ HasConnected(pos[<<q.peer, n[2]>>], n[1], q.stream)

\* A gateway moves, and has connected what it had connected: what its position says of
\* the gateways before it is still right, and the others see nothing of it.
LEMMA ReceiverKeepsIInv ==
  ASSUME Connectable, IInv, NEW n \in Node, NEW q \in Position, InRange(q, n[1]),
         pos' = [pos EXCEPT ![n] = q],
         \A d \in Cluster, s \in Stream :
           n[1] < d => (HasConnected(q, d, s) <=> HasConnected(pos[n], d, s)),
         AllConnected(pos[n]) => AllConnected(q),
         pos[n].at = "done" => q.at = "done",
         \A i \in Cluster : i < n[1] => InStep(pos[<<i, n[2]>>], q, i, n[1]),
         backlog' = [backlog EXCEPT ![n] = IF Pending(q, n) THEN <<<<q.peer, n[1], n[2], q.stream>>>>
                                           ELSE << >>],
         q.at = "close" => Pending(q, n),
         UNCHANGED <<opened, broken, started>>,
         \A m \in Node, d \in Cluster :
           <<m[1], d, m[2], 0>> \in greeted' =>
             <<m[1], d, m[2], 0>> \in greeted \/ (m = n /\ AllConnected(q))
  PROVE  IInv'
<1>0. ClusterCount \in Nat
  BY DEF Connectable, StartupAssumption
<1>1. /\ n[1] \in Cluster /\ n[2] \in Gateway /\ n = <<n[1], n[2]>>
      /\ pos'[n] = q /\ \A m \in Node : m # n => pos'[m] = pos[m]
  BY NodeLemma DEF IInv, PositionsTyped
<1>2. PositionsTyped'
  <2>1. pos' \in [Node -> Position]
    BY DEF IInv, PositionsTyped
  <2>2. ASSUME NEW m \in Node PROVE InRange(pos'[m], m[1])
    <3>1. CASE m = n
      BY <1>1, <3>1
    <3>2. CASE m # n
      BY <1>1, <3>2 DEF IInv, PositionsTyped
    <3>. QED  BY <3>1, <3>2
  <2>. QED  BY <2>1, <2>2 DEF PositionsTyped, InRange, Stream
<1>3. PairsInStep'
  <2>1. ASSUME NEW j \in Cluster, n[1] < j
        PROVE  InStep(q, pos[<<j, n[2]>>], n[1], j)
    <3>1. InStep(pos[n], pos[<<j, n[2]>>], n[1], j)
      BY <1>1, <2>1 DEF IInv, PairsInStep
    <3>. QED  BY <2>1, <3>1 DEF InStep
  <2>. QED  BY <2>1, PairsKept DEF IInv
<1>4. ASSUME NEW m \in Node, m # n
      PROVE  (IsExpected(m)' <=> IsExpected(m)) /\ Expected(m)' = Expected(m)
  <2>1. pos'[m] = pos[m]
    BY <1>1, <1>4
  <2>2. CASE pos[m].at \in {"listen", "close"}
    <3>1. /\ m[1] \in Cluster /\ m[2] \in Gateway
          /\ pos[m].peer \in 0 .. m[1] - 1 /\ pos[m].stream \in Stream
      BY <2>2, NodeLemma DEF IInv, PositionsTyped, InRange
    <3> DEFINE k == <<pos[m].peer, m[2]>>
    <3>2. k \in Node /\ k[1] < m[1] /\ pos[m].peer \in Cluster
      BY <1>0, <3>1 DEF Node, Cluster
    <3>3. HasConnected(pos'[k], m[1], pos[m].stream) <=> HasConnected(pos[k], m[1], pos[m].stream)
      <4>1. CASE k = n
        BY <1>1, <3>1, <3>2, <4>1
      <4>2. CASE k # n
        BY <1>1, <3>2, <4>2
      <4>. QED  BY <4>1, <4>2
    <3>. QED  BY <2>1, <3>3 DEF IsExpected, Expected
  <2>3. CASE pos[m].at \notin {"listen", "close"}
    BY <2>1, <2>3 DEF IsExpected, Expected
  <2>. QED  BY <2>2, <2>3
<1>5. (IsExpected(n)' <=> Pending(q, n)) /\ Expected(n)' = <<q.peer, n[1], n[2], q.stream>>
  <2>1. CASE q.at \in {"listen", "close"}
    <3>1. q.peer \in 0 .. n[1] - 1
      BY <2>1 DEF InRange
    <3>2. <<q.peer, n[2]>> \in Node /\ <<q.peer, n[2]>> # n
      BY <1>0, <1>1, <3>1 DEF Node, Cluster
    <3>3. pos'[<<q.peer, n[2]>>] = pos[<<q.peer, n[2]>>]
      BY <1>1, <3>2
    <3>. QED  BY <1>1, <3>3 DEF IsExpected, Expected, Pending
  <2>2. CASE q.at \notin {"listen", "close"}
    BY <1>1, <2>2 DEF IsExpected, Expected, Pending
  <2>. QED  BY <2>1, <2>2
<1>6. BacklogExact'
  <2>1. backlog' = [m \in Node |-> IF IsExpected(m)' THEN <<Expected(m)'>> ELSE << >>]
    <3>1. /\ backlog = [m \in Node |-> IF IsExpected(m) THEN <<Expected(m)>> ELSE << >>]
          /\ backlog' = [m \in Node |->
                           IF m = n THEN IF Pending(q, n) THEN <<<<q.peer, n[1], n[2], q.stream>>>> ELSE << >>
                           ELSE backlog[m]]
      BY DEF IInv, BacklogExact
    <3>2. \A m \in Node : m # n => backlog[m] = IF IsExpected(m) THEN <<Expected(m)>> ELSE << >>
      BY <3>1
    <3>. QED  BY <1>4, <1>5, <3>1, <3>2
  <2>2. \A m \in Node : pos'[m].at = "close" => IsExpected(m)'
    <3>1. \A m \in Node : pos[m].at = "close" => IsExpected(m)
      BY DEF IInv, BacklogExact
    <3>. QED  BY <1>1, <1>4, <1>5, <3>1
  <2>. QED  BY <2>1, <2>2 DEF BacklogExact
<1>7. Recorded'
  <2>1. ASSUME NEW m \in Node, NEW d \in Cluster, NEW s \in Stream,
               d > m[1], HasConnected(pos'[m], d, s)
        PROVE  <<m[1], d, m[2], s>> \in opened
    <3>1. m[1] < d
      BY <2>1 DEF Cluster, Node
    <3>2. HasConnected(pos[m], d, s)
      BY <1>1, <2>1, <3>1
    <3>. QED  BY <2>1, <3>2 DEF IInv, Recorded
  <2>2. ASSUME NEW m \in Node, NEW d \in Cluster, <<m[1], d, m[2], 0>> \in greeted'
        PROVE  AllConnected(pos'[m])
    <3>1. CASE <<m[1], d, m[2], 0>> \in greeted
      <4>1. AllConnected(pos[m])
        BY <3>1 DEF IInv, Recorded
      <4>. QED  BY <1>1, <4>1
    <3>2. CASE m = n /\ AllConnected(q)
      BY <1>1, <3>2
    <3>. QED  BY <2>2, <3>1, <3>2
  <2>3. \A m \in Node, d \in Cluster, s \in Stream :
          d > m[1] /\ HasConnected(pos'[m], d, s) => <<m[1], d, m[2], s>> \in opened'
    BY <2>1
  <2>. QED  BY <2>2, <2>3 DEF Recorded, HasConnected, AllConnected
<1>8. StartedDone'
  <2> SUFFICES ASSUME NEW c \in started, NEW g \in Gateway
               PROVE  c \in Cluster /\ pos'[<<c, g>>].at = "done"
    BY DEF StartedDone
  <2>1. c \in Cluster /\ pos[<<c, g>>].at = "done" /\ <<c, g>> \in Node
    BY DEF IInv, StartedDone, Node
  <2>. QED  BY <1>1, <2>1
<1>9. broken' = {}
  BY DEF IInv
<1>. QED  BY <1>2, <1>3, <1>6, <1>7, <1>8, <1>9 DEF IInv

\* A gateway and one before it are in step, and a gateway that does not listen has no
\* connections waiting.
LEMMA BeforeLemma ==
  ASSUME Connectable, IInv, NEW n \in Node
  PROVE  /\ n[1] \in Nat /\ n[1] < ClusterCount /\ ClusterCount \in Nat /\ n[2] \in Gateway
         /\ pos[n] \in Position /\ InRange(pos[n], n[1])
         /\ \A i \in Cluster : i < n[1] => InStep(pos[<<i, n[2]>>], pos[n], i, n[1])
         /\ backlog = [backlog EXCEPT ![n] = IF IsExpected(n) THEN <<Expected(n)>> ELSE << >>]
         /\ IsExpected(n) <=> Pending(pos[n], n)
<1>1. ClusterCount \in Nat
  BY DEF Connectable, StartupAssumption
<1>2. n[1] \in Cluster /\ n[2] \in Gateway /\ n = <<n[1], n[2]>>
  BY NodeLemma
<1>3. \A i \in Cluster : i < n[1] => InStep(pos[<<i, n[2]>>], pos[n], i, n[1])
  BY <1>2 DEF IInv, PairsInStep
<1>4. backlog = [backlog EXCEPT ![n] = IF IsExpected(n) THEN <<Expected(n)>> ELSE << >>]
  <2>1. backlog = [m \in Node |-> IF IsExpected(m) THEN <<Expected(m)>> ELSE << >>]
    BY DEF IInv, BacklogExact
  <2>2. backlog[n] = IF IsExpected(n) THEN <<Expected(n)>> ELSE << >>
    BY <2>1
  <2>3. backlog = [backlog EXCEPT ![n] = backlog[n]]
    BY <2>1
  <2>. QED  BY <2>2, <2>3
<1>5. pos[n] \in Position /\ InRange(pos[n], n[1])
  BY DEF IInv, PositionsTyped
<1>6. IsExpected(n) <=> Pending(pos[n], n)
  BY DEF IsExpected, Pending
<1>7. n[1] \in Nat /\ n[1] < ClusterCount
  BY <1>1, <1>2 DEF Cluster
<1>. QED  BY <1>1, <1>2, <1>3, <1>4, <1>5, <1>6, <1>7

\* Before it connects a gateway can be anywhere.
Early == {"init", "offer", "forward", "table"}

\* Then it has no connection, and a step to another such place makes none.
LEMMA EarlyKeepsIInv ==
  ASSUME Connectable, IInv, NEW n \in Node, NEW q \in Position, pos[n].at \in Early, q.at \in Early,
         pos' = [pos EXCEPT ![n] = q], UNCHANGED <<tcpVars, started>>
  PROVE  IInv'
<1>1. UNCHANGED <<backlog, opened, broken, greeted>>
  BY DEF tcpVars
<1>2. InRange(q, n[1])
  BY DEF Early, InRange
<1>3. /\ \A d, s : ~ HasConnected(q, d, s) /\ ~ HasConnected(pos[n], d, s)
      /\ \A c, s : /\ ~ HasAccepted(q, c, s) /\ ~ HasAccepted(pos[n], c, s)
                   /\ ~ ListensFor(q, c, s) /\ ~ ListensFor(pos[n], c, s) /\ ~ HasAwaited(q, c)
      /\ ~ AllConnected(pos[n]) /\ q.at # "close" /\ pos[n].at # "done"
  BY DEF Early, HasConnected, HasAccepted, ListensFor, HasAwaited, AllConnected
<1>4. ~ Pending(q, n) /\ ~ IsExpected(n)
  BY DEF Early, Pending, IsExpected
<1>5. \A i \in Cluster : i < n[1] => InStep(pos[<<i, n[2]>>], q, i, n[1])
  BY <1>3, BeforeLemma DEF InStep
<1>6. backlog' = [backlog EXCEPT ![n] = IF Pending(q, n) THEN <<<<q.peer, n[1], n[2], q.stream>>>>
                                        ELSE << >>]
  BY <1>1, <1>4, BeforeLemma
<1>. QED  BY <1>1, <1>2, <1>3, <1>5, <1>6, ReceiverKeepsIInv

\* It turns to the next cluster when it has accepted all connections from the clusters
\* before that one, and heard from them.
LEMMA TurnKeepsIInv ==
  ASSUME Connectable, IInv, NEW n \in Node, NEW i \in Nat, i <= n[1],
         \/ i = 0 /\ pos[n].at = "table"
         \/ pos[n].at = "await" /\ pos[n].peer + 1 = i /\ AllConnected(pos[<<pos[n].peer, n[2]>>]),
         pos' = [pos EXCEPT ![n] = Turn(n, i)], UNCHANGED <<tcpVars, started>>
  PROVE  IInv'
<1>1. UNCHANGED <<backlog, opened, broken, greeted>>
  BY DEF tcpVars
<1>2. PICK q : q = Turn(n, i)
  OBVIOUS
<1>3. /\ n[1] \in Nat /\ n[1] < ClusterCount /\ ClusterCount \in Nat
      /\ \A j \in Cluster : j < n[1] => InStep(pos[<<j, n[2]>>], pos[n], j, n[1])
      /\ backlog = [backlog EXCEPT ![n] = IF IsExpected(n) THEN <<Expected(n)>> ELSE << >>]
      /\ pos[n] \in Position /\ Streams \in Nat /\ Streams > 0
  BY BeforeLemma DEF Connectable, StartupAssumption
<1>4. \/ i < n[1] /\ q = At("listen", i, 0)
      \/ i = n[1] /\ n[1] + 1 < ClusterCount /\ q = At("connect", n[1] + 1, 0)
      \/ i = n[1] /\ ~(n[1] + 1 < ClusterCount) /\ q = At("done", 0, 0)
  BY <1>2, <1>3 DEF Turn
<1>5. q \in Position /\ InRange(q, n[1]) /\ q.at # "close"
  BY <1>3, <1>4 DEF At, Position, Places, InRange, Stream
<1>6. \A d \in Cluster, s \in Stream :
        n[1] < d => (HasConnected(q, d, s) <=> HasConnected(pos[n], d, s))
  BY <1>3, <1>4 DEF At, HasConnected, Cluster, Stream
<1>7. pos[n].at \notin {"listen", "close"} /\ ~ AllConnected(pos[n]) /\ pos[n].at # "done"
  BY DEF AllConnected
<1>8. ASSUME NEW j \in Cluster, j < n[1]
      PROVE  InStep(pos[<<j, n[2]>>], q, j, n[1])
  <2>1. InStep(pos[<<j, n[2]>>], pos[n], j, n[1]) /\ j \in Nat
    BY <1>3, <1>8 DEF Cluster
  <2>2. ASSUME NEW s \in Stream
        PROVE  /\ HasAccepted(q, j, s) <=> HasAccepted(pos[n], j, s)
               /\ ~ ListensFor(pos[n], j, s)
    <3>1. HasAccepted(q, j, s) <=> j < i
      BY <1>3, <1>4, <1>8, <2>1 DEF At, HasAccepted, Stream
    <3>2. HasAccepted(pos[n], j, s) <=> j < i
      <4>1. CASE i = 0 /\ pos[n].at = "table"
        BY <2>1, <4>1 DEF HasAccepted
      <4>2. CASE pos[n].at = "await" /\ pos[n].peer + 1 = i
        <5>1. pos[n].peer \in Int
          BY <1>3 DEF Position
        <5>. QED  BY <2>1, <4>2, <5>1 DEF HasAccepted
      <4>. QED  BY <4>1, <4>2
    <3>. QED  BY <1>7, <3>1, <3>2 DEF ListensFor
  <2>3. HasAwaited(q, j) => AllConnected(pos[<<j, n[2]>>])
    <3>1. HasAwaited(q, j) => j < i
      BY <1>3, <1>4, <1>8, <2>1 DEF At, HasAwaited
    <3>2. CASE i = 0
      BY <2>1, <3>1, <3>2
    <3>3. CASE pos[n].at = "await" /\ pos[n].peer + 1 = i /\ AllConnected(pos[<<pos[n].peer, n[2]>>])
      <4>1. pos[n].peer \in Int
        BY <1>3 DEF Position
      <4>2. j < i => j = pos[n].peer \/ HasAwaited(pos[n], j)
        BY <2>1, <3>3, <4>1 DEF HasAwaited
      <4>. QED  BY <2>1, <3>1, <3>3, <4>2 DEF InStep
    <3>. QED  BY <3>2, <3>3
  <2>. QED  BY <2>1, <2>2, <2>3 DEF InStep
<1>9. ~ Pending(q, n)
  <2> SUFFICES ASSUME Pending(q, n) PROVE FALSE
    OBVIOUS
  <2>1. i < n[1] /\ q.at = "listen" /\ q.peer = i /\ q.stream = 0 /\ i \in Cluster /\ 0 \in Stream
    BY <1>3, <1>4 DEF Pending, At, Cluster, Stream
  <2>2. HasConnected(pos[<<i, n[2]>>], n[1], 0)
    BY <2>1 DEF Pending
  <2>3. HasAccepted(pos[n], i, 0) \/ ListensFor(pos[n], i, 0)
    BY <1>3, <2>1, <2>2 DEF InStep
  <2>4. pos[n].peer \in Int
    BY <1>3 DEF Position
  <2>. QED  BY <1>7, <2>3, <2>4 DEF HasAccepted, ListensFor
<1>10. ~ IsExpected(n)
  BY <1>7 DEF IsExpected
<1>. QED  BY <1>1, <1>2, <1>3, <1>5, <1>6, <1>7, <1>8, <1>9, <1>10, ReceiverKeepsIInv

\* It accepts the one connection there is, which is the one it listens for.
LEMMA AcceptKeepsIInv ==
  ASSUME Connectable, IInv, NEW n \in Node, Accept(n)
  PROVE  IInv'
<1>1. UNCHANGED <<backlog, opened, broken, greeted, started>>
  BY DEF Accept, tcpVars
<1>2. PICK q : q = [pos[n] EXCEPT !.at = "close"]
  OBVIOUS
<1>3. /\ pos[n] \in Position /\ InRange(pos[n], n[1])
      /\ \A i \in Cluster : i < n[1] => InStep(pos[<<i, n[2]>>], pos[n], i, n[1])
      /\ backlog = [backlog EXCEPT ![n] = IF IsExpected(n) THEN <<Expected(n)>> ELSE << >>]
      /\ IsExpected(n) <=> Pending(pos[n], n)
  BY BeforeLemma
<1>4. pos' = [pos EXCEPT ![n] = q] /\ pos[n].at = "listen"
  BY <1>2 DEF Accept
<1>5. q \in Position /\ q.at = "close" /\ q.peer = pos[n].peer /\ q.stream = pos[n].stream
  BY <1>2, <1>3 DEF Position, Places
<1>6. InRange(q, n[1])
  BY <1>3, <1>4, <1>5 DEF InRange
<1>7. /\ \A d, s : /\ HasConnected(q, d, s) <=> HasConnected(pos[n], d, s)
                   /\ HasAccepted(q, d, s) <=> HasAccepted(pos[n], d, s)
                   /\ ListensFor(q, d, s) <=> ListensFor(pos[n], d, s)
                   /\ HasAwaited(q, d) <=> HasAwaited(pos[n], d)
      /\ ~ AllConnected(pos[n]) /\ pos[n].at # "done"
  BY <1>4, <1>5 DEF HasConnected, HasAccepted, ListensFor, HasAwaited, AllConnected
<1>8. \A i \in Cluster : i < n[1] => InStep(pos[<<i, n[2]>>], q, i, n[1])
  BY <1>3, <1>7 DEF InStep
<1>9. (Pending(q, n) <=> IsExpected(n)) /\ <<q.peer, n[1], n[2], q.stream>> = Expected(n)
  BY <1>3, <1>4, <1>5 DEF Pending, Expected
<1>10. Pending(q, n)
  <2>1. backlog[n] # << >>
    BY DEF Accept
  <2>2. backlog[n] = IF IsExpected(n) THEN <<Expected(n)>> ELSE << >>
    BY DEF IInv, BacklogExact
  <2>. QED  BY <1>9, <2>1, <2>2
<1>. QED  BY <1>1, <1>3, <1>4, <1>5, <1>6, <1>7, <1>8, <1>9, <1>10, ReceiverKeepsIInv

\* And closes the listening socket, on which nothing else is waiting.
LEMMA CloseKeepsIInv ==
  ASSUME Connectable, IInv, NEW n \in Node, CloseListener(n)
  PROVE  IInv'
<1> PICK p : p = pos[n]
  OBVIOUS
<1>1. /\ n[1] \in Nat /\ n[1] < ClusterCount /\ p \in Position /\ InRange(p, n[1])
      /\ \A i \in Cluster : i < n[1] => InStep(pos[<<i, n[2]>>], p, i, n[1])
      /\ Streams \in Nat /\ ClusterCount \in Nat
  BY BeforeLemma DEF Connectable, StartupAssumption
<1>2. p.at = "close" /\ p.peer \in Cluster /\ p.peer \in Nat /\ p.peer < n[1] /\ p.stream \in Stream
  BY <1>1 DEF CloseListener, InRange, Cluster
<1>3. IsExpected(n) /\ backlog[n] = <<Expected(n)>>
  BY <1>2 DEF IInv, BacklogExact
<1>4. Head(backlog[n])[1] = p.peer /\ { backlog[n][i] : i \in 2 .. Len(backlog[n]) } = {}
  BY <1>3 DEF Expected
<1>5. PICK q : q = IF p.stream + 1 < Streams THEN At("listen", p.peer, p.stream + 1)
                                             ELSE At("await", p.peer, 0)
  OBVIOUS
<1>6. /\ pos' = [pos EXCEPT ![n] = q] /\ backlog' = [backlog EXCEPT ![n] = << >>]
      /\ UNCHANGED <<opened, broken, greeted, started>>
  BY <1>4, <1>5 DEF CloseListener
<1>7. q \in Position /\ InRange(q, n[1]) /\ q.at # "close"
  BY <1>1, <1>2, <1>5 DEF Position, Places, InRange, At, Stream
<1>8. /\ \A d, s : ~ HasConnected(q, d, s) /\ ~ HasConnected(p, d, s)
      /\ ~ AllConnected(p) /\ p.at # "done"
  BY <1>2, <1>5 DEF HasConnected, AllConnected, At
<1>9. HasConnected(pos[<<p.peer, n[2]>>], n[1], p.stream)
  BY <1>3 DEF IsExpected
<1>10. ASSUME NEW i \in Cluster, i < n[1]
       PROVE  InStep(pos[<<i, n[2]>>], q, i, n[1])
  <2>1. InStep(pos[<<i, n[2]>>], p, i, n[1]) /\ i \in Nat
    BY <1>1, <1>10 DEF Cluster
  <2>2. ASSUME NEW s \in Stream
        PROVE  HasAccepted(q, i, s) <=> HasAccepted(p, i, s) \/ ListensFor(p, i, s)
    <3>1. s \in Nat /\ s < Streams /\ p.stream \in Nat
      BY <1>1, <1>2 DEF Stream
    <3>2. HasAccepted(p, i, s) \/ ListensFor(p, i, s)
            <=> i < p.peer \/ (i = p.peer /\ s <= p.stream)
      BY <1>2, <2>1, <3>1 DEF HasAccepted, ListensFor
    <3>3. CASE p.stream + 1 < Streams
      <4>1. q.at = "listen" /\ q.peer = p.peer /\ q.stream = p.stream + 1
        BY <1>5, <3>3 DEF At
      <4>. QED  BY <1>2, <2>1, <3>1, <3>2, <4>1 DEF HasAccepted
    <3>4. CASE ~ (p.stream + 1 < Streams)
      <4>1. q.at = "await" /\ q.peer = p.peer
        BY <1>5, <3>4 DEF At
      <4>2. s <= p.stream
        BY <1>1, <3>1, <3>4
      <4>. QED  BY <1>2, <2>1, <3>2, <4>1, <4>2 DEF HasAccepted
    <3>. QED  BY <3>3, <3>4
  <2>3. \A s : ListensFor(p, i, s) => HasConnected(pos[<<i, n[2]>>], n[1], s)
    BY <1>9 DEF ListensFor
  <2>4. HasAwaited(q, i) <=> HasAwaited(p, i)
    BY <1>2, <1>5 DEF HasAwaited, At
  <2>. QED  BY <2>1, <2>2, <2>3, <2>4 DEF InStep
<1>11. ~ Pending(q, n)
  <2> SUFFICES ASSUME Pending(q, n) PROVE FALSE
    OBVIOUS
  <2>1. /\ p.stream + 1 \in Stream
        /\ HasConnected(pos[<<p.peer, n[2]>>], n[1], p.stream + 1)
    BY <1>1, <1>2, <1>5 DEF Pending, At, Stream
  <2>2. HasAccepted(p, p.peer, p.stream + 1) \/ ListensFor(p, p.peer, p.stream + 1)
    BY <1>1, <1>2, <2>1 DEF InStep
  <2>3. p.stream \in Nat
    BY <1>2 DEF Stream
  <2>. QED  BY <1>2, <2>2, <2>3 DEF HasAccepted, ListensFor
<1>. QED  BY <1>1, <1>6, <1>7, <1>8, <1>10, <1>11, ReceiverKeepsIInv

\* It tells that its connections are made when they are.
LEMMA SendReadyKeepsIInv ==
  ASSUME Connectable, IInv, NEW n \in Node, SendReady(n)
  PROVE  IInv'
<1> PICK p : p = pos[n]
  OBVIOUS
<1>1. /\ n[1] \in Nat /\ p \in Position /\ InRange(p, n[1]) /\ ClusterCount \in Nat
      /\ \A i \in Cluster : i < n[1] => InStep(pos[<<i, n[2]>>], p, i, n[1])
      /\ backlog = [backlog EXCEPT ![n] = IF IsExpected(n) THEN <<Expected(n)>> ELSE << >>]
  BY BeforeLemma
<1>2. p.at = "greet" /\ p.peer \in n[1] + 1 .. ClusterCount - 1
  BY <1>1 DEF SendReady, InRange
<1>3. PICK q : q = IF p.peer + 1 < ClusterCount THEN At("greet", p.peer + 1, 0) ELSE At("done", 0, 0)
  OBVIOUS
<1>4. /\ pos' = [pos EXCEPT ![n] = q] /\ UNCHANGED <<backlog, opened, broken, started>>
      /\ greeted' = greeted \cup {<<n[1], p.peer, n[2], 0>>}
  <2>1. broken = {} /\ SendFully(<<n[1], p.peer, n[2], 0>>) = {TRUE}
    BY DEF IInv, SendFully
  <2>2. PICK written \in SendFully(<<n[1], p.peer, n[2], 0>>) :
          written => /\ greeted' = greeted \cup ({<<n[1], p.peer, n[2], 0>>} \ broken)
                     /\ pos' = [pos EXCEPT ![n] = q] /\ UNCHANGED <<backlog, broken>>
    BY <1>3, Zenon DEF SendReady
  <2>3. written
    BY <2>1, <2>2
  <2>4. UNCHANGED <<opened, started>>
    BY DEF SendReady
  <2>. QED  BY <2>1, <2>2, <2>3, <2>4
<1>5. q \in Position /\ InRange(q, n[1]) /\ q.at \in {"greet", "done"}
  BY <1>1, <1>2, <1>3 DEF Position, Places, InRange, At
<1>6. /\ \A d, s : /\ HasConnected(q, d, s) /\ HasConnected(p, d, s)
                   /\ HasAccepted(q, d, s) /\ HasAccepted(p, d, s)
                   /\ HasAwaited(q, d) /\ HasAwaited(p, d)
      /\ AllConnected(q) /\ q.at # "close" /\ p.at # "done"
  BY <1>2, <1>5 DEF HasConnected, HasAccepted, HasAwaited, AllConnected
<1>7. ~ Pending(q, n) /\ ~ IsExpected(n)
  BY <1>2, <1>5 DEF Pending, IsExpected
<1>8. \A i \in Cluster : i < n[1] => InStep(pos[<<i, n[2]>>], q, i, n[1])
  BY <1>1, <1>6 DEF InStep
<1>9. ASSUME NEW m \in Node, NEW d \in Cluster, <<m[1], d, m[2], 0>> \in greeted'
      PROVE  <<m[1], d, m[2], 0>> \in greeted \/ (m = n /\ AllConnected(q))
  <2>1. <<m[1], d, m[2], 0>> \in greeted \/ (m[1] = n[1] /\ m[2] = n[2])
    BY <1>4, <1>9
  <2>. QED  BY <1>6, <2>1, NodeLemma
<1>10. backlog' = [backlog EXCEPT ![n] = IF Pending(q, n) THEN <<<<q.peer, n[1], n[2], q.stream>>>>
                                        ELSE << >>]
  BY <1>1, <1>4, <1>7
<1>. QED  BY <1>4, <1>5, <1>6, <1>8, <1>9, <1>10, ReceiverKeepsIInv

\* A connection that succeeds finds the socket that is meant for it: all gateways
\* before this one are connected with that gateway, and with more than one stream
\* each of them has the next connection open before the listener is for another.
LEMMA ListenerIsForMe ==
  ASSUME Connectable, IInv, NEW n \in Node, pos[n].at = "connect", NEW m \in Node,
         m = <<pos[n].peer, n[2]>>, Listens(m, pos[n].stream)
  PROVE  ListensFor(pos[m], n[1], pos[n].stream)
<1> PICK d, t, g : d = pos[n].peer /\ t = pos[n].stream /\ g = n[2]
  OBVIOUS
<1>1. /\ n[1] \in Cluster /\ g \in Gateway /\ n = <<n[1], g>> /\ n[1] \in Nat
      /\ ClusterCount \in Nat /\ Streams \in Nat /\ Streams > 1
      /\ InRange(pos[n], n[1]) /\ InRange(pos[m], m[1])
  BY NodeLemma, BeforeLemma DEF Connectable, StartupAssumption
<1>2. d \in n[1] + 1 .. ClusterCount - 1 /\ t \in Stream /\ d \in Cluster /\ d \in Nat /\ n[1] < d
  BY <1>1 DEF InRange, Cluster
<1>3. m = <<d, g>> /\ m[1] = d
  OBVIOUS
<1>4. pos[m].at \in {"listen", "close"} /\ pos[m].stream = t
  BY DEF Listens
<1> PICK r : r = pos[m].peer
  OBVIOUS
<1>5. r \in Nat /\ r < d /\ r \in Cluster
  BY <1>1, <1>2, <1>3, <1>4 DEF InRange, Cluster
<1>6. /\ \A i \in Cluster : i < d => InStep(pos[<<i, g>>], pos[m], i, d)
      /\ \A i \in Cluster : i < n[1] => InStep(pos[<<i, g>>], pos[n], i, n[1])
  BY <1>3, BeforeLemma
<1>7. InStep(pos[n], pos[m], n[1], d)
  BY <1>1, <1>2, <1>6
<1>8. r <= n[1]
  <2>1. ~ HasConnected(pos[n], d, t)
    BY <1>2 DEF HasConnected, Stream
  <2>2. ~ HasAccepted(pos[m], n[1], t)
    BY <1>2, <1>7, <2>1 DEF InStep
  <2>. QED  BY <1>1, <1>4, <1>5, <2>2 DEF HasAccepted
<1>9. ASSUME r < n[1] PROVE FALSE
  <2>1. AllConnected(pos[<<r, g>>])
    <3>1. HasAwaited(pos[n], r)
      BY DEF HasAwaited
    <3>. QED  BY <1>5, <1>6, <1>9, <3>1 DEF InStep
  <2>2. \A u \in Stream : HasConnected(pos[<<r, g>>], d, u)
    BY <2>1 DEF AllConnected, HasConnected
  <2>3. \A u \in Stream : HasAccepted(pos[m], r, u) \/ ListensFor(pos[m], r, u)
    BY <1>5, <1>6, <2>2 DEF InStep
  <2>4. CASE t = 0
    <3>1. 1 \in Stream
      BY <1>1 DEF Stream
    <3>2. HasAccepted(pos[m], r, 1) \/ ListensFor(pos[m], r, 1)
      BY <2>3, <3>1
    <3>. QED  BY <1>4, <1>5, <2>4, <3>2 DEF HasAccepted, ListensFor
  <2>5. CASE t > 0
    <3>1. 0 \in Stream
      BY <1>1 DEF Stream
    <3>2. HasConnected(pos[n], d, 0)
      BY <2>5 DEF HasConnected
    <3>3. HasAccepted(pos[m], n[1], 0) \/ ListensFor(pos[m], n[1], 0)
      BY <1>7, <3>1, <3>2 DEF InStep
    <3>. QED  BY <1>1, <1>4, <1>5, <1>9, <3>3 DEF HasAccepted, ListensFor
  <2>. QED  BY <1>2, <2>4, <2>5 DEF Stream
<1>. QED  BY <1>1, <1>4, <1>5, <1>8, <1>9 DEF ListensFor

\* What a gateway has after it has made a connection.
LEMMA ConnectedNext ==
  ASSUME Connectable, NEW c \in Nat, NEW p \in Position, p.at = "connect", InRange(p, c), NEW q,
         q = IF p.stream + 1 < Streams THEN At("connect", p.peer, p.stream + 1)
             ELSE IF p.peer + 1 < ClusterCount THEN At("connect", p.peer + 1, 0)
             ELSE At("greet", c + 1, 0)
  PROVE  /\ q \in Position /\ InRange(q, c) /\ q.at \in {"connect", "greet"}
         /\ \A e \in Cluster, s \in Stream :
              HasConnected(q, e, s) <=> HasConnected(p, e, s) \/ (e = p.peer /\ s = p.stream)
<1>1. ClusterCount \in Nat /\ Streams \in Nat /\ Streams > 1
  BY DEF Connectable, StartupAssumption
<1>2. p.peer \in Nat /\ c + 1 <= p.peer /\ p.peer < ClusterCount /\ p.stream \in Nat /\ p.stream < Streams
  BY <1>1 DEF InRange, Stream
<1>3. CASE p.stream + 1 < Streams
  <2>1. q.at = "connect" /\ q.peer = p.peer /\ q.stream = p.stream + 1 /\ q \in Position
    BY <1>2, <1>3 DEF At, Position, Places
  <2>. QED  BY <1>1, <1>2, <1>3, <2>1 DEF InRange, HasConnected, Stream, Cluster
<1>4. CASE ~ (p.stream + 1 < Streams) /\ p.peer + 1 < ClusterCount
  <2>1. q.at = "connect" /\ q.peer = p.peer + 1 /\ q.stream = 0 /\ q \in Position
    BY <1>2, <1>4 DEF At, Position, Places
  <2>. QED  BY <1>1, <1>2, <1>4, <2>1 DEF InRange, HasConnected, Stream, Cluster
<1>5. CASE ~ (p.stream + 1 < Streams) /\ ~ (p.peer + 1 < ClusterCount)
  <2>1. q.at = "greet" /\ q.peer = c + 1 /\ q \in Position
    BY <1>2, <1>5 DEF At, Position, Places
  <2>. QED  BY <1>1, <1>2, <1>5, <2>1 DEF InRange, HasConnected, Stream, Cluster
<1>. QED  BY <1>3, <1>4, <1>5

\* A connection is put in the empty backlog of the gateway that listens for it.
LEMMA ConnectKeepsIInv ==
  ASSUME Connectable, IInv, NEW n \in Node, ConnectStream(n)
  PROVE  IInv'
<1> PICK p : p = pos[n]
  OBVIOUS
<1> PICK m, k : m = <<p.peer, n[2]>> /\ k = <<n[1], p.peer, n[2], p.stream>>
  OBVIOUS
<1>1. /\ n[1] \in Nat /\ n[1] \in Cluster /\ n[2] \in Gateway /\ n = <<n[1], n[2]>>
      /\ ClusterCount \in Nat /\ p \in Position /\ InRange(p, n[1]) /\ p.at = "connect"
      /\ \A i \in Cluster : i < n[1] => InStep(pos[<<i, n[2]>>], p, i, n[1])
  BY NodeLemma, BeforeLemma DEF ConnectStream
<1>2. /\ p.peer \in Cluster /\ p.peer \in Nat /\ n[1] < p.peer /\ p.stream \in Stream /\ m \in Node /\ m # n
      /\ m[1] = p.peer /\ m[2] = n[2]
  BY <1>1 DEF InRange, Cluster, Node
<1>3. PICK q : q = IF p.stream + 1 < Streams THEN At("connect", p.peer, p.stream + 1)
                   ELSE IF p.peer + 1 < ClusterCount THEN At("connect", p.peer + 1, 0)
                   ELSE At("greet", n[1] + 1, 0)
  OBVIOUS
<1>4. /\ Listens(m, p.stream) /\ backlog' = [backlog EXCEPT ![m] = Append(@, k)]
      /\ opened' = opened \cup {k} /\ pos' = [pos EXCEPT ![n] = q]
      /\ UNCHANGED <<broken, greeted, started>>
  BY <1>3 DEF ConnectStream
<1>5. /\ q \in Position /\ InRange(q, n[1]) /\ q.at \in {"connect", "greet"}
      /\ \A e \in Cluster, s \in Stream :
           HasConnected(q, e, s) <=> HasConnected(p, e, s) \/ (e = p.peer /\ s = p.stream)
  BY <1>1, <1>3, ConnectedNext
<1>6. ListensFor(pos[m], n[1], p.stream)
  BY <1>1, <1>2, <1>4, ListenerIsForMe
<1>7. /\ pos'[n] = q /\ pos'[m] = pos[m] /\ \A x \in Node : x # n => pos'[x] = pos[x]
  BY <1>2, <1>4 DEF IInv, PositionsTyped
<1>8. PositionsTyped'
  <2>1. pos' \in [Node -> Position]
    BY <1>4, <1>5 DEF IInv, PositionsTyped
  <2>2. ASSUME NEW x \in Node PROVE InRange(pos'[x], x[1])
    BY <1>5, <1>7 DEF IInv, PositionsTyped
  <2>. QED  BY <2>1, <2>2 DEF PositionsTyped, InRange, Stream
<1>9. PairsInStep'
  <2>1. ASSUME NEW i \in Cluster, i < n[1]
        PROVE  InStep(pos[<<i, n[2]>>], q, i, n[1])
    <3>1. InStep(pos[<<i, n[2]>>], p, i, n[1])
      BY <1>1, <2>1
    <3>2. \A s : /\ HasAccepted(q, i, s) /\ HasAccepted(p, i, s)
                 /\ HasAwaited(q, i) /\ HasAwaited(p, i)
      BY <1>1, <1>5 DEF HasAccepted, HasAwaited
    <3>. QED  BY <3>1, <3>2 DEF InStep
  <2>2. ASSUME NEW j \in Cluster, n[1] < j
        PROVE  InStep(q, pos[<<j, n[2]>>], n[1], j)
    <3>1. InStep(p, pos[<<j, n[2]>>], n[1], j)
      BY <1>1, <2>2 DEF IInv, PairsInStep
    <3>2. ~ AllConnected(p)
      BY <1>1 DEF AllConnected
    <3>3. \A s \in Stream : j = p.peer /\ s = p.stream => ListensFor(pos[<<j, n[2]>>], n[1], s)
      BY <1>6
    <3>. QED  BY <1>5, <3>1, <3>2, <3>3 DEF InStep
  <2>. QED  BY <1>4, <2>1, <2>2, PairsKept DEF IInv
<1>10. ASSUME NEW x \in Node, x # m
       PROVE  (IsExpected(x)' <=> IsExpected(x)) /\ (IsExpected(x) => Expected(x)' = Expected(x))
  <2>1. CASE x = n
    BY <1>1, <1>5, <1>7, <2>1 DEF IsExpected
  <2>2. CASE x # n /\ pos[x].at \in {"listen", "close"}
    <3> DEFINE y == <<pos[x].peer, x[2]>>
    <3>1. pos'[x] = pos[x]
      BY <1>7, <2>2
    <3>2. x[1] \in Cluster /\ pos[x].stream \in Stream /\ y \in Node
      <4>1. /\ x[1] \in Cluster /\ x[1] \in Nat /\ x[1] < ClusterCount /\ x[2] \in Gateway
            /\ InRange(pos[x], x[1])
        BY NodeLemma, BeforeLemma
      <4>. QED  BY <1>1, <2>2, <4>1 DEF InRange, Cluster, Node
    <3>3. HasConnected(pos'[y], x[1], pos[x].stream) <=> HasConnected(pos[y], x[1], pos[x].stream)
      <4>1. CASE y = n
        <5>1. x[1] # p.peer
          BY <1>2, <1>10, <4>1, NodeLemma
        <5>. QED  BY <1>5, <1>7, <3>2, <4>1, <5>1
      <4>2. CASE y # n
        BY <1>7, <3>2, <4>2
      <4>. QED  BY <4>1, <4>2
    <3>. QED  BY <3>1, <3>3 DEF IsExpected, Expected
  <2>3. CASE x # n /\ pos[x].at \notin {"listen", "close"}
    BY <1>7, <2>3 DEF IsExpected
  <2>. QED  BY <2>1, <2>2, <2>3
<1>11. /\ pos[m].at \in {"listen", "close"} /\ pos[m].peer = n[1] /\ pos[m].stream = p.stream
       /\ <<pos[m].peer, m[2]>> = n
  BY <1>1, <1>2, <1>6 DEF ListensFor
<1>12. ~ IsExpected(m) /\ IsExpected(m)' /\ Expected(m)' = k
  <2>1. ~ HasConnected(p, m[1], p.stream)
    BY <1>1, <1>2 DEF HasConnected, Stream
  <2>2. HasConnected(q, m[1], p.stream)
    BY <1>2, <1>5
  <2>. QED  BY <1>2, <1>7, <1>11, <2>1, <2>2 DEF IsExpected, Expected
<1>13. BacklogExact'
  <2>1. backlog = [x \in Node |-> IF IsExpected(x) THEN <<Expected(x)>> ELSE << >>]
    BY DEF IInv, BacklogExact
  <2>2. backlog[m] = << >> /\ Append(backlog[m], k) = <<k>>
    BY <1>2, <1>12, <2>1
  <2>3. backlog' = [x \in Node |-> IF x = m THEN <<k>> ELSE backlog[x]]
    BY <1>4, <2>1, <2>2
  <2>4. backlog' = [x \in Node |-> IF IsExpected(x)' THEN <<Expected(x)'>> ELSE << >>]
    <3>1. \A x \in Node : x # m => backlog[x] = IF IsExpected(x) THEN <<Expected(x)>> ELSE << >>
      BY <2>1
    <3>. QED  BY <1>10, <1>12, <2>3, <3>1
  <2>5. ASSUME NEW x \in Node, pos'[x].at = "close" PROVE IsExpected(x)'
    <3>1. CASE x = m
      BY <1>12, <3>1
    <3>2. CASE x # m
      <4>1. x # n /\ pos[x].at = "close"
        BY <1>5, <1>7, <2>5
      <4>. QED  BY <1>10, <3>2, <4>1 DEF IInv, BacklogExact
    <3>. QED  BY <3>1, <3>2
  <2>. QED  BY <2>4, <2>5 DEF BacklogExact
<1>14. Recorded'
  <2>1. ASSUME NEW x \in Node, NEW d \in Cluster, NEW s \in Stream,
               d > x[1], HasConnected(pos'[x], d, s)
        PROVE  <<x[1], d, x[2], s>> \in opened'
    <3>1. CASE HasConnected(pos[x], d, s)
      BY <1>4, <2>1, <3>1 DEF IInv, Recorded
    <3>2. CASE ~ HasConnected(pos[x], d, s)
      <4>1. x = n
        BY <1>7, <2>1, <3>2
      <4>2. d = p.peer /\ s = p.stream
        BY <1>5, <1>7, <2>1, <3>2, <4>1
      <4>. QED  BY <1>4, <4>1, <4>2
    <3>. QED  BY <3>1, <3>2
  <2>2. ASSUME NEW x \in Node, NEW d \in Cluster, <<x[1], d, x[2], 0>> \in greeted
        PROVE  AllConnected(pos'[x])
    <3>1. AllConnected(pos[x])
      BY <2>2 DEF IInv, Recorded
    <3>2. x # n
      BY <1>1, <3>1 DEF AllConnected
    <3>. QED  BY <1>7, <3>1, <3>2
  <2>. QED  BY <1>4, <2>1, <2>2 DEF Recorded, HasConnected, AllConnected
<1>15. StartedDone'
  <2> SUFFICES ASSUME NEW c \in started, NEW g \in Gateway
               PROVE  c \in Cluster /\ pos'[<<c, g>>].at = "done"
    BY <1>4 DEF StartedDone
  <2>1. c \in Cluster /\ pos[<<c, g>>].at = "done" /\ <<c, g>> \in Node
    BY DEF IInv, StartedDone, Node
  <2>. QED  BY <1>1, <1>7, <2>1
<1>. QED  BY <1>4, <1>8, <1>9, <1>13, <1>14, <1>15 DEF IInv

\* An application starts.
LEMMA StartKeepsIInv ==
  ASSUME IInv, NEW c \in Cluster, StartApplication(c)
  PROVE  IInv'
<1>1. /\ UNCHANGED <<pos, backlog, opened, broken, greeted>> /\ started' = started \cup {c}
      /\ \A g \in Gateway : pos[<<c, g>>].at = "done"
  BY DEF StartApplication, tcpVars
<1>2. PositionsTyped' /\ PairsInStep'
  BY <1>1 DEF IInv, PositionsTyped, PairsInStep
<1>3. \A n : (IsExpected(n)' <=> IsExpected(n)) /\ Expected(n)' = Expected(n)
  BY <1>1 DEF IsExpected, Expected
<1>4. BacklogExact'
  BY <1>1, <1>3 DEF IInv, BacklogExact
<1>5. Recorded' /\ StartedDone' /\ broken' = {}
  BY <1>1 DEF IInv, Recorded, StartedDone
<1>. QED  BY <1>2, <1>4, <1>5 DEF IInv

\* Every step keeps the invariant.
LEMMA NextKeepsIInv ==
  ASSUME Connectable, IInv, [StartupNext]_startupVars
  PROVE  IInv'
<1> USE DEF serverVars, infoVars
<1>1. CASE ServerStep \/ (\E j \in Jobs : ReadConfig(j) \/ ConnectToServer(j)) \/ UNCHANGED startupVars
  <2>1. UNCHANGED <<pos, tcpVars, started>>
    BY <1>1 DEF ServerStep, Handshake, ReceiveGatewayInfo, SendAllGatewayInfo, SetReady, StartMessaging,
                ReadConfig, ConnectToServer, startupVars
  <2>. QED  BY <2>1, ElsewhereKeepsIInv
<1>2. ASSUME NEW n \in Node, ReceiveConfig(n) PROVE IInv'
  <2>1. PICK q : q = At(IF n[2] = 0 THEN "forward" ELSE "offer", 0, 0)
    OBVIOUS
  <2>2. pos' = [pos EXCEPT ![n] = q] /\ UNCHANGED <<tcpVars, started>> /\ pos[n].at = "init"
    BY <1>2, <2>1 DEF ReceiveConfig, HasAddress, Connectable, tcpVars
  <2>3. q \in Position /\ q.at \in Early /\ pos[n].at \in Early
    BY <2>1, <2>2 DEF At, Position, Places, Early
  <2>. QED  BY <2>2, <2>3, EarlyKeepsIInv
<1>3. ASSUME NEW n \in Node, OfferInfo(n) PROVE IInv'
  <2>1. At("table", 0, 0) \in Position /\ At("table", 0, 0).at \in Early /\ pos[n].at \in Early
    BY <1>3 DEF At, Position, Places, Early, OfferInfo
  <2>. QED  BY <1>3, <2>1, EarlyKeepsIInv DEF OfferInfo
<1>4. ASSUME NEW c \in Cluster, ForwardInfo(c) \/ TellGateway(c) PROVE IInv'
  <2> PICK n : n = <<c, 0>>
    OBVIOUS
  <2>1. n \in Node /\ UNCHANGED <<tcpVars, started>> /\ n[1] = c /\ c \in Nat
    <3>1. GatewayCount \in Nat \ {0} /\ ClusterCount \in Nat
      BY DEF Connectable, StartupAssumption
    <3>. QED  BY <1>4, <3>1 DEF Node, Gateway, Cluster, ForwardInfo, TellGateway
  <2>2. CASE UNCHANGED pos
    BY <2>1, <2>2, ElsewhereKeepsIInv
  <2>3. CASE ForwardInfo(c) /\ pos' = [pos EXCEPT ![n] = At("table", 0, 0)]
    <3>1. At("table", 0, 0) \in Position /\ At("table", 0, 0).at \in Early /\ pos[n].at \in Early
      BY <2>3 DEF At, Position, Places, Early, ForwardInfo
    <3>. QED  BY <2>1, <2>3, <3>1, EarlyKeepsIInv
  <2>4. CASE TellGateway(c) /\ pos' = [pos EXCEPT ![n] = Turn(n, 0)]
    <3>1. pos[n].at = "table"
      BY <2>4 DEF TellGateway
    <3>2. 0 \in Nat /\ 0 <= n[1]
      BY <2>1
    <3>. QED  BY <2>1, <2>4, <3>1, <3>2, TurnKeepsIInv
  <2>. QED  BY <1>4, <2>2, <2>3, <2>4 DEF ForwardInfo, TellGateway
<1>5. ASSUME NEW n \in Node, ReceiveTable(n) PROVE IInv'
  <2>1. n[1] \in Nat /\ 0 <= n[1]
    BY BeforeLemma
  <2>. QED  BY <1>5, <2>1, TurnKeepsIInv DEF ReceiveTable
<1>6. ASSUME NEW n \in Node, AwaitReady(n) PROVE IInv'
  <2> PICK i : i = pos[n].peer
    OBVIOUS
  <2>1. /\ pos[n].at = "await" /\ <<i, n[1], n[2], 0>> \in greeted
        /\ pos' = [pos EXCEPT ![n] = Turn(n, i + 1)] /\ UNCHANGED <<tcpVars, started>>
    BY <1>6 DEF AwaitReady, ReadyReceived, ReceiveFully
  <2>2. /\ n[1] \in Nat /\ n[1] < ClusterCount /\ ClusterCount \in Nat /\ n[1] \in Cluster
        /\ n[2] \in Gateway /\ InRange(pos[n], n[1])
    BY NodeLemma, BeforeLemma
  <2>3. i \in Nat /\ i + 1 \in Nat /\ i + 1 <= n[1] /\ <<i, n[2]>> \in Node
    BY <2>1, <2>2 DEF InRange, Node, Cluster
  <2>4. AllConnected(pos[<<i, n[2]>>])
    BY <2>1, <2>2, <2>3 DEF IInv, Recorded
  <2>. QED  BY <2>1, <2>3, <2>4, TurnKeepsIInv
<1>7. ASSUME NEW n \in Node,
             ReceiveConfig(n) \/ OfferInfo(n) \/ ReceiveTable(n) \/ Accept(n) \/ CloseListener(n)
               \/ AwaitReady(n) \/ ConnectStream(n) \/ SendReady(n)
      PROVE  IInv'
  BY <1>2, <1>3, <1>5, <1>6, <1>7, AcceptKeepsIInv, CloseKeepsIInv, ConnectKeepsIInv, SendReadyKeepsIInv
<1>8. CASE GatewayStep
  BY <1>4, <1>7, <1>8, StartKeepsIInv DEF GatewayStep
<1>. QED  BY <1>1, <1>8 DEF StartupNext

\* With more than one stream, and gateways that all have an address, every reachable
\* state satisfies the invariant.
THEOREM ConnectionsInStep ==
  ASSUME Connectable
  PROVE  StartupSpec => []IInv
<1>1. StartupInit => IInv
  BY InitKeepsIInv
<1>2. IInv /\ [StartupNext]_startupVars => IInv'
  BY NextKeepsIInv
<1>. QED  BY <1>1, <1>2, PTL DEF StartupSpec

\* An application that has started has all the connections of its gateways: no gateway
\* took one for another, and none was reset when a listening socket was closed
\* (connect_gateways, socket_accept and socket_connect).
THEOREM StartsConnectedHolds ==
  ASSUME Connectable
  PROVE  StartupSpec => []StartsConnected
<1>1. IInv => StartsConnected
  <2> SUFFICES ASSUME IInv, NEW k \in Connection, k[1] \in started \/ k[2] \in started
               PROVE  k \in opened \ broken
    BY DEF StartsConnected
  <2>1. PICK i, j, g, s : i = k[1] /\ j = k[2] /\ g = k[3] /\ s = k[4]
    OBVIOUS
  <2>2. /\ k = <<i, j, g, s>> /\ i \in Cluster /\ j \in Cluster /\ g \in Gateway /\ s \in Stream
        /\ i < j /\ i \in Int /\ j \in Int
    BY <2>1 DEF Connection, Stream, Cluster
  <2>3. <<i, g>> \in Node /\ InStep(pos[<<i, g>>], pos[<<j, g>>], i, j)
    BY <2>2 DEF Node, IInv, PairsInStep
  <2>4. AllConnected(pos[<<i, g>>])
    <3>1. CASE i \in started
      BY <2>2, <3>1 DEF IInv, StartedDone, AllConnected
    <3>2. CASE j \in started
      <4>1. pos[<<j, g>>].at = "done"
        BY <2>2, <3>2 DEF IInv, StartedDone
      <4>2. HasAwaited(pos[<<j, g>>], i)
        BY <4>1 DEF HasAwaited
      <4>. QED  BY <2>3, <4>2 DEF InStep
    <3>. QED  BY <2>1, <3>1, <3>2
  <2>5. HasConnected(pos[<<i, g>>], j, s)
    BY <2>4 DEF AllConnected, HasConnected
  <2>6. <<i, j, g, s>> \in opened
    <3>1. \A n \in Node, d \in Cluster, t \in Stream :
            d > n[1] /\ HasConnected(pos[n], d, t) => <<n[1], d, n[2], t>> \in opened
      BY DEF IInv, Recorded
    <3> PICK n : n = <<i, g>>
      OBVIOUS
    <3>2. n \in Node /\ n[1] = i /\ n[2] = g /\ HasConnected(pos[n], j, s) /\ j > n[1]
      BY <2>2, <2>3, <2>5
    <3>3. <<n[1], j, n[2], s>> \in opened
      BY <2>2, <3>1, <3>2
    <3>. QED  BY <3>2, <3>3
  <2>. QED  BY <2>2, <2>6 DEF IInv
<1>2. StartupSpec => []IInv
  BY ConnectionsInStep
<1>. QED  BY <1>1, <1>2, PTL

-----------------------------------------------------------------------------
(* The tables of handles *)

\* A table and the handles of its kind, with their objects.
Resolves(k, table, pairs) ==
  LET handles == { p[1] : p \in pairs }
  IN  /\ \A p \in pairs : table[p[1]] = p[2]
      /\ DOMAIN table \ FreeSlots(table) = Defined[k] \cup handles
      /\ Defined[k] \cap handles = {}

Passed == \A u \in passed : <<u[2], u[3]>> \in held[u[1]] \cup Basic(u[1])

Slots(k) == CASE k = "type" -> 0 .. DEFINED_DATATYPES + DerivedTypes - 1
              [] k = "operation" -> 0 .. MAX_OPERATIONS - 1
              [] k = "file" -> 0 .. MAX_FILES - 1
              [] k = "info" -> 0 .. MAX_INFOS - 1
Pairs == Nat \X (Nat \ {None})

TablesTyped ==
  /\ \A k \in Kinds : Table(k) \in [Slots(k) -> Int]
  /\ held \in [Kinds -> SUBSET Pairs]
  /\ next_operation \in Nat /\ next_file \in Nat /\ next_info \in Nat

\* The predefined datatypes stay where they are.
Predefined == \A h \in DefinedTypes : types[h] = DefinedType(h)

\* The slots that have not come to their turn are free.
FreeFrom(table, next) == \A h \in DOMAIN table : h >= next => table[h] = None
Untouched == FreeFrom(operations, next_operation) /\ FreeFrom(files, next_file) /\ FreeFrom(infos, next_info)

HandlesInv == TablesTyped /\ Predefined /\ Untouched /\ HandlesResolve

\* The least element of a set of numbers.
LEMMA LeastLemma ==
  ASSUME NEW S \in SUBSET Nat, S # {}
  PROVE  Min(S) \in S /\ \A x \in S : Min(S) <= x
<1>1. PICK x \in S : \A y \in S : ~(<<y, x>> \in OpToRel(<, Nat))
  BY NatLessThanWellFounded, WFMin, Zenon
<1>2. \A y \in S : ~(y < x)
  BY <1>1 DEF OpToRel
<1>3. \A y \in S : x <= y
  BY <1>2
<1>. QED  BY <1>3 DEF Min

\* HandlesResolve in these terms.
LEMMA ResolvesLemma == HandlesResolve <=> Passed /\ \A k \in Kinds : Resolves(k, Table(k), held[k])
BY DEF HandlesResolve, Passed, Resolves

\* A free slot gets an object.
LEMMA HandGiven ==
  ASSUME NEW k, NEW S, NEW table \in [S -> Int], NEW pairs \in SUBSET Pairs, Resolves(k, table, pairs),
         NEW h \in FreeSlots(table), NEW o \in Nat \ {None}
  PROVE  Resolves(k, [table EXCEPT ![h] = o], pairs \cup {<<h, o>>})
<1> DEFINE t == [table EXCEPT ![h] = o]
           handles == { p[1] : p \in pairs }
           more == { p[1] : p \in pairs \cup {<<h, o>>} }
<1>1. h \in S /\ table[h] = None /\ DOMAIN table = S /\ DOMAIN t = S /\ t[h] = o
      /\ \A x \in S \ {h} : t[x] = table[x]
  BY DEF FreeSlots
<1>2. h \notin Defined[k] \cup handles /\ handles \subseteq S
  BY <1>1 DEF Resolves, FreeSlots
<1>3. more = handles \cup {h}
  <2>1. <<h, o>>[1] = h
    OBVIOUS
  <2>2. \A x \in more : x \in handles \cup {h}
    BY <2>1
  <2>3. \A x \in handles : x \in more
    OBVIOUS
  <2>4. h \in more
    BY <2>1
  <2>. QED  BY <2>2, <2>3, <2>4
<1>4. \A p \in pairs : p[1] \in handles /\ table[p[1]] = p[2]
  BY DEF Resolves
<1> HIDE DEF t, handles, more
<1>5. \A p \in pairs \cup {<<h, o>>} : t[p[1]] = p[2]
  BY <1>1, <1>2, <1>4
<1>6. DOMAIN t \ FreeSlots(t) = (DOMAIN table \ FreeSlots(table)) \cup {h}
  BY <1>1 DEF FreeSlots, None
<1>7. DOMAIN table \ FreeSlots(table) = Defined[k] \cup handles /\ Defined[k] \cap handles = {}
  BY DEF Resolves, handles
<1>8. DOMAIN t \ FreeSlots(t) = Defined[k] \cup more /\ Defined[k] \cap more = {}
  BY <1>2, <1>3, <1>6, <1>7
<1>. QED  BY <1>5, <1>8 DEF Resolves, t, more

\* A slot is given back.
LEMMA HandTaken ==
  ASSUME NEW k, NEW S, NEW table \in [S -> Int], NEW pairs \in SUBSET Pairs, Resolves(k, table, pairs),
         NEW h, NEW o, <<h, o>> \in pairs
  PROVE  /\ Resolves(k, [table EXCEPT ![h] = None], pairs \ {<<h, o>>})
         /\ h \in S /\ h \notin Defined[k]
<1> DEFINE t == [table EXCEPT ![h] = None]
           handles == { p[1] : p \in pairs }
           less == { p[1] : p \in pairs \ {<<h, o>>} }
<1>1. \A p \in pairs : p[1] \in handles /\ table[p[1]] = p[2] /\ p = <<p[1], p[2]>> /\ p[2] # None
  BY DEF Resolves, Pairs
<1>2. h \in handles /\ table[h] = o
  <2>1. <<h, o>>[1] = h /\ <<h, o>>[2] = o
    OBVIOUS
  <2> HIDE DEF handles
  <2>. QED  BY <1>1, <2>1
<1>3. handles \subseteq S /\ DOMAIN table = S
  BY DEF Resolves
<1>4. h \in S /\ DOMAIN t = S /\ t[h] = None /\ \A x \in S \ {h} : t[x] = table[x]
  BY <1>2, <1>3
<1>5. \A p \in pairs \ {<<h, o>>} : p[1] # h
  BY <1>1, <1>2
<1>6. less = handles \ {h}
  <2>1. \A x \in less : x \in handles /\ x # h
    BY <1>5
  <2>2. ASSUME NEW x \in handles, x # h PROVE x \in less
    <3>1. PICK p \in pairs : p[1] = x
      OBVIOUS
    <3>2. p # <<h, o>>
      BY <2>2, <3>1
    <3>. QED  BY <3>1, <3>2
  <2>3. h \notin less
    BY <2>1
  <2>. QED  BY <2>1, <2>2, <2>3
<1>7. DOMAIN table \ FreeSlots(table) = Defined[k] \cup handles /\ Defined[k] \cap handles = {}
  BY DEF Resolves
<1> HIDE DEF t, handles, less
<1>8. \A p \in pairs \ {<<h, o>>} : t[p[1]] = p[2]
  BY <1>1, <1>3, <1>4, <1>5
<1>9. DOMAIN t \ FreeSlots(t) = (DOMAIN table \ FreeSlots(table)) \ {h}
  BY <1>3, <1>4 DEF FreeSlots
<1>10. DOMAIN t \ FreeSlots(t) = Defined[k] \cup less /\ Defined[k] \cap less = {}
  BY <1>2, <1>6, <1>7, <1>9
<1>. QED  BY <1>2, <1>4, <1>7, <1>8, <1>10 DEF Resolves, t, less

\* What a call finds for the handles that the program has is what they were given out for.
LEMMA PassGood ==
  ASSUME HandlesInv, NEW arguments, \A a \in arguments : a[1] \in Kinds /\ a[2] \in Usable(a[1]),
         Pass(arguments), \A k \in Kinds : held[k] \subseteq held'[k]
  PROVE  Passed'
<1> SUFFICES ASSUME NEW u \in passed' PROVE <<u[2], u[3]>> \in held'[u[1]] \cup Basic(u[1])
  BY DEF Passed, Basic
<1>1. PICK a \in arguments : u = <<a[1], a[2], Table(a[1])[a[2]]>>
  BY DEF Pass
<1>2. a[1] \in Kinds /\ u[1] = a[1] /\ u[2] = a[2] /\ u[3] = Table(a[1])[a[2]]
  BY <1>1
<1>3. PICK p \in held[a[1]] \cup Basic(a[1]) : p[1] = a[2]
  BY <1>2 DEF Usable
<1>4. CASE p \in held[a[1]]
  <2>1. Table(a[1])[p[1]] = p[2]
    BY <1>2, <1>4, ResolvesLemma DEF HandlesInv, Resolves
  <2>2. p = <<p[1], p[2]>>
    BY <1>2, <1>4 DEF HandlesInv, TablesTyped, Pairs
  <2>3. <<u[2], u[3]>> = p
    BY <1>2, <1>3, <2>1, <2>2
  <2>. QED  BY <1>2, <1>4, <2>3
<1>5. CASE p \in Basic(a[1])
  <2>1. a[1] = "type" /\ \E h \in BasicTypes : p = <<h, DefinedType(h)>>
    BY <1>5 DEF Basic
  <2>2. PICK h \in BasicTypes : p = <<h, DefinedType(h)>>
    BY <2>1
  <2>3. types[h] = DefinedType(h)
    BY TablesAssumption DEF HandlesInv, Predefined
  <2>4. Table(a[1]) = types
    BY <2>1 DEF Table
  <2>5. <<u[2], u[3]>> = p
    BY <1>2, <1>3, <2>2, <2>3, <2>4
  <2>. QED  BY <1>2, <1>5, <2>5
<1>. QED  BY <1>3, <1>4, <1>5

-----------------------------------------------------------------------------
(* The calls *)

\* A call changes one table.
LEMMA OneKind ==
  ASSUME HandlesInv, NEW K \in Kinds, \A k \in Kinds \ {K} : Table(k)' = Table(k) /\ held'[k] = held[k],
         Table(K)' \in [Slots(K) -> Int], held' \in [Kinds -> SUBSET Pairs],
         Resolves(K, Table(K)', held'[K]), Passed', Predefined', Untouched',
         next_operation' \in Nat, next_file' \in Nat, next_info' \in Nat
  PROVE  HandlesInv'
<1>1. \A k \in Kinds : Table(k)' \in [Slots(k) -> Int]
  BY DEF HandlesInv, TablesTyped
<1>2. \A k \in Kinds : Resolves(k, Table(k)', held'[k])
  BY ResolvesLemma DEF HandlesInv
<1>3. \A k \in Kinds : Resolves(k, Table(k), held[k])'
  BY <1>2 DEF Resolves, FreeSlots, Defined
<1>4. HandlesResolve'
  BY <1>3 DEF HandlesResolve, Passed, Resolves
<1>5. TablesTyped'
  BY <1>1 DEF TablesTyped
<1>. QED  BY <1>4, <1>5 DEF HandlesInv

\* The tables, by the kinds.
LEMMA TableOf ==
  /\ Table("type") = types /\ Table("operation") = operations
  /\ Table("file") = files /\ Table("info") = infos
  /\ Table("type")' = types' /\ Table("operation")' = operations'
  /\ Table("file")' = files' /\ Table("info")' = infos'
BY DEF Table

\* A call that changes no table.
LEMMA TablesKept ==
  ASSUME HandlesInv, UNCHANGED <<types, operations, files, infos, next_operation, next_file, next_info, held>>,
         Passed'
  PROVE  HandlesInv'
<1>1. \A k \in Kinds : Table(k)' = Table(k) /\ held'[k] = held[k]
  BY DEF Table
<1>2. "type" \in Kinds
  BY DEF Kinds
<1>3. /\ Table("type")' \in [Slots("type") -> Int] /\ held' \in [Kinds -> SUBSET Pairs]
      /\ next_operation' \in Nat /\ next_file' \in Nat /\ next_info' \in Nat
  BY <1>1, <1>2 DEF HandlesInv, TablesTyped
<1>4. Resolves("type", Table("type")', held'["type"])
  BY <1>1, <1>2, ResolvesLemma DEF HandlesInv
<1>5. Predefined' /\ Untouched'
  BY DEF HandlesInv, Predefined, Untouched, FreeFrom
<1>. QED  BY <1>1, <1>2, <1>3, <1>4, <1>5, OneKind

\* The slot that comes to its turn, or that is found, is free.
LEMMA NextSlotLemma ==
  ASSUME NEW max \in Nat, NEW table \in [0 .. max - 1 -> Int], NEW next \in Nat, FreeFrom(table, next),
         HasSlot(table, next, max), NEW o \in Int
  PROVE  LET handle == NextSlot(table, next, max)
             then   == IF handle >= next THEN next + 1 ELSE next
         IN  handle \in FreeSlots(table) /\ then \in Nat /\ FreeFrom([table EXCEPT ![handle] = o], then)
<1> DEFINE handle == NextSlot(table, next, max)
           then   == IF handle >= next THEN next + 1 ELSE next
<1>1. FreeSlots(table) \in SUBSET (0 .. max - 1) /\ FreeSlots(table) \in SUBSET Nat
  BY DEF FreeSlots
<1>2. CASE next < max
  <2>1. handle = next /\ then = next + 1
    BY <1>2 DEF NextSlot
  <2>2. next \in DOMAIN table /\ table[next] = None
    BY <1>2 DEF FreeFrom
  <2>3. FreeFrom([table EXCEPT ![next] = o], next + 1)
    BY <2>2 DEF FreeFrom
  <2>. QED  BY <2>1, <2>2, <2>3 DEF FreeSlots
<1>3. CASE ~ (next < max)
  <2>1. handle = Min(FreeSlots(table)) /\ handle \in FreeSlots(table)
    BY <1>1, <1>3, LeastLemma DEF NextSlot, HasSlot
  <2>2. handle \in 0 .. max - 1 /\ then = next
    BY <1>1, <1>3, <2>1
  <2> HIDE DEF handle
  <2>3. \A x \in 0 .. max - 1 : ~ (x >= next)
    BY <1>3
  <2>4. DOMAIN [table EXCEPT ![handle] = o] = 0 .. max - 1
    OBVIOUS
  <2>5. FreeFrom([table EXCEPT ![handle] = o], next)
    BY <2>3, <2>4 DEF FreeFrom
  <2> HIDE DEF then
  <2>6. handle \in FreeSlots(table) /\ then \in Nat /\ FreeFrom([table EXCEPT ![handle] = o], then)
    BY <2>1, <2>2, <2>5
  <2>. QED  BY <2>6 DEF handle, then
<1>. QED  BY <1>2, <1>3

\* The program gets the handle h for o.
LEMMA Given ==
  ASSUME HandlesInv, NEW K \in Kinds, NEW h \in FreeSlots(Table(K)), NEW o \in Nat \ {None}, Hand(K, h, o)
  PROVE  /\ held' \in [Kinds -> SUBSET Pairs]
         /\ \A k \in Kinds \ {K} : held'[k] = held[k]
         /\ \A k \in Kinds : held[k] \subseteq held'[k]
         /\ Resolves(K, [Table(K) EXCEPT ![h] = o], held'[K])
         /\ [Table(K) EXCEPT ![h] = o] \in [Slots(K) -> Int]
<1>1. held \in [Kinds -> SUBSET Pairs] /\ Table(K) \in [Slots(K) -> Int]
  BY DEF HandlesInv, TablesTyped
<1>2. h \in Slots(K) /\ Slots(K) \subseteq Nat /\ <<h, o>> \in Pairs
  BY <1>1 DEF FreeSlots, Slots, Pairs, Kinds, DEFINED_DATATYPES
<1>3. held' = [held EXCEPT ![K] = held[K] \cup {<<h, o>>}]
  BY DEF Hand
<1>4. held'[K] = held[K] \cup {<<h, o>>}
  BY <1>1, <1>3
<1>5. Resolves(K, Table(K), held[K])
  BY ResolvesLemma DEF HandlesInv
<1>6. Resolves(K, [Table(K) EXCEPT ![h] = o], held'[K])
  <2> DEFINE table == Table(K)
             pairs == held[K]
  <2>1. table \in [Slots(K) -> Int] /\ pairs \in SUBSET Pairs /\ Resolves(K, table, pairs) /\ h \in FreeSlots(table)
    BY <1>1, <1>5
  <2> HIDE DEF table, pairs
  <2>2. Resolves(K, [table EXCEPT ![h] = o], pairs \cup {<<h, o>>})
    BY <2>1, HandGiven
  <2>. QED  BY <1>4, <2>2 DEF table, pairs
<1>7. \A k \in Kinds \ {K} : held'[k] = held[k]
  BY <1>1, <1>3
<1>8. held' \in [Kinds -> SUBSET Pairs]
  BY <1>1, <1>2, <1>3
<1>9. [Table(K) EXCEPT ![h] = o] \in [Slots(K) -> Int]
  <2> DEFINE table == Table(K)
             slots == Slots(K)
  <2>1. table \in [slots -> Int] /\ o \in Int
    BY <1>1
  <2> HIDE DEF table, slots
  <2>2. [table EXCEPT ![h] = o] \in [slots -> Int]
    BY <2>1
  <2>. QED  BY <2>2 DEF table, slots
<1>. QED  BY <1>4, <1>6, <1>7, <1>8, <1>9

\* The program gives the handle h back.
LEMMA Taken ==
  ASSUME HandlesInv, NEW K \in Kinds, NEW h, TakeBack(K, h)
  PROVE  /\ held' \in [Kinds -> SUBSET Pairs]
         /\ \A k \in Kinds \ {K} : held'[k] = held[k]
         /\ Resolves(K, [Table(K) EXCEPT ![h] = None], held'[K])
         /\ [Table(K) EXCEPT ![h] = None] \in [Slots(K) -> Int]
         /\ h \in Slots(K) /\ h \notin Defined[K]
<1>1. held \in [Kinds -> SUBSET Pairs] /\ Table(K) \in [Slots(K) -> Int]
  BY DEF HandlesInv, TablesTyped
<1>2. PICK o : <<h, o>> \in held[K] /\ held' = [held EXCEPT ![K] = held[K] \ {<<h, o>>}]
  BY DEF TakeBack
<1>3. held'[K] = held[K] \ {<<h, o>>}
  BY <1>1, <1>2
<1>4. Resolves(K, Table(K), held[K])
  BY ResolvesLemma DEF HandlesInv
<1>5. Resolves(K, [Table(K) EXCEPT ![h] = None], held'[K]) /\ h \in Slots(K) /\ h \notin Defined[K]
  <2> DEFINE table == Table(K)
             pairs == held[K]
  <2>1. table \in [Slots(K) -> Int] /\ pairs \in SUBSET Pairs /\ Resolves(K, table, pairs) /\ <<h, o>> \in pairs
    BY <1>1, <1>2, <1>4
  <2> HIDE DEF table, pairs
  <2>2. /\ Resolves(K, [table EXCEPT ![h] = None], pairs \ {<<h, o>>})
        /\ h \in Slots(K) /\ h \notin Defined[K]
    BY <2>1, HandTaken
  <2>. QED  BY <1>3, <2>2 DEF table, pairs
<1>6. \A k \in Kinds \ {K} : held'[k] = held[k]
  BY <1>1, <1>2
<1>7. held' \in [Kinds -> SUBSET Pairs]
  BY <1>1, <1>2
<1>8. [Table(K) EXCEPT ![h] = None] \in [Slots(K) -> Int]
  <2> DEFINE table == Table(K)
             slots == Slots(K)
  <2>1. table \in [slots -> Int] /\ 0 \in Int
    BY <1>1
  <2> HIDE DEF table, slots
  <2>2. [table EXCEPT ![h] = 0] \in [slots -> Int]
    BY <2>1
  <2>. QED  BY <2>2 DEF table, slots, None
<1>. QED  BY <1>5, <1>6, <1>7, <1>8

\* The handles of the predefined datatypes lie before those of the derived ones.
LEMMA DefinedBelow == DefinedTypes \subseteq 0 .. DEFINED_DATATYPES - 1 /\ NullType \in 0 .. DEFINED_DATATYPES - 1
BY DEF DefinedTypes, CTypes, PairTypes, FortranTypes, OptionalTypes, FortranPairTypes, NullType,
       DEFINED_DATATYPES

\* The calls that only use handles.
LEMMA UsesOnly ==
  ASSUME HandlesInv, UNCHANGED <<types, operations, files, infos, next_operation, next_file, next_info, held>>,
         NEW arguments, \A a \in arguments : a[1] \in Kinds /\ a[2] \in Usable(a[1]), Pass(arguments)
  PROVE  HandlesInv'
<1>1. \A k \in Kinds : held[k] \subseteq held'[k]
  OBVIOUS
<1>2. Passed'
  BY <1>1, PassGood
<1>. QED  BY <1>2, TablesKept

\* An info argument is a handle of the program, or none.
LEMMA InfoUsable ==
  ASSUME NEW i \in Usable("info") \cup {INFO_NULL}
  PROVE  \A a \in InfoArgument(i) : a[1] = "info" /\ a[2] \in Usable("info")
BY DEF InfoArgument

\* EMPI_Type_contiguous and the other constructors.
LEMMA CreateTypeHolds ==
  ASSUME HandlesInv, NEW old \in Usable("type"), NEW o \in Objects["type"], CreateType(o, old)
  PROVE  HandlesInv'
<1> DEFINE arguments == {<<"type", old>>}
<1>1. "type" \in Kinds /\ o \in Nat \ {None} /\ \A a \in arguments : a[1] \in Kinds /\ a[2] \in Usable(a[1])
  BY TablesAssumption DEF Kinds
<1>2. Pass(arguments) /\ UNCHANGED <<operations, files, infos, next_operation, next_file, next_info>>
  BY DEF CreateType
<1>3. FreeTypes # {}
  BY DEF CreateType
<1> DEFINE h == Min(FreeTypes)
<1>4. types \in [0 .. DEFINED_DATATYPES + DerivedTypes - 1 -> Int]
  BY <1>1, TableOf DEF HandlesInv, TablesTyped, Slots
<1>5. FreeTypes \in SUBSET Nat
  BY <1>4 DEF FreeTypes, FreeSlots
<1>6. h \in FreeTypes
  BY <1>3, <1>5, LeastLemma
<1>7. types' = [types EXCEPT ![h] = o] /\ Hand("type", h, o)
  BY <1>3 DEF CreateType
<1> HIDE DEF h
<1>8. h \in FreeSlots(Table("type")) /\ h >= DEFINED_DATATYPES
  BY <1>6, TableOf DEF FreeTypes
<1>9. /\ held' \in [Kinds -> SUBSET Pairs]
      /\ \A k \in Kinds \ {"type"} : held'[k] = held[k]
      /\ \A k \in Kinds : held[k] \subseteq held'[k]
      /\ Resolves("type", types', held'["type"])
      /\ types' \in [Slots("type") -> Int]
  <2>1. /\ held' \in [Kinds -> SUBSET Pairs]
        /\ \A k \in Kinds \ {"type"} : held'[k] = held[k]
        /\ \A k \in Kinds : held[k] \subseteq held'[k]
        /\ Resolves("type", [Table("type") EXCEPT ![h] = o], held'["type"])
        /\ [Table("type") EXCEPT ![h] = o] \in [Slots("type") -> Int]
    BY <1>1, <1>7, <1>8, Given
  <2>2. types' = [Table("type") EXCEPT ![h] = o]
    BY <1>1, <1>7, <1>8, TableOf
  <2>. QED  BY <2>1, <2>2
<1>10. Passed'
  BY <1>1, <1>2, <1>9, PassGood
<1>11. Predefined'
  BY <1>4, <1>7, <1>8, DefinedBelow DEF HandlesInv, Predefined, DEFINED_DATATYPES
<1>12. Untouched' /\ next_operation' \in Nat /\ next_file' \in Nat /\ next_info' \in Nat
  BY <1>2 DEF HandlesInv, TablesTyped, Untouched, FreeFrom
<1>13. \A k \in Kinds \ {"type"} : Table(k)' = Table(k)
  BY <1>2 DEF Kinds, Table
<1>14. \A k \in Kinds \ {"type"} : Table(k)' = Table(k) /\ held'[k] = held[k]
  BY <1>1, <1>9, <1>10, <1>11, <1>12, <1>13
<1>15. /\ Table("type")' \in [Slots("type") -> Int]
      /\ Resolves("type", Table("type")', held'["type"])
  BY <1>1, <1>9, <1>10, <1>11, <1>12, <1>13, TableOf
<1>. QED  BY <1>1, <1>9, <1>10, <1>11, <1>12, <1>13, <1>14, <1>15, OneKind

\* Nothing was passed.
LEMMA PassedNone == ASSUME passed' = {} PROVE Passed'
BY DEF Passed, Basic

\* EMPI_Type_free.
LEMMA FreeTypeHolds ==
  ASSUME HandlesInv, NEW h, FreeType(h)
  PROVE  HandlesInv'
<1>1. "type" \in Kinds /\ Passed'
  BY PassedNone DEF Kinds, FreeType
<1>2. UNCHANGED <<operations, files, infos, next_operation, next_file, next_info>>
      /\ TakeBack("type", h) /\ types' = [types EXCEPT ![h] = None]
  BY DEF FreeType
<1>3. /\ held' \in [Kinds -> SUBSET Pairs]
      /\ \A k \in Kinds \ {"type"} : held'[k] = held[k]
      /\ Resolves("type", types', held'["type"])
      /\ types' \in [Slots("type") -> Int]
      /\ h \notin Defined["type"]
  <2>1. /\ held' \in [Kinds -> SUBSET Pairs]
        /\ \A k \in Kinds \ {"type"} : held'[k] = held[k]
        /\ Resolves("type", [Table("type") EXCEPT ![h] = None], held'["type"])
        /\ [Table("type") EXCEPT ![h] = None] \in [Slots("type") -> Int]
        /\ h \notin Defined["type"]
    BY <1>1, <1>2, Taken
  <2>2. types' = [Table("type") EXCEPT ![h] = None]
    BY <1>1, <1>2, TableOf
  <2>. QED  BY <2>1, <2>2
<1>4. Predefined'
  <2>1. types \in [Slots("type") -> Int]
    BY <1>1, TableOf DEF HandlesInv, TablesTyped
  <2>2. h \notin DefinedTypes
    BY <1>1, <1>3 DEF Defined
  <2>3. DefinedTypes \subseteq Slots("type")
    BY DefinedBelow, TablesAssumption DEF Slots, DEFINED_DATATYPES
  <2>4. \A x \in DefinedTypes : types'[x] = types[x]
    BY <1>2, <2>1, <2>2, <2>3
  <2>. QED  BY <2>4 DEF HandlesInv, Predefined
<1>5. Untouched' /\ next_operation' \in Nat /\ next_file' \in Nat /\ next_info' \in Nat
  BY <1>2 DEF HandlesInv, TablesTyped, Untouched, FreeFrom
<1>6. \A k \in Kinds \ {"type"} : Table(k)' = Table(k)
  BY <1>2 DEF Kinds, Table
<1>7. \A k \in Kinds \ {"type"} : Table(k)' = Table(k) /\ held'[k] = held[k]
  BY <1>1, <1>3, <1>4, <1>5, <1>6
<1>8. /\ Table("type")' \in [Slots("type") -> Int]
      /\ Resolves("type", Table("type")', held'["type"])
  BY <1>1, <1>3, <1>4, <1>5, <1>6, TableOf
<1>. QED  BY <1>1, <1>3, <1>4, <1>5, <1>6, <1>7, <1>8, OneKind

\* EMPI_Op_create.
LEMMA CreateOperationHolds ==
  ASSUME HandlesInv, NEW o \in Objects["operation"], CreateOperation(o)
  PROVE  HandlesInv'
<1> DEFINE h == next_operation
<1>1. "operation" \in Kinds /\ Passed' /\ o \in Nat \ {None} /\ MAX_OPERATIONS \in Nat
  BY PassedNone, TablesAssumption DEF Kinds, CreateOperation
<1>2. /\ UNCHANGED <<types, files, infos, next_file, next_info>>
      /\ Hand("operation", h, o) /\ operations' = [operations EXCEPT ![h] = o]
      /\ h < MAX_OPERATIONS /\ next_operation' = h + 1
  BY DEF CreateOperation
<1>3. operations \in [0 .. MAX_OPERATIONS - 1 -> Int] /\ h \in Nat /\ FreeFrom(operations, h)
  BY <1>1, TableOf DEF HandlesInv, TablesTyped, Slots, Untouched
<1> HIDE DEF h
<1>4. h \in FreeSlots(Table("operation"))
  BY <1>1, <1>2, <1>3, TableOf DEF FreeSlots, FreeFrom
<1>5. /\ held' \in [Kinds -> SUBSET Pairs]
      /\ \A k \in Kinds \ {"operation"} : held'[k] = held[k]
      /\ Resolves("operation", operations', held'["operation"])
      /\ operations' \in [Slots("operation") -> Int]
  <2>1. /\ held' \in [Kinds -> SUBSET Pairs]
        /\ \A k \in Kinds \ {"operation"} : held'[k] = held[k]
        /\ Resolves("operation", [Table("operation") EXCEPT ![h] = o], held'["operation"])
        /\ [Table("operation") EXCEPT ![h] = o] \in [Slots("operation") -> Int]
    BY <1>1, <1>2, <1>4, Given
  <2>2. operations' = [Table("operation") EXCEPT ![h] = o]
    BY <1>1, <1>2, <1>4, TableOf
  <2>. QED  BY <2>1, <2>2
<1>6. FreeFrom(operations, next_operation)'
  BY <1>2, <1>3 DEF FreeFrom
<1>7. Predefined' /\ Untouched' /\ next_operation' \in Nat /\ next_file' \in Nat /\ next_info' \in Nat
  BY <1>2, <1>3, <1>6 DEF HandlesInv, TablesTyped, Predefined, Untouched, FreeFrom
<1>8. \A k \in Kinds \ {"operation"} : Table(k)' = Table(k)
  BY <1>2 DEF Kinds, Table
<1>9. \A k \in Kinds \ {"operation"} : Table(k)' = Table(k) /\ held'[k] = held[k]
  BY <1>1, <1>5, <1>7, <1>8
<1>10. /\ Table("operation")' \in [Slots("operation") -> Int]
      /\ Resolves("operation", Table("operation")', held'["operation"])
  BY <1>1, <1>5, <1>7, <1>8, TableOf
<1>. QED  BY <1>1, <1>5, <1>7, <1>8, <1>9, <1>10, OneKind

\* EMPI_File_open.
LEMMA OpenFileHolds ==
  ASSUME HandlesInv, NEW i \in Usable("info") \cup {INFO_NULL}, NEW o \in Objects["file"], OpenFile(o, i)
  PROVE  HandlesInv'
<1> DEFINE h == NextSlot(files, next_file, MAX_FILES)
           then == IF h >= next_file THEN next_file + 1 ELSE next_file
<1>1. /\ "file" \in Kinds /\ o \in Nat \ {None} /\ o \in Int /\ MAX_FILES \in Nat
      /\ \A a \in InfoArgument(i) : a[1] \in Kinds /\ a[2] \in Usable(a[1])
  BY InfoUsable, TablesAssumption DEF Kinds
<1>2. Pass(InfoArgument(i)) /\ UNCHANGED <<types, operations, infos, next_operation, next_info>>
  BY DEF OpenFile
<1>3. files \in [0 .. MAX_FILES - 1 -> Int] /\ next_file \in Nat /\ FreeFrom(files, next_file)
  BY <1>1, TableOf DEF HandlesInv, TablesTyped, Slots, Untouched
<1>4. HasSlot(files, next_file, MAX_FILES)
  BY DEF OpenFile
<1>5. h \in FreeSlots(files) /\ then \in Nat /\ FreeFrom([files EXCEPT ![h] = o], then)
  BY <1>1, <1>3, <1>4, NextSlotLemma
<1>6. files' = [files EXCEPT ![h] = o] /\ next_file' = then /\ Hand("file", h, o)
  BY <1>4 DEF OpenFile
<1> HIDE DEF h, then
<1>7. /\ held' \in [Kinds -> SUBSET Pairs]
      /\ \A k \in Kinds \ {"file"} : held'[k] = held[k]
      /\ \A k \in Kinds : held[k] \subseteq held'[k]
      /\ Resolves("file", files', held'["file"])
      /\ files' \in [Slots("file") -> Int]
  <2>1. h \in FreeSlots(Table("file"))
    BY <1>5, TableOf
  <2>2. /\ held' \in [Kinds -> SUBSET Pairs]
        /\ \A k \in Kinds \ {"file"} : held'[k] = held[k]
        /\ \A k \in Kinds : held[k] \subseteq held'[k]
        /\ Resolves("file", [Table("file") EXCEPT ![h] = o], held'["file"])
        /\ [Table("file") EXCEPT ![h] = o] \in [Slots("file") -> Int]
    BY <1>1, <1>6, <2>1, Given
  <2>3. files' = [Table("file") EXCEPT ![h] = o]
    BY <1>6, TableOf
  <2>. QED  BY <2>2, <2>3
<1>8. Passed'
  BY <1>1, <1>2, <1>7, PassGood
<1>9. FreeFrom(files, next_file)'
  BY <1>5, <1>6 DEF FreeFrom
<1>10. Predefined' /\ Untouched' /\ next_operation' \in Nat /\ next_file' \in Nat /\ next_info' \in Nat
  BY <1>2, <1>5, <1>6, <1>9 DEF HandlesInv, TablesTyped, Predefined, Untouched, FreeFrom
<1>11. \A k \in Kinds \ {"file"} : Table(k)' = Table(k)
  BY <1>2 DEF Kinds, Table
<1>12. \A k \in Kinds \ {"file"} : Table(k)' = Table(k) /\ held'[k] = held[k]
  BY <1>1, <1>7, <1>8, <1>10, <1>11
<1>13. /\ Table("file")' \in [Slots("file") -> Int]
      /\ Resolves("file", Table("file")', held'["file"])
  BY <1>1, <1>7, <1>8, <1>10, <1>11, TableOf
<1>. QED  BY <1>1, <1>7, <1>8, <1>10, <1>11, <1>12, <1>13, OneKind

\* EMPI_File_close.
LEMMA CloseFileHolds ==
  ASSUME HandlesInv, NEW h, CloseFile(h)
  PROVE  HandlesInv'
<1>1. "file" \in Kinds /\ Passed'
  BY PassedNone DEF Kinds, CloseFile
<1>2. UNCHANGED <<types, operations, infos, next_operation, next_file, next_info>>
      /\ TakeBack("file", h) /\ files' = [files EXCEPT ![h] = None]
  BY DEF CloseFile, KeepCount
<1>3. /\ held' \in [Kinds -> SUBSET Pairs]
      /\ \A k \in Kinds \ {"file"} : held'[k] = held[k]
      /\ Resolves("file", files', held'["file"])
      /\ files' \in [Slots("file") -> Int]
  <2>1. /\ held' \in [Kinds -> SUBSET Pairs]
        /\ \A k \in Kinds \ {"file"} : held'[k] = held[k]
        /\ Resolves("file", [Table("file") EXCEPT ![h] = None], held'["file"])
        /\ [Table("file") EXCEPT ![h] = None] \in [Slots("file") -> Int]
    BY <1>1, <1>2, Taken
  <2>2. files' = [Table("file") EXCEPT ![h] = None]
    BY <1>1, <1>2, TableOf
  <2>. QED  BY <2>1, <2>2
<1>4. files \in [Slots("file") -> Int] /\ FreeFrom(files, next_file)
  BY <1>1, TableOf DEF HandlesInv, TablesTyped, Untouched
<1>5. FreeFrom(files, next_file)'
  BY <1>2, <1>4 DEF FreeFrom
<1>6. Predefined' /\ Untouched' /\ next_operation' \in Nat /\ next_file' \in Nat /\ next_info' \in Nat
  BY <1>2, <1>5 DEF HandlesInv, TablesTyped, Predefined, Untouched, FreeFrom
<1>7. \A k \in Kinds \ {"file"} : Table(k)' = Table(k)
  BY <1>2 DEF Kinds, Table
<1>8. \A k \in Kinds \ {"file"} : Table(k)' = Table(k) /\ held'[k] = held[k]
  BY <1>1, <1>3, <1>6, <1>7
<1>9. /\ Table("file")' \in [Slots("file") -> Int]
      /\ Resolves("file", Table("file")', held'["file"])
  BY <1>1, <1>3, <1>6, <1>7, TableOf
<1>. QED  BY <1>1, <1>3, <1>6, <1>7, <1>8, <1>9, OneKind

\* EMPI_Info_create.
LEMMA CreateInfoHolds ==
  ASSUME HandlesInv, NEW o \in Objects["info"], CreateInfo(o)
  PROVE  HandlesInv'
<1> DEFINE h == NextSlot(infos, next_info, MAX_INFOS)
           then == IF h >= next_info THEN next_info + 1 ELSE next_info
<1>1. "info" \in Kinds /\ Passed' /\ o \in Nat \ {None} /\ o \in Int /\ MAX_INFOS \in Nat
  BY PassedNone, TablesAssumption DEF Kinds, CreateInfo
<1>2. /\ UNCHANGED <<types, operations, files, next_operation, next_file>>
      /\ HasSlot(infos, next_info, MAX_INFOS)
      /\ infos' = [infos EXCEPT ![h] = o] /\ next_info' = then /\ Hand("info", h, o)
  BY DEF CreateInfo
<1>3. infos \in [0 .. MAX_INFOS - 1 -> Int] /\ next_info \in Nat /\ FreeFrom(infos, next_info)
  BY <1>1, TableOf DEF HandlesInv, TablesTyped, Slots, Untouched
<1>4. h \in FreeSlots(infos) /\ then \in Nat /\ FreeFrom([infos EXCEPT ![h] = o], then)
  BY <1>1, <1>2, <1>3, NextSlotLemma
<1> HIDE DEF h, then
<1>5. /\ held' \in [Kinds -> SUBSET Pairs]
      /\ \A k \in Kinds \ {"info"} : held'[k] = held[k]
      /\ Resolves("info", infos', held'["info"])
      /\ infos' \in [Slots("info") -> Int]
  <2>1. h \in FreeSlots(Table("info"))
    BY <1>4, TableOf
  <2>2. /\ held' \in [Kinds -> SUBSET Pairs]
        /\ \A k \in Kinds \ {"info"} : held'[k] = held[k]
        /\ Resolves("info", [Table("info") EXCEPT ![h] = o], held'["info"])
        /\ [Table("info") EXCEPT ![h] = o] \in [Slots("info") -> Int]
    BY <1>1, <1>2, <2>1, Given
  <2>3. infos' = [Table("info") EXCEPT ![h] = o]
    BY <1>2, TableOf
  <2>. QED  BY <2>2, <2>3
<1>6. FreeFrom(infos, next_info)'
  BY <1>2, <1>4 DEF FreeFrom
<1>7. Predefined' /\ Untouched' /\ next_operation' \in Nat /\ next_file' \in Nat /\ next_info' \in Nat
  BY <1>2, <1>4, <1>6 DEF HandlesInv, TablesTyped, Predefined, Untouched, FreeFrom
<1>8. \A k \in Kinds \ {"info"} : Table(k)' = Table(k)
  BY <1>2 DEF Kinds, Table
<1>9. \A k \in Kinds \ {"info"} : Table(k)' = Table(k) /\ held'[k] = held[k]
  BY <1>1, <1>5, <1>7, <1>8
<1>10. /\ Table("info")' \in [Slots("info") -> Int]
      /\ Resolves("info", Table("info")', held'["info"])
  BY <1>1, <1>5, <1>7, <1>8, TableOf
<1>. QED  BY <1>1, <1>5, <1>7, <1>8, <1>9, <1>10, OneKind

\* EMPI_Info_free.
LEMMA FreeInfoHolds ==
  ASSUME HandlesInv, NEW h, FreeInfo(h)
  PROVE  HandlesInv'
<1>1. "info" \in Kinds /\ Passed'
  BY PassedNone DEF Kinds, FreeInfo
<1>2. UNCHANGED <<types, operations, files, next_operation, next_file, next_info>>
      /\ TakeBack("info", h) /\ infos' = [infos EXCEPT ![h] = None]
  BY DEF FreeInfo
<1>3. /\ held' \in [Kinds -> SUBSET Pairs]
      /\ \A k \in Kinds \ {"info"} : held'[k] = held[k]
      /\ Resolves("info", infos', held'["info"])
      /\ infos' \in [Slots("info") -> Int]
  <2>1. /\ held' \in [Kinds -> SUBSET Pairs]
        /\ \A k \in Kinds \ {"info"} : held'[k] = held[k]
        /\ Resolves("info", [Table("info") EXCEPT ![h] = None], held'["info"])
        /\ [Table("info") EXCEPT ![h] = None] \in [Slots("info") -> Int]
    BY <1>1, <1>2, Taken
  <2>2. infos' = [Table("info") EXCEPT ![h] = None]
    BY <1>1, <1>2, TableOf
  <2>. QED  BY <2>1, <2>2
<1>4. infos \in [Slots("info") -> Int] /\ FreeFrom(infos, next_info)
  BY <1>1, TableOf DEF HandlesInv, TablesTyped, Untouched
<1>5. FreeFrom(infos, next_info)'
  BY <1>2, <1>4 DEF FreeFrom
<1>6. Predefined' /\ Untouched' /\ next_operation' \in Nat /\ next_file' \in Nat /\ next_info' \in Nat
  BY <1>2, <1>5 DEF HandlesInv, TablesTyped, Predefined, Untouched, FreeFrom
<1>7. \A k \in Kinds \ {"info"} : Table(k)' = Table(k)
  BY <1>2 DEF Kinds, Table
<1>8. \A k \in Kinds \ {"info"} : Table(k)' = Table(k) /\ held'[k] = held[k]
  BY <1>1, <1>3, <1>6, <1>7
<1>9. /\ Table("info")' \in [Slots("info") -> Int]
      /\ Resolves("info", Table("info")', held'["info"])
  BY <1>1, <1>3, <1>6, <1>7, TableOf
<1>. QED  BY <1>1, <1>3, <1>6, <1>7, <1>8, <1>9, OneKind

\* EMPI_Type_commit and the like.
LEMMA UseTypeHolds == ASSUME HandlesInv, NEW h \in Usable("type"), UseType(h) PROVE HandlesInv'
<1>1. \A a \in {<<"type", h>>} : a[1] \in Kinds /\ a[2] \in Usable(a[1])
  BY DEF Kinds
<1>. QED  BY <1>1, UsesOnly DEF UseType

\* EMPI_File_read_all and the like.
LEMMA UseFileHolds ==
  ASSUME HandlesInv, NEW h \in Usable("file"), NEW t \in Usable("type"), UseFile(h, t)
  PROVE  HandlesInv'
<1>1. \A a \in {<<"file", h>>, <<"type", t>>} : a[1] \in Kinds /\ a[2] \in Usable(a[1])
  BY DEF Kinds
<1>. QED  BY <1>1, UsesOnly DEF UseFile

\* EMPI_File_set_view.
LEMMA SetViewHolds ==
  ASSUME HandlesInv, NEW i \in Usable("info") \cup {INFO_NULL}, NEW h \in Usable("file"),
         NEW etype \in Usable("type"), NEW filetype \in Usable("type"), SetView(h, etype, filetype, i)
  PROVE  HandlesInv'
<1> DEFINE arguments == {<<"file", h>>, <<"type", etype>>, <<"type", filetype>>} \cup InfoArgument(i)
<1>1. \A a \in arguments : a[1] \in Kinds /\ a[2] \in Usable(a[1])
  BY InfoUsable DEF Kinds
<1>2. Pass(arguments) /\ UNCHANGED <<types, operations, files, infos, next_operation, next_file, next_info, held>>
  BY DEF SetView
<1>. QED  BY <1>1, <1>2, UsesOnly

\* EMPI_Info_set and EMPI_Info_delete.
LEMMA UseInfoHolds == ASSUME HandlesInv, NEW h \in Usable("info"), UseInfo(h) PROVE HandlesInv'
<1>1. \A a \in {<<"info", h>>} : a[1] \in Kinds /\ a[2] \in Usable(a[1])
  BY DEF Kinds
<1>. QED  BY <1>1, UsesOnly DEF UseInfo

\* Every call keeps the invariant.
LEMMA HandlesNext == ASSUME HandlesInv, [TablesNext]_tableVars PROVE HandlesInv'
<1>1. CASE TypeCall
  BY <1>1, CreateTypeHolds, FreeTypeHolds, UseTypeHolds DEF TypeCall
<1>2. CASE \E o \in Objects["operation"] : CreateOperation(o)
  BY <1>2, CreateOperationHolds
<1>3. CASE FileCall
  BY <1>3, OpenFileHolds, SetViewHolds, CloseFileHolds, UseFileHolds DEF FileCall
<1>4. CASE InfoCall
  BY <1>4, CreateInfoHolds, FreeInfoHolds, UseInfoHolds DEF InfoCall
<1>5. CASE UNCHANGED tableVars
  <2>1. Passed'
    BY <1>5, ResolvesLemma DEF tableVars, HandlesInv, Passed, Basic
  <2>. QED  BY <1>5, <2>1, TablesKept DEF tableVars
<1>. QED  BY <1>1, <1>2, <1>3, <1>4, <1>5 DEF TablesNext

-----------------------------------------------------------------------------
(* The start *)

\* A table of predefined objects only.
LEMMA StartsWith ==
  ASSUME NEW k, NEW table, NEW S, DOMAIN table = S, Defined[k] \subseteq S,
         \A h \in S : table[h] # None <=> h \in Defined[k]
  PROVE  Resolves(k, table, {})
BY DEF Resolves, FreeSlots

\* init_datatypes gives every predefined type an object.
LEMMA DefinedTypeLemma ==
  \A h \in Nat : /\ DefinedType(h) \in Int
                 /\ DefinedType(h) # None <=> h \in DefinedTypes \cup {NullType}
<1>1. ASSUME NEW h \in Nat PROVE DefinedType(h) \in Int /\ (DefinedType(h) # None <=> h \in DefinedTypes \cup {NullType})
  <2>1. \A x \in DefinedTypes : x \in Nat \ {0}
    BY DEF DefinedTypes, CTypes, PairTypes, FortranTypes, OptionalTypes, FortranPairTypes
  <2>2. 38 \in DefinedTypes
    BY DEF DefinedTypes, OptionalTypes
  <2>3. CASE h = NullType
    BY <2>3 DEF DefinedType, NullType, None, DEFINED_DATATYPES
  <2>4. CASE h = 38
    BY <2>2, <2>4 DEF DefinedType, NullType, None
  <2>5. CASE h \in DefinedTypes \ {38}
    <3>1. DefinedType(h) = -h
      BY <2>1, <2>5 DEF DefinedType, NullType
    <3>. QED  BY <2>1, <2>5, <3>1 DEF None
  <2>6. CASE h # NullType /\ h # 38 /\ h \notin DefinedTypes
    <3>1. DefinedType(h) = None
      BY <2>6 DEF DefinedType
    <3>. QED  BY <2>6, <3>1 DEF None
  <2>. QED  BY <2>3, <2>4, <2>5, <2>6
<1>. QED  BY <1>1

\* The tables before the first call.
LEMMA HandlesInit == ASSUME TablesInit PROVE HandlesInv
<1>1. MAX_OPERATIONS \in Nat /\ MAX_FILES \in Nat /\ MAX_INFOS \in Nat /\ DerivedTypes \in Nat
      /\ DefinedOperations \subseteq 0 .. MAX_OPERATIONS - 1
  BY TablesAssumption
<1>2. Max(DefinedOperations) = 12
  <2>1. DefinedOperations = 0 .. 12
    BY DEF DefinedOperations
  <2>2. \E x \in 0 .. 12 : \A y \in 0 .. 12 : x >= y
    <3>1. 12 \in 0 .. 12 /\ \A y \in 0 .. 12 : 12 >= y
      OBVIOUS
    <3>. QED  BY <3>1
  <2> DEFINE m == Max(DefinedOperations)
  <2>3. m \in 0 .. 12 /\ \A y \in 0 .. 12 : m >= y
    BY <2>1, <2>2 DEF Max
  <2> HIDE DEF m
  <2>4. m = 12
    BY <2>3
  <2>. QED  BY <2>4 DEF m
<1>3. types \in [Slots("type") -> Int]
  BY <1>1, DefinedTypeLemma DEF TablesInit, Slots, DEFINED_DATATYPES
<1>4. operations \in [Slots("operation") -> Int]
  BY <1>1 DEF TablesInit, Slots, DefinedOperation, None
<1>5. files \in [Slots("file") -> Int] /\ infos \in [Slots("info") -> Int]
  BY DEF TablesInit, Slots, None
<1>6. TablesTyped
  <2>1. \A k \in Kinds : Table(k) \in [Slots(k) -> Int]
    BY <1>3, <1>4, <1>5, TableOf DEF Kinds
  <2>2. held \in [Kinds -> SUBSET Pairs]
    BY DEF TablesInit
  <2>3. next_operation \in Nat /\ next_file \in Nat /\ next_info \in Nat
    BY <1>2 DEF TablesInit
  <2>. QED  BY <2>1, <2>2, <2>3 DEF TablesTyped
<1>7. Predefined
  BY <1>1, DefinedBelow DEF Predefined, TablesInit, DEFINED_DATATYPES
<1>8. Untouched
  <2>1. FreeFrom(operations, next_operation)
    BY <1>1, <1>2 DEF TablesInit, FreeFrom, DefinedOperation, DefinedOperations
  <2>. QED  BY <2>1 DEF Untouched, FreeFrom, TablesInit
<1>9. Resolves("type", types, {})
  <2>1. Defined["type"] = DefinedTypes \cup {NullType}
    BY DEF Defined, Kinds
  <2>2. Defined["type"] \subseteq Slots("type")
    BY <1>1, <2>1, DefinedBelow DEF Slots, DEFINED_DATATYPES
  <2>3. \A h \in Slots("type") : h \in Nat /\ types[h] = DefinedType(h)
    BY <1>1 DEF TablesInit, Slots, DEFINED_DATATYPES
  <2>4. \A h \in Slots("type") : types[h] # None <=> h \in Defined["type"]
    BY <2>1, <2>3, DefinedTypeLemma
  <2>. QED  BY <1>3, <2>2, <2>4, StartsWith
<1>10. Resolves("operation", operations, {})
  <2>1. Defined["operation"] = DefinedOperations
    BY DEF Defined, Kinds
  <2>2. Defined["operation"] \subseteq Slots("operation")
    BY <1>1, <2>1 DEF Slots
  <2>3. \A h \in Slots("operation") : operations[h] # None <=> h \in DefinedOperations
    BY <1>1 DEF TablesInit, Slots, DefinedOperation, DefinedOperations, None
  <2>. QED  BY <1>4, <2>1, <2>2, <2>3, StartsWith
<1>11. Resolves("file", files, {}) /\ Resolves("info", infos, {})
  <2>1. Defined["file"] = {} /\ Defined["info"] = {}
    BY DEF Defined, Kinds
  <2>2. \A h \in Slots("file") : files[h] = None
    BY DEF TablesInit, Slots
  <2>3. \A h \in Slots("info") : infos[h] = None
    BY DEF TablesInit, Slots
  <2>. QED  BY <1>5, <2>1, <2>2, <2>3, StartsWith
<1>12. \A k \in Kinds : held[k] = {}
  BY DEF TablesInit
<1>13. \A k \in Kinds : Resolves(k, Table(k), held[k])
  BY <1>9, <1>10, <1>11, <1>12, TableOf DEF Kinds
<1>14. Passed
  BY DEF Passed, TablesInit
<1>. QED  BY <1>6, <1>7, <1>8, <1>13, <1>14, ResolvesLemma DEF HandlesInv

\* Whatever a program creates, uses and frees: each handle it has denotes in the table
\* the object that the handle was given out for, no slot is taken that no handle leads
\* to, no handle of the program is one of the predefined ones, and what a call hands to
\* MPI is what the program was given its handles for (add_datatype, add_file, add_info,
\* init_operation, the functions that remove, and the lookups handle_to_...).
THEOREM HandlesResolveHolds == TablesSpec => []HandlesResolve
<1>1. TablesInit => HandlesInv
  BY HandlesInit
<1>2. HandlesInv /\ [TablesNext]_tableVars => HandlesInv'
  BY HandlesNext
<1>3. HandlesInv => HandlesResolve
  BY DEF HandlesInv
<1>. QED  BY <1>1, <1>2, <1>3, PTL DEF TablesSpec

-----------------------------------------------------------------------------
(* The message queue: linked lists *)

\* The nodes of c are linked in heap h, one after the other from the node first on.
IsList(c, h, first) ==
  /\ c \in Seq(Nodes)
  /\ Len(c) = 0 => first = NULL
  /\ Len(c) > 0 => first = c[1]
  /\ \A i \in 1 .. Len(c) : /\ h[c[i]].message \in Messages
                            /\ h[c[i]].next = IF i = Len(c) THEN NULL ELSE c[i + 1]
  /\ \A i, j \in 1 .. Len(c) : c[i] = c[j] => i = j

\* The last of them is t.
EndsAt(c, t) == Len(c) > 0 => t = c[Len(c)]

\* What is in the nodes.
ContentsOf(c, h) == [i \in 1 .. Len(c) |-> h[c[i]].message]

Cell == [message : Messages \cup {NULL}, next : Nodes \cup {NULL}]
HeapTyped == heap \in [Nodes -> Cell]

\* The queue is such a list.
ListInv == HeapTyped /\ \E c : IsList(c, heap, head) /\ EndsAt(c, tail)

\* Chain, in any heap.
ChainOf(h, first) ==
  LET curr[i \in 1 .. Cardinality(Nodes)] ==
        IF i = 1 THEN first ELSE IF curr[i - 1] = NULL THEN NULL ELSE h[curr[i - 1]].next
  IN  [i \in { j \in DOMAIN curr : curr[j] # NULL } |-> curr[i]]

\* A list has no more nodes than there are addresses.
LEMMA ListBounded ==
  ASSUME NEW c, NEW h, NEW first, IsList(c, h, first)
  PROVE  Len(c) \in Nat /\ Cardinality(Nodes) \in Nat /\ Len(c) <= Cardinality(Nodes)
<1> DEFINE n == Len(c)
<1>1. n \in Nat /\ c \in [1 .. n -> Nodes]
  BY LenProperties DEF IsList
<1>2. Cardinality(Nodes) \in Nat /\ IsFiniteSet(Nodes)
  BY QueueAssumption, FS_CardinalityType
<1> HIDE DEF n
<1>3. \A i, j \in 1 .. n : c[i] = c[j] => i = j
  BY DEF IsList, n
<1>4. c \in Injection(1 .. n, Nodes)
  BY <1>1, <1>3 DEF Injection, IsInjective
<1>5. Cardinality(1 .. n) <= Cardinality(Nodes)
  BY <1>2, <1>4, FS_Injection
<1>6. Cardinality(1 .. n) = n
  <2>1. Cardinality(1 .. n) = IF 1 > n THEN 0 ELSE n - 1 + 1
    BY <1>1, FS_Interval
  <2>. QED  BY <1>1, <2>1
<1>. QED  BY <1>1, <1>2, <1>5, <1>6 DEF n

\* The loop runs through the nodes of the list.
LEMMA ChainLemma ==
  ASSUME NEW c, NEW h, NEW first, IsList(c, h, first)
  PROVE  ChainOf(h, first) = c
<1> DEFINE N == Cardinality(Nodes)
           Runs(f) == f = [i \in 1 .. N |-> IF i = 1 THEN first ELSE IF f[i - 1] = NULL THEN NULL
                                                                ELSE h[f[i - 1]].next]
           curr == CHOOSE f : Runs(f)
           w == [i \in 1 .. N |-> IF i <= Len(c) THEN c[i] ELSE NULL]
<1>1. Len(c) \in Nat /\ N \in Nat /\ Len(c) <= N
  BY ListBounded
<1>2. c \in Seq(Nodes) /\ DOMAIN c = 1 .. Len(c) /\ c = [i \in 1 .. Len(c) |-> c[i]]
      /\ \A i \in 1 .. Len(c) : c[i] \in Nodes /\ c[i] # NULL
  BY LenProperties, ElementOfSeq, QueueAssumption DEF IsList
<1>3. ChainOf(h, first) = [i \in { j \in DOMAIN curr : curr[j] # NULL } |-> curr[i]]
  BY DEF ChainOf
<1> HIDE DEF N
<1>4. ASSUME NEW i \in 1 .. N
      PROVE  w[i] = IF i = 1 THEN first ELSE IF w[i - 1] = NULL THEN NULL ELSE h[w[i - 1]].next
  <2>1. CASE i = 1
    <3>1. w[i] = IF 1 <= Len(c) THEN c[1] ELSE NULL
      BY <2>1
    <3>. QED  BY <1>1, <2>1, <3>1 DEF IsList
  <2>2. CASE i # 1
    <3>1. i - 1 \in 1 .. N /\ i \in Nat
      BY <1>1, <2>2
    <3>2. w[i] = (IF i <= Len(c) THEN c[i] ELSE NULL) /\ w[i - 1] = IF i - 1 <= Len(c) THEN c[i - 1] ELSE NULL
      BY <3>1
    <3> HIDE DEF w
    <3>3. CASE i - 1 <= Len(c)
      <4>1. i - 1 \in 1 .. Len(c) /\ (i - 1 = Len(c) <=> ~ (i <= Len(c))) /\ (i - 1) + 1 = i
        BY <1>1, <3>1, <3>3
      <4>2. h[c[i - 1]].next = IF i - 1 = Len(c) THEN NULL ELSE c[(i - 1) + 1]
        BY <4>1 DEF IsList
      <4>. QED  BY <1>2, <2>2, <3>2, <3>3, <4>1, <4>2
    <3>4. CASE ~ (i - 1 <= Len(c))
      <4>1. ~ (i <= Len(c))
        BY <1>1, <3>1, <3>4
      <4>. QED  BY <2>2, <3>2, <3>4, <4>1
    <3>. QED  BY <3>3, <3>4
  <2>. QED  BY <2>1, <2>2
<1>5. Runs(w)
  <2>1. w = [i \in 1 .. N |-> w[i]]
    OBVIOUS
  <2> HIDE DEF w
  <2>. QED  BY <1>4, <2>1
<1>6. Runs(curr)
  <2> HIDE DEF Runs, w
  <2>. QED  BY <1>5
<1>7. DOMAIN curr = 1 .. N /\ curr = [i \in 1 .. N |-> curr[i]]
      /\ \A i \in 1 .. N : curr[i] = IF i = 1 THEN first ELSE IF curr[i - 1] = NULL THEN NULL
                                                         ELSE h[curr[i - 1]].next
  <2> HIDE DEF curr
  <2>. QED  BY <1>6
<1>8. DOMAIN w = 1 .. N /\ w = [i \in 1 .. N |-> w[i]]
      /\ \A i \in 1 .. N : w[i] = IF i <= Len(c) THEN c[i] ELSE NULL
  OBVIOUS
<1> HIDE DEF Runs, curr, w
<1>9. \A i \in 1 .. N : curr[i] = w[i]
  <2> DEFINE Bad == { i \in 1 .. N : curr[i] # w[i] }
  <2>1. Bad \in SUBSET Nat
    BY <1>1
  <2>2. ASSUME Bad # {} PROVE FALSE
    <3>1. PICK i \in Bad : \A x \in Bad : i <= x
      BY <2>1, <2>2, LeastLemma
    <3>2. i \in 1 .. N /\ curr[i] # w[i] /\ i \in Nat
      BY <1>1, <3>1
    <3>3. CASE i = 1
      BY <1>4, <1>7, <3>2, <3>3
    <3>4. CASE i # 1
      <4>1. i - 1 \in 1 .. N /\ ~ (i <= i - 1)
        BY <1>1, <3>2, <3>4
      <4>2. curr[i - 1] = w[i - 1]
        BY <3>1, <4>1
      <4>. QED  BY <1>4, <1>7, <3>2, <3>4, <4>2
    <3>. QED  BY <3>3, <3>4
  <2>. QED  BY <2>2
<1>10. { j \in DOMAIN curr : curr[j] # NULL } = 1 .. Len(c)
  <2>1. \A j \in 1 .. N : curr[j] # NULL <=> j \in 1 .. Len(c)
    BY <1>1, <1>2, <1>8, <1>9
  <2>2. 1 .. Len(c) \subseteq 1 .. N
    BY <1>1
  <2>. QED  BY <1>7, <2>1, <2>2
<1>11. \A i \in 1 .. Len(c) : curr[i] = c[i]
  BY <1>1, <1>8, <1>9
<1>12. ChainOf(h, first) = [i \in 1 .. Len(c) |-> curr[i]]
  BY <1>3, <1>10
<1>. QED  BY <1>2, <1>11, <1>12

\* The elements after one is taken out.
LEMMA RemoveAtElements ==
  ASSUME NEW T, NEW s \in Seq(T), NEW i \in 1 .. Len(s)
  PROVE  /\ RemoveAt(s, i) \in Seq(T) /\ Len(RemoveAt(s, i)) = Len(s) - 1
         /\ \A k \in 1 .. Len(s) - 1 : RemoveAt(s, i)[k] = IF k < i THEN s[k] ELSE s[k + 1]
<1> DEFINE a == SubSeq(s, 1, i - 1)
           b == SubSeq(s, i + 1, Len(s))
           ab == a \o b
<1>1. Len(s) \in Nat /\ (\A k \in 1 .. Len(s) : s[k] \in T) /\ i \in Nat
  BY LenProperties, ElementOfSeq
<1>2. a \in Seq(T) /\ Len(a) = i - 1 /\ \A k \in 1 .. i - 1 : a[k] = s[k]
  <2>1. \A k \in 1 .. i - 1 : s[k] \in T
    BY <1>1
  <2>. QED  BY <1>1, <2>1, SubSeqProperties
<1>3. b \in Seq(T) /\ Len(b) = Len(s) - i /\ \A k \in 1 .. Len(s) - i : b[k] = s[i + k]
  <2>1. \A k \in i + 1 .. Len(s) : s[k] \in T
    BY <1>1
  <2>. QED  BY <1>1, <2>1, SubSeqProperties
<1>4. RemoveAt(s, i) = ab
  BY DEF RemoveAt
<1> HIDE DEF a, b
<1>5. /\ ab \in Seq(T) /\ Len(ab) = Len(a) + Len(b)
      /\ \A k \in 1 .. Len(a) + Len(b) : ab[k] = IF k <= Len(a) THEN a[k] ELSE b[k - Len(a)]
  BY <1>2, <1>3, ConcatProperties
<1> HIDE DEF ab
<1>6. Len(a) + Len(b) = Len(s) - 1
  BY <1>1, <1>2, <1>3
<1>7. ASSUME NEW k \in 1 .. Len(s) - 1
      PROVE  ab[k] = IF k < i THEN s[k] ELSE s[k + 1]
  <2>1. CASE k < i
    <3>1. k \in 1 .. i - 1 /\ k <= Len(a) /\ k \in 1 .. Len(a) + Len(b)
      BY <1>1, <1>2, <1>6, <2>1
    <3>. QED  BY <1>2, <1>5, <2>1, <3>1
  <2>2. CASE ~ (k < i)
    <3>1. /\ ~ (k <= Len(a)) /\ k \in 1 .. Len(a) + Len(b)
          /\ k - Len(a) \in 1 .. Len(s) - i /\ i + (k - Len(a)) = k + 1
      BY <1>1, <1>2, <1>6, <2>2
    <3>. QED  BY <1>3, <1>5, <2>2, <3>1
  <2>. QED  BY <2>1, <2>2
<1>. QED  BY <1>4, <1>5, <1>6, <1>7

\* An element is put behind the others.
LEMMA AppendElements ==
  ASSUME NEW T, NEW s \in Seq(T), NEW x \in T
  PROVE  /\ Append(s, x) \in Seq(T) /\ Len(Append(s, x)) = Len(s) + 1 /\ Len(s) \in Nat
         /\ Append(s, x)[Len(s) + 1] = x
         /\ \A i \in 1 .. Len(s) : Append(s, x)[i] = s[i]
BY AppendProperties, LenProperties

\* The messages of a list, and nothing else.
LEMMA ContentsLemma ==
  ASSUME NEW c, NEW h, NEW first, IsList(c, h, first)
  PROVE  /\ ContentsOf(c, h) \in Seq(Messages) /\ Len(ContentsOf(c, h)) = Len(c)
         /\ Len(c) \in Nat
         /\ \A i \in 1 .. Len(c) : /\ ContentsOf(c, h)[i] = h[c[i]].message
                                   /\ c[i] \in Nodes /\ c[i] # NULL
                                   /\ h[c[i]].message # NULL
<1>1. Len(c) \in Nat /\ \A i \in 1 .. Len(c) : c[i] \in Nodes /\ h[c[i]].message \in Messages
  BY LenProperties, ElementOfSeq DEF IsList
<1>2. ContentsOf(c, h) \in [1 .. Len(c) -> Messages]
  BY <1>1 DEF ContentsOf
<1>3. ContentsOf(c, h) \in Seq(Messages) /\ Len(ContentsOf(c, h)) = Len(c)
  BY <1>1, <1>2, SeqDef, LenProperties
<1>. QED  BY <1>1, <1>3, QueueAssumption DEF ContentsOf

\* Contents are these messages.
LEMMA ContentsNow ==
  ASSUME NEW c, IsList(c, heap, head)
  PROVE  Chain = c /\ Contents = ContentsOf(c, heap)
<1>1. Chain = c
  <2>1. Chain = ChainOf(heap, head)
    BY DEF Chain, ChainOf
  <2>. QED  BY <2>1, ChainLemma
<1>2. DOMAIN c = 1 .. Len(c)
  BY LenProperties DEF IsList
<1>. QED  BY <1>1, <1>2 DEF Contents, ContentsOf

\* And after a step.
LEMMA ContentsThen ==
  ASSUME NEW c, IsList(c, heap', head')
  PROVE  Contents' = ContentsOf(c, heap')
<1>1. Chain' = c
  <2>1. Chain' = ChainOf(heap', head')
    BY DEF Chain, ChainOf
  <2>2. ChainOf(heap', head') = c
    BY ChainLemma
  <2>. QED  BY <2>1, <2>2
<1>2. DOMAIN c = 1 .. Len(c)
  BY LenProperties DEF IsList
<1>. QED  BY <1>1, <1>2 DEF Contents, ContentsOf

\* What heap h becomes when the k-th node of c is taken out and given back.
Unlinked(c, k, h, g) ==
  \A n \in Nodes :
    g[n] = IF n = c[k] THEN FREE
           ELSE IF k > 1 /\ n = c[k - 1]
           THEN [message |-> h[n].message, next |-> IF k = Len(c) THEN NULL ELSE c[k + 1]]
           ELSE h[n]

\* The list is one without its k-th node then.
LEMMA UnlinkLemma ==
  ASSUME NEW c, NEW h, NEW first, IsList(c, h, first), NEW k \in 1 .. Len(c),
         NEW g, Unlinked(c, k, h, g), NEW start,
         start = IF k > 1 THEN first ELSE IF Len(c) = 1 THEN NULL ELSE c[2]
  PROVE  /\ IsList(RemoveAt(c, k), g, start)
         /\ ContentsOf(RemoveAt(c, k), g) = RemoveAt(ContentsOf(c, h), k)
<1> DEFINE d == RemoveAt(c, k)
           n == Len(c)
           Old(i) == IF i < k THEN i ELSE i + 1
<1>1. c \in Seq(Nodes) /\ n \in Nat /\ k \in Nat /\ k \in 1 .. n
      /\ (\A i \in 1 .. n : c[i] \in Nodes)
      /\ (\A i, j \in 1 .. n : c[i] = c[j] => i = j)
  BY ContentsLemma DEF IsList
<1>2. d \in Seq(Nodes) /\ Len(d) = n - 1 /\ \A i \in 1 .. n - 1 : d[i] = IF i < k THEN c[i] ELSE c[i + 1]
  BY <1>1, RemoveAtElements
<1>3. \A i \in 1 .. n : /\ h[c[i]].message \in Messages
                        /\ h[c[i]].next = IF i = n THEN NULL ELSE c[i + 1]
  BY DEF IsList
<1> HIDE DEF d, n
<1>4. ASSUME NEW i \in 1 .. n - 1
      PROVE  Old(i) \in 1 .. n /\ Old(i) # k /\ d[i] = c[Old(i)]
  <2>1. i \in Nat /\ 1 <= i /\ i <= n - 1
    BY <1>1
  <2>2. Old(i) \in 1 .. n /\ Old(i) # k
    BY <1>1, <2>1
  <2>3. d[i] = IF i < k THEN c[i] ELSE c[i + 1]
    BY <1>2
  <2>. QED  BY <2>2, <2>3
<1>5. ASSUME NEW i \in 1 .. n - 1, NEW j \in 1 .. n - 1, d[i] = d[j] PROVE i = j
  <2>1. Old(i) = Old(j)
    BY <1>1, <1>4, <1>5
  <2>. QED  BY <1>1, <2>1
<1>6. ASSUME NEW i \in 1 .. n - 1
      PROVE  /\ g[d[i]].message = h[d[i]].message
             /\ g[d[i]].next = IF i = n - 1 THEN NULL ELSE d[i + 1]
  <2>1. d[i] \in Nodes /\ d[i] # c[k]
    BY <1>1, <1>4
  <2>2. i \in Nat /\ 1 <= i /\ i <= n - 1
    BY <1>1
  <2>3. CASE i = k - 1
    <3>1. k > 1 /\ d[i] = c[k - 1]
      BY <1>2, <1>4, <2>2, <2>3
    <3>2. g[d[i]] = [message |-> h[d[i]].message, next |-> IF k = n THEN NULL ELSE c[k + 1]]
      BY <2>1, <3>1 DEF Unlinked, n
    <3>3. i = n - 1 <=> k = n
      BY <1>1, <2>2, <2>3
    <3>4. i # n - 1 => d[i + 1] = c[k + 1]
      <4>1. ASSUME i # n - 1 PROVE i + 1 \in 1 .. n - 1 /\ i + 1 = k
        BY <1>1, <2>2, <2>3, <4>1
      <4>. QED  BY <1>1, <1>2, <4>1
    <3>. QED  BY <3>2, <3>3, <3>4
  <2>4. CASE i # k - 1
    <3>1. ~ (k > 1 /\ d[i] = c[k - 1])
      <4>1. ASSUME k > 1, d[i] = c[k - 1] PROVE FALSE
        <5>1. k - 1 \in 1 .. n
          BY <1>1, <4>1
        <5>2. Old(i) = k - 1
          BY <1>1, <1>4, <4>1, <5>1
        <5>. QED  BY <1>1, <2>2, <2>4, <5>2
      <4>. QED  BY <4>1
    <3>2. g[d[i]] = h[d[i]]
      BY <2>1, <3>1 DEF Unlinked
    <3>3. h[c[Old(i)]].next = IF Old(i) = n THEN NULL ELSE c[Old(i) + 1]
      BY <1>3, <1>4
    <3>4. Old(i) = n <=> i = n - 1
      BY <1>1, <2>2, <2>4
    <3>5. ASSUME i # n - 1 PROVE d[i + 1] = c[Old(i) + 1]
      <4>1. i + 1 \in 1 .. n - 1
        BY <1>1, <2>2, <3>5
      <4>2. Old(i + 1) = Old(i) + 1
        BY <1>1, <2>2, <2>4
      <4>. QED  BY <1>4, <4>1, <4>2
    <3>. QED  BY <1>4, <3>2, <3>3, <3>4, <3>5
  <2>. QED  BY <2>3, <2>4
<1>7. /\ Len(d) = 0 => start = NULL
      /\ Len(d) > 0 => start = d[1]
  <2>1. CASE n = 1
    BY <1>1, <1>2, <2>1 DEF n
  <2>2. CASE n # 1
    <3>1. n > 1 /\ 1 \in 1 .. n - 1 /\ Len(d) > 0 /\ ~ (Len(d) = 0)
      BY <1>1, <1>2, <2>2
    <3>2. d[1] = IF 1 < k THEN c[1] ELSE c[2]
      BY <1>2, <3>1
    <3>3. first = c[1]
      BY <1>1, <3>1 DEF IsList, n
    <3>4. k > 1 <=> 1 < k
      BY <1>1
    <3>. QED  BY <2>2, <3>1, <3>2, <3>3, <3>4 DEF n
  <2>. QED  BY <2>1, <2>2
<1>8. IsList(d, g, start)
  <2>1. \A i \in 1 .. Len(d) : /\ g[d[i]].message \in Messages
                               /\ g[d[i]].next = IF i = Len(d) THEN NULL ELSE d[i + 1]
    <3>1. \A i \in 1 .. n - 1 : h[d[i]].message \in Messages
      BY <1>3, <1>4
    <3>. QED  BY <1>2, <1>6, <3>1
  <2>2. \A i, j \in 1 .. Len(d) : d[i] = d[j] => i = j
    BY <1>2, <1>5
  <2>. QED  BY <1>2, <1>7, <2>1, <2>2 DEF IsList
<1>9. ContentsOf(d, g) = RemoveAt(ContentsOf(c, h), k)
  <2> DEFINE v == ContentsOf(c, h)
             w == RemoveAt(v, k)
  <2>1. v \in Seq(Messages) /\ Len(v) = n /\ \A i \in 1 .. n : v[i] = h[c[i]].message
    BY ContentsLemma DEF n
  <2> HIDE DEF v
  <2>2. w \in Seq(Messages) /\ Len(w) = n - 1 /\ \A i \in 1 .. n - 1 : w[i] = IF i < k THEN v[i] ELSE v[i + 1]
    BY <1>1, <2>1, RemoveAtElements
  <2> HIDE DEF w
  <2>3. w = [i \in 1 .. n - 1 |-> w[i]]
    BY <2>2, LenProperties
  <2>4. ASSUME NEW i \in 1 .. n - 1 PROVE w[i] = g[d[i]].message
    <3>1. w[i] = v[Old(i)]
      BY <2>2
    <3>2. w[i] = h[c[Old(i)]].message
      BY <1>4, <2>1, <3>1
    <3>. QED  BY <1>4, <1>6, <3>2
  <2>5. ContentsOf(d, g) = [i \in 1 .. n - 1 |-> g[d[i]].message]
    BY <1>2 DEF ContentsOf
  <2>. QED  BY <2>3, <2>4, <2>5 DEF w, v
<1>. QED  BY <1>8, <1>9 DEF d

\* What heap h becomes when node a with message m is put behind the node end of a list.
Linked(h, first, end, a, m, g) ==
  g = IF first = NULL THEN [h EXCEPT ![a] = [message |-> m, next |-> NULL]]
      ELSE [h EXCEPT ![a] = [message |-> m, next |-> NULL], ![end].next = a]

\* The list has a node more then.
LEMMA LinkLemma ==
  ASSUME NEW c, NEW h \in [Nodes -> Cell], NEW first, IsList(c, h, first), NEW end, EndsAt(c, end),
         NEW m \in Messages, NEW a \in Nodes, h[a] = FREE,
         NEW g, Linked(h, first, end, a, m, g),
         NEW start, start = IF first = NULL THEN a ELSE first
  PROVE  /\ IsList(Append(c, a), g, start)
         /\ ContentsOf(Append(c, a), g) = Append(ContentsOf(c, h), m)
         /\ g \in [Nodes -> Cell]
<1> DEFINE d == Append(c, a)
           n == Len(c)
<1>1. c \in Seq(Nodes) /\ n \in Nat
      /\ (\A i \in 1 .. n : c[i] \in Nodes /\ c[i] # NULL /\ h[c[i]].message # NULL)
      /\ (\A i, j \in 1 .. n : c[i] = c[j] => i = j)
  <2>1. n \in Nat /\ \A i \in 1 .. n : c[i] \in Nodes /\ c[i] # NULL /\ h[c[i]].message # NULL
    BY ContentsLemma
  <2>2. c \in Seq(Nodes) /\ \A i, j \in 1 .. n : c[i] = c[j] => i = j
    BY DEF IsList
  <2>. QED  BY <2>1, <2>2
<1>2. d \in Seq(Nodes) /\ Len(d) = n + 1 /\ d[n + 1] = a /\ \A i \in 1 .. n : d[i] = c[i]
  BY <1>1, AppendElements
<1>3. \A i \in 1 .. n : /\ h[c[i]].message \in Messages
                        /\ h[c[i]].next = IF i = n THEN NULL ELSE c[i + 1]
  BY DEF IsList
<1>4. first = NULL <=> n = 0
  <2>1. n > 0 => first = c[1] /\ 1 \in 1 .. n
    BY <1>1 DEF IsList
  <2>2. n = 0 => first = NULL
    BY DEF IsList
  <2>. QED  BY <1>1, <2>1, <2>2
<1>5. \A i \in 1 .. n : c[i] # a
  BY <1>1 DEF FREE
<1>6. n > 0 => end = c[n] /\ n \in 1 .. n /\ end \in Nodes /\ end # a
  BY <1>1, <1>5 DEF EndsAt
<1> HIDE DEF d, n
<1>7. g \in [Nodes -> Cell] /\ g[a] = [message |-> m, next |-> NULL]
      /\ \A x \in Nodes \ {a} :
           g[x] = IF n > 0 /\ x = end THEN [message |-> h[x].message, next |-> a] ELSE h[x]
  <2>1. CASE first = NULL
    <3>1. g = [h EXCEPT ![a] = [message |-> m, next |-> NULL]] /\ ~ (n > 0)
      BY <1>1, <1>4, <2>1 DEF Linked
    <3>2. [message |-> m, next |-> NULL] \in Cell
      BY DEF Cell
    <3>3. g \in [Nodes -> Cell] /\ g[a] = [message |-> m, next |-> NULL] /\ \A x \in Nodes \ {a} : g[x] = h[x]
      BY <3>1, <3>2
    <3>. QED  BY <3>1, <3>3
  <2>2. CASE first # NULL
    <3>1. n > 0 /\ end \in Nodes /\ end # a
      BY <1>1, <1>4, <1>6, <2>2
    <3> DEFINE f == [h EXCEPT ![a] = [message |-> m, next |-> NULL]]
    <3>2. g = [f EXCEPT ![end].next = a]
      BY <2>2 DEF Linked
    <3>3. f \in [Nodes -> Cell] /\ f[a] = [message |-> m, next |-> NULL] /\ \A x \in Nodes \ {a} : f[x] = h[x]
      BY DEF Cell
    <3> HIDE DEF f
    <3>4. f[end] = h[end] /\ h[end] \in Cell /\ f[end] \in Cell
      BY <3>1, <3>3
    <3>5. [f[end] EXCEPT !.next = a] = [message |-> h[end].message, next |-> a]
      BY <3>4 DEF Cell
    <3>6. g = [f EXCEPT ![end] = [message |-> h[end].message, next |-> a]]
      BY <3>2, <3>5
    <3>7. [message |-> h[end].message, next |-> a] \in Cell
      BY <3>4 DEF Cell
    <3>. QED  BY <3>1, <3>3, <3>6, <3>7
  <2>. QED  BY <2>1, <2>2
<1>8. ASSUME NEW i \in 1 .. n
      PROVE  /\ g[d[i]].message = h[c[i]].message
             /\ g[d[i]].next = d[i + 1]
  <2>1. d[i] = c[i] /\ c[i] \in Nodes \ {a} /\ n > 0 /\ i \in Nat
    BY <1>1, <1>2, <1>5
  <2>2. CASE i = n
    <3>1. d[i] = end /\ d[i + 1] = a
      BY <1>2, <1>6, <2>1, <2>2
    <3>2. g[d[i]] = [message |-> h[d[i]].message, next |-> a]
      BY <1>7, <2>1, <3>1
    <3>. QED  BY <2>1, <3>1, <3>2
  <2>3. CASE i # n
    <3>1. i + 1 \in 1 .. n
      BY <1>1, <2>1, <2>3
    <3>2. d[i] # end
      BY <1>1, <1>6, <2>1, <2>3
    <3>3. g[d[i]] = h[c[i]]
      BY <1>7, <2>1, <3>2
    <3>. QED  BY <1>2, <1>3, <2>3, <3>1, <3>3
  <2>. QED  BY <2>2, <2>3
<1>9. IsList(d, g, start)
  <2>1. start = d[1] /\ Len(d) > 0
    <3>1. CASE n = 0
      BY <1>2, <1>4, <3>1
    <3>2. CASE n # 0
      BY <1>1, <1>2, <1>4, <3>2 DEF IsList, n
    <3>. QED  BY <3>1, <3>2
  <2>2. ASSUME NEW i \in 1 .. Len(d)
        PROVE  /\ g[d[i]].message \in Messages
               /\ g[d[i]].next = IF i = Len(d) THEN NULL ELSE d[i + 1]
    <3>1. CASE i = n + 1
      BY <1>2, <1>7, <3>1
    <3>2. CASE i # n + 1
      <4>1. i \in 1 .. n /\ i # Len(d)
        BY <1>1, <1>2, <3>2
      <4>. QED  BY <1>3, <1>8, <4>1
    <3>. QED  BY <3>1, <3>2
  <2>3. ASSUME NEW i \in 1 .. Len(d), NEW j \in 1 .. Len(d), d[i] = d[j] PROVE i = j
    <3>1. i \in 1 .. n \/ i = n + 1
      BY <1>1, <1>2
    <3>2. j \in 1 .. n \/ j = n + 1
      BY <1>1, <1>2
    <3>. QED  BY <1>1, <1>2, <1>5, <2>3, <3>1, <3>2
  <2>. QED  BY <1>2, <2>1, <2>2, <2>3 DEF IsList
<1>10. ContentsOf(d, g) = Append(ContentsOf(c, h), m)
  <2> DEFINE v == ContentsOf(c, h)
             w == Append(v, m)
  <2>1. v \in Seq(Messages) /\ Len(v) = n /\ \A i \in 1 .. n : v[i] = h[c[i]].message
    BY ContentsLemma DEF n
  <2> HIDE DEF v
  <2>2. w \in Seq(Messages) /\ Len(w) = n + 1 /\ w[n + 1] = m /\ \A i \in 1 .. n : w[i] = v[i]
    BY <2>1, AppendElements
  <2> HIDE DEF w
  <2>3. w = [i \in 1 .. n + 1 |-> w[i]]
    BY <2>2, LenProperties
  <2>4. ASSUME NEW i \in 1 .. n + 1 PROVE w[i] = g[d[i]].message
    <3>1. CASE i = n + 1
      BY <1>2, <1>7, <2>2, <3>1
    <3>2. CASE i # n + 1
      <4>1. i \in 1 .. n
        BY <1>1, <3>2
      <4>. QED  BY <1>8, <2>1, <2>2, <4>1
    <3>. QED  BY <3>1, <3>2
  <2>5. ContentsOf(d, g) = [i \in 1 .. n + 1 |-> g[d[i]].message]
    BY <1>2 DEF ContentsOf
  <2>. QED  BY <2>3, <2>4, <2>5 DEF w, v
<1>. QED  BY <1>7, <1>9, <1>10 DEF d

-----------------------------------------------------------------------------
(* The calls on a queue *)

\* The place of the first message that a receive asks for, 0 if there is none.
FirstIn(pattern) ==
  LET J == { i \in 1 .. Len(Contents) : Contents[i] \in pattern } IN IF J # {} THEN Min(J) ELSE 0

\* What it is to take that message out.
LEMMA TakeMeans ==
  ASSUME NEW pattern, NEW k, k = FirstIn(pattern),
         IF k = 0 THEN last' = << >> /\ Contents' = Contents
         ELSE last' = <<"taken", Contents[k]>> /\ Contents' = RemoveAt(Contents, k)
  PROVE  Sequence!Take(pattern)
<1> DEFINE J == { i \in 1 .. Len(Contents) : Contents[i] \in pattern }
<1>1. (IF J # {} THEN Sequence!Min(J) ELSE 0) = k
  BY DEF FirstIn, Min, Sequence!Min
<1>2. Sequence!RemoveAt(Contents, k) = RemoveAt(Contents, k)
  BY DEF RemoveAt, Sequence!RemoveAt
<1> HIDE DEF J
<1>3. CASE k = 0
  <2>1. UNCHANGED Contents
    BY <1>3
  <2>. QED  BY <1>1, <1>3, <2>1 DEF Sequence!Take, Sequence!SelectInSeq, J
<1>4. CASE k # 0
  BY <1>1, <1>2, <1>4 DEF Sequence!Take, Sequence!SelectInSeq, J
<1>. QED  BY <1>3, <1>4

\* A receive that looks through the list finds what it would find in the sequence.
LEMMA SameMatch ==
  ASSUME NEW c, IsList(c, heap, head), NEW pattern
  PROVE  /\ FirstMatching(pattern) = FirstIn(pattern)
         /\ FirstMatching(pattern) = 0 \/ FirstMatching(pattern) \in 1 .. Len(c)
<1> DEFINE I == { i \in 1 .. Len(Chain) : heap[Chain[i]].message \in pattern }
           J == { i \in 1 .. Len(Contents) : Contents[i] \in pattern }
<1>1. FirstMatching(pattern) = IF I # {} THEN Min(I) ELSE 0
  BY DEF FirstMatching, SelectInSeq
<1>2. FirstIn(pattern) = IF J # {} THEN Min(J) ELSE 0
  BY DEF FirstIn
<1>3. /\ Chain = c /\ Contents = ContentsOf(c, heap) /\ Len(Contents) = Len(c) /\ Len(c) \in Nat
      /\ \A i \in 1 .. Len(c) : Contents[i] = heap[c[i]].message
  BY ContentsNow, ContentsLemma
<1>4. I = J
  BY <1>3
<1>5. I \in SUBSET Nat /\ I \subseteq 1 .. Len(c)
  BY <1>3
<1> HIDE DEF I, J
<1>6. I # {} => Min(I) \in 1 .. Len(c)
  BY <1>5, LeastLemma
<1>. QED  BY <1>1, <1>2, <1>4, <1>6

\* A receive that takes anything finds the first message.
LEMMA AnyMatch ==
  ASSUME NEW c, IsList(c, heap, head)
  PROVE  FirstIn(Messages) = IF Len(c) = 0 THEN 0 ELSE 1
<1> DEFINE J == { i \in 1 .. Len(Contents) : Contents[i] \in Messages }
<1>1. FirstIn(Messages) = IF J # {} THEN Min(J) ELSE 0
  BY DEF FirstIn
<1>2. Contents \in Seq(Messages) /\ Len(Contents) = Len(c) /\ Len(c) \in Nat
  BY ContentsNow, ContentsLemma
<1>3. J = 1 .. Len(c)
  BY <1>2, ElementOfSeq
<1> HIDE DEF J
<1>4. CASE Len(c) = 0
  <2>1. J = {}
    BY <1>3, <1>4
  <2>. QED  BY <1>1, <1>4, <2>1
<1>5. CASE Len(c) # 0
  <2>1. 1 \in J /\ J \in SUBSET Nat
    BY <1>2, <1>3, <1>5
  <2>2. Min(J) \in J /\ Min(J) <= 1
    BY <2>1, LeastLemma
  <2>3. Min(J) = 1
    BY <1>2, <1>3, <2>2
  <2>. QED  BY <1>1, <1>5, <2>1, <2>3
<1>. QED  BY <1>4, <1>5

\* Where the head and the tail of a list are.
LEMMA PlaceOfEnds ==
  ASSUME NEW c, IsList(c, heap, head), EndsAt(c, tail), NEW k \in 1 .. Len(c)
  PROVE  /\ Len(c) \in Nat /\ Len(c) > 0 /\ k \in Nat /\ head = c[1] /\ tail = c[Len(c)]
         /\ 1 \in 1 .. Len(c) /\ Len(c) \in 1 .. Len(c)
         /\ c[k] = head <=> k = 1
         /\ c[k] = tail <=> k = Len(c)
         /\ head = tail <=> Len(c) = 1
<1> DEFINE n == Len(c)
<1>1. n \in Nat /\ k \in Nat /\ n > 0 /\ 1 \in 1 .. n /\ n \in 1 .. n
  BY ContentsLemma
<1>2. head = c[1] /\ tail = c[n] /\ \A i, j \in 1 .. n : c[i] = c[j] => i = j
  BY <1>1 DEF IsList, EndsAt
<1> HIDE DEF n
<1>3. (c[k] = head <=> k = 1) /\ (c[k] = tail <=> k = n) /\ (head = tail <=> n = 1)
  BY <1>1, <1>2 DEF n
<1>. QED  BY <1>1, <1>2, <1>3 DEF n

\* What becomes of the queue when its k-th node is taken out.
Shortens(c, k) ==
  /\ heap' \in [Nodes -> Cell]
  /\ Unlinked(c, k, heap, heap')
  /\ head' = IF k > 1 THEN head ELSE IF Len(c) = 1 THEN NULL ELSE c[2]
  /\ Len(c) > 1 => tail' = IF k = Len(c) THEN c[k - 1] ELSE tail

\* A list that has more than one node does not have one.
LEMMA MoreThanOne == ASSUME NEW n \in Nat PROVE (n > 1 => n # 1) /\ ~ (1 > 1)
OBVIOUS

\* The head is taken off.
LEMMA HeadShortens ==
  ASSUME HeapTyped, NEW c, IsList(c, heap, head), EndsAt(c, tail), Len(c) > 0,
         UnlinkHead, heap' = [heap EXCEPT ![head] = FREE]
  PROVE  Shortens(c, 1)
<1>1. Len(c) \in Nat /\ 1 \in 1 .. Len(c)
  BY ContentsLemma
<1>2. head = c[1] /\ (head = tail <=> Len(c) = 1) /\ head \in Nodes
  BY <1>1, PlaceOfEnds, ContentsLemma
<1>3. heap' \in [Nodes -> Cell] /\ heap'[head] = FREE /\ \A x \in Nodes \ {head} : heap'[x] = heap[x]
  <2>1. FREE \in Cell
    BY DEF FREE, Cell
  <2>2. heap \in [Nodes -> Cell]
    BY DEF HeapTyped
  <2>. QED  BY <1>2, <2>1, <2>2
<1>4. Unlinked(c, 1, heap, heap')
  <2>1. ASSUME NEW n \in Nodes
        PROVE  heap'[n] = IF n = c[1] THEN FREE
                          ELSE IF 1 > 1 /\ n = c[1 - 1]
                          THEN [message |-> heap[n].message, next |-> IF 1 = Len(c) THEN NULL ELSE c[1 + 1]]
                          ELSE heap[n]
    BY <1>2, <1>3
  <2>. QED  BY <2>1 DEF Unlinked
<1>5. heap[head].next = IF Len(c) = 1 THEN NULL ELSE c[2]
  <2>1. heap[c[1]].next = IF 1 = Len(c) THEN NULL ELSE c[1 + 1]
    BY <1>1 DEF IsList
  <2>. QED  BY <1>2, <2>1
<1>6. head' = IF Len(c) = 1 THEN NULL ELSE c[2]
  BY <1>2, <1>5 DEF UnlinkHead
<1>7. Len(c) > 1 => tail' = tail
  <2>1. tail' = IF head = tail THEN NULL ELSE tail
    BY DEF UnlinkHead
  <2>2. Len(c) > 1 => Len(c) # 1
    BY <1>1, MoreThanOne
  <2>. QED  BY <1>2, <2>1, <2>2
<1>8. ~ (1 > 1) /\ (Len(c) > 1 => 1 # Len(c))
  BY <1>1, MoreThanOne
<1>. QED  BY <1>3, <1>4, <1>6, <1>7, <1>8 DEF Shortens

\* Two nodes of a heap change.
LEMMA TwoCells ==
  ASSUME NEW h \in [Nodes -> Cell], NEW p \in Nodes, NEW q \in Nodes, p # q, NEW x \in Nodes \cup {NULL},
         NEW g, g = [h EXCEPT ![p].next = x, ![q] = FREE]
  PROVE  /\ g \in [Nodes -> Cell] /\ g[q] = FREE /\ g[p] = [message |-> h[p].message, next |-> x]
         /\ \A n \in Nodes \ {p, q} : g[n] = h[n]
<1> DEFINE f == [h EXCEPT ![p].next = x]
<1>1. h[p] \in Cell /\ FREE \in Cell
  BY DEF FREE, Cell
<1>2. [h[p] EXCEPT !.next = x] = [message |-> h[p].message, next |-> x]
      /\ [message |-> h[p].message, next |-> x] \in Cell
  BY <1>1 DEF Cell
<1>3. f = [h EXCEPT ![p] = [message |-> h[p].message, next |-> x]]
  BY <1>2
<1>4. g = [f EXCEPT ![q] = FREE]
  OBVIOUS
<1> HIDE DEF f
<1>5. f \in [Nodes -> Cell] /\ f[p] = [message |-> h[p].message, next |-> x]
      /\ \A n \in Nodes \ {p} : f[n] = h[n]
  BY <1>2, <1>3
<1>. QED  BY <1>1, <1>4, <1>5

\* Any node is taken out.
LEMMA UnlinkShortens ==
  ASSUME HeapTyped, NEW c, IsList(c, heap, head), EndsAt(c, tail), NEW k \in 1 .. Len(c), Unlink(k)
  PROVE  Shortens(c, k)
<1> DEFINE n == Len(c)
<1>1. Chain = c /\ n \in Nat /\ n > 0 /\ k \in Nat /\ k \in 1 .. n
      /\ (c[k] = head <=> k = 1) /\ (c[k] = tail <=> k = n)
  BY ContentsNow, PlaceOfEnds
<1>2. CASE k = 1
  <2>1. UnlinkHead /\ heap' = [heap EXCEPT ![head] = FREE]
    BY <1>1, <1>2 DEF Unlink
  <2>. QED  BY <1>1, <1>2, <2>1, HeadShortens
<1>3. CASE k # 1
  <2> DEFINE x == IF k = n THEN NULL ELSE c[k + 1]
  <2>1. k > 1 /\ n > 1 /\ k - 1 \in 1 .. n /\ (k # n => k + 1 \in 1 .. n)
    BY <1>1, <1>3
  <2>2. c[k] \in Nodes /\ c[k - 1] \in Nodes /\ x \in Nodes \cup {NULL}
    BY <1>1, <2>1, ContentsLemma
  <2>3. c[k - 1] # c[k]
    BY <1>1, <2>1 DEF IsList
  <2>4. heap[c[k]].next = x
    BY <1>1 DEF IsList
  <2>5. heap' = [heap EXCEPT ![c[k - 1]].next = x, ![c[k]] = FREE]
    BY <1>1, <1>3, <2>4 DEF Unlink, UnlinkMiddle
  <2>6. head' = head /\ tail' = IF k = n THEN c[k - 1] ELSE tail
    BY <1>1, <1>3 DEF Unlink, UnlinkMiddle
  <2> HIDE DEF x
  <2>7. /\ heap' \in [Nodes -> Cell] /\ heap'[c[k]] = FREE
        /\ heap'[c[k - 1]] = [message |-> heap[c[k - 1]].message, next |-> x]
        /\ \A m \in Nodes \ {c[k - 1], c[k]} : heap'[m] = heap[m]
    <3> DEFINE p == c[k - 1]
               q == c[k]
               h == heap
               g == heap'
    <3>1. /\ h \in [Nodes -> Cell] /\ p \in Nodes /\ q \in Nodes /\ p # q
          /\ g = [h EXCEPT ![p].next = x, ![q] = FREE]
      BY <2>2, <2>3, <2>5 DEF HeapTyped
    <3> HIDE DEF p, q, h, g
    <3>2. /\ g \in [Nodes -> Cell] /\ g[q] = FREE /\ g[p] = [message |-> h[p].message, next |-> x]
          /\ \A m \in Nodes \ {p, q} : g[m] = h[m]
      BY <2>2, <3>1, TwoCells
    <3>. QED  BY <3>2 DEF p, q, h, g
  <2>8. Unlinked(c, k, heap, heap')
    BY <2>1, <2>7 DEF Unlinked, x
  <2>. QED  BY <2>1, <2>6, <2>7, <2>8 DEF Shortens
<1>. QED  BY <1>2, <1>3

\* Then it is a list again, and its messages are those without the k-th.
LEMMA Shorter ==
  ASSUME NEW c, IsList(c, heap, head), EndsAt(c, tail), NEW k \in 1 .. Len(c), Shortens(c, k)
  PROVE  ListInv' /\ Contents' = RemoveAt(Contents, k)
<1> DEFINE d == RemoveAt(c, k)
           n == Len(c)
<1>1. IsList(d, heap', head') /\ ContentsOf(d, heap') = RemoveAt(ContentsOf(c, heap), k)
  BY UnlinkLemma DEF Shortens
<1>2. c \in Seq(Nodes) /\ n \in Nat /\ k \in 1 .. n /\ tail = c[n]
  BY PlaceOfEnds DEF IsList
<1>3. Len(d) = n - 1 /\ \A i \in 1 .. n - 1 : d[i] = IF i < k THEN c[i] ELSE c[i + 1]
  BY <1>2, RemoveAtElements
<1> HIDE DEF d
<1>4. EndsAt(d, tail')
  <2> SUFFICES ASSUME Len(d) > 0 PROVE tail' = d[Len(d)]
    BY DEF EndsAt
  <2>1. n > 1 /\ n - 1 \in 1 .. n - 1 /\ (n - 1) + 1 = n /\ (n - 1 < k <=> k = n)
    BY <1>2, <1>3
  <2>2. tail' = IF k = n THEN c[k - 1] ELSE tail
    BY <2>1 DEF Shortens
  <2>3. d[Len(d)] = IF k = n THEN c[n - 1] ELSE c[n]
    BY <1>3, <2>1
  <2>. QED  BY <1>2, <2>2, <2>3
<1>5. Contents' = RemoveAt(Contents, k)
  BY <1>1, ContentsNow, ContentsThen
<1>6. ListInv'
  BY <1>1, <1>4 DEF ListInv, HeapTyped, Shortens
<1>. QED  BY <1>5, <1>6

\* message_enqueue puts a message behind the others.
LEMMA EnqueueRefines ==
  ASSUME ListInv, NEW a \in Nodes, NEW m \in Messages, MessageEnqueue(a, m)
  PROVE  ListInv' /\ Sequence!Put(m)
<1>1. PICK c : IsList(c, heap, head) /\ EndsAt(c, tail)
  BY DEF ListInv
<1>2. /\ heap \in [Nodes -> Cell] /\ heap[a] = FREE /\ tail' = a /\ last' = <<"put", m>>
      /\ head' = IF head = NULL THEN a ELSE head
      /\ heap' = IF head = NULL THEN [heap EXCEPT ![a] = [message |-> m, next |-> NULL]]
                 ELSE [heap EXCEPT ![a] = [message |-> m, next |-> NULL], ![tail].next = a]
  BY DEF ListInv, HeapTyped, MessageEnqueue
<1> DEFINE d == Append(c, a)
<1>3. /\ IsList(d, heap', head') /\ heap' \in [Nodes -> Cell]
      /\ ContentsOf(d, heap') = Append(ContentsOf(c, heap), m)
  <2> DEFINE h == heap
             first == head
             end == tail
             g == heap'
             start == head'
  <2>1. /\ h \in [Nodes -> Cell] /\ IsList(c, h, first) /\ EndsAt(c, end) /\ h[a] = FREE
        /\ start = IF first = NULL THEN a ELSE first
        /\ Linked(h, first, end, a, m, g)
    BY <1>1, <1>2 DEF Linked
  <2> HIDE DEF h, first, end, g, start
  <2>2. IsList(d, g, start) /\ ContentsOf(d, g) = Append(ContentsOf(c, h), m) /\ g \in [Nodes -> Cell]
    BY <2>1, LinkLemma
  <2>. QED  BY <2>2 DEF h, g, start
<1>4. EndsAt(d, tail')
  <2>1. c \in Seq(Nodes)
    BY <1>1 DEF IsList
  <2>. QED  BY <1>2, <2>1, AppendElements DEF EndsAt
<1> HIDE DEF d
<1>5. Contents' = Append(Contents, m)
  BY <1>1, <1>3, ContentsNow, ContentsThen
<1>6. ListInv'
  BY <1>3, <1>4 DEF ListInv, HeapTyped
<1>. QED  BY <1>2, <1>5, <1>6 DEF Sequence!Put

\* A call that finds nothing.
LEMMA NothingFound ==
  ASSUME ListInv, UNCHANGED <<heap, head, tail>>
  PROVE  ListInv' /\ Contents' = Contents
<1>1. PICK c : IsList(c, heap, head) /\ EndsAt(c, tail)
  BY DEF ListInv
<1>2. IsList(c, heap', head') /\ ContentsOf(c, heap') = ContentsOf(c, heap)
  BY <1>1
<1>3. Contents' = Contents
  BY <1>1, <1>2, ContentsNow, ContentsThen
<1>4. ListInv'
  BY <1>1, <1>2 DEF ListInv, HeapTyped
<1>. QED  BY <1>3, <1>4

\* message_dequeue takes the first message.
LEMMA DequeueRefines ==
  ASSUME ListInv, MessageDequeue
  PROVE  ListInv' /\ Sequence!Take(Messages)
<1>1. PICK c : IsList(c, heap, head) /\ EndsAt(c, tail)
  BY DEF ListInv
<1>2. /\ Len(c) \in Nat /\ Contents = ContentsOf(c, heap)
      /\ \A i \in 1 .. Len(c) : Contents[i] = heap[c[i]].message /\ c[i] # NULL
  BY <1>1, ContentsNow, ContentsLemma
<1>3. FirstIn(Messages) = IF Len(c) = 0 THEN 0 ELSE 1
  BY <1>1, AnyMatch
<1>4. CASE Len(c) = 0
  <2>1. head = NULL
    BY <1>1, <1>4 DEF IsList
  <2>2. last' = << >> /\ UNCHANGED <<heap, head, tail>>
    BY <2>1 DEF MessageDequeue
  <2>3. ListInv' /\ Contents' = Contents
    BY <2>2, NothingFound
  <2>. QED  BY <1>3, <1>4, <2>2, <2>3, TakeMeans
<1>5. CASE Len(c) # 0
  <2>1. Len(c) > 0 /\ 1 \in 1 .. Len(c) /\ head = c[1] /\ head # NULL
    BY <1>1, <1>2, <1>5 DEF IsList
  <2>2. UnlinkHead /\ heap' = [heap EXCEPT ![head] = FREE] /\ last' = <<"taken", heap[head].message>>
    BY <2>1 DEF MessageDequeue
  <2>3. Shortens(c, 1)
    BY <1>1, <2>1, <2>2, HeadShortens DEF ListInv
  <2>4. ListInv' /\ Contents' = RemoveAt(Contents, 1)
    BY <1>1, <2>1, <2>3, Shorter
  <2>5. last' = <<"taken", Contents[1]>>
    BY <1>2, <2>1, <2>2
  <2>. QED  BY <1>3, <1>5, <2>4, <2>5, TakeMeans
<1>. QED  BY <1>4, <1>5

\* data_message_dequeue_matching takes the first one that matches.
LEMMA DequeueMatchingRefines ==
  ASSUME ListInv, NEW pattern, DequeueMatching(pattern)
  PROVE  ListInv' /\ Sequence!Take(pattern)
<1> DEFINE k == FirstMatching(pattern)
<1>1. PICK c : IsList(c, heap, head) /\ EndsAt(c, tail)
  BY DEF ListInv
<1>2. k = FirstIn(pattern) /\ (k = 0 \/ k \in 1 .. Len(c))
  BY <1>1, SameMatch
<1>3. Chain = c /\ Len(c) \in Nat /\ \A i \in 1 .. Len(c) : Contents[i] = heap[c[i]].message
  BY <1>1, ContentsNow, ContentsLemma
<1>4. IF k = 0 THEN last' = << >> /\ UNCHANGED <<heap, head, tail>>
      ELSE last' = <<"taken", heap[Chain[k]].message>> /\ Unlink(k)
  BY DEF DequeueMatching
<1> HIDE DEF k
<1>5. CASE k = 0
  <2>1. ListInv' /\ Contents' = Contents
    BY <1>4, <1>5, NothingFound
  <2>. QED  BY <1>2, <1>4, <1>5, <2>1, TakeMeans
<1>6. CASE k # 0
  <2>1. k \in 1 .. Len(c)
    BY <1>2, <1>6
  <2>2. Shortens(c, k)
    BY <1>1, <1>4, <1>6, <2>1, UnlinkShortens DEF ListInv
  <2>3. ListInv' /\ Contents' = RemoveAt(Contents, k)
    BY <1>1, <2>1, <2>2, Shorter
  <2>4. last' = <<"taken", Contents[k]>>
    BY <1>3, <1>4, <1>6, <2>1
  <2>. QED  BY <1>2, <1>6, <2>3, <2>4, TakeMeans
<1>. QED  BY <1>5, <1>6

\* An empty list.
LEMMA QueueStarts == ASSUME QueueInit PROVE ListInv /\ Sequence!Init
<1>1. IsList(<< >>, heap, head) /\ EndsAt(<< >>, tail)
  BY DEF QueueInit, IsList, EndsAt
<1>2. HeapTyped
  BY DEF QueueInit, HeapTyped, Cell, FREE
<1>3. Contents = << >>
  <2>1. Contents = ContentsOf(<< >>, heap)
    BY <1>1, ContentsNow
  <2>2. ContentsOf(<< >>, heap) \in Seq(Messages) /\ Len(ContentsOf(<< >>, heap)) = 0
    BY <1>1, ContentsLemma
  <2>. QED  BY <2>1, <2>2, EmptySeq
<1>. QED  BY <1>1, <1>2, <1>3 DEF ListInv, QueueInit, Sequence!Init

\* The linked list of message_queue.c with its head and tail pointers implements a
\* sequence: what is put in comes last, and what a call takes out is the first message
\* that it asks for, wherever in the list that is, and although the nodes are freed and
\* allocated again (message_enqueue, message_dequeue, data_message_dequeue_matching).
THEOREM QueueIsSequenceHolds == QueueSpec => QueueIsSequence
<1>1. QueueInit => ListInv /\ Sequence!Init
  BY QueueStarts
<1>2. ListInv /\ [QueueNext]_queueVars => ListInv' /\ [Sequence!Next]_<<Contents, last>>
  <2> SUFFICES ASSUME ListInv, [QueueNext]_queueVars
               PROVE  ListInv' /\ [Sequence!Next]_<<Contents, last>>
    OBVIOUS
  <2>1. CASE \E n \in Nodes, m \in Messages : MessageEnqueue(n, m)
    BY <2>1, EnqueueRefines DEF Sequence!Next
  <2>2. CASE MessageDequeue
    BY <2>2, DequeueRefines DEF Sequence!Next
  <2>3. CASE \E pattern \in Patterns : DequeueMatching(pattern)
    BY <2>3, DequeueMatchingRefines DEF Sequence!Next
  <2>4. CASE UNCHANGED queueVars
    BY <2>4, NothingFound DEF queueVars
  <2>. QED  BY <2>1, <2>2, <2>3, <2>4 DEF QueueNext
<1>. QED  BY <1>1, <1>2, PTL DEF QueueSpec, QueueIsSequence, Sequence!Spec
=============================================================================
