------------------------------ MODULE Gateway ------------------------------
(***************************************************************************)
(* The wide-area data path of eSalsa-MPI (src/src/backend/gateway.c and    *)
(* src/src/backend/messaging.c).                                           *)
(*                                                                         *)
(* An application process hands a data message for another cluster to its  *)
(* gateway over MPI.  The gateway queues it for the gateway with the same  *)
(* rank in the destination cluster, writes it to one of the TCP streams    *)
(* that join the two, and the peer forwards it over MPI to the destination *)
(* process, which matches it against its receives.                         *)
(*                                                                         *)
(* Each gateway is one thread running the loop of messaging_run_gateway:   *)
(* push the messages that came in from the sockets into MPI, then take     *)
(* messages from MPI while there is buffer space, then handle one round of *)
(* socket events.  The round is over when no socket is left unvisited.     *)
(* Messages are whole: a partly written or partly read message stays where *)
(* it is.  All messages have the same size, so that the limit on the bytes *)
(* held and the limit on the messages held are one limit.                  *)
(***************************************************************************)
EXTENDS Integers, Sequences, FiniteSets

CONSTANTS
  Cluster,             \* the clusters of the run
  Column,              \* gateway ranks; every cluster has one gateway of each
  App,                 \* application processes, of all clusters
  Comm,                \* communicators
  Tag,                 \* message tags
  AnySource, AnyTag,   \* wildcards of a receive
  Home,                \* Home[a] : the cluster of a, GET_CLUSTER_RANK(pid)
  Via,                 \* Via[a]  : the gateway rank behind a's my_gateway
  StreamCount,         \* TCP streams between two gateways
  MaxPendingDataMsg,   \* MAX_PENDING_DATA_MSG
  MaxReceiveSequence,  \* MAX_MPI_RECEIVE_SEQUENCE
  MaxReadSequence,     \* MAX_SOCKETS_READ_SEQUENCE
  WireCapacity,        \* bound: messages in the kernel buffers of a stream
  MaxSent              \* bound: MaxSent[a] messages sent by a

ASSUME TopologyAssumption ==
  /\ Home \in [App -> Cluster]
  /\ Via \in [App -> Column]
  /\ AnySource \notin App
  /\ AnyTag \notin Tag

ASSUME LimitsAssumption ==
  /\ StreamCount \in Nat \ {0}
  /\ MaxPendingDataMsg \in Nat \ {0}
  /\ MaxReceiveSequence \in Nat \ {0}
  /\ MaxReadSequence \in Nat \ {0}
  /\ WireCapacity \in Nat \ {0}
  /\ MaxSent \in [App -> Nat]

Gateways   == Cluster \X Column
Connection == { x \in Gateways \X Gateways : /\ x[1][2] = x[2][2]
                                             /\ x[1][1] # x[2][1] }
Stream     == 1 .. StreamCount
Socket     == Connection \X Stream
Lane       == { x \in Gateways \X App : x[1][1] = Home[x[2]] }

GatewayOf(a)    == <<Home[a], Via[a]>>
Reverse(x)      == <<x[2], x[1]>>
ConnectionsOf(g) == { x \in Connection : x[1] = g }
SocketsOf(g)     == ConnectionsOf(g) \X Stream

Message == [src : App, dst : App, comm : Comm, tag : Tag, n : Nat]

VARIABLES
  \* at the application processes
  sent,       \* sent[a]      : log of the messages a has handed over
  queue,      \* queue[b][c]  : unexpected messages stored for communicator c
  waiting,    \* waiting[b]   : the receive b is in, if any
  got,        \* got[b]       : the messages b's receives have returned
  \* MPI inside a cluster
  toGateway,  \* toGateway[a] : TAG_DATA_MSG from a to its gateway
  toApp,      \* toApp[<<g, b>>] : TAG_FORWARDED_DATA_MSG from g to b
  \* at the gateways
  received,   \* received[g]  : data messages taken from MPI in this round
  pending,    \* pending[g]   : pending_data_messages
  outQueue,   \* outQueue[x]  : messages waiting for a stream of connection x
  out,        \* out[y]       : the message socket y is writing, << >> if none
  incoming,   \* incoming[g]  : messages read and not yet forwarded
  unvisited,  \* unvisited[g] : sockets whose event is not handled yet
  \* TCP between gateways
  wire        \* wire[y]      : messages written to socket y and not yet read

appVars     == <<sent, queue, waiting, got>>
gatewayVars == <<received, pending, outQueue, out, incoming, unvisited>>
vars        == <<appVars, toGateway, toApp, gatewayVars, wire>>

\* A receive: blocking for messaging_receive and a wait, not for a test.
Request == [comm : Comm, source : App \cup {AnySource}, tag : Tag \cup {AnyTag},
            blocking : BOOLEAN]
NotWaiting == [waiting |-> FALSE]

\* match_message; the variant forgets to compare the sources.
MatchesAnySource(m, p) == m.comm = p.comm /\ p.tag \in {AnyTag, m.tag}

Matches(m, p) ==
  /\ m.comm = p.comm
  /\ p.source \in {AnySource, m.src}
  /\ p.tag \in {AnyTag, m.tag}

\* The sequence q without its first i elements, and cut to its first.
Drop(q, i) == SubSeq(q, i + 1, Len(q))
FirstOf(q) == IF q = << >> THEN << >> ELSE <<Head(q)>>

\* data_message_dequeue_matching unlinks element i of the list q; the variant
\* moves the head behind it whatever precedes it.
RemoveUpTo(q, i) == SubSeq(q, i + 1, Len(q))
Remove(q, i) == SubSeq(q, 1, i - 1) \o SubSeq(q, i + 1, Len(q))

-----------------------------------------------------------------------------
Init ==
  /\ sent      = [a \in App |-> << >>]
  /\ queue     = [b \in App |-> [c \in Comm |-> << >>]]
  /\ waiting   = [b \in App |-> NotWaiting]
  /\ got       = [b \in App |-> {}]
  /\ toGateway = [a \in App |-> << >>]
  /\ toApp     = [l \in Lane |-> << >>]
  /\ received  = [g \in Gateways |-> 0]
  /\ pending   = [g \in Gateways |-> 0]
  /\ outQueue  = [x \in Connection |-> << >>]
  /\ out       = [y \in Socket |-> << >>]
  /\ incoming  = [g \in Gateways |-> << >>]
  /\ unvisited = [g \in Gateways |-> {}]
  /\ wire      = [y \in Socket |-> << >>]

-----------------------------------------------------------------------------
(* Application processes *)

\* do_send: pack the message and MPI_Send it to my_gateway.
MessagingSend(a, b, c, t) ==
  /\ waiting[a] = NotWaiting
  /\ Home[a] # Home[b]
  /\ Len(sent[a]) < MaxSent[a]
  /\ LET m == [src |-> a, dst |-> b, comm |-> c, tag |-> t, n |-> Len(sent[a]) + 1]
     IN  /\ sent' = [sent EXCEPT ![a] = Append(@, m)]
         /\ toGateway' = [toGateway EXCEPT ![a] = Append(@, m)]
  /\ UNCHANGED <<queue, waiting, got, toApp, gatewayVars, wire>>

\* A receive that goes to the wide area: EMPI_Recv and EMPI_Irecv use MPI when
\* the source is in the same cluster.
IsRemote(b, p) == p.source \in App => Home[p.source] # Home[b]

\* Entering messaging_receive, or messaging_probe_receive for a request that is
\* not complete.
MessagingReceive(b, p) ==
  /\ waiting[b] = NotWaiting
  /\ IsRemote(b, p)
  /\ waiting' = [waiting EXCEPT ![b] = p]
  /\ UNCHANGED <<sent, queue, got, toGateway, toApp, gatewayVars, wire>>

Return(b) == waiting' = [waiting EXCEPT ![b] = NotWaiting]

\* Position i of the queue of p's communicator holds the message that
\* find_pending_message returns.  The variants take any that matches, and do
\* not know about the wildcard for tags.
FindsAnyPending(b, p, i) ==
  /\ i \in DOMAIN queue[b][p.comm]
  /\ Matches(queue[b][p.comm][i], p)

FindsSameTag(b, p, i) ==
  /\ i \in DOMAIN queue[b][p.comm]
  /\ Matches(queue[b][p.comm][i], p)
  /\ queue[b][p.comm][i].tag = p.tag

FindsPending(b, p, i) ==
  /\ i \in DOMAIN queue[b][p.comm]
  /\ Matches(queue[b][p.comm][i], p)
  /\ \A j \in 1 .. i - 1 : ~ Matches(queue[b][p.comm][j], p)

\* Messages already stored come first.
TakePending(b) ==
  /\ waiting[b] # NotWaiting
  /\ LET c == waiting[b].comm IN
     \E i \in DOMAIN queue[b][c] :
       /\ FindsPending(b, waiting[b], i)
       /\ got' = [got EXCEPT ![b] = @ \cup {queue[b][c][i]}]
       /\ queue' = [queue EXCEPT ![b][c] = Remove(@, i)]
  /\ Return(b)
  /\ UNCHANGED <<sent, toGateway, toApp, gatewayVars, wire>>

NonePending(b) ==
  /\ waiting[b] # NotWaiting
  /\ \A i \in DOMAIN queue[b][waiting[b].comm] : ~ FindsPending(b, waiting[b], i)

\* One turn of the probe loop: receive one forwarded message; it is the answer
\* if it matches, otherwise store_message it in the queue of its communicator
\* and, if blocking, probe again.
ProbeLoop(b, g) ==
  /\ NonePending(b)
  /\ <<g, b>> \in Lane
  /\ toApp[<<g, b>>] # << >>
  /\ toApp' = [toApp EXCEPT ![<<g, b>>] = Tail(@)]
  /\ LET m == Head(toApp[<<g, b>>]) IN
     \/ /\ Matches(m, waiting[b])
        /\ got' = [got EXCEPT ![b] = @ \cup {m}]
        /\ Return(b)
        /\ UNCHANGED queue
     \/ /\ ~ Matches(m, waiting[b])
        /\ queue' = [queue EXCEPT ![b][m.comm] = Append(@, m)]
        /\ IF waiting[b].blocking THEN UNCHANGED waiting ELSE Return(b)
        /\ UNCHANGED got
  /\ UNCHANGED <<sent, toGateway, gatewayVars, wire>>

\* PMPI_Iprobe sees no message yet: the test comes back empty-handed.
ProbeNothing(b) ==
  /\ NonePending(b)
  /\ ~ waiting[b].blocking
  /\ Return(b)
  /\ UNCHANGED <<sent, queue, got, toGateway, toApp, gatewayVars, wire>>

-----------------------------------------------------------------------------
(* Gateways *)

\* One turn of forward_data_messages_to_mpi: dequeue and Isend.
ForwardDataMessage(g) ==
  /\ unvisited[g] = {}
  /\ incoming[g] # << >>
  /\ LET m == Head(incoming[g]) IN
     /\ Home[m.dst] = g[1]
     /\ toApp' = [toApp EXCEPT ![<<g, m.dst>>] = Append(@, m)]
  /\ incoming' = [incoming EXCEPT ![g] = Tail(@)]
  /\ UNCHANGED <<appVars, toGateway, received, pending, outQueue, out, unvisited,
                 wire>>

\* The limits on receiving from MPI; the variant is off by one.
MayReceiveOneMore(g) ==
  /\ pending[g] < MaxPendingDataMsg
  /\ received[g] <= MaxReceiveSequence

MayReceive(g) ==
  /\ pending[g] < MaxPendingDataMsg
  /\ received[g] < MaxReceiveSequence

\* The queue enqueue_data_message picks: the connection to the cluster of dst.
\* The variant always picks the same one.
FixedTarget(g, m) == CHOOSE x \in ConnectionsOf(g) : TRUE
Target(g, m) == <<g, <<Home[m.dst], g[2]>>>>

\* All that came in is forwarded: receive_mpi_data_message, one turn of the
\* loop at the end of process_mpi_messages, and enqueue_data_message.
ReceiveDataMessage(g, a) ==
  /\ unvisited[g] = {}
  /\ incoming[g] = << >>
  /\ MayReceive(g)
  /\ GatewayOf(a) = g
  /\ toGateway[a] # << >>
  /\ LET m == Head(toGateway[a]) IN
     outQueue' = [outQueue EXCEPT ![Target(g, m)] = Append(@, m)]
  /\ toGateway' = [toGateway EXCEPT ![a] = Tail(@)]
  /\ pending' = [pending EXCEPT ![g] = @ + 1]
  /\ received' = [received EXCEPT ![g] = @ + 1]
  /\ UNCHANGED <<appVars, toApp, out, incoming, unvisited, wire>>

\* process_mpi_messages has returned: nothing is left to forward, and nothing
\* to receive or no room for it.
MpiDone(g) ==
  /\ unvisited[g] = {}
  /\ incoming[g] = << >>
  /\ MayReceive(g) => \A a \in App : GatewayOf(a) = g => toGateway[a] = << >>

\* prepare_message: an idle socket takes the next message of its connection.
\* prepare_messages goes through the streams in order.
Prepare(y) ==
  /\ out[y] = << >>
  /\ outQueue[y[1]] # << >>
  /\ out' = [out EXCEPT ![y] = <<Head(outQueue[y[1]])>>]
  /\ outQueue' = [outQueue EXCEPT ![y[1]] = Tail(@)]

PrepareMessage(g, y) ==
  /\ MpiDone(g)
  /\ \A s \in 1 .. y[2] - 1 : out[<<y[1], s>>] # << >>
  /\ Prepare(y)
  /\ UNCHANGED <<appVars, toGateway, toApp, received, pending, incoming, unvisited,
                 wire>>

\* Every socket that can be is prepared: poll_socket_event.  Which sockets have
\* events shows when they are visited.
PollSockets(g) ==
  /\ MpiDone(g)
  /\ \A y \in SocketsOf(g) : out[y] = << >> => outQueue[y[1]] = << >>
  /\ received' = [received EXCEPT ![g] = 0]
  /\ unvisited' = [unvisited EXCEPT ![g] = SocketsOf(g)]
  /\ UNCHANGED <<appVars, toGateway, toApp, pending, outQueue, out, incoming, wire>>

\* The pending data counts, after k messages have been written.  The variants
\* count once per event, and not at all.
CountEvent(g, k)   == pending' = [pending EXCEPT ![g] = IF k > 0 THEN @ - 1 ELSE @]
CountNothing(g, k) == pending' = pending
CountWritten(g, k) == pending' = [pending EXCEPT ![g] = @ - k]

\* nonblock_write_messages on socket y writes k messages: what is in progress,
\* then from the head of the queue, until the kernel takes no more.
WriteMessages(y, k) ==
  LET line == out[y] \o outQueue[y[1]]
      rest == Drop(line, k)
  IN  /\ k > 0 => out[y] # << >>
      /\ k <= Len(line)
      /\ Len(wire[y]) + k <= WireCapacity
      /\ out' = IF k = 0 THEN out ELSE [out EXCEPT ![y] = FirstOf(rest)]
      /\ outQueue' = IF k = 0 THEN outQueue
                              ELSE [outQueue EXCEPT ![y[1]] = Drop(rest, 1)]
      /\ CountWritten(y[1][1], k)

\* The other end of a socket: what its peer writes and this side reads.
OtherEnd(y) == <<Reverse(y[1]), y[2]>>

\* nonblock_read_messages on socket y reads k messages.
ReadMessages(y, k) ==
  /\ k <= MaxReadSequence
  /\ k <= Len(wire[OtherEnd(y)])
  /\ incoming' = [incoming EXCEPT ![y[1][1]] = @ \o SubSeq(wire[OtherEnd(y)], 1, k)]

\* handle_socket_event on socket y of gateway g: w messages written, then r
\* read.  With the last socket the round ends and the loop starts again.
HandleSocketEvent(g, y, w, r) ==
  /\ y \in unvisited[g]
  /\ WriteMessages(y, w)
  /\ ReadMessages(y, r)
  /\ wire' = [wire EXCEPT ![y] = @ \o SubSeq(out[y] \o outQueue[y[1]], 1, w),
                          ![OtherEnd(y)] = Drop(@, r)]
  /\ unvisited' = [unvisited EXCEPT ![g] = @ \ {y}]
  /\ UNCHANGED <<appVars, toGateway, toApp, received>>

-----------------------------------------------------------------------------
HandleAnyEvent(g, y) ==
  \E w \in 0 .. WireCapacity, r \in 0 .. MaxReadSequence : HandleSocketEvent(g, y, w, r)

GatewayStep(g) ==
  \/ ForwardDataMessage(g)
  \/ \E a \in App : ReceiveDataMessage(g, a)
  \/ \E y \in SocketsOf(g) : PrepareMessage(g, y)
  \/ PollSockets(g)
  \/ \E y \in SocketsOf(g) : HandleAnyEvent(g, y)

AppStep(a) ==
  \/ \E b \in App, c \in Comm, t \in Tag : MessagingSend(a, b, c, t)
  \/ \E p \in Request : MessagingReceive(a, p)
  \/ TakePending(a)
  \/ \E g \in Gateways : ProbeLoop(a, g)
  \/ ProbeNothing(a)

Next == (\E g \in Gateways : GatewayStep(g)) \/ (\E a \in App : AppStep(a))

Spec == Init /\ [][Next]_vars

\* The gateway loop keeps running; TCP keeps moving data, and epoll, which is
\* level-triggered, keeps reporting a socket that can be written or read; a
\* process blocked in a probe is woken by what MPI has for it.  Applications
\* are not obliged to send or to receive.
Fairness ==
  /\ \A g \in Gateways : WF_vars(GatewayStep(g))
  /\ \A g \in Gateways : \A y \in SocketsOf(g) :
       /\ SF_vars(\E w \in 1 .. WireCapacity, r \in 0 .. MaxReadSequence :
                    HandleSocketEvent(g, y, w, r))
       /\ SF_vars(\E w \in 0 .. WireCapacity, r \in 1 .. MaxReadSequence :
                    HandleSocketEvent(g, y, w, r))
  /\ \A a \in App : WF_vars(TakePending(a) \/ \E g \in Gateways : ProbeLoop(a, g))

FairSpec == Spec /\ Fairness

-----------------------------------------------------------------------------
(* Properties *)

MessageSeq == Seq(Message)

\* Every variable keeps its type.
TypeOK ==
  /\ sent \in [App -> MessageSeq]
  /\ queue \in [App -> [Comm -> MessageSeq]]
  /\ waiting \in [App -> Request \cup {NotWaiting}]
  /\ got \in [App -> SUBSET Message]
  /\ toGateway \in [App -> MessageSeq]
  /\ toApp \in [Lane -> MessageSeq]
  /\ received \in [Gateways -> 0 .. MaxReceiveSequence]
  /\ pending \in [Gateways -> Int]
  /\ outQueue \in [Connection -> MessageSeq]
  /\ out \in [Socket -> MessageSeq]
  /\ \A y \in Socket : Len(out[y]) <= 1
  /\ incoming \in [Gateways -> MessageSeq]
  /\ unvisited \in [Gateways -> SUBSET Socket]
  /\ wire \in [Socket -> MessageSeq]

Elements(q) == { q[i] : i \in DOMAIN q }

\* The messages that gateway g has taken from MPI and not yet written.
Held(g) == UNION ( { Elements(outQueue[x]) : x \in ConnectionsOf(g) }
                   \cup { Elements(out[y]) : y \in SocketsOf(g) } )

\* pending_data_messages counts exactly the messages the gateway holds.  If it
\* ever counted more, the gateway would in the end stop receiving for good; if
\* it counted less, it would buffer without limit.
PendingExact == \A g \in Gateways : pending[g] = Cardinality(Held(g))

\* No message is lost: what was sent and not yet received is on its way.
InTransit(m) ==
  LET g == GatewayOf(m.src)
      h == <<Home[m.dst], g[2]>>
      x == <<g, h>>
  IN  m \in UNION ( { Elements(toGateway[m.src]), Elements(outQueue[x]),
                      Elements(incoming[h]), Elements(toApp[<<h, m.dst>>]),
                      Elements(queue[m.dst][m.comm]) }
                    \cup { Elements(out[<<x, s>>]) : s \in Stream }
                    \cup { Elements(wire[<<x, s>>]) : s \in Stream } )

\* A message is on its way, at a place that leads to its destination, until it
\* is received, and never both.
NoLossNoDuplication ==
  \A a \in App : \A i \in DOMAIN sent[a] :
    InTransit(sent[a][i]) <=> sent[a][i] \notin got[sent[a][i].dst]

\* The ordered, lossless service the application is promised.
Service == INSTANCE PointToPoint WITH sent <- sent, waiting <- waiting, got <- got
Implements == Service!Spec

\* A process blocked in a receive for which a message has been sent is woken.
ReceiveCompletes ==
  \A b \in App :
    (/\ waiting[b] # NotWaiting
     /\ \E a \in App : Service!Candidates(a, b, waiting[b]) # {})
    ~> waiting[b] = NotWaiting

\* The i-th message of a has been handed to MPI at its destination.
Delivered(a, i) ==
  /\ i \in DOMAIN sent[a]
  /\ LET m == sent[a][i] IN
     \/ m \in Elements(toApp[<<<<Home[m.dst], Via[a]>>, m.dst>>])
     \/ m \in Elements(queue[m.dst][m.comm])
     \/ m \in got[m.dst]

\* Every message leaves the gateways for its destination, whether or not the
\* destination, or any other process, ever receives.
GatewaysDeliver ==
  \A a \in App : \A i \in 1 .. MaxSent[a] : i \in DOMAIN sent[a] ~> Delivered(a, i)
=============================================================================
