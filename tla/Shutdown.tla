------------------------------ MODULE Shutdown ------------------------------
(***************************************************************************)
(* EMPI_Finalize: how applications, gateways and the server stop together  *)
(* (src/src/backend/messaging.c and gateway.c, Communicator.java,          *)
(* Cluster.java and Server.java).                                          *)
(*                                                                         *)
(* Finalizing is a collective operation on COMM_WORLD.  When the requests  *)
(* of all processes are in, the server replies to the processes and to the *)
(* gateways; the replies to a cluster go through its master gateway.  A    *)
(* gateway with its reply leaves its loop and joins the processes of its   *)
(* cluster in a barrier.  The master then tells the server that its        *)
(* cluster is ready (CLOSE_LINK), the server answers when all are, and the *)
(* gateways close their sockets.  A gateway in its loop takes a socket     *)
(* closed by its peer for an error.                                        *)
(***************************************************************************)
EXTENDS Integers, Sequences, FiniteSets

CONSTANTS
  Cluster,     \* clusters
  Column,      \* gateway ranks; every cluster has one gateway of each
  MasterRank,  \* the gateway rank of the master gateways
  App,         \* application processes
  Home,        \* Home[a] : the cluster of a
  Via,         \* Via[a]  : the gateway rank behind a's my_gateway
  Data         \* the data messages of the program: <<source, destination>>

ASSUME PlacesAssumption ==
  /\ MasterRank \in Column
  /\ Home \in [App -> Cluster]
  /\ Via \in [App -> Column]
  /\ Data \subseteq App \X App
  /\ App \cap (Cluster \X Column) = {}

CONSTANT CloseLink  \* the message OPCODE_CLOSE_LINK

ASSUME CloseLinkAssumption == CloseLink \notin App \cup (Cluster \X Column)

Gateways  == Cluster \X Column
Master(c) == <<c, MasterRank>>
ClusterOf(p) == IF p \in App THEN Home[p] ELSE p[1]

VARIABLES
  \* processes and gateways
  phase,        \* phase[a] : how far a is with EMPI_Finalize
  stage,        \* stage[g] : how far g is with messaging_run_gateway
  done,         \* done[g]  : g's flag done
  place,        \* place[m] : where data message m is
  \* between the processes and the server
  toMaster,     \* toMaster[c]  : requests at c's master: in MPI, server_queue_out
  toServer,     \* toServer[c]  : the stream from c's master to the server
  toCluster,    \* toCluster[c] : Cluster.incoming and the stream to c's master
  serverIn,     \* serverIn[c]  : server_queue_in of c's master
  toProcess,    \* the processes and gateways for whom a reply is in MPI
  \* the server
  participants, \* the processes whose request is in
  unanswered,   \* unanswered[c] : the replies c's receiver thread is to enqueue
  clustersDone, \* the clusters whose receiver thread has met CLOSE_LINK
  linksClosed   \* the clusters whose sender thread has answered CLOSE_LINK

gatewayVars == <<stage, done>>
streams     == <<toMaster, toServer, toCluster, serverIn, toProcess>>
serverVars  == <<participants, unanswered, clustersDone, linksClosed>>
vars        == <<phase, gatewayVars, place, streams, serverVars>>

-----------------------------------------------------------------------------
Init ==
  /\ phase        = [a \in App |-> "running"]
  /\ stage        = [g \in Gateways |-> "loop"]
  /\ done         = [g \in Gateways |-> FALSE]
  /\ place        = [m \in Data |-> "unsent"]
  /\ toMaster     = [c \in Cluster |-> {}]
  /\ toServer     = [c \in Cluster |-> << >>]
  /\ toCluster    = [c \in Cluster |-> << >>]
  /\ serverIn     = [c \in Cluster |-> << >>]
  /\ toProcess    = {}
  /\ participants = {}
  /\ unanswered   = [c \in Cluster |-> {}]
  /\ clustersDone = {}
  /\ linksClosed  = {}

\* The gateways message m goes through.
Sender(m)   == <<Home[m[1]], Via[m[1]]>>
Receiver(m) == <<Home[m[2]], Via[m[1]]>>

\* g is in the loop of messaging_run_gateway and serves its sockets.
Serves(g) == stage[g] = "loop" /\ ~ done[g]

Put(q, c, x) == [q EXCEPT ![c] = Append(@, x)]
Take(q, c)   == [q EXCEPT ![c] = Tail(@)]

-----------------------------------------------------------------------------
(* Application processes *)

\* A data message moves on: from its source to the gateway, to the peer, which
\* hands it to MPI, to the destination.  (The way is the subject of Gateway.)
Move(m, from, to) ==
  /\ place[m] = from
  /\ place' = [place EXCEPT ![m] = to]
  /\ UNCHANGED <<phase, gatewayVars, streams, serverVars>>

SendData(m)    == phase[m[1]] = "running" /\ Move(m, "unsent", "gateway")
CarryData(m)   == Serves(Sender(m)) /\ Move(m, "gateway", "wire")
ForwardData(m) == Serves(Receiver(m)) /\ Move(m, "wire", "mpi")
ReceiveData(m) == phase[m[2]] = "running" /\ Move(m, "mpi", "received")

\* EMPI_Finalize: send the request to the master gateway.  As in any MPI
\* program, all that is sent is received before.
Finalize(a) ==
  /\ phase[a] = "running"
  /\ \A m \in Data : /\ m[1] = a => place[m] # "unsent"
                     /\ m[2] = a => place[m] = "received"
  /\ phase' = [phase EXCEPT ![a] = "asked"]
  /\ toMaster' = [toMaster EXCEPT ![Home[a]] = @ \cup {a}]
  /\ UNCHANGED <<gatewayVars, place, toServer, toCluster, serverIn, toProcess, serverVars>>

\* The reply is in: enter the barrier on MPI_COMM_WORLD.
FinalizeReply(a) ==
  /\ phase[a] = "asked"
  /\ a \in toProcess
  /\ toProcess' = toProcess \ {a}
  /\ phase' = [phase EXCEPT ![a] = "barrier"]
  /\ UNCHANGED <<gatewayVars, place, toMaster, toServer, toCluster, serverIn, serverVars>>

\* All processes and gateways of c have entered the barrier on MPI_COMM_WORLD.
AllInWorld(c) ==
  /\ \A a \in App : Home[a] = c => phase[a] \in {"barrier", "stopped"}
  /\ \A g \in Gateways : g[1] = c => stage[g] # "loop"

Stop(a) ==
  /\ phase[a] = "barrier"
  /\ AllInWorld(Home[a])
  /\ phase' = [phase EXCEPT ![a] = "stopped"]
  /\ UNCHANGED <<gatewayVars, place, streams, serverVars>>

-----------------------------------------------------------------------------
(* Gateways *)

\* receive_mpi_server_request, enqueue_server_request, and the request is
\* written to the server.
ForwardRequest(c, a) ==
  /\ Serves(Master(c))
  /\ a \in toMaster[c]
  /\ toMaster' = [toMaster EXCEPT ![c] = @ \ {a}]
  /\ toServer' = Put(toServer, c, a)
  /\ UNCHANGED <<phase, gatewayVars, place, toCluster, serverIn, toProcess, serverVars>>

\* nonblock_read_message on the socket of the server.
ReadServerMessage(c) ==
  /\ Serves(Master(c))
  /\ toCluster[c] # << >>
  /\ toCluster' = Take(toCluster, c)
  /\ serverIn' = Put(serverIn, c, Head(toCluster[c]))
  /\ UNCHANGED <<phase, gatewayVars, place, toMaster, toServer, toProcess, serverVars>>

\* One turn of forward_server_messages_to_mpi.  The master's own reply sets done
\* and the rest is still forwarded.
ForwardServerMessage(c) ==
  /\ stage[Master(c)] = "loop"
  /\ serverIn[c] # << >>
  /\ LET p == Head(serverIn[c]) IN
     IF p = Master(c)
     THEN /\ done' = [done EXCEPT ![p] = TRUE]
          /\ UNCHANGED toProcess
     ELSE /\ toProcess' = toProcess \cup {p}
          /\ UNCHANGED done
  /\ serverIn' = Take(serverIn, c)
  /\ UNCHANGED <<phase, stage, place, toMaster, toServer, toCluster, serverVars>>

\* receive_mpi_server_reply at a gateway that is not the master.
ReceiveServerReply(g) ==
  /\ stage[g] = "loop"
  /\ g \in toProcess
  /\ toProcess' = toProcess \ {g}
  /\ done' = [done EXCEPT ![g] = TRUE]
  /\ UNCHANGED <<phase, stage, place, toMaster, toServer, toCluster, serverIn, serverVars>>

\* The loop ends: enter the barrier on MPI_COMM_WORLD.
LeaveLoop(g) ==
  /\ stage[g] = "loop"
  /\ done[g]
  /\ g = Master(g[1]) => serverIn[g[1]] = << >>
  /\ stage' = [stage EXCEPT ![g] = "world"]
  /\ UNCHANGED <<phase, done, place, streams, serverVars>>

\* The barrier is passed.  In cleanup the master reports to the server and waits
\* for the answer; the others enter the barrier of the gateways.
\* The variant reports at every gateway.
OnAnyRank(g) == TRUE
IsMaster(g) == g = Master(g[1])

Cleanup(g) ==
  /\ stage[g] = "world"
  /\ AllInWorld(g[1])
  /\ IF IsMaster(g)
     THEN /\ stage' = [stage EXCEPT ![g] = "cleanup"]
          /\ toServer' = Put(toServer, g[1], CloseLink)
     ELSE /\ stage' = [stage EXCEPT ![g] = "gateways"]
          /\ UNCHANGED toServer
  /\ UNCHANGED <<phase, done, place, toMaster, toCluster, serverIn, toProcess, serverVars>>

\* The answer, socket_receivefully: the next that comes, whatever it is.
ReceiveCloseLink(c) ==
  /\ stage[Master(c)] = "cleanup"
  /\ toCluster[c] # << >>
  /\ toCluster' = Take(toCluster, c)
  /\ stage' = [stage EXCEPT ![Master(c)] = "gateways"]
  /\ UNCHANGED <<phase, done, place, toMaster, toServer, serverIn, toProcess, serverVars>>

\* All gateways of the cluster are in the barrier: disconnect_gateways.
AllInGateways(c) == \A g \in Gateways : g[1] = c => stage[g] \in {"gateways", "closed"}

Disconnect(g) ==
  /\ stage[g] = "gateways"
  /\ AllInGateways(g[1])
  /\ stage' = [stage EXCEPT ![g] = "closed"]
  /\ UNCHANGED <<phase, done, place, streams, serverVars>>

-----------------------------------------------------------------------------
(* Server *)

\* All processes have sent their request (deliverRequest).  The variant goes on
\* when one is missing.
AllButOneIn(in) == Cardinality(in) >= Cardinality(App) - 1
AllIn(in) == in = App

\* receiveMessage, a request: with the last, processFinalize replies to all
\* processes and gateways.
DeliverRequest(c) ==
  /\ toServer[c] # << >>
  /\ unanswered[c] = {}
  /\ LET a == Head(toServer[c]) IN
     /\ a # CloseLink
     /\ participants' = participants \cup {a}
     /\ unanswered' = IF AllIn(participants') THEN [unanswered EXCEPT ![c] = App \cup Gateways]
                                              ELSE unanswered
  /\ toServer' = Take(toServer, c)
  /\ UNCHANGED <<phase, gatewayVars, place, toMaster, toCluster, serverIn, toProcess,
                 clustersDone, linksClosed>>

\* The reply to p precedes the one to q: processes come first, and the master is
\* the last of its cluster.  The order is left open otherwise.  The variant does
\* without the rule for the master.
ProcessesFirst(p, q) == p \in App /\ q \in Gateways
Precedes(p, q) ==
  \/ p \in App /\ q \in Gateways
  \/ p \in Gateways /\ q = Master(p[1]) /\ p # q

EnqueueReply(c, p) ==
  /\ p \in unanswered[c]
  /\ \A q \in unanswered[c] : ~ Precedes(q, p)
  /\ unanswered' = [unanswered EXCEPT ![c] = @ \ {p}]
  /\ toCluster' = Put(toCluster, ClusterOf(p), p)
  /\ UNCHANGED <<phase, gatewayVars, place, toMaster, toServer, serverIn, toProcess,
                 participants, clustersDone, linksClosed>>

\* receiveMessage, CLOSE_LINK: count the cluster and end the thread.
ClusterDone(c) ==
  /\ toServer[c] # << >>
  /\ unanswered[c] = {}
  /\ c \notin clustersDone
  /\ Head(toServer[c]) = CloseLink
  /\ toServer' = Take(toServer, c)
  /\ clustersDone' = clustersDone \cup {c}
  /\ UNCHANGED <<phase, gatewayVars, place, toMaster, toCluster, serverIn, toProcess,
                 participants, unanswered, linksClosed>>

\* allClustersDone.  The variant does not wait for the others.
DontWait(c) == c \in clustersDone
AllClustersDone(c) == clustersDone = Cluster

\* closeSocket, when the cluster's sender thread is done.
CloseSocket(c) ==
  /\ c \in clustersDone \ linksClosed
  /\ AllClustersDone(c)
  /\ linksClosed' = linksClosed \cup {c}
  /\ toCluster' = Put(toCluster, c, CloseLink)
  /\ UNCHANGED <<phase, gatewayVars, place, toMaster, toServer, serverIn, toProcess,
                 participants, unanswered, clustersDone>>

-----------------------------------------------------------------------------
ProcessStep(a) ==
  \/ \E m \in Data : m[1] = a /\ SendData(m)
  \/ \E m \in Data : m[2] = a /\ ReceiveData(m)
  \/ Finalize(a)
  \/ FinalizeReply(a)
  \/ Stop(a)

GatewayStep(g) ==
  \/ \E m \in Data : Sender(m) = g /\ CarryData(m)
  \/ \E m \in Data : Receiver(m) = g /\ ForwardData(m)
  \/ ReceiveServerReply(g)
  \/ LeaveLoop(g)
  \/ Cleanup(g)
  \/ Disconnect(g)

MasterStep(c) ==
  \/ \E a \in App : ForwardRequest(c, a)
  \/ ReadServerMessage(c)
  \/ ForwardServerMessage(c)
  \/ ReceiveCloseLink(c)

ReceiverThread(c) ==
  \/ DeliverRequest(c)
  \/ \E p \in App \cup Gateways : EnqueueReply(c, p)
  \/ ClusterDone(c)

\* Everybody has stopped.
AllStopped ==
  /\ \A a \in App : phase[a] = "stopped"
  /\ \A g \in Gateways : stage[g] = "closed"
  /\ linksClosed = Cluster

Over == AllStopped /\ UNCHANGED vars

Next ==
  \/ \E a \in App : ProcessStep(a)
  \/ \E g \in Gateways : GatewayStep(g)
  \/ \E c \in Cluster : MasterStep(c) \/ ReceiverThread(c) \/ CloseSocket(c)
  \/ Over

Spec == Init /\ [][Next]_vars

\* Every process calls EMPI_Finalize in the end; processes, gateways and the
\* server's threads keep running.
Fairness ==
  /\ \A a \in App : WF_vars(ProcessStep(a))
  /\ \A g \in Gateways : WF_vars(GatewayStep(g))
  /\ \A c \in Cluster : /\ WF_vars(MasterStep(c))
                        /\ WF_vars(ReceiverThread(c))
                        /\ WF_vars(CloseSocket(c))

FairSpec == Spec /\ Fairness

-----------------------------------------------------------------------------
(* Properties *)

Reply == App \cup Gateways

Distinct(q) == \A i, j \in DOMAIN q : q[i] = q[j] => i = j

\* Every variable keeps its type; the server is told everything once.
TypeOK ==
  /\ phase \in [App -> {"running", "asked", "barrier", "stopped"}]
  /\ stage \in [Gateways -> {"loop", "world", "cleanup", "gateways", "closed"}]
  /\ done \in [Gateways -> BOOLEAN]
  /\ place \in [Data -> {"unsent", "gateway", "wire", "mpi", "received"}]
  /\ toMaster \in [Cluster -> SUBSET App]
  /\ toServer \in [Cluster -> Seq(App \cup {CloseLink})]
  /\ \A c \in Cluster : Distinct(toServer[c])
  /\ toCluster \in [Cluster -> Seq(Reply \cup {CloseLink})]
  /\ serverIn \in [Cluster -> Seq(Reply)]
  /\ toProcess \subseteq Reply
  /\ participants \subseteq App
  /\ unanswered \in [Cluster -> SUBSET Reply]
  /\ clustersDone \subseteq Cluster
  /\ linksClosed \subseteq clustersDone

\* A gateway that still serves its sockets, which would take an EOF for an
\* error, has no peer that has closed its end: not even if the master takes
\* another message for the answer to CLOSE_LINK.
NoUnexpectedEOF ==
  \A g, h \in Gateways :
    g[2] = h[2] /\ stage[h] = "closed" => stage[g] # "loop"

\* A gateway that no longer serves its sockets carries no data that somebody is
\* waiting for.
NothingLeftBehind ==
  \A m \in Data :
    /\ place[m] = "gateway" => Serves(Sender(m))
    /\ place[m] = "wire" => Serves(Receiver(m))

\* No process leaves EMPI_Finalize, in any cluster, before every process of all
\* clusters has entered it.
FinalizeIsCollective ==
  \A a, b \in App : phase[a] \in {"barrier", "stopped"} => phase[b] # "running"

\* The whole system stops: the reply reaches every process and gateway before
\* the master that forwards it leaves, and nobody waits for ever.
EverybodyStops == <>AllStopped
=============================================================================
