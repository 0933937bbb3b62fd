------------------------------- MODULE Startup -------------------------------
(***************************************************************************)
(* How a run of the program starts (Server.java, Cluster.java, the init    *)
(* functions of gateway.c and messaging.c).  The master gateway of each    *)
(* cluster signs up with the server, which collects and spreads the        *)
(* addresses of all gateways; then each gateway is connected with the one  *)
(* of the same rank in every other cluster, and the application starts.    *)
(*                                                                         *)
(* connect() returns as soon as the kernel of the other side has put the   *)
(* connection in the backlog of a listening socket, and closing that       *)
(* socket resets what is still there.  Sends between the gateways of a     *)
(* cluster do not block: the receiver is always on its way to the receive. *)
(* A gateway that meets an ERROR has crashed: the application of its       *)
(* cluster does not start, and the kernel closes its connections.          *)
(***************************************************************************)
EXTENDS Integers, Sequences, TLC

CONSTANTS
  ClusterCount, GatewayCount, Streams,  \* the server's configuration
  Backlog,    \* bound: connections the kernel holds for a listening socket
  Jobs,       \* bound: the MPI jobs that are started
  File,       \* File[j] : what the configuration file of job j sets, in its order
  Arguments,  \* Arguments[j] : what its command line sets
  Port,       \* the port of the server
  Addressless \* the gateways whose only address is that of the loopback device

Cluster == 0 .. ClusterCount - 1
Gateway == 0 .. GatewayCount - 1
Node    == Cluster \X Gateway
Unknown == -1
NoJob   == -1

\* A configuration has the name of a cluster (its number, or Unknown to the server),
\* that of the server, which can be resolved or not, and the server's port.
Null    == -2
Unset   == [name |-> Null, server |-> "NULL", port |-> -1 % 2^16]

\* The TCP connections there should be: <<from, to, gateway rank, stream>>.
Connection == { k \in Cluster \X Cluster \X Gateway \X (0 .. Streams - 1) : k[1] < k[2] }

\* What a configuration of the server guarantees.
StartupAssumption ==
  /\ ClusterCount \in Nat \ {0} /\ GatewayCount \in Nat \ {0} /\ Streams \in Nat \ {0}
  /\ Backlog \in Nat \ {0}
  /\ Addressless \subseteq Node

VARIABLES
  \* the server
  accepting,  \* its socket is open and messaging has not started
  job,        \* job[j] : how far the handshake of its master gateway is
  owner,      \* Cluster.socket: the job at its other end
  known,      \* the number of entries of Cluster.gateways that are set
  spread,     \* sendAllGatewayInfo is done
  ready,      \* Cluster.ready
  \* the gateways
  pos,        \* pos[n] : what gateway n is doing, and in which iteration
  offered,    \* gateways that have sent their addresses to gateway 0
  forwarded,  \* the number of gateways whose addresses gateway 0 has sent on
  told,       \* the number of gateways that have gateway_addresses
  \* TCP between the gateways
  backlog,    \* backlog[n] : connections waiting at its listening socket
  opened,     \* connections for which connect() has returned
  broken,     \* of these, the ones that were closed or reset
  greeted,    \* connections on which OPCODE_GATEWAY_READY was sent
  started     \* clusters whose application has left EMPI_Init
serverVars == <<accepting, job, owner, known, spread, ready>>
infoVars   == <<offered, forwarded, told>>
tcpVars    == <<backlog, opened, broken, greeted>>
startupVars == <<serverVars, pos, infoVars, tcpVars, started>>

At(at, peer, stream) == [at |-> at, peer |-> peer, stream |-> stream]

StartupInit ==
  /\ accepting = TRUE
  /\ job = [j \in Jobs |-> "starting"]
  /\ owner = [c \in Cluster |-> NoJob]
  /\ known = [c \in Cluster |-> 0]
  /\ spread = {} /\ ready = {}
  /\ pos = [n \in Node |-> At("init", 0, 0)]
  /\ offered = {}
  /\ forwarded = [c \in Cluster |-> 0]
  /\ told = [c \in Cluster |-> 0]
  /\ backlog = [n \in Node |-> << >>]
  /\ opened = {} /\ broken = {} /\ greeted = {}
  /\ started = {}

-----------------------------------------------------------------------------
(* Signing up *)

\* read_config_file, and init_cluster_info if the file does not set everything.
Configuration(j) ==
  IF DOMAIN File[j] = DOMAIN Unset THEN File[j] ELSE Arguments[j] @@ File[j] @@ Unset

\* master_gateway_init: init_cluster_info, the check of its result, which a port that
\* was not set passes, and get_server_address.  When one of them fails all processes
\* of the job do.
ReadConfig(j) ==
  LET c == Configuration(j) IN
  /\ job[j] = "starting"
  /\ job' = [job EXCEPT ![j] = IF c.name # Null /\ c.server = "resolved" /\ c.port > 0
                               THEN "configured" ELSE "failed"]
  /\ UNCHANGED <<accepting, owner, known, spread, ready, pos, infoVars, tcpVars, started>>

\* Connect to the server, again and again until it answers at that port, and send it
\* the cluster's name.
ConnectToServer(j) ==
  /\ job[j] = "configured" /\ accepting
  /\ Configuration(j).port = Port
  /\ job' = [job EXCEPT ![j] = "sent"]
  /\ UNCHANGED <<accepting, owner, known, spread, ready, pos, infoVars, tcpVars, started>>

\* setConnection refuses a second socket for a cluster, and nobody answers; otherwise
\* sendHandshakeReply does.
SetConnection(j, c) ==
  IF owner[c] # NoJob THEN job' = [job EXCEPT ![j] = "ignored"] /\ UNCHANGED owner
  ELSE /\ job' = [job EXCEPT ![j] = "accepted"]
       /\ owner' = [owner EXCEPT ![c] = j]

\* connectionHandshake: a job is turned away when the server does not know its
\* cluster.
Handshake(j) ==
  LET c == Configuration(j).name IN
  /\ job[j] = "sent"
  /\ IF c = Unknown THEN job' = [job EXCEPT ![j] = "rejected"] /\ UNCHANGED owner
     ELSE SetConnection(j, c)
  /\ UNCHANGED <<accepting, known, spread, ready, pos, infoVars, tcpVars, started>>

\* receiveGatewayInfo: the next one, in the order of their ranks.
ReceiveGatewayInfo(c) ==
  /\ known[c] < forwarded[c]
  /\ known' = [known EXCEPT ![c] = @ + 1]
  /\ UNCHANGED <<accepting, job, owner, spread, ready, pos, infoVars, tcpVars, started>>

\* sendAllGatewayInfo waits until the gateways of every cluster are known.
SendAllGatewayInfo(c) ==
  /\ c \notin spread /\ \A d \in Cluster : known[d] = GatewayCount
  /\ spread' = spread \cup {c}
  /\ UNCHANGED <<accepting, job, owner, known, ready, pos, infoVars, tcpVars, started>>

SetReady(c) ==
  /\ c \in spread \ ready
  /\ ready' = ready \cup {c}
  /\ UNCHANGED <<accepting, job, owner, known, spread, pos, infoVars, tcpVars, started>>

\* acceptConnections: signupComplete, and messaging starts.
StartMessaging ==
  /\ accepting /\ ready = Cluster
  /\ accepting' = FALSE
  /\ UNCHANGED <<job, owner, known, spread, ready, pos, infoVars, tcpVars, started>>

-----------------------------------------------------------------------------
(* The addresses of the gateways *)

\* connect_gateways, for the cluster with rank i: a gateway accepts connections
\* from the clusters before its own, and then connects to those behind it.
Turn(n, i) ==
  IF i < n[1] THEN At("listen", i, 0)
  ELSE IF n[1] + 1 < ClusterCount THEN At("connect", n[1] + 1, 0)
  ELSE At("done", 0, 0)

\* handshake and receive_cluster_sizes at the master gateway: the server's reply.
SignedUp(c) == owner[c] # NoJob

\* An ERROR ends the process (ERRORS_ARE_FATAL in logging.h).
Crash(n) ==
  /\ pos' = [pos EXCEPT ![n] = At("crashed", 0, 0)]
  /\ backlog' = [backlog EXCEPT ![n] = << >>]
  /\ broken' = broken \cup { k \in opened : k[3] = n[2] /\ n[1] \in {k[1], k[2]} }

\* get_local_ips.
HasAddress(n) == n \notin Addressless

\* messaging_init: the broadcasts from the master gateway.  Without an address it is an
\* ERROR to go on.
ReceiveConfig(n) ==
  /\ pos[n].at = "init" /\ SignedUp(n[1])
  /\ IF HasAddress(n)
     THEN /\ pos' = [pos EXCEPT ![n] = At(IF n[2] = 0 THEN "forward" ELSE "offer", 0, 0)]
          /\ UNCHANGED <<backlog, broken>>
     ELSE Crash(n)
  /\ UNCHANGED <<serverVars, infoVars, opened, greeted, started>>

\* generic_gateway_init of another gateway than gateway 0.
OfferInfo(n) ==
  /\ pos[n].at = "offer"
  /\ pos' = [pos EXCEPT ![n] = At("table", 0, 0)]
  /\ offered' = offered \cup {n}
  /\ UNCHANGED <<serverVars, forwarded, told, tcpVars, started>>

\* send_gateway_info: the addresses of one gateway, to the server.
SendGatewayInfo(c) == forwarded' = [forwarded EXCEPT ![c] = @ + 1]

\* First those of gateway 0, and then those of each of the others.
ForwardInfo(c) ==
  LET n == <<c, 0>>  g == forwarded[c] IN
  /\ pos[n].at = "forward"
  /\ g = 0 \/ <<c, g>> \in offered
  /\ SendGatewayInfo(c)
  /\ pos' = IF g + 1 = GatewayCount THEN [pos EXCEPT ![n] = At("table", 0, 0)] ELSE pos
  /\ UNCHANGED <<serverVars, offered, told, tcpVars, started>>

\* receive_gateway_info: the server sends the addresses of all gateways at once.
InfoReceived(c) == c \in spread

\* And the sends to the other gateways.
TellGateway(c) ==
  LET n == <<c, 0>> IN
  /\ pos[n].at = "table" /\ InfoReceived(c)
  /\ told' = [told EXCEPT ![c] = @ + 1]
  /\ pos' = IF told[c] + 1 = GatewayCount THEN [pos EXCEPT ![n] = Turn(n, 0)] ELSE pos
  /\ UNCHANGED <<serverVars, offered, forwarded, tcpVars, started>>

ReceiveTable(n) ==
  /\ n[2] # 0
  /\ pos[n].at = "table" /\ n[2] < told[n[1]]
  /\ pos' = [pos EXCEPT ![n] = Turn(n, 0)]
  /\ UNCHANGED <<serverVars, infoVars, tcpVars, started>>

-----------------------------------------------------------------------------
(* Connecting the gateways *)

\* socket_accept: the socket listens on the port of the stream, until a connection
\* is accepted and the socket is closed.
Listens(n, s) == pos[n].at \in {"listen", "close"} /\ pos[n].stream = s

Accept(n) ==
  /\ pos[n].at = "listen" /\ backlog[n] # << >>
  /\ pos' = [pos EXCEPT ![n].at = "close"]
  /\ UNCHANGED <<serverVars, infoVars, tcpVars, started>>

\* The accepted connection is kept if it comes from the host that is expected; if
\* not, that is an ERROR.
CloseListener(n) ==
  LET p        == pos[n]
      accepted == Head(backlog[n])
      others   == { backlog[n][i] : i \in 2 .. Len(backlog[n]) }
  IN  /\ p.at = "close"
      /\ IF accepted[1] # p.peer THEN Crash(n)
         ELSE /\ backlog' = [backlog EXCEPT ![n] = << >>]
              /\ broken' = broken \cup others
              /\ pos' = [pos EXCEPT ![n] = IF p.stream + 1 < Streams
                                           THEN At("listen", p.peer, p.stream + 1)
                                           ELSE At("await", p.peer, 0)]
      /\ UNCHANGED <<serverVars, infoVars, opened, greeted, started>>

\* socket_sendfully: whether it succeeds on connection k.  What is written before the
\* reset has come is lost, and write() fails afterwards.
SendFully(k) == IF k \in broken THEN BOOLEAN ELSE {TRUE}

\* socket_receivefully: at the end of a connection that was closed read() returns 0, and
\* is called again for ever.
ReceiveFully(k) == k \in greeted

\* receive_gateway_ready_opcode on stream 0.  The variants do not wait for it, and
\* look for it on the last stream.
NotAwaited(n, i) == TRUE
ReadyReceived(n, i) == ReceiveFully(<<i, n[1], n[2], 0>>)

AwaitReady(n) ==
  LET i == pos[n].peer IN
  /\ pos[n].at = "await" /\ ReadyReceived(n, i)
  /\ pos' = [pos EXCEPT ![n] = Turn(n, i + 1)]
  /\ UNCHANGED <<serverVars, infoVars, tcpVars, started>>

\* socket_connect, tried again until it works: for every cluster behind this one,
\* the streams one after the other.
ConnectStream(n) ==
  LET p == pos[n]
      peer == <<p.peer, n[2]>>
      k == <<n[1], p.peer, n[2], p.stream>>
  IN  /\ p.at = "connect"
      /\ Listens(peer, p.stream) /\ Len(backlog[peer]) < Backlog
      /\ backlog' = [backlog EXCEPT ![peer] = Append(@, k)]
      /\ opened' = opened \cup {k}
      /\ pos' = [pos EXCEPT ![n] =
                   IF p.stream + 1 < Streams THEN At("connect", p.peer, p.stream + 1)
                   ELSE IF p.peer + 1 < ClusterCount THEN At("connect", p.peer + 1, 0)
                   ELSE At("greet", n[1] + 1, 0)]
      /\ UNCHANGED <<serverVars, infoVars, broken, greeted, started>>

\* send_gateway_ready_opcode.  That write() fails is an ERROR.
SendReady(n) ==
  LET p == pos[n]
      k == <<n[1], p.peer, n[2], 0>>
  IN  /\ p.at = "greet"
      /\ \E written \in SendFully(k) :
           IF written
           THEN /\ greeted' = greeted \cup ({k} \ broken)
                /\ pos' = [pos EXCEPT ![n] = IF p.peer + 1 < ClusterCount
                                             THEN At("greet", p.peer + 1, 0)
                                             ELSE At("done", 0, 0)]
                /\ UNCHANGED <<backlog, broken>>
           ELSE Crash(n) /\ UNCHANGED greeted
      /\ UNCHANGED <<serverVars, infoVars, opened, started>>

\* The barrier at the end of messaging_init.
StartApplication(c) ==
  /\ c \notin started
  /\ \A g \in Gateway : pos[<<c, g>>].at = "done"
  /\ started' = started \cup {c}
  /\ UNCHANGED <<serverVars, pos, infoVars, tcpVars>>

-----------------------------------------------------------------------------
ServerStep ==
  \/ \E j \in Jobs : Handshake(j)
  \/ \E c \in Cluster : ReceiveGatewayInfo(c) \/ SendAllGatewayInfo(c) \/ SetReady(c)
  \/ StartMessaging

GatewayStep ==
  \/ \E n \in Node : \/ ReceiveConfig(n) \/ OfferInfo(n) \/ ReceiveTable(n)
                     \/ Accept(n) \/ CloseListener(n) \/ AwaitReady(n)
                     \/ ConnectStream(n) \/ SendReady(n)
  \/ \E c \in Cluster : ForwardInfo(c) \/ TellGateway(c) \/ StartApplication(c)

StartupNext == ServerStep \/ (\E j \in Jobs : ReadConfig(j) \/ ConnectToServer(j)) \/ GatewayStep

StartupSpec == StartupInit /\ [][StartupNext]_startupVars

\* The server's threads and the gateways keep running, and every cluster of the
\* configuration is started.
FairStartup == StartupSpec /\ WF_startupVars(StartupNext)

-----------------------------------------------------------------------------
(* Properties *)

\* When a cluster leaves EMPI_Init, its gateways are connected with those of all
\* other clusters: no gateway takes a connection for another one, and none was
\* reset behind its back ("needed to prevent race conditions during connectin
\* setup", gateway.c:1114).
StartsConnected ==
  \A k \in Connection : (k[1] \in started \/ k[2] \in started) => k \in opened \ broken

\* Signing up and connecting do not get stuck: every application starts, and the
\* server takes its messages.
ApplicationsStart == <>(started = Cluster /\ ~accepting)
=============================================================================
