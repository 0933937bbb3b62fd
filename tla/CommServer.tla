----------------------------- MODULE CommServer -----------------------------
(***************************************************************************)
(* Collective operations on communicators: the server                      *)
(* (src/src/server/src/esalsa) and its clients (src/src/backend/empi.c,    *)
(* messaging.c and communicator.c).                                        *)
(*                                                                         *)
(* Each member of a communicator sends its request to the server and waits *)
(* for the reply.  The server collects the requests of all members, makes  *)
(* the new communicators, numbers them and replies to every member.  Each  *)
(* member then repeats the operation on the MPI communicator of its        *)
(* cluster and enters the new communicator in its own table.               *)
(*                                                                         *)
(* The server has one receiver thread per cluster: deliverRequest is       *)
(* synchronized per communicator, createCommunicator on the server.        *)
(* Gateways pass requests and replies on in order (see Gateway); a process *)
(* has one request outstanding, so requests of different processes arrive  *)
(* in any order.  Ranks count from 1 here.                                 *)
(***************************************************************************)
EXTENDS Integers, Sequences, FiniteSets

CONSTANTS
  App,            \* application processes
  Cluster,        \* clusters
  Home,           \* Home[a] : the cluster of a
  World,          \* the members of MPI_COMM_WORLD, in the order of their ranks
  Splits,         \* the arguments splits are tried with: [color, key], a
                  \* function on App each
  Groups,         \* the groups new communicators are tried with
  MaxComms,       \* MAX_COMMUNICATORS
  MaxOps          \* bound: collective operations in a run

ASSUME WorldAssumption ==
  /\ Home \in [App -> Cluster]
  /\ World \in Seq(App)
  /\ \A a \in App : \E i \in DOMAIN World : World[i] = a
  /\ \A i, j \in DOMAIN World : World[i] = World[j] => i = j
  /\ \A i, j, k \in DOMAIN World :  \* clusters are in line
       i <= j /\ j <= k /\ Home[World[i]] = Home[World[k]] => Home[World[j]] = Home[World[i]]

ASSUME ArgumentAssumption ==
  /\ Splits \subseteq [color : [App -> Int], key : [App -> Int]]
  /\ Groups \subseteq Seq(App)
  /\ \A g \in Groups : \A i, j \in DOMAIN g : g[i] = g[j] => i = j
  /\ MaxComms \in Nat /\ MaxComms >= 3  \* init_communicators enters three
  /\ MaxOps \in Nat

Handle == 0 .. MaxOps * Cardinality(App) + 2

VARIABLES
  \* the program: the collective calls, in the order every process makes them
  script,         \* script[i]  : the i-th call
  \* at the processes
  at,             \* at[a]      : the position in script of the latest call of a
  phase,          \* phase[a]   : what a is doing
  reply,          \* reply[a]   : the latest reply a has received
  local,          \* local[a][h]: a's latest call on the MPI communicator of h
  comms,          \* comms[a]   : a's table of communicators
  \* between the processes and the server
  requests,       \* requests on their way to the server
  replies,        \* replies[a] : replies on their way to a
  \* at the server
  communicators,  \* the members of each communicator, by number
  messages,       \* messages[h]: the requests in for communicator h
  locked,         \* the communicators whose operation is being processed
  todo            \* todo[h]    : the parts of that operation left to do

appVars    == <<at, phase, reply, local, comms>>
serverVars == <<communicators, messages, locked, todo>>
vars       == <<script, appVars, requests, replies, serverVars>>

None == [none |-> TRUE]
NoSplit == [color |-> [a \in App |-> 0], key |-> [a \in App |-> 0]]
NoGroup == << >>

-----------------------------------------------------------------------------
(* Communicators and their distribution over clusters *)

Elements(q) == { q[i] : i \in DOMAIN q }

\* The sequences of the elements of the finite set S in the order Before: there
\* is one if Before is a total order.
Sorted(S, Before(_, _)) ==
  { q \in [1 .. Cardinality(S) -> S] :
      /\ Elements(q) = S
      /\ \A i, j \in DOMAIN q : i < j => Before(q[i], q[j]) }

Arrange(S, Before(_, _)) == CHOOSE q \in Sorted(S, Before) : TRUE

\* The ranks of the members that are the first of their cluster.
Coordinators(mem) ==
  Arrange({ i \in DOMAIN mem : \A j \in 1 .. i - 1 : Home[mem[j]] # Home[mem[i]] }, <)

\* The constructor of Communicator.java.
Distribution(mem) ==
  LET first == Coordinators(mem)
      ofMine(i, k) == Home[mem[i]] = Home[mem[first[k]]]
  IN  [ members            |-> mem,
        coordinators       |-> first,
        clusterRanks       |-> [ k \in DOMAIN first |-> Home[mem[first[k]]] ],
        clusterSizes       |-> [ k \in DOMAIN first |->
                                   Cardinality({ i \in DOMAIN mem : ofMine(i, k) }) ],
        localRanks         |-> [ i \in DOMAIN mem |->
                                   Cardinality({ j \in 1 .. i : Home[mem[j]] = Home[mem[i]] }) ],
        memberClusterIndex |-> [ i \in DOMAIN mem |->
                                   Cardinality({ k \in DOMAIN first : first[k] <= i }) ] ]

RankIn(mem, a) == CHOOSE i \in DOMAIN mem : mem[i] = a

\* The entry of a process for a new communicator (add_communicator).
Entry(mem, rank, localRank, localSize) ==
  [ dist |-> Distribution(mem), rank |-> rank, localRank |-> localRank, localSize |-> localSize ]

\* The members of c in the cluster of a.
LocalPeers(a, c) == { b \in Elements(c.dist.members) : Home[b] = Home[a] }

-----------------------------------------------------------------------------
\* init_communicators: COMM_WORLD and COMM_SELF of process a, whose cluster_ranks[0] is 0,
\* the first cluster, wherever a is.  COMM_NULL, the third, has no members.
InitialEntry(a, h) ==
  IF h = 0 THEN Entry(World, RankIn(World, a),
                      Distribution(World).localRanks[RankIn(World, a)],
                      Cardinality({ b \in App : Home[b] = Home[a] }))
  ELSE IF h = 1 THEN [Entry(<<a>>, 1, 1, 1) EXCEPT !.dist.clusterRanks = <<Home[World[1]]>>]
  ELSE None

\* The server knows COMM_WORLD only.
Init ==
  /\ script = << >>
  /\ at = [a \in App |-> 0]
  /\ phase = [a \in App |-> "running"]
  /\ reply = [a \in App |-> None]
  /\ local = [a \in App |-> [h \in Handle |-> None]]
  /\ comms = [a \in App |-> [h \in Handle |-> InitialEntry(a, h)]]
  /\ requests = {}
  /\ replies = [a \in App |-> << >>]
  /\ communicators = <<World, << >>, << >>>>
  /\ messages = [h \in Handle |-> {}]
  /\ locked = {}
  /\ todo = [h \in Handle |-> {}]

-----------------------------------------------------------------------------
(* Processes *)

\* The request a sends for the call op.
RequestOf(a, op) ==
  [ src |-> a, comm |-> op.comm, rank |-> comms[a][op.comm].rank, kind |-> op.kind,
    color |-> op.split.color[a], key |-> op.split.key[a], group |-> op.group ]

\* messaging_comm_split_send, messaging_comm_create_send and
\* messaging_comm_dup_send, for the i-th call op of the program.
Ask(a, i, op) ==
  /\ requests' = requests \cup { RequestOf(a, op) }
  /\ at' = [at EXCEPT ![a] = i]
  /\ phase' = [phase EXCEPT ![a] = "waiting"]
  /\ UNCHANGED <<reply, local, comms, replies, serverVars>>

\* The calls a is still to make.
Ahead(a) == { i \in DOMAIN script : i > at[a] /\ comms[a][script[i].comm] # None }

Calls(a, h) ==
  LET inside(g) == Elements(g) \subseteq Elements(comms[a][h].dist.members) IN
  [ comm : {h}, kind : {"split"}, split : Splits, group : {NoGroup} ]
  \cup [ comm : {h}, kind : {"group"}, split : {NoSplit}, group : { g \in Groups : inside(g) } ]
  \cup [ comm : {h}, kind : {"dup"}, split : {NoSplit}, group : {NoGroup} ]

\* The first process that comes to a call decides which it is.
CallFirst(a, h) ==
  /\ phase[a] = "running"
  /\ Ahead(a) = {}
  /\ Len(script) < MaxOps
  /\ h # 1
  /\ comms[a][h] # None
  /\ \E op \in Calls(a, h) :
       /\ script' = Append(script, op)
       /\ Ask(a, Len(script) + 1, op)

CallNext(a) ==
  /\ phase[a] = "running"
  /\ \E i \in Ahead(a) : /\ \A j \in Ahead(a) : i <= j
                         /\ Ask(a, i, script[i])
  /\ UNCHANGED script

\* The receive functions give up when the reply is to another call, and a reply
\* to EMPI_Comm_create has no members if the cluster is idle.
Expected(r, op) == r.kind = op.kind
IdleReply(r) == r.kind = "group" /\ r.type = "idle"

\* messaging_comm_..._receive, and entering the operation on the communicator of
\* the cluster: PMPI_Comm_split with the colour and key of the reply,
\* PMPI_Comm_create unless the cluster is idle, PMPI_Comm_dup.
ReceiveReply(a) ==
  /\ phase[a] = "waiting"
  /\ replies[a] # << >>
  /\ LET r == Head(replies[a])
         op == script[at[a]]
     IN  /\ reply' = [reply EXCEPT ![a] = r]
         /\ IF ~Expected(r, op)
            THEN /\ phase' = [phase EXCEPT ![a] = "failed"]
                 /\ UNCHANGED local
            ELSE IF IdleReply(r)
            THEN /\ phase' = [phase EXCEPT ![a] = "running"]
                 /\ UNCHANGED local
            ELSE /\ phase' = [phase EXCEPT ![a] = "local"]
                 /\ local' = [local EXCEPT ![a][op.comm] =
                                [ at |-> at[a], color |-> r.color, key |-> r.key ]]
  /\ replies' = [replies EXCEPT ![a] = Tail(@)]
  /\ UNCHANGED <<script, at, comms, requests, serverVars>>

\* The processes of its cluster that a's MPI call on c gives a communicator
\* together with a, in the order of their new local ranks.  (External: MPI.)
LocalResult(a, op, c) ==
  CASE op.kind = "split" ->
         LET same == { b \in LocalPeers(a, c) : local[b][op.comm].color = local[a][op.comm].color }
             keyOf(b) == local[b][op.comm].key
             rankOf(b) == comms[b][op.comm].localRank
         IN  Arrange(same, LAMBDA b, d : \/ keyOf(b) < keyOf(d)
                                         \/ keyOf(b) = keyOf(d) /\ rankOf(b) < rankOf(d))
    [] op.kind = "group" ->
         Arrange({ b \in Elements(op.group) : Home[b] = Home[a] },
                 LAMBDA b, d : RankIn(op.group, b) < RankIn(op.group, d))
    [] OTHER -> Arrange(LocalPeers(a, c),
                        LAMBDA b, d : comms[b][op.comm].localRank < comms[d][op.comm].localRank)

\* a is a member of the new communicator: not MPI_COMM_NULL.
Joins(a) == reply[a].newComm # -1

\* add_communicator refuses a handle that is out of range or taken.  The
\* variant does not look at the range.
AddAnywhere(a, h, entry) ==
  comms' = IF comms[a][h] = None THEN [comms EXCEPT ![a][h] = entry] ELSE comms

AddCommunicator(a, h, entry) ==
  comms' = IF h < MaxComms /\ comms[a][h] = None
           THEN [comms EXCEPT ![a][h] = entry] ELSE comms

\* What a enters for the new communicator: a copy of c's entry for a duplicate,
\* otherwise what the server replied and what MPI says of the local part.
NewEntry(a, op, c) ==
  LET peers == LocalResult(a, op, c) IN
  IF op.kind = "dup" THEN c
  ELSE Entry(reply[a].members, reply[a].rank, RankIn(peers, a), Len(peers))

\* The MPI call returns when every process of the cluster that is in c has made
\* it; then create_communicator.
CreateCommunicator(a) ==
  LET op == script[at[a]]
      c  == comms[a][op.comm]
  IN  /\ phase[a] = "local"
      /\ \A b \in LocalPeers(a, c) :
           local[b][op.comm] # None /\ local[b][op.comm].at >= at[a]
      /\ IF Joins(a)
         THEN AddCommunicator(a, reply[a].newComm, NewEntry(a, op, c))
         ELSE UNCHANGED comms
      /\ phase' = [phase EXCEPT ![a] = "running"]
      /\ UNCHANGED <<script, at, reply, local, requests, replies, serverVars>>

-----------------------------------------------------------------------------
(* Server *)

\* deliverRequest: all members have sent their request.
\* The variant processes the operation when one is missing.
AllButOneIn(h, in) == Cardinality(in) >= Len(communicators[h + 1]) - 1
AllIn(h, in) == Cardinality(in) = Len(communicators[h + 1])

\* processRequest: the operations that the requests in ask for, one for each
\* colour of a split; none if the calls do not agree.
Operations(in) ==
  LET first == CHOOSE q \in in : \A p \in in : q.rank <= p.rank IN
  IF \E q \in in : q.kind # first.kind \/ q.group # first.group THEN {}
  ELSE IF first.kind = "split"
  THEN { [kind |-> "split", color |-> q.color, group |-> NoGroup] : q \in in }
  ELSE { [kind |-> first.kind, color |-> 0, group |-> first.group] }

\* The communicator is locked while its operation is processed.
Unlocked(h) == h \notin locked

\* deliverRequest: a second request of a member is dropped.
DeliverRequest(q) ==
  LET h  == q.comm
      in == messages[h] \cup {q}
  IN  /\ Unlocked(h)
      /\ requests' = requests \ {q}
      /\ IF \E p \in messages[h] : p.rank = q.rank
         THEN UNCHANGED <<messages, locked, todo>>
         ELSE /\ messages' = [messages EXCEPT ![h] = in]
              /\ IF AllIn(h, in)
                 THEN /\ locked' = locked \cup {h}
                      /\ todo' = [todo EXCEPT ![h] = Operations(in)]
                 ELSE UNCHANGED <<locked, todo>>
      /\ UNCHANGED <<script, appVars, replies, communicators>>

\* createCommunicator: the number of the next communicator.  The variant counts
\* one too few.
NumberOfLast == IF Len(communicators) > 3 THEN Len(communicators) - 1 ELSE 3
NewNumber == Len(communicators)

\* enqueueReply, to every process of S.
Enqueue(S, Reply(_)) ==
  replies' = [ a \in App |-> IF a \in S THEN Append(replies[a], Reply(a)) ELSE replies[a] ]

\* The replies to a member and to a process that does not become one.
Membership(kind, mem, a, color, key) ==
  [ kind |-> kind, type |-> "active", newComm |-> NewNumber, members |-> mem,
    rank |-> RankIn(mem, a), color |-> color, key |-> key ]
NoMember(kind, type) == [ kind |-> kind, type |-> type, newComm |-> -1, color |-> -1, key |-> 0 ]

\* The order within a part of a split: on key, then on rank (ColorComparator).
ColorComparator(p, q) == p.key < q.key \/ (p.key = q.key /\ p.rank < q.rank)

\* The key for the local split: the local rank in the new communicator.  The
\* variant leaves it out.
NoKey(mem, a) == 0
LocalKey(mem, a) == Distribution(mem).localRanks[RankIn(mem, a)]

\* One colour of processSplit.  Processes with a negative colour get a reply
\* without a communicator.
ProcessSplit(h, color) ==
  LET part == { q \in messages[h] : q.color = color } IN
  IF color >= 0
  THEN \E line \in Sorted(part, ColorComparator) :
         LET pids == [ k \in 1 .. Cardinality(part) |-> communicators[h + 1][line[k].rank] ]
         IN  /\ communicators' = Append(communicators, pids)
             /\ Enqueue(Elements(pids),
                        LAMBDA a : Membership("split", pids, a, color, LocalKey(pids, a)))
  ELSE /\ UNCHANGED communicators
       /\ Enqueue({ q.src : q \in part }, LAMBDA a : NoMember("split", "idle"))

\* processGroup.  A process outside the group is idle if its whole cluster is.
ProcessGroup(h, group) ==
  LET active == { Home[a] : a \in Elements(group) } IN
  /\ communicators' = Append(communicators, group)
  /\ Enqueue(Elements(group) \cup Elements(communicators[h + 1]),
             LAMBDA a : IF a \in Elements(group) THEN Membership("group", group, a, -1, 0)
                        ELSE NoMember("group", IF Home[a] \in active THEN "separatist" ELSE "idle"))

\* processDup.  The reply only has the number.
ProcessDup(h) ==
  LET mem == communicators[h + 1] IN
  /\ communicators' = Append(communicators, mem)
  /\ Enqueue(Elements(mem),
             LAMBDA a : [ kind |-> "dup", type |-> "active", comm |-> h, newComm |-> NewNumber,
                          color |-> -1, key |-> 0 ])

\* One step of processRequest.
ProcessRequest(h) ==
  /\ \E o \in todo[h] :
       /\ CASE o.kind = "split" -> ProcessSplit(h, o.color)
            [] o.kind = "group" -> ProcessGroup(h, o.group)
            [] OTHER -> ProcessDup(h)
       /\ todo' = [todo EXCEPT ![h] = @ \ {o}]
  /\ UNCHANGED <<script, appVars, requests, messages, locked>>

\* The end of deliverRequest: reset the administration and unlock.
ResetMessages(h) ==
  /\ h \in locked
  /\ todo[h] = {}
  /\ messages' = [messages EXCEPT ![h] = {}]
  /\ locked' = locked \ {h}
  /\ UNCHANGED <<script, appVars, requests, replies, communicators, todo>>

-----------------------------------------------------------------------------
ProcessStep(a) ==
  \/ \E h \in Handle : CallFirst(a, h)
  \/ CallNext(a)
  \/ ReceiveReply(a)
  \/ CreateCommunicator(a)

ServerStep ==
  \/ \E q \in requests : DeliverRequest(q)
  \/ \E h \in Handle : ProcessRequest(h) \/ ResetMessages(h)

\* The program is over: all calls are made and answered.
Over ==
  /\ Len(script) = MaxOps
  /\ \A a \in App : phase[a] = "running" /\ Ahead(a) = {}
  /\ locked = {}
  /\ UNCHANGED vars

Next == ServerStep \/ Over \/ \E a \in App : ProcessStep(a)

Spec == Init /\ [][Next]_vars

\* As long as the server's threads, the gateways, MPI or a process that has
\* calls to make can go on, one of them does.  No more is needed: a program is
\* finite, so that nobody can keep the others waiting for ever.
Fairness ==
  WF_vars(\/ ServerStep
          \/ \E a \in App : CallNext(a) \/ ReceiveReply(a) \/ CreateCommunicator(a))

FairSpec == Spec /\ Fairness

-----------------------------------------------------------------------------
(* Properties *)

Kind == {"split", "group", "dup"}
Call == [ comm : Handle, kind : Kind, split : Splits \cup {NoSplit},
          group : Groups \cup {NoGroup} ]
Request == [ src : App, comm : Handle, rank : Nat, kind : Kind, color : Int, key : Int,
             group : Groups \cup {NoGroup} ]
Communicator ==
  [ dist : [ members : Seq(App), coordinators : Seq(Nat), clusterRanks : Seq(Cluster),
             clusterSizes : Seq(Nat), localRanks : Seq(Nat), memberClusterIndex : Seq(Nat) ],
    rank : Nat, localRank : Nat, localSize : Nat ]

\* Every variable keeps its type; a process has no more communicators than its
\* table has room for.
TypeOK ==
  /\ script \in Seq(Call)
  /\ at \in [App -> 0 .. MaxOps]
  /\ phase \in [App -> {"running", "waiting", "local", "failed"}]
  /\ local \in [App -> [Handle -> [at : 1 .. MaxOps, color : Int, key : Int] \cup {None}]]
  /\ comms \in [App -> [Handle -> Communicator \cup {None}]]
  /\ \A a \in App, h \in Handle : comms[a][h] # None => h < MaxComms
  /\ requests \subseteq Request
  /\ DOMAIN reply = App /\ DOMAIN replies = App
  /\ communicators \in Seq(Seq(App))
  /\ messages \in [Handle -> SUBSET Request]
  /\ locked \subseteq Handle
  /\ todo \in [Handle -> SUBSET [kind : Kind, color : Int, group : Groups \cup {NoGroup}]]

Known(a, h) == comms[a][h] # None

\* Two processes that know a communicator by the same number mean the same one:
\* it has the same members in the same order, who occupy the ranks they think,
\* and the server knows it by that number.
Agreement ==
  \A a \in App, h \in Handle \ {1} :
    Known(a, h) =>
      /\ h < Len(communicators)
      /\ comms[a][h].dist.members = communicators[h + 1]
      /\ comms[a][h].dist.members[comms[a][h].rank] = a

\* A process that has a communicator may send on it to any other member, and
\* store_message drops a message for a communicator that is not in the table.
\* No message is dropped: a member without it is still in the call that makes
\* it, and takes no messages there.
KnownBeforeUse ==
  \A a, b \in App, h \in Handle \ {1} :
    /\ Known(a, h)
    /\ b \in Elements(comms[a][h].dist.members)
    /\ phase[b] = "running"
    => Known(b, h)

\* The rank that MPI gave a process in the part of a communicator that is in its
\* cluster, and the size of that part, are those the server told everybody.
LocalRankAgrees ==
  \A a \in App, h \in Handle \ {1} :
    Known(a, h) =>
      LET c == comms[a][h] IN
      /\ c.dist.localRanks[c.rank] = c.localRank
      /\ \E k \in DOMAIN c.dist.clusterRanks :
           /\ c.dist.clusterRanks[k] = Home[a]
           /\ c.dist.clusterSizes[k] = c.localSize

\* A process never meets the answer to another call than the one it has made.
ReplyMatchesRequest == \A a \in App : phase[a] # "failed"


\* The index of a member's cluster leads to the cluster the member is in.
ClusterIndexCorrect ==
  \A a \in App, h \in Handle \ {1} :
    Known(a, h) =>
      LET d == comms[a][h].dist IN
      \A i \in DOMAIN d.members :
        d.clusterRanks[d.memberClusterIndex[i]] = Home[d.members[i]]
=============================================================================
