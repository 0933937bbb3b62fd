---------------------------- MODULE Collectives ----------------------------
(***************************************************************************)
(* The collective operations of src/src/backend/empi.c on a communicator   *)
(* that spans clusters.                                                    *)
(*                                                                         *)
(* Every operation is a fixed list of steps for each member: calls of the  *)
(* local MPI (barrier, broadcast and reduction among the members of one    *)
(* cluster) and point-to-point messages, most of them among the            *)
(* coordinators, the first member of each cluster.  The operators named    *)
(* after the operations give that list; the actions execute it, one step   *)
(* of one member at a time.                                                *)
(*                                                                         *)
(* Data is reduced to what it stands for: <<q, p>> is what member q        *)
(* contributes for member p (or for All; in EMPI_Allgatherv, at place p of *)
(* the result), and the value of a reduction is the sequence of the        *)
(* members whose contributions are in it, in the order in which the        *)
(* operator combined them.                                                 *)
(***************************************************************************)
EXTENDS Integers, Sequences, FiniteSets, SequencesExt

CONSTANTS
  ClusterCount,   \* cluster_count: the clusters of the run, numbered from 0
  ClusterOf,      \* ClusterOf[r + 1] : the cluster of member r
  Programs,       \* the sequences of calls the application may make
  All             \* the destination of what is for every member

Cluster == 0 .. ClusterCount - 1
Size    == Len(ClusterOf)
Rank    == 0 .. Size - 1
Home(r) == ClusterOf[r + 1]

ASSUME ClusterAssumption == ClusterCount \in Nat \ {0} /\ ClusterOf \in Seq(Nat)

\* Every cluster has members; outside it messaging_bcast reads past the end
\* of the array of coordinators.
ASSUME SpanAssumption == { Home(r) : r \in Rank } = Cluster

Op == {"barrier", "bcast", "gather", "scatter", "allgather", "alltoall",
       "reduce", "allreduce", "scan"}
Call == [op : Op, root : Rank]

ASSUME ProgramAssumption == \A p \in Programs : p \in Seq(Call)

\* The operations whose value is a combination of contributions.
Reductions == {"reduce", "allreduce", "scan"}

VARIABLES
  program,   \* the calls every member makes, in this order
  eager,     \* whether MPI buffers a send inside a cluster
  done,      \* done[r]    : the number of calls r has returned from
  step,      \* step[r]    : the step of its call r is at, 0 between calls
  value,     \* value[r]   : the contributions in r's buffers
  results,   \* results[r] : the value at the end of each call of r
  wire,      \* wire[<<s, d>>] : messages from s to d not yet received
  entered,   \* entered[r] : the local collective calls r has made
  inside     \* inside[r]  : r is in the last of them

vars == <<program, eager, done, step, value, results, wire, entered, inside>>

-----------------------------------------------------------------------------
(* The communicator *)

\* The members of r's cluster.
Peers(r) == { q \in Rank : Home(q) = Home(r) }
IsLocal(r, q) == Home(r) = Home(q)

First(S) == CHOOSE r \in S : \A q \in S : r <= q

\* The elements of a set of numbers, in their order.
Ascending(S) ==
  CHOOSE s \in [1 .. Cardinality(S) -> S] :
    \A i, j \in DOMAIN s : i < j => s[i] < s[j]

\* coordinators[i]: the first member of the cluster that is i-th in the order
\* in which the clusters first occur among the members.
Coordinators == Ascending({ First(Peers(r)) : r \in Rank })
CoordinatorAt(i) == Coordinators[i + 1]
MyCoordinator(r) == First(Peers(r))

-----------------------------------------------------------------------------
(* Steps.  A message carries those contributions of the sender's buffer that *)
(* are in `what', or its own contribution.                                   *)

Everything == Rank \X (Rank \cup {All})
Send(to, tag, what) ==
  [do |-> "send", peer |-> to, tag |-> tag, what |-> what, own |-> FALSE]
SendOwn(to, tag) ==
  [do |-> "send", peer |-> to, tag |-> tag, what |-> {}, own |-> TRUE]
\* how: "add" the contributions, or "combine" them with the reduction.
Receive(from, tag, how) == [do |-> "receive", peer |-> from, tag |-> tag, how |-> how]
LocalBarrier == [do |-> "barrier"]
LocalBcast(root) == [do |-> "bcast", root |-> root]
LocalReduce(root) == [do |-> "reduce", root |-> root]

When(condition, steps) == IF condition THEN steps ELSE << >>

\* messaging_bcast: to the coordinator at the index of every other cluster.
\* The variant stops one cluster early.
WaBcastButLast(r, what) ==
  LET others == Ascending(Cluster \ {Home(r), ClusterCount - 1})
  IN  [j \in DOMAIN others |-> Send(CoordinatorAt(others[j]), "bcast", what)]

WaBcast(r, what) ==
  LET others == Ascending(Cluster \ {Home(r)})
  IN  [j \in DOMAIN others |-> Send(CoordinatorAt(others[j]), "bcast", what)]

\* EMPI_Barrier.  In the variant the first coordinator does not wait for the
\* others.
BarrierAtOnce(r) ==
  <<LocalBarrier>>
  \o When(r = CoordinatorAt(0), WaBcast(r, {}))
  \o When(\E i \in 1 .. ClusterCount - 1 : r = CoordinatorAt(i),
          <<Receive(CoordinatorAt(0), "bcast", "add")>>)
  \o <<LocalBarrier>>

Barrier(r) ==
  LET others == Ascending(1 .. ClusterCount - 1)
  IN  <<LocalBarrier>>
      \o When(r = CoordinatorAt(0),
              [j \in DOMAIN others |-> Receive(CoordinatorAt(others[j]), "barrier", "add")]
              \o WaBcast(r, {}))
      \o When(\E i \in 1 .. ClusterCount - 1 : r = CoordinatorAt(i),
              <<Send(CoordinatorAt(0), "barrier", {}), Receive(CoordinatorAt(0), "bcast", "add")>>)
      \o <<LocalBarrier>>

\* EMPI_Bcast.  The variant broadcasts from the coordinator in every cluster.
BcastFromCoordinator(r, g) ==
  When(r = g, WaBcast(r, Everything))
  \o When(~IsLocal(r, g) /\ r = MyCoordinator(r), <<Receive(g, "bcast", "add")>>)
  \o <<LocalBcast(IF r = g THEN g ELSE MyCoordinator(r))>>

Bcast(r, g) ==
  When(r = g, WaBcast(r, Everything))
  \o When(~IsLocal(r, g) /\ r = MyCoordinator(r), <<Receive(g, "bcast", "add")>>)
  \o <<LocalBcast(IF IsLocal(r, g) THEN g ELSE MyCoordinator(r))>>

\* WA_Gatherv: the root receives from the members in the order of their ranks.
\* The variant starts from the second.
GathervFromOne(r, g) ==
  LET others == Ascending(Rank \ {g, 0})
  IN  IF r = g THEN [j \in DOMAIN others |-> Receive(others[j], "gatherv", "add")]
               ELSE <<Send(g, "gatherv", {<<r, g>>})>>

Gatherv(r, g) ==
  LET others == Ascending(Rank \ {g})
  IN  IF r = g THEN [j \in DOMAIN others |-> Receive(others[j], "gatherv", "add")]
               ELSE <<Send(g, "gatherv", {<<r, g>>})>>

\* WA_Scatterv: the root sends to the members in the order of their ranks.
Scatterv(r, g) ==
  LET others == Ascending(Rank \ {g})
  IN  IF r = g THEN [j \in DOMAIN others |-> Send(others[j], "scatterv", {<<g, others[j]>>})]
               ELSE <<Receive(g, "scatterv", "add")>>

\* member_cluster_index: one less than the clusters met among the members up to
\* q.  It is the index of q's cluster only where no other was met since.
ClusterIndex(q) == Cardinality({ Home(p) : p \in 0 .. q }) - 1

\* get_count_sums: the places, in the buffer of EMPI_Allgatherv, of the members
\* with the index of r's coordinator.  The index never decreases: the first of
\* these places, offsets[index], is the coordinator's own.
OfCluster(r) ==
  { x \in Rank \X Rank : ClusterIndex(x[2]) = ClusterIndex(MyCoordinator(r)) }

\* From there on the coordinator puts what it and its peers contribute.
Position(r) == MyCoordinator(r) + Cardinality({ q \in Peers(r) : q < r })

\* EMPI_Allgatherv: gather in the cluster, exchange among the coordinators in
\* their order, broadcast in the cluster.  The copy to the application's buffer
\* takes the places of an index one by one, which puts each where it was.

Allgatherv(r) ==
  LET peers    == Ascending(Peers(r) \ {r})
      exchange == [i \in 1 .. ClusterCount |->
                    IF Coordinators[i] = r THEN WaBcast(r, OfCluster(r))
                    ELSE <<Receive(Coordinators[i], "bcast", "add")>>]
  IN  (IF r = MyCoordinator(r)
       THEN [j \in DOMAIN peers |-> Receive(peers[j], "allgatherv", "add")]
            \o FlattenSeq(exchange)
       ELSE <<Send(MyCoordinator(r), "allgatherv", Everything)>>)
      \o <<LocalBcast(MyCoordinator(r))>>

\* WA_Alltoallv: in round i everybody sends to member i, which receives from
\* the others in the order of their ranks.
Alltoallv(r) ==
  FlattenSeq([k \in 1 .. Size |->
    LET i == k - 1
        others == Ascending(Rank \ {i})
    IN  IF i = r THEN [j \in DOMAIN others |-> Receive(others[j], "alltoallv", "add")]
                 ELSE <<Send(i, "alltoallv", {<<r, i>>})>>])

\* EMPI_Reduce: reduce in each cluster, to the root or the coordinator; the
\* root receives from the coordinators of the other clusters.
Reduce(r, g) ==
  LET remote == Ascending({ q \in ToSet(Coordinators) : ~IsLocal(r, q) })
  IN  <<LocalReduce(IF IsLocal(r, g) THEN g ELSE MyCoordinator(r))>>
      \o (IF r = g
          THEN [j \in DOMAIN remote |-> Receive(remote[j], "reduce", "combine")]
          ELSE When(~IsLocal(r, g) /\ r = MyCoordinator(r), <<Send(g, "reduce", Everything)>>))

\* EMPI_Allreduce: reduce in each cluster, exchange among the coordinators,
\* broadcast from local rank 0.
Allreduce(r) ==
  LET remote == Ascending(ToSet(Coordinators) \ {r})
  IN  <<LocalReduce(MyCoordinator(r))>>
      \o When(r = MyCoordinator(r),
              WaBcast(r, Everything)
              \o [j \in DOMAIN remote |-> Receive(remote[j], "bcast", "combine")])
      \o <<LocalBcast(First(Peers(r)))>>

\* EMPI_Scan: receive from every lower rank, send to every higher one.
Scan(r) ==
  [k \in 1 .. Size - 1 |->
    IF k - 1 < r THEN Receive(k - 1, "scan", "combine")
                 ELSE SendOwn(k, "scan")]

\* The operations with one count: that for every member in the arrays of the others.
Gather(r, g)  == Gatherv(r, g)
Scatter(r, g) == Scatterv(r, g)
Allgather(r)  == Allgatherv(r)
Alltoall(r)   == Alltoallv(r)

Steps(c, r) ==
  CASE c.op = "barrier"   -> Barrier(r)
    [] c.op = "bcast"     -> Bcast(r, c.root)
    [] c.op = "gather"    -> Gather(r, c.root)
    [] c.op = "scatter"   -> Scatter(r, c.root)
    [] c.op = "allgather" -> Allgather(r)
    [] c.op = "alltoall"  -> Alltoall(r)
    [] c.op = "reduce"    -> Reduce(r, c.root)
    [] c.op = "allreduce" -> Allreduce(r)
    [] c.op = "scan"      -> Scan(r)

\* The contributions of r for each member, in the displacements of EMPI_Scatter
\* and EMPI_Alltoall; the variant counts from one.
AddressedFromOne(r) == { <<r, q>> : q \in 1 .. Size }
Addressed(r) == { <<r, q>> : q \in Rank }

\* What r's buffers hold when it makes call c.  In EMPI_Allgatherv what is beyond
\* the places of its cluster is lost: the exchange puts those of the others there.
Contribution(c, r) ==
  [parts |->
     CASE c.op = "bcast"     -> IF r = c.root THEN {<<r, All>>} ELSE {}
       [] c.op = "gather"    -> {<<r, c.root>>}
       [] c.op = "scatter"   -> IF r = c.root THEN Addressed(r) ELSE {}
       [] c.op = "allgather" -> {<<r, Position(r)>>} \cap OfCluster(r)
       [] c.op = "alltoall"  -> Addressed(r)
       [] OTHER              -> {},
   order |-> IF c.op \in Reductions THEN <<r>> ELSE << >>]

-----------------------------------------------------------------------------
(* Execution *)

Empty == [parts |-> {}, order |-> << >>]

Init ==
  /\ program \in Programs
  /\ eager \in BOOLEAN
  /\ done    = [r \in Rank |-> 0]
  /\ step    = [r \in Rank |-> 0]
  /\ value   = [r \in Rank |-> Empty]
  /\ results = [r \in Rank |-> << >>]
  /\ wire    = [x \in Rank \X Rank |-> << >>]
  /\ entered = [r \in Rank |-> << >>]
  /\ inside  = [r \in Rank |-> FALSE]

Current(r) == program[done[r] + 1]
StepTable  == [x \in Call \X Rank |-> Steps(x[1], x[2])]
StepsOf(r) == StepTable[<<Current(r), r>>]
InCall(r)  == step[r] > 0
AtEnd(r)   == InCall(r) /\ step[r] > Len(StepsOf(r))
Now(r)     == StepsOf(r)[step[r]]
IsAt(r, what) == InCall(r) /\ ~AtEnd(r) /\ Now(r).do = what

Enter(r) ==
  /\ ~InCall(r)
  /\ done[r] < Len(program)
  /\ step'  = [step EXCEPT ![r] = 1]
  /\ value' = [value EXCEPT ![r] = Contribution(Current(r), r)]
  /\ UNCHANGED <<program, eager, done, results, wire, entered, inside>>

Payload(r) ==
  IF Now(r).own THEN Contribution(Current(r), r)
                ELSE [value[r] EXCEPT !.parts = @ \cap Now(r).what]

\* What becomes of r's buffer when payload arrives in its step.  The operator of
\* a reduction is called as function(buffer, recvbuf).  The variant overwrites.
Overwritten(r, payload) == payload

Applied(r, payload) ==
  [parts |-> value[r].parts \cup payload.parts,
   order |-> IF Now(r).how = "combine" THEN payload.order \o value[r].order
                                       ELSE payload.order]

\* A message leaves its sender at once when it goes to the gateway, or when MPI
\* buffers it.
SendMessage(r) ==
  /\ IsAt(r, "send")
  /\ eager \/ ~IsLocal(r, Now(r).peer)
  /\ wire' = [wire EXCEPT ![<<r, Now(r).peer>>] =
                Append(@, [tag |-> Now(r).tag, payload |-> Payload(r)])]
  /\ step' = [step EXCEPT ![r] = @ + 1]
  /\ UNCHANGED <<program, eager, done, value, results, entered, inside>>

\* Without buffering, a send inside a cluster waits for its receive.
Rendezvous(r, q) ==
  /\ ~eager
  /\ IsLocal(r, q)
  /\ IsAt(r, "send") /\ Now(r).peer = q
  /\ IsAt(q, "receive") /\ Now(q).peer = r /\ Now(q).tag = Now(r).tag
  /\ value' = [value EXCEPT ![q] = Applied(q, Payload(r))]
  /\ step'  = [step EXCEPT ![r] = @ + 1, ![q] = @ + 1]
  /\ UNCHANGED <<program, eager, done, results, wire, entered, inside>>

\* do_recv, messaging_receive, messaging_bcast_receive: the first message of
\* the sender that has the tag.
ReceiveMessage(r) ==
  /\ IsAt(r, "receive")
  /\ LET x    == <<Now(r).peer, r>>
         fits == { i \in DOMAIN wire[x] : wire[x][i].tag = Now(r).tag }
     IN  /\ fits # {}
         /\ value' = [value EXCEPT ![r] = Applied(r, wire[x][First(fits)].payload)]
         /\ wire'  = [wire EXCEPT ![x] = RemoveAt(@, First(fits))]
  /\ step' = [step EXCEPT ![r] = @ + 1]
  /\ UNCHANGED <<program, eager, done, results, entered, inside>>

\* Calling a collective operation of the local MPI.
IsLocalCall(r) == InCall(r) /\ ~AtEnd(r) /\ Now(r).do \in {"barrier", "bcast", "reduce"}
LocalEnter(r) ==
  /\ IsLocalCall(r) /\ ~inside[r]
  /\ entered' = [entered EXCEPT ![r] = Append(@, [call |-> Now(r), value |-> value[r]])]
  /\ inside'  = [inside EXCEPT ![r] = TRUE]
  /\ UNCHANGED <<program, eager, done, step, value, results, wire>>

\* Returning from it: from a barrier when all members of the cluster are in,
\* from a broadcast when its root is in; the root of a reduction returns when
\* all are in.  These are the weakest guarantees of MPI.
HasEntered(q, n) == Len(entered[q]) >= n
Deposit(q, n) == entered[q][n].value

LocalLeave(r) ==
  LET n     == Len(entered[r])
      peers == Peers(r)
      root  == Now(r).root
      order == Ascending(peers)
  IN  /\ inside[r]
      /\ \/ /\ Now(r).do = "barrier"
            /\ \A q \in peers : HasEntered(q, n)
            /\ UNCHANGED value
         \/ /\ Now(r).do = "bcast"
            /\ HasEntered(root, n)
            /\ value' = [value EXCEPT ![r].parts = @ \cup Deposit(root, n).parts,
                                      ![r].order = Deposit(root, n).order]
         \/ /\ Now(r).do = "reduce"
            /\ IF r = root
               THEN /\ \A q \in peers : HasEntered(q, n)
                    /\ value' = [value EXCEPT ![r].order =
                         FlattenSeq([j \in DOMAIN order |-> Deposit(order[j], n).order])]
               ELSE UNCHANGED value
      /\ inside' = [inside EXCEPT ![r] = FALSE]
      /\ step'   = [step EXCEPT ![r] = @ + 1]
      /\ UNCHANGED <<program, eager, done, results, wire, entered>>

Leave(r) ==
  /\ AtEnd(r)
  /\ done'    = [done EXCEPT ![r] = @ + 1]
  /\ step'    = [step EXCEPT ![r] = 0]
  /\ results' = [results EXCEPT ![r] = Append(@, value[r])]
  /\ value'   = [value EXCEPT ![r] = Empty]
  /\ UNCHANGED <<program, eager, wire, entered, inside>>

\* Every member has made all its calls.
AllDone == \A r \in Rank : done[r] = Len(program)
Finished == AllDone /\ UNCHANGED vars

Step(r) ==
  \/ Enter(r) \/ SendMessage(r) \/ ReceiveMessage(r)
  \/ LocalEnter(r) \/ LocalLeave(r) \/ Leave(r)
  \/ \E q \in Rank : Rendezvous(r, q)

Next == (\E r \in Rank : Step(r)) \/ Finished

Spec == Init /\ [][Next]_vars

\* As long as some process can go on, some process does: no more is needed,
\* because no process can take steps for ever.
FairSpec == Spec /\ WF_vars(\E r \in Rank : Step(r))

-----------------------------------------------------------------------------
(* Properties *)

\* The types of all variables; a value is a set of contributions and, in a
\* reduction, a sequence of members.
IsValue(v) == v.parts \subseteq Everything /\ v.order \in Seq(Rank)
TypeOK ==
  /\ program \in Programs
  /\ eager \in BOOLEAN
  /\ done \in [Rank -> 0 .. Len(program)]
  /\ step \in [Rank -> Nat]
  /\ \A r \in Rank : /\ IsValue(value[r])
                     /\ Len(results[r]) = done[r]
                     /\ \A k \in DOMAIN results[r] : IsValue(results[r][k])
  /\ \A x \in Rank \X Rank : \A i \in DOMAIN wire[x] : IsValue(wire[x][i].payload)
  /\ inside \in [Rank -> BOOLEAN]

\* The sequence v has every element of S exactly once.
EachOnce(v, S) == Len(v) = Cardinality(S) /\ { v[i] : i \in DOMAIN v } = S

\* What the MPI standard says r has when it returns from c: the contributions
\* for it, or every member's contribution exactly once.
Prescribed(c, r, v) ==
  CASE c.op = "barrier"   -> TRUE
    [] c.op = "bcast"     -> v.parts = {<<c.root, All>>}
    [] c.op = "gather"    -> r = c.root => v.parts = { <<q, r>> : q \in Rank }
    [] c.op = "scatter"   -> <<c.root, r>> \in v.parts
    [] c.op = "allgather" -> v.parts = { <<q, q>> : q \in Rank }
    [] c.op = "alltoall"  -> \A q \in Rank : <<q, r>> \in v.parts
    [] c.op = "reduce"    -> r = c.root => EachOnce(v.order, Rank)
    [] c.op = "allreduce" -> EachOnce(v.order, Rank)
    [] c.op = "scan"      -> EachOnce(v.order, 0 .. r)

\* Whatever the pace of the members, also when some are already in the next
\* call, a collective operation gives each member what MPI prescribes: the
\* trees of EMPI_Bcast, EMPI_Allgatherv, EMPI_Reduce, EMPI_Allreduce, ...
\* neither lose nor repeat a contribution, nor take one of another call.
CollectiveResults ==
  \A r \in Rank : \A k \in DOMAIN results[r] : Prescribed(program[k], r, results[r][k])

\* No member returns from EMPI_Barrier before every member has called it.
BarrierHolds ==
  \A k \in DOMAIN program : program[k].op = "barrier" =>
    \A r, q \in Rank : done[r] >= k => done[q] >= k \/ (done[q] = k - 1 /\ InCall(q))

\* The n-th local collective call of all members of a cluster is the same
\* operation with the same root: MPI has undefined behaviour otherwise.
LocalCallsMatch ==
  \A r, q \in Rank : IsLocal(r, q) =>
    \A n \in DOMAIN entered[r] \cap DOMAIN entered[q] :
      entered[r][n].call = entered[q][n].call

\* When all have returned from all calls no message is left behind, in MPI or
\* in a queue, for a later receive to find.
NothingLeft == AllDone => \A x \in DOMAIN wire : wire[x] = << >>

\* Every collective call returns when all members make it: the order of the
\* sends and receives of the trees never makes them wait for each other, not
\* even when MPI does not buffer.
CollectivesComplete == <>AllDone
=============================================================================
