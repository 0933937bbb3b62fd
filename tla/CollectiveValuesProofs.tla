------------------------ MODULE CollectiveValuesProofs ------------------------
(***************************************************************************)
(* Proof that the collective operations return what MPI prescribes         *)
(* (Collectives, CollectiveResults), for any number of clusters and        *)
(* members and any programs, if the members of a cluster follow one        *)
(* another (Grouped) and messaging_bcast finds the coordinators (InOrder). *)
(* Elsewhere EMPI_Allgatherv loses contributions: the cluster index that   *)
(* it trusts is that of the cluster met last.                              *)
(*                                                                         *)
(* For a place in a call it is said what the buffers of a member hold      *)
(* there (ValueGood), for a message of a call what it carries              *)
(* (MessageGood), and which call each message on the wire is of (Tracks).  *)
(***************************************************************************)
EXTENDS CollectivesProofs

\* member_cluster_index is the index of the member's own cluster.
Grouped == \A q \in Rank : ClusterIndex(q) = ClusterIndex(MyCoordinator(q))

\* What the members of s's cluster contribute to EMPI_Allgatherv, each at its place.
InPlace(s) == { <<q, q>> : q \in Peers(s) }

\* What may be in the buffers of call c.
Allowed(c) ==
  CASE c.op = "bcast"     -> {<<c.root, All>>}
    [] c.op = "gather"    -> { <<q, c.root>> : q \in Rank }
    [] c.op = "allgather" -> { <<q, q>> : q \in Rank }
    [] OTHER              -> Everything

\* What the message of c from s to d with tag g has to carry.
Carried(c, s, d, g) ==
  CASE c.op = "bcast"     -> {<<c.root, All>>}
    [] c.op = "allgather" -> IF g = "bcast" THEN InPlace(s) ELSE {<<s, s>>}
    [] c.op \in {"gather", "scatter", "alltoall"} -> {<<s, d>>}
    [] OTHER              -> {}

\* The members whose contributions are combined in the messages of s, in a reduction.
CombinedBy(c, s) == IF c.op = "scan" THEN {s} ELSE Peers(s)

\* The sequence v of members has those of S, each once.
Once(v, S) == v \in Seq(Rank) /\ \A q \in Rank : Num(v, {q}) = IF q \in S THEN 1 ELSE 0

\* The content p of that message is what it should be.
MessageGood(c, s, d, g, p) ==
  /\ p.parts \subseteq Allowed(c)
  /\ Carried(c, s, d, g) \subseteq p.parts
  /\ c.op \in Reductions => Once(p.order, CombinedBy(c, s))

\* The members from which r has received before step i of c, and those whose
\* contributions it has combined.
Heard(c, r, i) ==
  { s \in Rank : \E j \in 1 .. i - 1, g \in Tags : Steps(c, r)[j] \in Incoming(s, g) }
Reduced(c, r, i) == c.op # "scan" /\ i > 1 /\ r = FirstLocal(c, r).root
Combined(c, r, i) ==
  (IF Reduced(c, r, i) THEN Peers(r) ELSE {r})
  \cup UNION { CombinedBy(c, s) : s \in Heard(c, r, i) }

\* What everybody has after the broadcast in the clusters that ends c.
Complete(c, v) ==
  /\ c.op = "bcast" => <<c.root, All>> \in v.parts
  /\ c.op = "allgather" => Allowed(c) \subseteq v.parts
  /\ c.op = "allreduce" => Once(v.order, Rank)

\* The buffers v of r before step i of c: nothing that does not belong there, its own
\* contribution and all that the messages it has received had to carry; in a reduction
\* each contribution once.
ValueGood(c, r, i, v) ==
  /\ v.parts \subseteq Allowed(c)
  /\ Contribution(c, r).parts \subseteq v.parts
  /\ \A s \in Rank, g \in Tags, j \in 1 .. i - 1 :
       Steps(c, r)[j] \in Incoming(s, g) => Carried(c, s, r, g) \subseteq v.parts
  /\ c.op \in Reductions /\ (c.op \in Ends => i <= Len(Steps(c, r))) => Once(v.order, Combined(c, r, i))
  /\ i > Len(Steps(c, r)) => Complete(c, v)

\* The step of the j-th local call of c.
PlaceOfLocal(c, r, j) == IF j = 1 /\ c.op \in Begins THEN 1 ELSE Len(Steps(c, r))

-----------------------------------------------------------------------------
(* The messages of a call carry what they have to *)

\* The steps that send enough, and combine what they receive in a reduction.
Fit(c, r) ==
  { x \in Talk :
      /\ x.do = "send" => IF c.op = "scan" THEN x.own
                          ELSE ~ x.own /\ Carried(c, r, x.peer, x.tag) \subseteq x.what
      /\ x.do = "receive" /\ c.op \in Reductions => x.how = "combine" }
AnyFit(c, r) == Fit(c, r) \cup LocalCall

\* A send, and a receive, that fits.
LEMMA SendFits ==
  ASSUME NEW c \in Call, NEW r \in Rank, NEW q \in Rank, NEW tag \in Tags
  PROVE  /\ \A what \in SUBSET Everything :
              c.op # "scan" /\ Carried(c, r, q, tag) \subseteq what => Send(q, tag, what) \in Fit(c, r)
         /\ c.op = "scan" => SendOwn(q, tag) \in Fit(c, r)
         /\ \A how \in {"add", "combine"} :
              (c.op \in Reductions => how = "combine") => Receive(q, tag, how) \in Fit(c, r)
<1>1. {} \in SUBSET Everything
  OBVIOUS
<1>2. ASSUME NEW what \in SUBSET Everything, c.op # "scan", Carried(c, r, q, tag) \subseteq what
      PROVE  Send(q, tag, what) \in Fit(c, r)
  <2>1. Send(q, tag, what) \in Talk
    BY SendType
  <2>. QED  BY <1>2, <2>1 DEF Fit, Send
<1>3. ASSUME c.op = "scan" PROVE SendOwn(q, tag) \in Fit(c, r)
  <2>1. SendOwn(q, tag) \in Talk
    BY <1>1, SendType
  <2>. QED  BY <1>3, <2>1 DEF Fit, SendOwn
<1>4. ASSUME NEW how \in {"add", "combine"}, c.op \in Reductions => how = "combine"
      PROVE  Receive(q, tag, how) \in Fit(c, r)
  <2>1. Receive(q, tag, how) \in Talk
    BY ReceiveType
  <2>. QED  BY <1>4, <2>1 DEF Fit, Receive
<1>. QED  BY <1>2, <1>3, <1>4

\* A list of receives.
LEMMA ReceivesFit ==
  ASSUME NEW c \in Call, NEW r \in Rank, NEW qs \in Seq(Rank), NEW tag \in Tags,
         NEW how \in {"add", "combine"}, c.op \in Reductions => how = "combine"
  PROVE  [j \in DOMAIN qs |-> Receive(qs[j], tag, how)] \in Seq(Fit(c, r))
<1>1. Len(qs) \in Nat /\ DOMAIN qs = 1 .. Len(qs)
  BY LenProperties
<1>2. \A j \in 1 .. Len(qs) : Receive(qs[j], tag, how) \in Fit(c, r)
  BY ElementOfSeq, SendFits
<1>. QED  BY <1>1, <1>2

\* messaging_bcast of enough.
LEMMA WaBcastFits ==
  ASSUME NEW c \in Call, NEW r \in Rank, NEW what \in SUBSET Everything, c.op # "scan",
         \A q \in Rank : Carried(c, r, q, "bcast") \subseteq what
  PROVE  WaBcast(r, what) \in Seq(Fit(c, r))
<1> DEFINE others == Ascending(Cluster \ {Home(r)})
<1>1. others \in Seq(Cluster)
  BY AscendingType
<1> HIDE DEF others
<1>2. Len(others) \in Nat /\ DOMAIN others = 1 .. Len(others)
  BY <1>1, LenProperties
<1>3. ASSUME NEW j \in 1 .. Len(others)
      PROVE  Send(CoordinatorAt(others[j]), "bcast", what) \in Fit(c, r)
  <2>1. CoordinatorAt(others[j]) \in Rank
    BY <1>1, ElementOfSeq, CoordinatorsLemma
  <2>. QED  BY <2>1, SendFits DEF Tags
<1>4. [j \in DOMAIN others |-> Send(CoordinatorAt(others[j]), "bcast", what)] \in Seq(Fit(c, r))
  BY <1>2, <1>3
<1>. QED  BY <1>4 DEF WaBcast, others

\* Everything is enough for any message.
LEMMA CarriedType ==
  ASSUME NEW c \in Call, NEW s \in Rank, NEW d \in Rank, NEW g
  PROVE  Carried(c, s, d, g) \in SUBSET Everything
<1>1. c.root \in Rank
  BY DEF Call
<1>2. \A q \in Rank : <<q, All>> \in Everything /\ <<q, d>> \in Everything
  BY DEF Everything
<1>3. InPlace(s) \in SUBSET Everything /\ {<<s, s>>} \in SUBSET Everything
  BY PeersLemma DEF InPlace, Everything
<1>. QED  BY <1>1, <1>2, <1>3 DEF Carried

\* The steps of EMPI_Barrier.
LEMMA BarrierFits ==
  ASSUME NEW c \in Call, NEW r \in Rank, c.op = "barrier"
  PROVE  Steps(c, r) \in Seq(AnyFit(c, r))
<1> DEFINE others == Ascending(1 .. ClusterCount - 1)
           gather == [j \in DOMAIN others |-> Receive(CoordinatorAt(others[j]), "barrier", "add")]
           root == When(r = CoordinatorAt(0), gather \o WaBcast(r, {}))
           leaf == When(\E i \in 1 .. ClusterCount - 1 : r = CoordinatorAt(i),
                        <<Send(CoordinatorAt(0), "barrier", {}),
                          Receive(CoordinatorAt(0), "bcast", "add")>>)
           F == Fit(c, r)
           A == AnyFit(c, r)
<1>1. others \in Seq(Cluster)
  <2>1. 1 .. ClusterCount - 1 \in SUBSET Cluster
    BY ClusterAssumption DEF Cluster
  <2>. QED  BY <2>1, AscendingType
<1>2. c.op # "scan" /\ c.op \notin Reductions /\ \A q, g : Carried(c, r, q, g) = {}
  BY DEF Reductions, Carried
<1>3. gather \in Seq(F)
  <2> HIDE DEF others
  <2>1. Len(others) \in Nat /\ DOMAIN others = 1 .. Len(others)
    BY <1>1, LenProperties
  <2>2. \A j \in 1 .. Len(others) : Receive(CoordinatorAt(others[j]), "barrier", "add") \in F
    BY <1>1, <1>2, ElementOfSeq, CoordinatorsLemma, SendFits DEF Tags
  <2>. QED  BY <2>1, <2>2
<1>4. WaBcast(r, {}) \in Seq(F)
  BY <1>2, WaBcastFits
<1>5. leaf \in Seq(F)
  <2>1. CoordinatorAt(0) \in Rank
    BY CoordinatorsLemma, ClusterAssumption DEF Cluster
  <2>2. Send(CoordinatorAt(0), "barrier", {}) \in F /\ Receive(CoordinatorAt(0), "bcast", "add") \in F
    BY <1>2, <2>1, SendFits DEF Tags
  <2>3. <<Send(CoordinatorAt(0), "barrier", {}), Receive(CoordinatorAt(0), "bcast", "add")>> \in Seq(F)
    BY <2>2
  <2>. QED  BY <2>3, WhenType
<1>6. Steps(c, r) = <<LocalBarrier>> \o root \o leaf \o <<LocalBarrier>>
  BY DEF Steps, Barrier, gather
<1> HIDE DEF gather, leaf
<1>7. root \in Seq(F)
  BY <1>3, <1>4, ConcatProperties, WhenType
<1> HIDE DEF root, F
<1>8. root \in Seq(A) /\ leaf \in Seq(A) /\ <<LocalBarrier>> \in Seq(A)
  BY <1>5, <1>7, SeqMonotonic, SingleType DEF AnyFit, LocalCall, F
<1> HIDE DEF A
<1>9. <<LocalBarrier>> \o root \in Seq(A)
  BY <1>8, ConcatProperties
<1>10. <<LocalBarrier>> \o root \o leaf \in Seq(A)
  BY <1>8, <1>9, ConcatProperties
<1>11. <<LocalBarrier>> \o root \o leaf \o <<LocalBarrier>> \in Seq(A)
  BY <1>8, <1>10, ConcatProperties
<1>. QED  BY <1>6, <1>11 DEF A

\* Messages with a local call before or after them.
LEMMA AroundFits ==
  ASSUME NEW c \in Call, NEW r \in Rank, NEW t \in Seq(Fit(c, r))
  PROVE  /\ t \in Seq(AnyFit(c, r))
         /\ <<FirstLocal(c, r)>> \o t \in Seq(AnyFit(c, r))
         /\ t \o <<LastLocal(c, r)>> \in Seq(AnyFit(c, r))
         /\ <<FirstLocal(c, r)>> \o t \o <<LastLocal(c, r)>> \in Seq(AnyFit(c, r))
<1> DEFINE A == AnyFit(c, r)
<1>1. FirstLocal(c, r) \in A /\ LastLocal(c, r) \in A
  BY LocalType DEF AnyFit
<1>2. t \in Seq(A)
  BY SeqMonotonic DEF AnyFit
<1> HIDE DEF A
<1>3. <<FirstLocal(c, r)>> \in Seq(A) /\ <<LastLocal(c, r)>> \in Seq(A)
  BY <1>1, SingleType
<1>4. <<FirstLocal(c, r)>> \o t \in Seq(A) /\ t \o <<LastLocal(c, r)>> \in Seq(A)
  BY <1>2, <1>3, ConcatProperties
<1>5. <<FirstLocal(c, r)>> \o t \o <<LastLocal(c, r)>> \in Seq(A)
  BY <1>3, <1>4, ConcatProperties
<1>. QED  BY <1>2, <1>4, <1>5 DEF A

\* The steps of EMPI_Bcast.
LEMMA BcastFits ==
  ASSUME NEW c \in Call, NEW r \in Rank, c.op = "bcast"
  PROVE  Steps(c, r) \in Seq(AnyFit(c, r))
<1> DEFINE g == c.root
           root == When(r = g, WaBcast(r, Everything))
           leaf == When(~IsLocal(r, g) /\ r = MyCoordinator(r), <<Receive(g, "bcast", "add")>>)
<1>1. g \in Rank
  BY DEF Call
<1>2. c.op # "scan" /\ c.op \notin Reductions
  BY DEF Reductions
<1>3. WaBcast(r, Everything) \in Seq(Fit(c, r))
  BY <1>2, CarriedType, WaBcastFits
<1>4. root \in Seq(Fit(c, r))
  BY <1>3, WhenType
<1>5. leaf \in Seq(Fit(c, r))
  BY <1>1, <1>2, SendFits, SingleType, WhenType DEF Tags
<1>6. Steps(c, r) = (root \o leaf) \o <<LastLocal(c, r)>>
  BY DEF Steps, Bcast, LastLocal
<1> HIDE DEF root, leaf
<1>7. root \o leaf \in Seq(Fit(c, r))
  BY <1>4, <1>5, ConcatProperties
<1>. QED  BY <1>6, <1>7, AroundFits

\* The steps of EMPI_Gatherv.
LEMMA GathervFits ==
  ASSUME NEW c \in Call, NEW r \in Rank, c.op = "gather"
  PROVE  Steps(c, r) \in Seq(AnyFit(c, r))
<1> DEFINE g == c.root
           others == Ascending(Rank \ {g})
           gather == [j \in DOMAIN others |-> Receive(others[j], "gatherv", "add")]
<1>1. g \in Rank
  BY DEF Call
<1>2. others \in Seq(Rank)
  BY AscendingType
<1>3. c.op # "scan" /\ c.op \notin Reductions /\ Carried(c, r, g, "gatherv") = {<<r, g>>}
  BY DEF Reductions, Carried
<1>4. gather \in Seq(Fit(c, r))
  <2> HIDE DEF others
  <2>. QED  BY <1>2, <1>3, ReceivesFit DEF Tags
<1>5. <<Send(g, "gatherv", {<<r, g>>})>> \in Seq(Fit(c, r))
  <2>1. {<<r, g>>} \in SUBSET Everything
    BY <1>1 DEF Everything
  <2>2. Send(g, "gatherv", {<<r, g>>}) \in Fit(c, r)
    BY <1>1, <1>3, <2>1, SendFits DEF Tags
  <2>. QED  BY <2>2, SingleType
<1>6. Steps(c, r) = IF r = g THEN gather ELSE <<Send(g, "gatherv", {<<r, g>>})>>
  BY DEF Steps, Gather, Gatherv
<1> HIDE DEF gather
<1>. QED  BY <1>4, <1>5, <1>6, AroundFits

\* The steps of EMPI_Scatterv.
LEMMA ScattervFits ==
  ASSUME NEW c \in Call, NEW r \in Rank, c.op = "scatter"
  PROVE  Steps(c, r) \in Seq(AnyFit(c, r))
<1> DEFINE g == c.root
           others == Ascending(Rank \ {g})
           scatter == [j \in DOMAIN others |-> Send(others[j], "scatterv", {<<g, others[j]>>})]
<1>1. g \in Rank
  BY DEF Call
<1>2. others \in Seq(Rank)
  BY AscendingType
<1>3. c.op # "scan" /\ c.op \notin Reductions /\ \A q : Carried(c, r, q, "scatterv") = {<<r, q>>}
  BY DEF Reductions, Carried
<1>4. ASSUME r = g PROVE scatter \in Seq(Fit(c, r))
  <2> HIDE DEF others
  <2>1. Len(others) \in Nat /\ DOMAIN others = 1 .. Len(others)
    BY <1>2, LenProperties
  <2>2. ASSUME NEW j \in 1 .. Len(others)
        PROVE  Send(others[j], "scatterv", {<<g, others[j]>>}) \in Fit(c, r)
    <3>1. others[j] \in Rank
      BY <1>2, ElementOfSeq
    <3>2. {<<g, others[j]>>} \in SUBSET Everything
      BY <1>1, <3>1 DEF Everything
    <3>. QED  BY <1>3, <1>4, <3>1, <3>2, SendFits DEF Tags
  <2>. QED  BY <2>1, <2>2
<1>5. <<Receive(g, "scatterv", "add")>> \in Seq(Fit(c, r))
  BY <1>1, <1>3, SendFits, SingleType DEF Tags
<1>6. Steps(c, r) = IF r = g THEN scatter ELSE <<Receive(g, "scatterv", "add")>>
  BY DEF Steps, Scatter, Scatterv
<1> HIDE DEF scatter
<1>. QED  BY <1>4, <1>5, <1>6, AroundFits

\* The least of the members with an index is the coordinator of them all.
LEMMA SameIndex ==
  ASSUME NEW m \in Rank, NEW k \in Rank, m <= k, ClusterIndex(m) = ClusterIndex(k)
  PROVE  \E p \in 0 .. m : Home(p) = Home(k)
<1> DEFINE A == { Home(p) : p \in 0 .. m }
           B == { Home(p) : p \in 0 .. k }
<1>1. Size \in Nat /\ Rank = 0 .. Size - 1
  BY MembersLemma
<1>2. m \in Nat /\ k \in Nat /\ 0 .. m \subseteq 0 .. k /\ 0 .. k \subseteq Rank
  BY <1>1
<1>3. A \subseteq B /\ B \subseteq Cluster
  BY <1>2, MembersLemma
<1>4. IsFiniteSet(Cluster)
  BY ClusterAssumption, FS_Interval DEF Cluster
<1>5. Home(k) \in B
  BY <1>2
<1>6. Cardinality(A) - 1 = Cardinality(B) - 1
  BY DEF ClusterIndex
<1> HIDE DEF A, B
<1>7. IsFiniteSet(B) /\ IsFiniteSet(A)
  BY <1>3, <1>4, FS_Subset
<1>8. Cardinality(A) \in Nat /\ Cardinality(B) \in Nat
  BY <1>7, FS_CardinalityType
<1>9. Cardinality(A) = Cardinality(B)
  BY <1>6, <1>8
<1>10. A = B
  BY <1>3, <1>7, <1>9, FS_Subset
<1>. QED  BY <1>5, <1>10 DEF A

\* The index never decreases.
LEMMA IndexBetween ==
  ASSUME NEW m \in Rank, NEW q \in Rank, NEW r \in Rank, m <= q, q <= r,
         ClusterIndex(m) = ClusterIndex(r)
  PROVE  ClusterIndex(q) = ClusterIndex(r)
<1> DEFINE S(k) == { Home(p) : p \in 0 .. k }
<1>1. Size \in Nat /\ Rank = 0 .. Size - 1
  BY MembersLemma
<1>2. S(m) \subseteq S(q) /\ S(q) \subseteq S(r)
  <2>1. 0 .. m \subseteq 0 .. q /\ 0 .. q \subseteq 0 .. r
    BY <1>1
  <2>. QED  BY <2>1
<1>3. ASSUME NEW k \in Rank PROVE IsFiniteSet(S(k)) /\ Cardinality(S(k)) \in Nat
  <2>1. 0 .. k \subseteq Rank
    BY <1>1
  <2>2. S(k) \subseteq Cluster
    BY <2>1, MembersLemma
  <2>3. IsFiniteSet(Cluster)
    BY ClusterAssumption, FS_Interval DEF Cluster
  <2> HIDE DEF S
  <2>. QED  BY <2>2, <2>3, FS_Subset, FS_CardinalityType
<1>4. ClusterIndex(m) = Cardinality(S(m)) - 1 /\ ClusterIndex(q) = Cardinality(S(q)) - 1
      /\ ClusterIndex(r) = Cardinality(S(r)) - 1
  BY DEF ClusterIndex
<1> HIDE DEF S
<1>5. Cardinality(S(m)) <= Cardinality(S(q)) /\ Cardinality(S(q)) <= Cardinality(S(r))
  BY <1>2, <1>3, FS_Subset
<1>6. Cardinality(S(m)) = Cardinality(S(r))
  <2>1. Cardinality(S(m)) - 1 = Cardinality(S(r)) - 1
    BY <1>4
  <2>2. Cardinality(S(m)) \in Nat /\ Cardinality(S(r)) \in Nat
    BY <1>3
  <2>. QED  BY <2>1, <2>2
<1>7. Cardinality(S(q)) = Cardinality(S(r))
  BY <1>3, <1>5, <1>6
<1>. QED  BY <1>4, <1>7

\* A member's own place in the buffer of EMPI_Allgatherv is the place it is put at.
LEMMA PositionLemma ==
  ASSUME Grouped, NEW r \in Rank
  PROVE  Position(r) = r
<1> DEFINE m == MyCoordinator(r)
<1>1. Size \in Nat /\ Rank = 0 .. Size - 1
  BY MembersLemma
<1>2. m \in Rank /\ m <= r /\ \A q \in Peers(r) : m <= q
  <2>1. Peers(r) \in SUBSET Nat /\ r \in Peers(r)
    BY <1>1, PeersLemma
  <2>. QED  BY <2>1, FirstLemma, PeersLemma DEF MyCoordinator
<1> HIDE DEF m
<1>3. ASSUME NEW q \in m .. r PROVE q \in Peers(r)
  <2> DEFINE l == MyCoordinator(q)
  <2>1. q \in Rank /\ m <= q /\ q <= r
    BY <1>1, <1>2
  <2>2. l \in Rank /\ l <= q /\ (\A p \in Peers(q) : l <= p) /\ IsLocal(l, q)
    <3>1. Peers(q) \in SUBSET Nat /\ q \in Peers(q)
      BY <1>1, <2>1, PeersLemma
    <3>. QED  BY <2>1, <3>1, FirstLemma, PeersLemma DEF MyCoordinator
  <2>3. ClusterIndex(m) = ClusterIndex(r) /\ ClusterIndex(l) = ClusterIndex(q)
    BY <2>1 DEF Grouped, m
  <2> HIDE DEF l
  <2>4. ClusterIndex(q) = ClusterIndex(r)
    BY <1>2, <2>1, <2>3, IndexBetween
  <2>5. CASE l < m
    <3>1. l <= m /\ ClusterIndex(l) = ClusterIndex(m)
      BY <1>1, <1>2, <2>2, <2>3, <2>4, <2>5
    <3>2. PICK p \in 0 .. l : Home(p) = Home(m)
      BY <1>2, <2>2, <3>1, SameIndex
    <3>3. p \in Rank /\ p < m
      BY <1>1, <1>2, <2>2, <2>5
    <3>4. Home(m) = Home(r)
      BY PeersLemma DEF IsLocal, m
    <3>5. p \in Peers(r)
      BY <3>2, <3>3, <3>4 DEF Peers
    <3>. QED  BY <1>1, <1>2, <3>3, <3>5
  <2>6. CASE m < l
    <3>1. m <= l /\ ClusterIndex(m) = ClusterIndex(l)
      BY <1>1, <1>2, <2>2, <2>3, <2>4, <2>6
    <3>2. PICK p \in 0 .. m : Home(p) = Home(l)
      BY <1>2, <2>2, <3>1, SameIndex
    <3>3. p \in Peers(q) /\ p < l
      BY <1>1, <1>2, <2>1, <2>2, <2>6, <3>2 DEF Peers, IsLocal
    <3>. QED  BY <1>1, <2>1, <2>2, <3>3, PeersLemma
  <2>7. CASE l = m
    <3>1. Home(q) = Home(r)
      BY <2>2, <2>7, PeersLemma DEF IsLocal, m
    <3>. QED  BY <2>1, <3>1 DEF Peers
  <2>. QED  BY <1>1, <1>2, <2>2, <2>5, <2>6, <2>7
<1>4. { q \in Peers(r) : q < r } = m .. r - 1
  <2>1. \A q \in Peers(r) : q \in Rank /\ m <= q
    BY <1>2, PeersLemma
  <2>2. \A q \in m .. r - 1 : q \in m .. r /\ q < r
    BY <1>1, <1>2
  <2>. QED  BY <1>1, <1>2, <1>3, <2>1, <2>2
<1>5. Cardinality(m .. r - 1) = r - m
  <2>1. m \in Int /\ r - 1 \in Int
    BY <1>1, <1>2
  <2>2. Cardinality(m .. r - 1) = IF m > r - 1 THEN 0 ELSE (r - 1) - m + 1
    BY <2>1, FS_Interval
  <2>. QED  BY <1>1, <1>2, <2>2
<1>6. Position(r) = m + (r - m)
  BY <1>4, <1>5 DEF Position, m
<1>. QED  BY <1>1, <1>2, <1>6

\* Each contribution is put at its member's place, among those of its cluster.
LEMMA InPlaceLemma ==
  ASSUME Grouped, NEW r \in Rank
  PROVE  InPlace(r) \subseteq OfCluster(r) /\ {<<r, Position(r)>>} \cap OfCluster(r) = {<<r, r>>}
<1>1. ASSUME NEW q \in Peers(r) PROVE <<q, q>> \in OfCluster(r)
  <2>1. q \in Rank /\ IsLocal(r, q)
    BY <1>1, PeersLemma DEF Peers, IsLocal
  <2>2. MyCoordinator(q) = MyCoordinator(r)
    BY <2>1, PeersLemma DEF MyCoordinator
  <2>. QED  BY <2>1, <2>2 DEF Grouped, OfCluster
<1>2. <<r, r>> \in OfCluster(r)
  BY <1>1, PeersLemma
<1>. QED  BY <1>1, <1>2, PositionLemma DEF InPlace

\* The steps of EMPI_Allgatherv.
LEMMA AllgathervFits ==
  ASSUME Grouped, NEW c \in Call, NEW r \in Rank, c.op = "allgather"
  PROVE  Steps(c, r) \in Seq(AnyFit(c, r))
<1> DEFINE peers == Ascending(Peers(r) \ {r})
           exchange == [i \in 1 .. ClusterCount |->
                         IF Coordinators[i] = r THEN WaBcast(r, OfCluster(r))
                         ELSE <<Receive(Coordinators[i], "bcast", "add")>>]
           gather == [j \in DOMAIN peers |-> Receive(peers[j], "allgatherv", "add")]
           send == <<Send(MyCoordinator(r), "allgatherv", Everything)>>
           t == IF r = MyCoordinator(r) THEN gather \o FlattenSeq(exchange) ELSE send
           F == Fit(c, r)
<1>1. peers \in Seq(Rank)
  BY PeersLemma, AscendingType
<1>2. /\ c.op # "scan" /\ c.op \notin Reductions
      /\ \A q : Carried(c, r, q, "bcast") = InPlace(r) /\ Carried(c, r, q, "allgatherv") = {<<r, r>>}
  BY DEF Reductions, Carried
<1>3. gather \in Seq(F)
  <2> HIDE DEF peers
  <2>. QED  BY <1>1, <1>2, ReceivesFit DEF Tags
<1>4. OfCluster(r) \in SUBSET Everything /\ Everything \in SUBSET Everything
  BY DEF OfCluster, Everything
<1>5. exchange \in Seq(Seq(F))
  <2>1. ASSUME NEW i \in 1 .. ClusterCount
        PROVE  <<Receive(Coordinators[i], "bcast", "add")>> \in Seq(F)
    <3>1. Coordinators[i] \in Rank
      BY CoordinatorsLemma, ElementOfSeq
    <3>2. Receive(Coordinators[i], "bcast", "add") \in F
      BY <1>2, <3>1, SendFits DEF Tags
    <3>. QED  BY <3>2, SingleType
  <2>2. WaBcast(r, OfCluster(r)) \in Seq(F)
    BY <1>2, <1>4, InPlaceLemma, WaBcastFits
  <2>3. ClusterCount \in Nat
    BY ClusterAssumption
  <2> HIDE DEF F
  <2>. QED  BY <2>1, <2>2, <2>3
<1>6. send \in Seq(F)
  <2>1. Send(MyCoordinator(r), "allgatherv", Everything) \in F
    <3>1. {<<r, r>>} \in SUBSET Everything
      BY DEF Everything
    <3>. QED  BY <1>2, <1>4, <3>1, PeersLemma, SendFits DEF Tags
  <2>. QED  BY <2>1, SingleType
<1>7. Steps(c, r) = t \o <<LastLocal(c, r)>>
  BY DEF Steps, Allgather, Allgatherv, LastLocal, exchange, gather
<1> HIDE DEF exchange, gather, F, send
<1>8. FlattenSeq(exchange) \in Seq(F)
  BY <1>5, FlattenSeqLemma
<1>9. t \in Seq(F)
  BY <1>3, <1>6, <1>8, ConcatProperties
<1> HIDE DEF t
<1>. QED  BY <1>7, <1>9, AroundFits DEF F

\* The steps of EMPI_Alltoallv.
LEMMA AlltoallvFits ==
  ASSUME NEW c \in Call, NEW r \in Rank, c.op = "alltoall"
  PROVE  Steps(c, r) \in Seq(AnyFit(c, r))
<1> DEFINE Round(i) == LET others == Ascending(Rank \ {i})
                       IN  IF i = r THEN [j \in DOMAIN others |-> Receive(others[j], "alltoallv", "add")]
                                    ELSE <<Send(i, "alltoallv", {<<r, i>>})>>
           rounds == [k \in 1 .. Size |-> Round(k - 1)]
           F == Fit(c, r)
<1>1. c.op # "scan" /\ c.op \notin Reductions /\ \A q : Carried(c, r, q, "alltoallv") = {<<r, q>>}
  BY DEF Reductions, Carried
<1>2. ASSUME NEW i \in Rank PROVE Round(i) \in Seq(F)
  <2> DEFINE others == Ascending(Rank \ {i})
  <2>1. others \in Seq(Rank)
    BY AscendingType
  <2>2. [j \in DOMAIN others |-> Receive(others[j], "alltoallv", "add")] \in Seq(F)
    <3> HIDE DEF others
    <3>. QED  BY <1>1, <2>1, ReceivesFit DEF Tags
  <2>3. Send(i, "alltoallv", {<<r, i>>}) \in F
    <3>1. {<<r, i>>} \in SUBSET Everything
      BY DEF Everything
    <3>. QED  BY <1>1, <3>1, SendFits DEF Tags
  <2> HIDE DEF F
  <2>. QED  BY <2>2, <2>3, SingleType
<1>3. Size \in Nat /\ \A k \in 1 .. Size : k - 1 \in Rank
  BY MembersLemma
<1>4. Steps(c, r) = FlattenSeq(rounds)
  <2>1. rounds = [k \in 1 .. Size |->
          LET i == k - 1
              others == Ascending(Rank \ {i})
          IN  IF i = r THEN [j \in DOMAIN others |-> Receive(others[j], "alltoallv", "add")]
                       ELSE <<Send(i, "alltoallv", {<<r, i>>})>>]
    OBVIOUS
  <2>. QED  BY <2>1 DEF Steps, Alltoall, Alltoallv
<1> HIDE DEF Round, F
<1>5. rounds \in Seq(Seq(F))
  BY <1>2, <1>3
<1> HIDE DEF rounds
<1>6. FlattenSeq(rounds) \in Seq(F)
  BY <1>5, FlattenSeqLemma
<1>. QED  BY <1>4, <1>6, AroundFits DEF F

\* The steps of EMPI_Reduce.
LEMMA ReduceFits ==
  ASSUME NEW c \in Call, NEW r \in Rank, c.op = "reduce"
  PROVE  Steps(c, r) \in Seq(AnyFit(c, r))
<1> DEFINE g == c.root
           remote == Ascending({ q \in ToSet(Coordinators) : ~IsLocal(r, q) })
           gather == [j \in DOMAIN remote |-> Receive(remote[j], "reduce", "combine")]
           leaf == When(~IsLocal(r, g) /\ r = MyCoordinator(r), <<Send(g, "reduce", Everything)>>)
           t == IF r = g THEN gather ELSE leaf
           F == Fit(c, r)
<1>1. g \in Rank
  BY DEF Call
<1>2. remote \in Seq(Rank)
  <2>1. { q \in ToSet(Coordinators) : ~IsLocal(r, q) } \in SUBSET Rank
    BY CoordinatorsLemma
  <2>. QED  BY <2>1, AscendingType
<1>3. gather \in Seq(F)
  <2> HIDE DEF remote
  <2>. QED  BY <1>2, ReceivesFit DEF Tags
<1>4. leaf \in Seq(F)
  <2>1. Send(g, "reduce", Everything) \in F
    BY <1>1, CarriedType, SendFits DEF Tags
  <2> HIDE DEF F
  <2>. QED  BY <2>1, SingleType, WhenType
<1>5. Steps(c, r) = <<FirstLocal(c, r)>> \o t
  BY DEF Steps, Reduce, FirstLocal
<1> HIDE DEF gather, leaf, F
<1>6. t \in Seq(F)
  BY <1>3, <1>4
<1> HIDE DEF t
<1>. QED  BY <1>5, <1>6, AroundFits DEF F

\* The steps of EMPI_Allreduce.
LEMMA AllreduceFits ==
  ASSUME NEW c \in Call, NEW r \in Rank, c.op = "allreduce"
  PROVE  Steps(c, r) \in Seq(AnyFit(c, r))
<1> DEFINE remote == Ascending(ToSet(Coordinators) \ {r})
           gather == [j \in DOMAIN remote |-> Receive(remote[j], "bcast", "combine")]
           t == When(r = MyCoordinator(r), WaBcast(r, Everything) \o gather)
           F == Fit(c, r)
<1>1. remote \in Seq(Rank)
  <2>1. ToSet(Coordinators) \ {r} \in SUBSET Rank
    BY CoordinatorsLemma
  <2>. QED  BY <2>1, AscendingType
<1>2. gather \in Seq(F)
  <2> HIDE DEF remote
  <2>. QED  BY <1>1, ReceivesFit DEF Tags
<1>3. WaBcast(r, Everything) \in Seq(F)
  BY CarriedType, WaBcastFits
<1>4. Steps(c, r) = <<FirstLocal(c, r)>> \o t \o <<LastLocal(c, r)>>
  BY DEF Steps, Allreduce, FirstLocal, LastLocal, MyCoordinator
<1> HIDE DEF gather, F
<1>5. t \in Seq(F)
  BY <1>2, <1>3, ConcatProperties, WhenType
<1> HIDE DEF t
<1>. QED  BY <1>4, <1>5, AroundFits DEF F

\* The steps of EMPI_Scan.
LEMMA ScanFits ==
  ASSUME NEW c \in Call, NEW r \in Rank, c.op = "scan"
  PROVE  Steps(c, r) \in Seq(AnyFit(c, r))
<1>1. Size - 1 \in Nat /\ \A k \in 1 .. Size - 1 : k \in Rank /\ k - 1 \in Rank
  BY MembersLemma
<1>2. \A k \in 1 .. Size - 1 : Receive(k - 1, "scan", "combine") \in Fit(c, r)
  BY <1>1, SendFits DEF Tags
<1>3. \A k \in 1 .. Size - 1 : SendOwn(k, "scan") \in Fit(c, r)
  BY <1>1, SendFits DEF Tags
<1>4. Steps(c, r) = Scan(r)
  BY DEF Steps
<1>5. Scan(r) \in Seq(Fit(c, r))
  BY <1>1, <1>2, <1>3 DEF Scan
<1>. QED  BY <1>4, <1>5, AroundFits

\* The steps of every operation carry what they have to.
LEMMA StepsFit ==
  ASSUME Grouped, NEW c \in Call, NEW r \in Rank, NEW i \in 1 .. Len(Steps(c, r)), Steps(c, r)[i] \in Talk
  PROVE  Steps(c, r)[i] \in Fit(c, r)
<1>1. Steps(c, r) \in Seq(AnyFit(c, r))
  <2>1. c.op \in Op
    BY DEF Call
  <2>. QED  BY <2>1, BarrierFits, BcastFits, GathervFits, ScattervFits, AllgathervFits, AlltoallvFits,
               ReduceFits, AllreduceFits, ScanFits DEF Op
<1>2. Steps(c, r)[i] \in AnyFit(c, r)
  BY <1>1, ElementOfSeq
<1>. QED  BY <1>2, Kinds DEF AnyFit

-----------------------------------------------------------------------------
(* The order of the steps *)

\* The elements of a concatenation come from the first or from the second sequence.
LEMMA ConcatPlaces ==
  ASSUME NEW T, NEW a \in Seq(T), NEW b \in Seq(T)
  PROVE  /\ a \o b \in Seq(T) /\ Len(a) \in Nat /\ Len(b) \in Nat /\ Len(a \o b) = Len(a) + Len(b)
         /\ \A i \in 1 .. Len(a) : i \in 1 .. Len(a \o b) /\ (a \o b)[i] = a[i]
         /\ \A i \in 1 .. Len(a \o b) : i <= Len(a) \/ (i - Len(a) \in 1 .. Len(b) /\ (a \o b)[i] = b[i - Len(a)])
<1>1. Len(a) \in Nat /\ Len(b) \in Nat
  BY LenProperties
<1> DEFINE ab == a \o b
<1>2. /\ ab \in Seq(T) /\ Len(ab) = Len(a) + Len(b)
      /\ \A i \in 1 .. Len(a) + Len(b) : ab[i] = IF i <= Len(a) THEN a[i] ELSE b[i - Len(a)]
  BY ConcatProperties
<1> HIDE DEF ab
<1>3. ASSUME NEW i \in 1 .. Len(a) PROVE i \in 1 .. Len(ab) /\ ab[i] = a[i]
  <2>1. i \in 1 .. Len(a) + Len(b) /\ i <= Len(a)
    BY <1>1
  <2>. QED  BY <1>2, <2>1
<1>4. ASSUME NEW i \in 1 .. Len(ab), ~ (i <= Len(a))
      PROVE  i - Len(a) \in 1 .. Len(b) /\ ab[i] = b[i - Len(a)]
  <2>1. i \in 1 .. Len(a) + Len(b) /\ i - Len(a) \in 1 .. Len(b)
    BY <1>1, <1>2, <1>4
  <2>. QED  BY <1>2, <1>4, <2>1
<1>. QED  BY <1>1, <1>2, <1>3, <1>4 DEF ab

\* In EMPI_Allgatherv the coordinator of a cluster has received from its peers before it
\* sends to the other coordinators.
LEMMA AllgatherOrder ==
  ASSUME NEW c \in Call, NEW r \in Rank, c.op = "allgather", NEW d \in Rank,
         NEW i \in 1 .. Len(Steps(c, r)), Steps(c, r)[i] \in Outgoing(d, "bcast")
  PROVE  \A q \in Peers(r) \ {r} : \E j \in 1 .. i - 1 : Steps(c, r)[j] \in Incoming(q, "allgatherv")
<1> DEFINE peers == Ascending(Peers(r) \ {r})
           exchange == [k \in 1 .. ClusterCount |->
                         IF Coordinators[k] = r THEN WaBcast(r, OfCluster(r))
                         ELSE <<Receive(Coordinators[k], "bcast", "add")>>]
           gather == [j \in DOMAIN peers |-> Receive(peers[j], "allgatherv", "add")]
           send == <<Send(MyCoordinator(r), "allgatherv", Everything)>>
           rest == FlattenSeq(exchange)
           t == IF r = MyCoordinator(r) THEN gather \o rest ELSE send
           last == <<LastLocal(c, r)>>
<1>1. peers \in Seq(Rank)
  BY PeersLemma, AscendingType
<1>2. gather \in Seq(AnyStep) /\ Len(gather) \in Nat
  <2> HIDE DEF peers
  <2>1. gather \in Seq(Talk)
    BY <1>1, ReceivesType DEF Tags
  <2>. QED  BY <2>1, SeqMonotonic, LenProperties DEF AnyStep
<1>3. OfCluster(r) \in SUBSET Everything /\ Everything \in SUBSET Everything
  BY DEF OfCluster, Everything
<1>4. exchange \in Seq(Seq(AnyStep))
  <2>1. ASSUME NEW k \in 1 .. ClusterCount
        PROVE  <<Receive(Coordinators[k], "bcast", "add")>> \in Seq(Talk)
    BY CoordinatorsLemma, ElementOfSeq, ReceiveType, SingleType DEF Tags
  <2>2. WaBcast(r, OfCluster(r)) \in Seq(Talk)
    BY <1>3, WaBcastType
  <2>3. ClusterCount \in Nat
    BY ClusterAssumption
  <2>4. exchange \in Seq(Seq(Talk))
    BY <2>1, <2>2, <2>3
  <2>5. \A x \in Seq(Talk) : x \in Seq(AnyStep)
    BY SeqMonotonic DEF AnyStep
  <2> HIDE DEF exchange
  <2>. QED  BY <2>4, <2>5, SeqMonotonic
<1>5. send \in Seq(AnyStep) /\ last \in Seq(AnyStep)
  <2>1. Send(MyCoordinator(r), "allgatherv", Everything) \in AnyStep
    BY <1>3, PeersLemma, SendType DEF Tags, AnyStep
  <2>2. LastLocal(c, r) \in AnyStep
    BY LocalType DEF AnyStep
  <2>. QED  BY <2>1, <2>2, SingleType
<1>6. Steps(c, r) = t \o last
  BY DEF Steps, Allgather, Allgatherv, LastLocal
<1>7. \A j \in 1 .. Len(gather) : gather[j] = Receive(peers[j], "allgatherv", "add") /\ peers[j] \in Rank
  <2> HIDE DEF peers
  <2>1. DOMAIN peers = 1 .. Len(peers) /\ Len(peers) \in Nat
    BY <1>1, LenProperties
  <2>2. Len(gather) = Len(peers)
    BY <2>1
  <2>. QED  BY <1>1, <2>1, <2>2, ElementOfSeq
<1>8. ASSUME NEW q \in Peers(r) \ {r}
      PROVE  \E j \in 1 .. Len(gather) : gather[j] \in Incoming(q, "allgatherv")
  <2>1. Size \in Nat /\ Peers(r) \ {r} \in SUBSET (0 .. Size - 1) /\ q \in Rank
    BY MembersLemma, PeersLemma
  <2>2. PICK j \in 1 .. Len(peers) : peers[j] = q
    BY <2>1, AscendingPlaces
  <2>3. Len(gather) = Len(peers)
    <3> HIDE DEF peers
    <3>1. DOMAIN peers = 1 .. Len(peers) /\ Len(peers) \in Nat
      BY <1>1, LenProperties
    <3>. QED  BY <3>1
  <2>4. gather[j] = Receive(q, "allgatherv", "add")
    BY <1>7, <2>2, <2>3
  <2>5. gather[j] \in Incoming(q, "allgatherv")
    BY <2>1, <2>4, MessageKinds DEF Tags
  <2>. QED  BY <2>2, <2>3, <2>5
<1> HIDE DEF gather, exchange, last, send, peers
<1>9. rest \in Seq(AnyStep)
  BY <1>4, FlattenSeqLemma
<1>10. last = <<LastLocal(c, r)>> /\ send = <<Send(MyCoordinator(r), "allgatherv", Everything)>>
  BY DEF last, send
<1> HIDE DEF rest
<1>11. gather \o rest \in Seq(AnyStep)
  BY <1>2, <1>9, ConcatProperties
<1>12. t \in Seq(AnyStep) /\ Len(t) \in Nat
  BY <1>5, <1>11, LenProperties
<1>13. i \in 1 .. Len(t) /\ t[i] \in Outgoing(d, "bcast")
  <2>1. last[1] \notin Outgoing(d, "bcast") /\ Len(last) = 1
    <3>1. LastLocal(c, r) \in LocalCall
      BY LocalType
    <3>. QED  BY <1>10, <3>1, MessageKinds DEF Tags
  <2> HIDE DEF t
  <2>2. i \in 1 .. Len(t \o last) /\ (t \o last)[i] \in Outgoing(d, "bcast")
    BY <1>6
  <2>3. i <= Len(t)
    <3>1. CASE ~ (i <= Len(t))
      <4>1. i - Len(t) \in 1 .. Len(last) /\ (t \o last)[i] = last[i - Len(t)]
        BY <1>5, <1>12, <2>2, <3>1, ConcatPlaces
      <4>2. i - Len(t) = 1
        BY <2>1, <4>1
      <4>. QED  BY <2>1, <2>2, <4>1, <4>2
    <3>. QED  BY <3>1
  <2>4. Len(t \o last) \in Nat
    BY <1>5, <1>12, ConcatPlaces, LenProperties
  <2>5. i \in 1 .. Len(t)
    BY <1>12, <2>2, <2>3, <2>4
  <2>. QED  BY <1>5, <1>12, <2>2, <2>5, ConcatPlaces
<1>14. r = MyCoordinator(r)
  <2>1. CASE r # MyCoordinator(r)
    <3>1. i = 1 /\ t[i] = Send(MyCoordinator(r), "allgatherv", Everything)
      BY <1>10, <1>13, <2>1
    <3>2. Send(MyCoordinator(r), "allgatherv", Everything) \notin Outgoing(d, "bcast")
      BY <1>3, PeersLemma, MessageKinds DEF Tags
    <3> HIDE DEF t
    <3>. QED  BY <1>13, <3>1, <3>2
  <2>. QED  BY <2>1
<1>15. t = gather \o rest
  BY <1>14
<1>16. Len(gather) < i
  <2>1. CASE i <= Len(gather)
    <3>1. i \in 1 .. Len(gather)
      BY <1>2, <1>13, <2>1
    <3>2. (gather \o rest)[i] = gather[i]
      BY <1>2, <1>9, <3>1, ConcatPlaces
    <3>3. gather[i] \notin Outgoing(d, "bcast")
      BY <1>7, <3>1, MessageKinds DEF Tags
    <3>. QED  BY <1>13, <1>15, <3>2, <3>3
  <2>. QED  BY <1>2, <1>13, <2>1
<1>17. ASSUME NEW q \in Peers(r) \ {r}
       PROVE  \E j \in 1 .. i - 1 : Steps(c, r)[j] \in Incoming(q, "allgatherv")
  <2>1. PICK j \in 1 .. Len(gather) : gather[j] \in Incoming(q, "allgatherv")
    BY <1>8
  <2>2. j \in 1 .. Len(t) /\ t[j] = gather[j]
    BY <1>2, <1>9, <1>15, ConcatPlaces
  <2> HIDE DEF t
  <2>3. (t \o last)[j] = t[j]
    BY <1>5, <1>12, <2>2, ConcatPlaces
  <2>4. j \in 1 .. i - 1
    BY <1>2, <1>13, <1>16
  <2>. QED  BY <1>6, <2>1, <2>2, <2>3, <2>4
<1>. QED  BY <1>17

\* In EMPI_Allreduce the coordinator of a cluster sends before it receives.
LEMMA AllreduceOrder ==
  ASSUME NEW c \in Call, NEW r \in Rank, c.op = "allreduce", NEW d \in Rank, NEW g \in Tags,
         NEW i \in 1 .. Len(Steps(c, r)), Steps(c, r)[i] \in Outgoing(d, g)
  PROVE  Heard(c, r, i) = {}
<1> DEFINE remote == Ascending(ToSet(Coordinators) \ {r})
           gather == [j \in DOMAIN remote |-> Receive(remote[j], "bcast", "combine")]
           wa == WaBcast(r, Everything)
           first == <<FirstLocal(c, r)>>
           last == <<LastLocal(c, r)>>
           t == When(r = MyCoordinator(r), wa \o gather)
<1>1. remote \in Seq(Rank)
  <2>1. ToSet(Coordinators) \ {r} \in SUBSET Rank
    BY CoordinatorsLemma
  <2>. QED  BY <2>1, AscendingType
<1>2. gather \in Seq(AnyStep) /\ Len(gather) \in Nat
  <2> HIDE DEF remote
  <2>1. gather \in Seq(Talk)
    BY <1>1, ReceivesType DEF Tags
  <2>. QED  BY <2>1, SeqMonotonic, LenProperties DEF AnyStep
<1>3. \A j \in 1 .. Len(gather) : gather[j] \notin Outgoing(d, g)
  <2> HIDE DEF remote
  <2>1. DOMAIN remote = 1 .. Len(remote) /\ Len(remote) \in Nat
    BY <1>1, LenProperties
  <2>2. Len(gather) = Len(remote) /\ \A j \in 1 .. Len(remote) : gather[j] = Receive(remote[j], "bcast", "combine")
    BY <2>1
  <2>3. \A j \in 1 .. Len(remote) : remote[j] \in Rank
    BY <1>1, ElementOfSeq
  <2> HIDE DEF gather
  <2>. QED  BY <2>2, <2>3, MessageKinds DEF Tags
<1>4. wa \in Seq(AnyStep) /\ Len(wa) \in Nat
  BY WaBcastType, SeqMonotonic, LenProperties DEF AnyStep
<1>5. \A j \in 1 .. Len(wa) : \A s \in Rank, h \in Tags : wa[j] \notin Incoming(s, h)
  <2> DEFINE others == Ascending(Cluster \ {Home(r)})
  <2>1. others \in Seq(Cluster)
    BY AscendingType
  <2>2. wa = [j \in DOMAIN others |-> Send(CoordinatorAt(others[j]), "bcast", Everything)]
    BY DEF WaBcast
  <2> HIDE DEF others, wa
  <2>3. DOMAIN others = 1 .. Len(others) /\ Len(others) \in Nat
    BY <2>1, LenProperties
  <2>4. Len(wa) = Len(others) /\ \A j \in 1 .. Len(others) : wa[j] = Send(CoordinatorAt(others[j]), "bcast", Everything)
    BY <2>2, <2>3
  <2>5. \A j \in 1 .. Len(others) : CoordinatorAt(others[j]) \in Rank
    BY <2>1, ElementOfSeq, CoordinatorsLemma
  <2>. QED  BY <2>4, <2>5, MessageKinds DEF Tags
<1>6. Steps(c, r) = first \o t \o last
  BY DEF Steps, Allreduce, FirstLocal, LastLocal, MyCoordinator
<1>7. /\ first \in Seq(AnyStep) /\ Len(first) = 1 /\ first[1] \in LocalCall
      /\ last \in Seq(AnyStep) /\ Len(last) = 1 /\ last[1] \in LocalCall
  BY LocalType, SingleType DEF AnyStep
<1> HIDE DEF gather, wa, first, last
<1>8. t \in Seq(AnyStep)
  BY <1>2, <1>4, ConcatProperties, WhenType
<1> HIDE DEF t
<1> DEFINE u == t \o last
<1>9. u \in Seq(AnyStep) /\ Len(u) \in Nat /\ Len(u) = Len(t) + 1 /\ Len(t) \in Nat
  <2>1. u \in Seq(AnyStep) /\ Len(u) = Len(t) + Len(last) /\ Len(t) \in Nat
    BY <1>7, <1>8, ConcatPlaces
  <2> HIDE DEF u
  <2>. QED  BY <1>7, <2>1
<1>10. Steps(c, r) = first \o u
  BY <1>6, <1>7, <1>8, StepsAssociative
<1> HIDE DEF u
<1>11. \A j \in 1 .. Len(Steps(c, r)) :
         (j = 1 /\ Steps(c, r)[j] \in LocalCall) \/ (j - 1 \in 1 .. Len(u) /\ Steps(c, r)[j] = u[j - 1])
  <2> SUFFICES ASSUME NEW j \in 1 .. Len(Steps(c, r))
               PROVE  (j = 1 /\ Steps(c, r)[j] \in LocalCall) \/ (j - 1 \in 1 .. Len(u) /\ Steps(c, r)[j] = u[j - 1])
    OBVIOUS
  <2>1. Len(first \o u) = Len(first) + Len(u)
    BY <1>7, <1>9, ConcatPlaces
  <2>2. j \in 1 .. 1 + Len(u)
    BY <1>7, <1>10, <2>1
  <2>3. CASE j = 1
    <3>1. j \in 1 .. Len(first)
      BY <1>7, <2>3
    <3>2. (first \o u)[j] = first[j]
      BY <1>7, <1>9, <3>1, ConcatPlaces
    <3>. QED  BY <1>7, <1>10, <2>3, <3>2
  <2>4. CASE j # 1
    <3>1. ~ (j <= Len(first)) /\ j \in 1 .. Len(first \o u)
      BY <1>7, <1>10, <2>2, <2>4
    <3>2. j - Len(first) \in 1 .. Len(u) /\ (first \o u)[j] = u[j - Len(first)]
      BY <1>7, <1>9, <3>1, ConcatPlaces
    <3>. QED  BY <1>7, <1>10, <3>2
  <2>. QED  BY <2>3, <2>4
<1>12. Steps(c, r)[i] \notin LocalCall
  BY MessageKinds
<1>13. i - 1 \in 1 .. Len(u) /\ u[i - 1] \in Outgoing(d, g)
  BY <1>11, <1>12
<1>14. i - 1 \in 1 .. Len(t) /\ t[i - 1] \in Outgoing(d, g) /\ \A j \in 1 .. Len(t) : u[j] = t[j]
  <2>1. \A j \in 1 .. Len(t) : u[j] = t[j]
    BY <1>7, <1>8, ConcatPlaces DEF u
  <2>2. i - 1 <= Len(t)
    <3>1. CASE ~ (i - 1 <= Len(t))
      <4>1. i - 1 - Len(t) = 1
        BY <1>9, <1>13, <3>1
      <4>2. u[i - 1] = last[i - 1 - Len(t)]
        BY <1>7, <1>8, <1>13, <3>1, ConcatPlaces DEF u
      <4>. QED  BY <1>7, <1>13, <4>1, <4>2, MessageKinds
    <3>. QED  BY <3>1
  <2>3. i - 1 \in 1 .. Len(t)
    BY <1>9, <1>13, <2>2
  <2>. QED  BY <1>13, <2>1, <2>3
<1>15. t = wa \o gather
  <2>1. CASE t = << >>
    BY <1>14, <2>1
  <2>. QED  BY <2>1 DEF t, When
<1>16. i - 1 \in 1 .. Len(wa)
  <2>1. CASE ~ (i - 1 <= Len(wa))
    <3>1. i - 1 - Len(wa) \in 1 .. Len(gather) /\ t[i - 1] = gather[i - 1 - Len(wa)]
      BY <1>2, <1>4, <1>14, <1>15, <2>1, ConcatPlaces
    <3>. QED  BY <1>3, <1>14, <3>1
  <2>. QED  BY <1>4, <1>14, <2>1
<1>17. ASSUME NEW s \in Rank, NEW j \in 1 .. i - 1, NEW h \in Tags, Steps(c, r)[j] \in Incoming(s, h)
       PROVE  FALSE
  <2>1. Steps(c, r)[j] \notin LocalCall
    BY <1>17, MessageKinds
  <2>2. j \in 1 .. Len(Steps(c, r)) /\ i \in Int /\ j - 1 < i - 1
    <3>1. Len(Steps(c, r)) \in Nat
      BY StepsLemma
    <3>. QED  BY <3>1
  <2>3. j - 1 \in 1 .. Len(u) /\ Steps(c, r)[j] = u[j - 1]
    BY <1>11, <2>1, <2>2
  <2>4. j - 1 \in 1 .. Len(wa) /\ j - 1 \in 1 .. Len(t)
    BY <1>4, <1>9, <1>14, <1>16, <2>2, <2>3
  <2>5. u[j - 1] = wa[j - 1]
    <3>1. t[j - 1] = wa[j - 1]
      BY <1>2, <1>4, <1>15, <2>4, ConcatPlaces
    <3>. QED  BY <1>14, <2>4, <3>1
  <2>. QED  BY <1>5, <1>17, <2>3, <2>4, <2>5
<1>. QED  BY <1>17 DEF Heard

-----------------------------------------------------------------------------
(* The messages of a call, and the buffers of a member during it *)

\* What r's buffers hold, besides, when it makes a call.
LEMMA OwnParts ==
  ASSUME Grouped, NEW c \in Call, NEW r \in Rank
  PROVE  /\ Contribution(c, r) \in Value
         /\ Contribution(c, r).parts \subseteq Allowed(c)
         /\ c.op \in Reductions => Contribution(c, r).parts = {} /\ Contribution(c, r).order = <<r>>
<1>1. c.root \in Rank /\ c.op \in Op
  BY DEF Call
<1>2. Contribution(c, r) \in Value
  BY ContributionType
<1>3. Contribution(c, r).parts \in SUBSET Everything
  BY <1>2 DEF Value
<1>4. Contribution(c, r).parts \subseteq Allowed(c)
  <2>1. CASE c.op = "bcast"
    BY <2>1 DEF Contribution, Allowed
  <2>2. CASE c.op = "gather"
    BY <2>2 DEF Contribution, Allowed
  <2>3. CASE c.op = "allgather"
    <3>1. Contribution(c, r).parts = {<<r, r>>}
      BY <2>3, InPlaceLemma DEF Contribution
    <3>. QED  BY <2>3, <3>1 DEF Allowed
  <2>4. CASE c.op \notin {"bcast", "gather", "allgather"}
    <3>1. Allowed(c) = Everything
      BY <2>4 DEF Allowed
    <3>. QED  BY <1>3, <3>1
  <2>. QED  BY <2>1, <2>2, <2>3, <2>4
<1>5. ASSUME c.op \in Reductions
      PROVE  Contribution(c, r).parts = {} /\ Contribution(c, r).order = <<r>>
  BY <1>5 DEF Contribution, Reductions
<1>. QED  BY <1>2, <1>4, <1>5

\* The sequence of one member, and two sequences of different members.
LEMMA OnceLemma ==
  /\ \A q \in Rank : Once(<<q>>, {q})
  /\ \A v, w \in Seq(Rank), S, T \in SUBSET Rank :
       Once(v, S) /\ Once(w, T) /\ S \cap T = {} => Once(v \o w, S \cup T)
<1>1. ASSUME NEW q \in Rank PROVE Once(<<q>>, {q})
  <2>1. \A p \in Rank : Num(<<q>>, {p}) = IF q \in {p} THEN 1 ELSE 0
    BY NumSingle
  <2>. QED  BY <2>1, SingleType DEF Once
<1>2. ASSUME NEW v \in Seq(Rank), NEW w \in Seq(Rank), NEW S \in SUBSET Rank, NEW T \in SUBSET Rank,
             Once(v, S), Once(w, T), S \cap T = {}
      PROVE  Once(v \o w, S \cup T)
  <2>1. v \o w \in Seq(Rank)
    BY ConcatProperties
  <2>2. ASSUME NEW q \in Rank
        PROVE  Num(v \o w, {q}) = IF q \in S \cup T THEN 1 ELSE 0
    <3>1. Num(v \o w, {q}) = Num(v, {q}) + Num(w, {q})
      BY NumConcat
    <3>2. Num(v, {q}) = (IF q \in S THEN 1 ELSE 0) /\ Num(w, {q}) = (IF q \in T THEN 1 ELSE 0)
      BY <1>2 DEF Once
    <3>. QED  BY <1>2, <3>1, <3>2
  <2>. QED  BY <2>1, <2>2 DEF Once
<1>. QED  BY <1>1, <1>2

\* In a reduction in the clusters the one who sends has combined those of its cluster
\* and of nobody else.
LEMMA CombinedSent ==
  ASSUME InOrder, Grouped, NEW c \in Call, c.op \in {"reduce", "allreduce"}, NEW s \in Rank, NEW d \in Rank, NEW g \in Tags,
         NEW i \in 1 .. Len(Steps(c, s)), Steps(c, s)[i] \in Outgoing(d, g)
  PROVE  Combined(c, s, i) = Peers(s)
<1>1. Balanced
  BY BalancedHolds
<1>2. HasMessage(c, s, d, g)
  BY <1>1, HasStep
<1>3. i \in Nat /\ i # 1
  <2>1. Len(Steps(c, s)) \in Nat
    BY StepsLemma
  <2>2. Steps(c, s)[i] \in Talk
    BY DEF Outgoing
  <2>3. c.op \in Begins
    BY DEF Begins
  <2>4. i = 1 => Steps(c, s)[i] = FirstLocal(c, s) \/ Steps(c, s)[i] = LastLocal(c, s)
    BY <2>3, StepsLemma
  <2>. QED  BY <2>1, <2>2, <2>4, LocalType, Kinds
<1>4. s = FirstLocal(c, s).root
  <2>1. CASE c.op = "reduce"
    <3>1. IsCoordinator(s) /\ ~ IsLocal(s, c.root)
      BY <1>2, <2>1 DEF HasMessage
    <3>. QED  BY <2>1, <3>1 DEF FirstLocal, LocalReduce, IsCoordinator
  <2>2. CASE c.op = "allreduce"
    <3>1. IsCoordinator(s)
      BY <1>2, <2>2 DEF HasMessage
    <3>. QED  BY <2>2, <3>1 DEF FirstLocal, LocalReduce, IsCoordinator
  <2>. QED  BY <2>1, <2>2
<1>5. Heard(c, s, i) = {}
  <2>1. CASE c.op = "reduce"
    <3>1. d = c.root /\ ~ IsLocal(s, d)
      BY <1>2, <2>1 DEF HasMessage
    <3>2. ASSUME NEW q \in Rank, NEW j \in 1 .. i - 1, NEW h \in Tags, Steps(c, s)[j] \in Incoming(q, h)
          PROVE  FALSE
      <4>1. j \in 1 .. Len(Steps(c, s))
        BY StepsLemma
      <4>2. HasMessage(c, q, s, h)
        BY <1>1, <3>2, <4>1, HasStep
      <4>3. s = c.root
        BY <2>1, <4>2 DEF HasMessage
      <4>. QED  BY <3>1, <4>3 DEF IsLocal
    <3>. QED  BY <3>2 DEF Heard
  <2>2. CASE c.op = "allreduce"
    BY <2>2, AllreduceOrder
  <2>. QED  BY <2>1, <2>2
<1>. QED  BY <1>3, <1>4, <1>5 DEF Combined, Reduced

\* What a member has to send it has.
LEMMA CarriedThere ==
  ASSUME InOrder, Grouped, NEW c \in Call, NEW s \in Rank, NEW d \in Rank, NEW g \in Tags,
         NEW i \in 1 .. Len(Steps(c, s)), Steps(c, s)[i] \in Outgoing(d, g),
         NEW v \in Value, ValueGood(c, s, i, v)
  PROVE  Carried(c, s, d, g) \subseteq v.parts
<1>1. HasMessage(c, s, d, g)
  BY BalancedHolds, HasStep
<1>2. Contribution(c, s).parts \subseteq v.parts
  BY DEF ValueGood
<1>3. CASE c.op = "bcast"
  <2>1. s = c.root
    BY <1>1, <1>3 DEF HasMessage
  <2>. QED  BY <1>2, <1>3, <2>1 DEF Contribution, Carried
<1>4. CASE c.op = "gather"
  <2>1. d = c.root
    BY <1>1, <1>4 DEF HasMessage
  <2>. QED  BY <1>2, <1>4, <2>1 DEF Contribution, Carried
<1>5. CASE c.op = "scatter"
  <2>1. s = c.root
    BY <1>1, <1>5 DEF HasMessage
  <2>. QED  BY <1>2, <1>5, <2>1 DEF Contribution, Carried, Addressed
<1>6. CASE c.op = "alltoall"
  BY <1>2, <1>6 DEF Contribution, Carried, Addressed
<1>7. CASE c.op = "allgather"
  <2>1. <<s, s>> \in v.parts
    BY <1>2, <1>7, InPlaceLemma DEF Contribution
  <2>2. CASE g = "bcast"
    <3>1. ASSUME NEW q \in Peers(s) PROVE <<q, q>> \in v.parts
      <4>1. CASE q = s
        BY <2>1, <4>1
      <4>2. CASE q # s
        <5>1. PICK j \in 1 .. i - 1 : Steps(c, s)[j] \in Incoming(q, "allgatherv")
          BY <1>7, <2>2, <4>2, AllgatherOrder
        <5>2. q \in Rank /\ "allgatherv" \in Tags
          BY PeersLemma DEF Tags
        <5>3. Carried(c, q, s, "allgatherv") \subseteq v.parts
          BY <5>1, <5>2 DEF ValueGood
        <5>. QED  BY <1>7, <5>3 DEF Carried
      <4>. QED  BY <4>1, <4>2
    <3>2. InPlace(s) \subseteq v.parts
      BY <3>1 DEF InPlace
    <3>. QED  BY <1>7, <2>2, <3>2 DEF Carried
  <2>3. CASE g # "bcast"
    BY <1>7, <2>1, <2>3 DEF Carried
  <2>. QED  BY <2>2, <2>3
<1>8. CASE c.op \notin {"bcast", "gather", "scatter", "alltoall", "allgather"}
  BY <1>8 DEF Carried
<1>. QED  BY <1>3, <1>4, <1>5, <1>6, <1>7, <1>7, <1>8

\* A message that leaves good buffers is good.
LEMMA SendComplete ==
  ASSUME InOrder, Grouped, NEW c \in Call, NEW s \in Rank, NEW d \in Rank, NEW g \in Tags,
         NEW i \in 1 .. Len(Steps(c, s)), Steps(c, s)[i] \in Outgoing(d, g),
         NEW v \in Value, ValueGood(c, s, i, v)
  PROVE  MessageGood(c, s, d, g, IF Steps(c, s)[i].own THEN Contribution(c, s)
                                 ELSE [v EXCEPT !.parts = @ \cap Steps(c, s)[i].what])
<1> DEFINE x == Steps(c, s)[i]
<1>1. x \in Fit(c, s) /\ x.do = "send" /\ x.peer = d /\ x.tag = g
  BY StepsFit DEF Outgoing
<1>2. i <= Len(Steps(c, s))
  BY StepsLemma
<1>3. v.parts \subseteq Allowed(c)
  BY DEF ValueGood
<1>4. Carried(c, s, d, g) \subseteq v.parts
  BY CarriedThere
<1>5. CASE c.op = "scan"
  <2>1. x.own
    BY <1>1, <1>5 DEF Fit
  <2>2. c.op \in Reductions
    BY <1>5 DEF Reductions
  <2>3. Contribution(c, s).parts = {} /\ Contribution(c, s).order = <<s>>
    BY <2>2, OwnParts
  <2>4. Carried(c, s, d, g) = {} /\ CombinedBy(c, s) = {s}
    BY <1>5 DEF Carried, CombinedBy
  <2>5. MessageGood(c, s, d, g, Contribution(c, s))
    BY <2>3, <2>4, OnceLemma DEF MessageGood
  <2>. QED  BY <2>1, <2>5
<1>6. CASE c.op # "scan"
  <2>1. ~ x.own /\ Carried(c, s, d, g) \subseteq x.what
    BY <1>1, <1>6 DEF Fit
  <2> DEFINE p == [v EXCEPT !.parts = @ \cap x.what]
  <2>2. p.parts = v.parts \cap x.what /\ p.order = v.order
    <3> HIDE DEF x
    <3>. QED  BY DEF Value
  <2>3. ASSUME c.op \in Reductions
        PROVE  Once(p.order, CombinedBy(c, s))
    <3>1. c.op \in {"reduce", "allreduce"}
      BY <1>6, <2>3 DEF Reductions
    <3>2. Combined(c, s, i) = Peers(s)
      BY <3>1, CombinedSent
    <3>3. Once(v.order, Combined(c, s, i))
      BY <1>2, <2>3 DEF ValueGood
    <3>4. CombinedBy(c, s) = Peers(s)
      BY <1>6 DEF CombinedBy
    <3>. QED  BY <2>2, <3>2, <3>3, <3>4
  <2> HIDE DEF p
  <2>4. MessageGood(c, s, d, g, p)
    BY <1>3, <1>4, <2>1, <2>2, <2>3 DEF MessageGood
  <2>. QED  BY <2>1, <2>4 DEF p
<1>. QED  BY <1>5, <1>6

\* Those from whom a member receives in a reduction: coordinators of other clusters, or
\* lower ranks.
LEMMA HeardFrom ==
  ASSUME InOrder, Grouped, NEW c \in Call, c.op \in Reductions, NEW r \in Rank, NEW s \in Rank, NEW g \in Tags,
         NEW i \in 1 .. Len(Steps(c, r)), Steps(c, r)[i] \in Incoming(s, g)
  PROVE  /\ g = IF c.op = "reduce" THEN "reduce" ELSE IF c.op = "allreduce" THEN "bcast" ELSE "scan"
         /\ HasMessage(c, s, r, g)
         /\ c.op = "scan" => s < r
         /\ c.op # "scan" => IsCoordinator(s) /\ ~ IsLocal(s, r)
<1>1. HasMessage(c, s, r, g)
  BY BalancedHolds, HasStep
<1>2. CASE c.op = "reduce"
  BY <1>1, <1>2 DEF HasMessage
<1>3. CASE c.op = "allreduce"
  <2>1. g = "bcast" /\ IsCoordinator(s) /\ IsCoordinator(r) /\ s # r
    BY <1>1, <1>3 DEF HasMessage
  <2>. QED  BY <1>1, <1>3, <2>1, CoordinatorsApart
<1>4. CASE c.op = "scan"
  BY <1>1, <1>4 DEF HasMessage
<1>. QED  BY <1>2, <1>3, <1>4 DEF Reductions

\* A member hears from the others once.
LEMMA HeardOnce ==
  ASSUME InOrder, Grouped, NEW c \in Call, c.op \in Reductions, NEW r \in Rank, NEW s \in Rank, NEW g \in Tags,
         NEW i \in 1 .. Len(Steps(c, r)), Steps(c, r)[i] \in Incoming(s, g)
  PROVE  s \notin Heard(c, r, i)
<1>1. Balanced
  BY BalancedHolds
<1>2. Num(Steps(c, r), Incoming(s, g)) = 1
  <2>1. HasMessage(c, s, r, g)
    BY HeardFrom
  <2>. QED  BY <1>1, <2>1 DEF Balanced
<1>3. Steps(c, r) \in Seq(AnyStep) /\ Len(Steps(c, r)) \in Nat
  BY StepsLemma
<1>4. \A j \in 1 .. Len(Steps(c, r)) : Steps(c, r)[j] \in Incoming(s, g) => j = i
  BY <1>2, <1>3, NumOne
<1>5. ASSUME NEW j \in 1 .. i - 1, NEW h \in Tags, Steps(c, r)[j] \in Incoming(s, h)
      PROVE  FALSE
  <2>1. j \in 1 .. Len(Steps(c, r)) /\ j # i
    BY <1>3
  <2>2. h = g
    BY <1>5, <2>1, HeardFrom
  <2>. QED  BY <1>4, <1>5, <2>1, <2>2
<1>. QED  BY <1>5 DEF Heard

\* What a member receives in a reduction it has not yet combined.
LEMMA HeardApart ==
  ASSUME InOrder, Grouped, NEW c \in Call, c.op \in Reductions, NEW r \in Rank, NEW s \in Rank, NEW g \in Tags,
         NEW i \in 1 .. Len(Steps(c, r)), Steps(c, r)[i] \in Incoming(s, g)
  PROVE  /\ CombinedBy(c, s) \in SUBSET Rank /\ Combined(c, r, i) \in SUBSET Rank
         /\ CombinedBy(c, s) \cap Combined(c, r, i) = {}
         /\ Combined(c, r, i + 1) = CombinedBy(c, s) \cup Combined(c, r, i)
<1>1. i \in Nat /\ Len(Steps(c, r)) \in Nat
  BY StepsLemma
<1>2. \A q \in Rank : CombinedBy(c, q) \in SUBSET Rank
  BY PeersLemma DEF CombinedBy
<1>3. Heard(c, r, i) \in SUBSET Rank
  BY DEF Heard
<1>4. Combined(c, r, i) \in SUBSET Rank
  BY <1>2, <1>3, PeersLemma DEF Combined
<1>5. Heard(c, r, i + 1) = Heard(c, r, i) \cup {s}
  <2>1. \A j : j \in 1 .. (i + 1) - 1 <=> j \in 1 .. i - 1 \/ j = i
    BY <1>1
  <2>2. \A q \in Rank, h \in Tags : Steps(c, r)[i] \in Incoming(q, h) => q = s
    BY DEF Incoming
  <2>. QED  BY <2>1, <2>2 DEF Heard
<1>6. Reduced(c, r, i + 1) <=> Reduced(c, r, i)
  <2>1. CASE c.op = "scan"
    BY <2>1 DEF Reduced
  <2>2. CASE c.op # "scan"
    <3>1. c.op \in Begins
      BY <2>2 DEF Reductions, Begins
    <3>2. i = 1 => Steps(c, r)[i] = FirstLocal(c, r) \/ Steps(c, r)[i] = LastLocal(c, r)
      BY <3>1, StepsLemma
    <3>3. Steps(c, r)[i] \in Talk
      BY DEF Incoming
    <3>4. i # 1
      BY <3>2, <3>3, LocalType, Kinds
    <3>. QED  BY <1>1, <3>4 DEF Reduced
  <2>. QED  BY <2>1, <2>2
<1>7. Combined(c, r, i + 1) = CombinedBy(c, s) \cup Combined(c, r, i)
  BY <1>5, <1>6 DEF Combined
<1>8. \A q \in Heard(c, r, i) : q # s
  BY HeardOnce
<1>9. \A q \in Heard(c, r, i) : \E h \in Tags, j \in 1 .. Len(Steps(c, r)) : Steps(c, r)[j] \in Incoming(q, h)
  <2>1. \A j \in 1 .. i - 1 : j \in 1 .. Len(Steps(c, r))
    BY <1>1
  <2>. QED  BY <2>1 DEF Heard
<1>10. CASE c.op = "scan"
  <2>1. s < r
    BY <1>10, HeardFrom
  <2>2. s # r
    BY <2>1, MembersLemma
  <2>3. Combined(c, r, i) = {r} \cup Heard(c, r, i)
    BY <1>10 DEF Combined, Reduced, CombinedBy
  <2>. QED  BY <1>2, <1>4, <1>7, <1>8, <1>10, <2>2, <2>3 DEF CombinedBy
<1>11. CASE c.op # "scan"
  <2>1. IsCoordinator(s) /\ ~ IsLocal(s, r)
    BY <1>11, HeardFrom
  <2>2. \A q \in Heard(c, r, i) : IsCoordinator(q) /\ ~ IsLocal(s, q)
    <3>1. \A q \in Heard(c, r, i) : IsCoordinator(q)
      BY <1>3, <1>9, <1>11, HeardFrom
    <3>. QED  BY <1>3, <1>8, <2>1, <3>1, CoordinatorsApart
  <2>3. \A q \in Rank : ~ IsLocal(s, q) => Peers(s) \cap Peers(q) = {}
    BY DEF Peers, IsLocal
  <2>4. \A q \in Rank : CombinedBy(c, q) = Peers(q)
    BY <1>11 DEF CombinedBy
  <2>5. Peers(s) \cap (Peers(r) \cup {r}) = {}
    BY <2>1, <2>3, PeersLemma
  <2>6. Peers(s) \cap UNION { Peers(q) : q \in Heard(c, r, i) } = {}
    BY <1>3, <2>2, <2>3
  <2>7. Combined(c, r, i) \subseteq (Peers(r) \cup {r}) \cup UNION { Peers(q) : q \in Heard(c, r, i) }
    BY <1>3, <2>4 DEF Combined
  <2>. QED  BY <1>2, <1>4, <1>7, <2>4, <2>5, <2>6, <2>7
<1>. QED  BY <1>10, <1>11

\* A member that receives a good message has good buffers afterwards.
LEMMA ReceiveGood ==
  ASSUME InOrder, Grouped, NEW c \in Call, NEW s \in Rank, NEW r \in Rank, NEW g \in Tags,
         NEW i \in 1 .. Len(Steps(c, r)), Steps(c, r)[i] \in Incoming(s, g),
         NEW v \in Value, ValueGood(c, r, i, v), NEW p \in Value, MessageGood(c, s, r, g, p)
  PROVE  ValueGood(c, r, i + 1, [parts |-> v.parts \cup p.parts,
                                 order |-> IF Steps(c, r)[i].how = "combine" THEN p.order \o v.order
                                                                             ELSE p.order])
<1> DEFINE x == Steps(c, r)[i]
           w == [parts |-> v.parts \cup p.parts,
                 order |-> IF x.how = "combine" THEN p.order \o v.order ELSE p.order]
<1>1. i \in Nat /\ Len(Steps(c, r)) \in Nat /\ i <= Len(Steps(c, r))
  BY StepsLemma
<1>2. x \in Talk /\ x.do = "receive" /\ x.peer = s /\ x.tag = g
  BY DEF Incoming
<1>3. c.op \in Ends => i + 1 <= Len(Steps(c, r))
  <2>1. ASSUME c.op \in Ends, i = Len(Steps(c, r)) PROVE FALSE
    <3>1. x = FirstLocal(c, r) \/ x = LastLocal(c, r)
      BY <2>1, StepsLemma
    <3>. QED  BY <1>2, <3>1, LocalType, Kinds
  <2>. QED  BY <1>1, <2>1
<1>4. w.parts \subseteq Allowed(c) /\ Contribution(c, r).parts \subseteq w.parts
  BY DEF ValueGood, MessageGood
<1>5. ASSUME NEW q \in Rank, NEW h \in Tags, NEW j \in 1 .. (i + 1) - 1, Steps(c, r)[j] \in Incoming(q, h)
      PROVE  Carried(c, q, r, h) \subseteq w.parts
  <2>1. CASE j = i
    <3>1. q = s /\ h = g
      BY <1>2, <1>5, <2>1 DEF Incoming
    <3>. QED  BY <3>1 DEF MessageGood
  <2>2. CASE j # i
    <3>1. j \in 1 .. i - 1
      BY <1>1, <2>2
    <3>. QED  BY <1>5, <3>1 DEF ValueGood
  <2>. QED  BY <2>1, <2>2
<1>6. ASSUME c.op \in Reductions
      PROVE  Once(w.order, Combined(c, r, i + 1))
  <2>1. x.how = "combine"
    <3>1. x \in Fit(c, r)
      BY <1>2, StepsFit
    <3>. QED  BY <1>2, <1>6, <3>1 DEF Fit
  <2>2. Once(v.order, Combined(c, r, i))
    BY <1>1, <1>6 DEF ValueGood
  <2>3. Once(p.order, CombinedBy(c, s))
    BY <1>6 DEF MessageGood
  <2>4. v.order \in Seq(Rank) /\ p.order \in Seq(Rank)
    BY DEF Value
  <2>5. Once(p.order \o v.order, CombinedBy(c, s) \cup Combined(c, r, i))
    BY <1>6, <2>2, <2>3, <2>4, HeardApart, OnceLemma
  <2>6. w.order = p.order \o v.order
    BY <2>1
  <2> HIDE DEF w
  <2>. QED  BY <1>6, <2>5, <2>6, HeardApart
<1>7. ASSUME i + 1 > Len(Steps(c, r))
      PROVE  Complete(c, w)
  <2>1. c.op \notin Ends
    BY <1>1, <1>3, <1>7
  <2>. QED  BY <2>1 DEF Complete, Ends
<1> HIDE DEF w
<1>8. ValueGood(c, r, i + 1, w)
  BY <1>4, <1>5, <1>6, <1>7 DEF ValueGood
<1>. QED  BY <1>8 DEF w

\* A step that is a local call receives nothing; the last step of an operation that ends
\* with one is one.
LEMMA LocalApart ==
  ASSUME NEW c \in Call, NEW r \in Rank
  PROVE  /\ \A i \in 1 .. Len(Steps(c, r)), s \in Rank, g \in Tags :
              Steps(c, r)[i] \in LocalCall => Steps(c, r)[i] \notin Incoming(s, g)
         /\ c.op \in Ends => Steps(c, r)[Len(Steps(c, r))] \in LocalCall
<1>1. ASSUME NEW i \in 1 .. Len(Steps(c, r)), NEW s \in Rank, NEW g \in Tags,
             Steps(c, r)[i] \in LocalCall
      PROVE  Steps(c, r)[i] \notin Incoming(s, g)
  BY <1>1, Kinds DEF Incoming
<1>2. ASSUME c.op \in Ends
      PROVE  Steps(c, r)[Len(Steps(c, r))] \in LocalCall
  <2>1. Len(Steps(c, r)) \in Nat /\ Len(Steps(c, r)) >= 1
    BY <1>2, StepsLemma
  <2>2. Len(Steps(c, r)) \in 1 .. Len(Steps(c, r))
    BY <2>1
  <2>. QED  BY <1>2, <2>2, StepsLemma, LocalType
<1>. QED  BY <1>1, <1>2

\* Before its last local call a member has received all its messages.
LEMMA HeardBefore ==
  ASSUME InOrder, Grouped, NEW c \in Call, c.op \in Ends, NEW s \in Rank, NEW r \in Rank, NEW g \in Tags,
         HasMessage(c, s, r, g)
  PROVE  \E j \in 1 .. Len(Steps(c, r)) - 1 : Steps(c, r)[j] \in Incoming(s, g)
<1>1. PICK j \in 1 .. Len(Steps(c, r)) : Steps(c, r)[j] \in Incoming(s, g)
  BY BalancedHolds, HasStep
<1>2. j # Len(Steps(c, r))
  BY <1>1, LocalApart
<1>3. j \in 1 .. Len(Steps(c, r)) - 1
  BY <1>2, StepsLemma
<1>. QED  BY <1>1, <1>3

\* Where the message came from is in the buffers.
LEMMA CarriedBefore ==
  ASSUME InOrder, Grouped, NEW c \in Call, c.op \in Ends, NEW s \in Rank, NEW r \in Rank, NEW g \in Tags,
         HasMessage(c, s, r, g), NEW v, ValueGood(c, r, Len(Steps(c, r)), v)
  PROVE  Carried(c, s, r, g) \subseteq v.parts
<1>1. PICK j \in 1 .. Len(Steps(c, r)) - 1 : Steps(c, r)[j] \in Incoming(s, g)
  BY HeardBefore
<1>. QED  BY <1>1 DEF ValueGood

\* The members whose contributions the coordinator of a cluster has combined when it
\* has heard from all the other coordinators are all members.
LEMMA CombinedAll ==
  ASSUME NEW c \in Call, c.op # "scan", NEW r \in Rank, NEW i, Reduced(c, r, i),
         \A q \in Rank : IsCoordinator(q) /\ ~ IsLocal(q, r) => q \in Heard(c, r, i)
  PROVE  Combined(c, r, i) = Rank
<1>1. Combined(c, r, i) = Peers(r) \cup UNION { Peers(s) : s \in Heard(c, r, i) }
  BY DEF Combined, CombinedBy
<1>2. Heard(c, r, i) \in SUBSET Rank
  BY DEF Heard
<1>3. Combined(c, r, i) \subseteq Rank
  BY <1>1, <1>2, PeersLemma
<1>4. ASSUME NEW q \in Rank PROVE q \in Combined(c, r, i)
  <2>1. CASE IsLocal(q, r)
    BY <1>1, <2>1 DEF Peers, IsLocal
  <2>2. CASE ~ IsLocal(q, r)
    <3> DEFINE s == MyCoordinator(q)
    <3>1. s \in Rank /\ IsLocal(s, q) /\ q \in Peers(s) /\ IsCoordinator(s)
      <4>1. s \in Rank /\ IsLocal(s, q)
        BY PeersLemma
      <4>2. Peers(s) = Peers(q)
        BY <4>1 DEF Peers, IsLocal
      <4>. QED  BY <4>1, <4>2, PeersLemma DEF IsCoordinator, MyCoordinator
    <3> HIDE DEF s
    <3>2. ~ IsLocal(s, r)
      BY <2>2, <3>1 DEF IsLocal
    <3>. QED  BY <1>1, <3>1, <3>2
  <2>. QED  BY <2>1, <2>2
<1>. QED  BY <1>3, <1>4

\* What the root of the broadcast in a cluster deposits is what everybody needs.
LEMMA DepositComplete ==
  ASSUME InOrder, Grouped, NEW c \in Call, c.op \in Ends \ {"barrier"}, NEW r \in Rank,
         NEW v \in Value, ValueGood(c, LastLocal(c, r).root, Len(Steps(c, LastLocal(c, r).root)), v)
  PROVE  Complete(c, v)
<1> DEFINE q0 == LastLocal(c, r).root
           n == Len(Steps(c, q0))
<1>1. c.root \in Rank
  BY DEF Call
<1>2. q0 = IF c.op = "bcast" /\ IsLocal(r, c.root) THEN c.root ELSE MyCoordinator(r)
  BY DEF LastLocal, LocalBcast
<1>3. q0 \in Rank /\ IsLocal(q0, r)
  BY <1>1, <1>2, PeersLemma DEF IsLocal
<1>4. Peers(q0) = Peers(r)
  BY <1>3 DEF Peers, IsLocal
<1>5. ~ (c.op = "bcast" /\ IsLocal(r, c.root)) => IsCoordinator(q0) /\ q0 = MyCoordinator(r)
  BY <1>2, <1>4 DEF IsCoordinator, MyCoordinator
<1> HIDE DEF q0
<1>6. ValueGood(c, q0, n, v)
  BY DEF q0
<1>7. Contribution(c, q0).parts \subseteq v.parts
  BY <1>6 DEF ValueGood
<1>8. ASSUME NEW s \in Rank, NEW g \in Tags, HasMessage(c, s, q0, g)
      PROVE  Carried(c, s, q0, g) \subseteq v.parts
  BY <1>3, <1>6, <1>8, CarriedBefore
<1>9. "bcast" \in Tags /\ "allgatherv" \in Tags
  BY DEF Tags
<1>10. ASSUME c.op = "bcast" PROVE <<c.root, All>> \in v.parts
  <2>1. CASE IsLocal(r, c.root)
    BY <1>2, <1>7, <1>10, <2>1 DEF Contribution
  <2>2. CASE ~ IsLocal(r, c.root)
    <3>1. HasMessage(c, c.root, q0, "bcast")
      BY <1>3, <1>5, <1>10, <2>2 DEF HasMessage, IsLocal
    <3>. QED  BY <1>1, <1>8, <1>9, <1>10, <3>1 DEF Carried
  <2>. QED  BY <2>1, <2>2
<1>11. ASSUME c.op = "allgather" PROVE Allowed(c) \subseteq v.parts
  <2>1. ASSUME NEW q \in Rank PROVE <<q, q>> \in v.parts
    <3>1. CASE q = q0
      BY <1>3, <1>7, <1>11, <3>1, InPlaceLemma DEF Contribution
    <3>2. CASE q # q0 /\ IsLocal(q, q0)
      <4>1. MyCoordinator(q) = q0
        BY <1>4, <1>5, <1>11, <3>2 DEF MyCoordinator, Peers, IsLocal
      <4>2. HasMessage(c, q, q0, "allgatherv")
        BY <1>11, <3>2, <4>1 DEF HasMessage
      <4>3. Carried(c, q, q0, "allgatherv") = {<<q, q>>}
        BY <1>11 DEF Carried
      <4>. QED  BY <1>8, <1>9, <4>2, <4>3
    <3>3. CASE ~ IsLocal(q, q0)
      <4> DEFINE s == MyCoordinator(q)
      <4>1. s \in Rank /\ IsLocal(s, q) /\ q \in Peers(s) /\ IsCoordinator(s)
        <5>1. s \in Rank /\ IsLocal(s, q)
          BY PeersLemma
        <5>2. Peers(s) = Peers(q)
          BY <5>1 DEF Peers, IsLocal
        <5>. QED  BY <5>1, <5>2, PeersLemma DEF IsCoordinator, MyCoordinator
      <4> HIDE DEF s
      <4>2. s # q0
        BY <3>3, <4>1 DEF IsLocal
      <4>3. HasMessage(c, s, q0, "bcast")
        BY <1>5, <1>11, <4>1, <4>2 DEF HasMessage
      <4>4. Carried(c, s, q0, "bcast") = InPlace(s)
        BY <1>11 DEF Carried
      <4>. QED  BY <1>8, <1>9, <4>1, <4>3, <4>4 DEF InPlace
    <3>. QED  BY <3>1, <3>2, <3>3
  <2>. QED  BY <1>11, <2>1 DEF Allowed
<1>12. ASSUME c.op = "allreduce" PROVE Once(v.order, Rank)
  <2>1. Len(Steps(c, q0)) \in Nat /\ n >= 2
    BY <1>3, <1>12, StepsLemma DEF Begins, Ends
  <2>2. Once(v.order, Combined(c, q0, n))
    BY <1>6, <1>12, <2>1 DEF ValueGood, Reductions
  <2>3. Reduced(c, q0, n)
    <3>1. FirstLocal(c, q0).root = MyCoordinator(q0)
      BY <1>12 DEF FirstLocal, LocalReduce
    <3>. QED  BY <1>5, <1>12, <2>1, <3>1 DEF Reduced, IsCoordinator
  <2>4. ASSUME NEW q \in Rank, IsCoordinator(q), ~ IsLocal(q, q0)
        PROVE  q \in Heard(c, q0, n)
    <3>1. HasMessage(c, q, q0, "bcast")
      BY <1>5, <1>12, <2>4 DEF HasMessage, IsLocal
    <3>2. \E j \in 1 .. n - 1 : Steps(c, q0)[j] \in Incoming(q, "bcast")
      BY <1>3, <1>9, <3>1, HeardBefore
    <3>. QED  BY <1>9, <3>2 DEF Heard
  <2> HIDE DEF n
  <2>5. Combined(c, q0, n) = Rank
    BY <1>3, <1>12, <2>3, <2>4, CombinedAll
  <2>. QED  BY <2>2, <2>5
<1>. QED  BY <1>10, <1>11, <1>12 DEF Complete

\* Which local call a step is.
LEMMA LocalKind ==
  ASSUME NEW c \in Call, NEW r \in Rank, NEW i \in 1 .. Len(Steps(c, r)), Steps(c, r)[i] \in LocalCall
  PROVE  /\ Steps(c, r)[i].do = "barrier" => c.op = "barrier"
         /\ Steps(c, r)[i].do = "bcast" =>
              c.op \in Ends \ {"barrier"} /\ i = Len(Steps(c, r)) /\ Steps(c, r)[i] = LastLocal(c, r)
         /\ Steps(c, r)[i].do = "reduce" =>
              c.op \in {"reduce", "allreduce"} /\ i = 1 /\ Steps(c, r)[i] = FirstLocal(c, r)
<1>1. \/ c.op \in Begins /\ i = 1 /\ Steps(c, r)[i] = FirstLocal(c, r)
      \/ c.op \in Ends /\ i = Len(Steps(c, r)) /\ Steps(c, r)[i] = LastLocal(c, r)
  BY StepsLemma, Kinds
<1>2. FirstLocal(c, r).do = IF c.op = "barrier" THEN "barrier" ELSE "reduce"
  BY DEF FirstLocal, LocalBarrier, LocalReduce
<1>3. LastLocal(c, r).do = IF c.op = "barrier" THEN "barrier" ELSE "bcast"
  BY DEF LastLocal, LocalBarrier, LocalBcast
<1>4. Begins \ {"barrier"} = {"reduce", "allreduce"}
  BY DEF Begins
<1>. QED  BY <1>1, <1>2, <1>3, <1>4

\* What a local call does not change about the buffers.
LEMMA LocalKeeps ==
  ASSUME NEW c \in Call, NEW r \in Rank, NEW i \in 1 .. Len(Steps(c, r)), Steps(c, r)[i] \in LocalCall,
         NEW v, ValueGood(c, r, i, v), NEW w, v.parts \subseteq w.parts
  PROVE  /\ Contribution(c, r).parts \subseteq w.parts
         /\ \A s \in Rank, g \in Tags, j \in 1 .. (i + 1) - 1 :
              Steps(c, r)[j] \in Incoming(s, g) => Carried(c, s, r, g) \subseteq w.parts
         /\ Heard(c, r, i + 1) = Heard(c, r, i)
<1>1. i \in Nat
  BY StepsLemma
<1>2. \A j : j \in 1 .. (i + 1) - 1 <=> j \in 1 .. i - 1 \/ j = i
  BY <1>1
<1>3. \A s \in Rank, g \in Tags : Steps(c, r)[i] \notin Incoming(s, g)
  BY LocalApart
<1>4. Heard(c, r, i + 1) = Heard(c, r, i)
  BY <1>2, <1>3 DEF Heard
<1>. QED  BY <1>2, <1>3, <1>4 DEF ValueGood

\* Returning from a barrier.
LEMMA BarrierGood ==
  ASSUME NEW c \in Call, NEW r \in Rank, NEW i \in 1 .. Len(Steps(c, r)), Steps(c, r)[i] \in LocalCall,
         Steps(c, r)[i].do = "barrier", NEW v, ValueGood(c, r, i, v)
  PROVE  ValueGood(c, r, i + 1, v)
<1>1. c.op = "barrier"
  BY LocalKind
<1>2. /\ Contribution(c, r).parts \subseteq v.parts
      /\ \A s \in Rank, g \in Tags, j \in 1 .. (i + 1) - 1 :
           Steps(c, r)[j] \in Incoming(s, g) => Carried(c, s, r, g) \subseteq v.parts
  BY LocalKeeps
<1>3. c.op \notin Reductions /\ Complete(c, v)
  BY <1>1 DEF Reductions, Complete
<1>4. v.parts \subseteq Allowed(c)
  BY DEF ValueGood
<1>. QED  BY <1>2, <1>3, <1>4 DEF ValueGood

\* Returning from the broadcast in the cluster.
LEMMA BcastGood ==
  ASSUME InOrder, Grouped, NEW c \in Call, NEW r \in Rank, NEW i \in 1 .. Len(Steps(c, r)), Steps(c, r)[i] \in LocalCall,
         Steps(c, r)[i].do = "bcast", NEW v \in Value, ValueGood(c, r, i, v),
         NEW u \in Value, ValueGood(c, Steps(c, r)[i].root, Len(Steps(c, Steps(c, r)[i].root)), u)
  PROVE  ValueGood(c, r, i + 1, [parts |-> v.parts \cup u.parts, order |-> u.order])
<1> DEFINE w == [parts |-> v.parts \cup u.parts, order |-> u.order]
<1>1. c.op \in Ends \ {"barrier"} /\ i = Len(Steps(c, r)) /\ Steps(c, r)[i] = LastLocal(c, r)
  BY LocalKind
<1>2. v.parts \subseteq w.parts /\ u.parts \subseteq w.parts /\ w.order = u.order
  OBVIOUS
<1>3. w.parts \subseteq Allowed(c)
  BY DEF ValueGood
<1> HIDE DEF w
<1>4. /\ Contribution(c, r).parts \subseteq w.parts
      /\ \A s \in Rank, g \in Tags, j \in 1 .. (i + 1) - 1 :
           Steps(c, r)[j] \in Incoming(s, g) => Carried(c, s, r, g) \subseteq w.parts
  BY <1>2, LocalKeeps
<1>5. Complete(c, u)
  BY <1>1, DepositComplete
<1>6. Complete(c, w)
  BY <1>2, <1>5 DEF Complete
<1>7. c.op \in Ends /\ ~ (i + 1 <= Len(Steps(c, r)))
  BY <1>1, StepsLemma
<1>8. ValueGood(c, r, i + 1, w)
  BY <1>3, <1>4, <1>6, <1>7 DEF ValueGood
<1>. QED  BY <1>8 DEF w

\* Before the first step nothing is heard, and of a reduction only the own contribution
\* is there.
LEMMA StartGood ==
  ASSUME Grouped, NEW c \in Call, NEW r \in Rank
  PROVE  /\ Combined(c, r, 1) = {r}
         /\ ValueGood(c, r, 1, Contribution(c, r))
<1>1. Heard(c, r, 1) = {} /\ ~ Reduced(c, r, 1)
  BY DEF Heard, Reduced
<1>2. Combined(c, r, 1) = {r}
  BY <1>1 DEF Combined
<1>3. c.op \in Reductions => Once(Contribution(c, r).order, {r})
  BY OwnParts, OnceLemma
<1>4. 1 > Len(Steps(c, r)) => c.op \notin Ends
  BY StepsLemma
<1>5. c.op \notin Ends => Complete(c, Contribution(c, r))
  BY DEF Complete, Ends
<1>6. Contribution(c, r).parts \subseteq Allowed(c)
  BY OwnParts
<1>7. 1 .. 1 - 1 = {}
  OBVIOUS
<1> DEFINE v == Contribution(c, r)
<1>8. Once(v.order, Combined(c, r, 1)) \/ c.op \notin Reductions
  BY <1>2, <1>3
<1>9. 1 > Len(Steps(c, r)) => Complete(c, v)
  BY <1>4, <1>5
<1>10. v.parts \subseteq Allowed(c) /\ Contribution(c, r).parts \subseteq v.parts
  BY <1>6
<1> HIDE DEF v
<1>11. ValueGood(c, r, 1, v)
  BY <1>7, <1>8, <1>9, <1>10 DEF ValueGood
<1>. QED  BY <1>2, <1>11 DEF v

\* The contributions of a cluster, in the order of the ranks.
LEMMA ClusterOnce ==
  ASSUME NEW r \in Rank, NEW s \in Seq(Seq(Rank)), Len(s) = Len(Ascending(Peers(r))),
         \A j \in 1 .. Len(s) : Once(s[j], {Ascending(Peers(r))[j]})
  PROVE  Once(FlattenSeq(s), Peers(r))
<1> DEFINE order == Ascending(Peers(r))
<1>1. Peers(r) \in SUBSET Rank /\ r \in Peers(r)
  BY PeersLemma
<1>2. Size \in Nat /\ Peers(r) \in SUBSET (0 .. Size - 1)
  BY <1>1, MembersLemma
<1>3. order \in Seq(Peers(r)) /\ order \in Seq(Rank) /\ Len(order) \in Nat
  BY <1>1, AscendingType, LenProperties
<1>4. \A q \in Peers(r) : \E i \in 1 .. Len(order) :
        order[i] = q /\ \A j \in 1 .. Len(order) : order[j] = q => j = i
  BY <1>2, AscendingPlaces
<1>5. \A j \in 1 .. Len(order) : order[j] \in Peers(r)
  BY <1>3, ElementOfSeq
<1> HIDE DEF order
<1>6. Len(s) = Len(order) /\ \A j \in 1 .. Len(s) : Once(s[j], {order[j]})
  BY DEF order
<1>7. Len(s) # 0
  <2>1. PICK i \in 1 .. Len(order) : order[i] = r
    BY <1>1, <1>4
  <2>. QED  BY <1>3, <1>6, <2>1
<1>8. ASSUME NEW q \in Rank
      PROVE  Num(FlattenSeq(s), {q}) = IF q \in Peers(r) THEN 1 ELSE 0
  <2>1. \A j \in 1 .. Len(s) : Num(s[j], {q}) = IF q = order[j] THEN 1 ELSE 0
    BY <1>6 DEF Once
  <2>2. CASE q \in Peers(r)
    <3>1. PICK i \in 1 .. Len(order) : order[i] = q /\ \A j \in 1 .. Len(order) : order[j] = q => j = i
      BY <1>4, <2>2
    <3>2. OnlyIn(s, {q}, i)
      BY <1>6, <2>1, <3>1 DEF OnlyIn
    <3>. QED  BY <1>6, <1>7, <2>2, <3>2, NumFlattenSeq
  <2>3. CASE q \notin Peers(r)
    <3>1. OnlyIn(s, {q}, 0)
      <4>1. \A j \in 1 .. Len(s) : j # 0 /\ q # order[j]
        BY <1>3, <1>5, <1>6, <2>3
      <4>. QED  BY <2>1, <4>1 DEF OnlyIn
    <3>2. 0 \notin 1 .. Len(s)
      BY <1>3, <1>6
    <3>. QED  BY <1>7, <2>3, <3>1, <3>2, NumFlattenSeq
  <2>. QED  BY <2>2, <2>3
<1>9. FlattenSeq(s) \in Seq(Rank)
  BY FlattenSeqLemma
<1>. QED  BY <1>8, <1>9 DEF Once

\* Returning from the reduction in the cluster: its root has what all have contributed,
\* the others keep their own.
LEMMA ReduceGood ==
  ASSUME Grouped, NEW c \in Call, NEW r \in Rank, NEW i \in 1 .. Len(Steps(c, r)), Steps(c, r)[i] \in LocalCall,
         Steps(c, r)[i].do = "reduce", NEW v \in Value, ValueGood(c, r, i, v), NEW w \in Value,
         w.parts = v.parts,
         IF r = Steps(c, r)[i].root THEN Once(w.order, Peers(r)) ELSE w.order = v.order
  PROVE  ValueGood(c, r, i + 1, w)
<1>1. c.op \in {"reduce", "allreduce"} /\ i = 1 /\ Steps(c, r)[i] = FirstLocal(c, r)
  BY LocalKind
<1>2. c.op \in Reductions /\ c.op \in Begins /\ c.op # "scan"
  BY <1>1 DEF Reductions, Begins
<1>3. /\ Contribution(c, r).parts \subseteq w.parts
      /\ \A s \in Rank, g \in Tags, j \in 1 .. (i + 1) - 1 :
           Steps(c, r)[j] \in Incoming(s, g) => Carried(c, s, r, g) \subseteq w.parts
      /\ Heard(c, r, i + 1) = Heard(c, r, i)
  BY LocalKeeps
<1>4. Heard(c, r, i + 1) = {}
  BY <1>1, <1>3 DEF Heard
<1>5. Reduced(c, r, i + 1) <=> r = Steps(c, r)[i].root
  BY <1>1 DEF Reduced
<1>6. Combined(c, r, i + 1) = IF r = Steps(c, r)[i].root THEN Peers(r) ELSE {r}
  BY <1>4, <1>5 DEF Combined
<1>7. Once(v.order, {r})
  <2>1. Len(Steps(c, r)) >= 1
    BY <1>2, StepsLemma
  <2>2. Once(v.order, Combined(c, r, 1))
    BY <1>1, <1>2, <2>1 DEF ValueGood
  <2>. QED  BY <2>2, StartGood
<1>8. Once(w.order, Combined(c, r, i + 1))
  BY <1>6, <1>7
<1>9. i + 1 > Len(Steps(c, r)) => Complete(c, w)
  <2>1. c.op = "allreduce" => Len(Steps(c, r)) \in Nat /\ Len(Steps(c, r)) >= 2
    BY StepsLemma DEF Begins, Ends
  <2>2. c.op = "reduce" => Complete(c, w)
    BY DEF Complete
  <2>. QED  BY <1>1, <2>1, <2>2
<1>10. w.parts \subseteq Allowed(c)
  BY DEF ValueGood
<1>. QED  BY <1>3, <1>8, <1>9, <1>10 DEF ValueGood

\* A sequence with each member of S once is what the properties ask for.
LEMMA OnceEach ==
  ASSUME NEW v, NEW S \in SUBSET Rank, Once(v, S)
  PROVE  EachOnce(v, S)
<1>1. v \in Seq(Rank) /\ Len(v) \in Nat /\ DOMAIN v = 1 .. Len(v)
  BY LenProperties DEF Once
<1>2. ASSUME NEW i \in 1 .. Len(v) PROVE v[i] \in S
  <2>1. v[i] \in Rank
    BY <1>1, ElementOfSeq
  <2>2. Num(v, {v[i]}) # 0
    BY <1>1, NumZero
  <2>. QED  BY <2>1, <2>2 DEF Once
<1>3. ASSUME NEW q \in S PROVE \E i \in 1 .. Len(v) : v[i] = q
  <2>1. Num(v, {q}) = 1
    BY DEF Once
  <2>2. \E i \in 1 .. Len(v) : v[i] \in {q}
    BY <1>1, <2>1, NumZero
  <2>. QED  BY <2>2
<1>4. ASSUME NEW i \in 1 .. Len(v), NEW j \in 1 .. Len(v), v[i] = v[j] PROVE i = j
  <2>1. Num(v, {v[i]}) = 1
    BY <1>1, <1>2 DEF Once
  <2>2. \A k \in 1 .. Len(v) : v[k] \in {v[i]} => k = i
    BY <1>1, <2>1, NumOne
  <2>. QED  BY <1>4, <2>2
<1>5. v \in [1 .. Len(v) -> S]
  BY <1>1, <1>2
<1>6. v \in Bijection(1 .. Len(v), S)
  BY <1>3, <1>4, <1>5 DEF Bijection, Injection, Surjection, IsInjective
<1>7. Cardinality(S) = Len(v)
  BY <1>1, <1>6, FS_CountingElements DEF ExistsBijection
<1>8. { v[i] : i \in DOMAIN v } = S
  BY <1>1, <1>2, <1>3
<1>. QED  BY <1>7, <1>8 DEF EachOnce

\* What a message had to carry is there at the end of the call.
LEMMA CarriedAtEnd ==
  ASSUME InOrder, Grouped, NEW c \in Call, NEW s \in Rank, NEW r \in Rank, NEW g \in Tags,
         HasMessage(c, s, r, g), NEW v, ValueGood(c, r, Len(Steps(c, r)) + 1, v)
  PROVE  /\ Carried(c, s, r, g) \subseteq v.parts
         /\ s \in Heard(c, r, Len(Steps(c, r)) + 1)
<1>1. PICK j \in 1 .. Len(Steps(c, r)) : Steps(c, r)[j] \in Incoming(s, g)
  BY BalancedHolds, HasStep
<1>2. j \in 1 .. (Len(Steps(c, r)) + 1) - 1
  BY StepsLemma
<1>. QED  BY <1>1, <1>2 DEF ValueGood, Heard

\* Good buffers at the end of a call are what MPI prescribes.
LEMMA ResultGood ==
  ASSUME InOrder, Grouped, NEW c \in Call, NEW r \in Rank, NEW v \in Value,
         ValueGood(c, r, Len(Steps(c, r)) + 1, v)
  PROVE  Prescribed(c, r, v)
<1> DEFINE n == Len(Steps(c, r)) + 1
<1>1. c.root \in Rank /\ c.op \in Op
  BY DEF Call
<1>2. v.parts \subseteq Allowed(c) /\ Contribution(c, r).parts \subseteq v.parts
  BY DEF ValueGood
<1>3. Len(Steps(c, r)) \in Nat
  BY StepsLemma
<1>4. Complete(c, v)
  <2>1. n > Len(Steps(c, r))
    BY <1>3
  <2>. QED  BY <2>1 DEF ValueGood
<1>5. \A s \in Rank, g \in Tags : HasMessage(c, s, r, g) => Carried(c, s, r, g) \subseteq v.parts
  BY CarriedAtEnd
<1>6. \A s \in Rank, g \in Tags : HasMessage(c, s, r, g) => s \in Heard(c, r, n)
  BY CarriedAtEnd
<1>7. c.op \in Reductions \ Ends => Once(v.order, Combined(c, r, n))
  BY DEF ValueGood
<1> HIDE DEF n
<1>8. CASE c.op = "barrier"
  BY <1>8 DEF Prescribed
<1>9. CASE c.op = "bcast"
  BY <1>2, <1>4, <1>9 DEF Prescribed, Complete, Allowed
<1>10. CASE c.op = "gather"
  <2>1. ASSUME r = c.root PROVE v.parts = { <<q, r>> : q \in Rank }
    <3>1. ASSUME NEW q \in Rank PROVE <<q, r>> \in v.parts
      <4>1. CASE q = r
        BY <1>2, <1>10, <2>1, <4>1 DEF Contribution
      <4>2. CASE q # r
        <5>1. HasMessage(c, q, r, "gatherv") /\ "gatherv" \in Tags
          BY <1>10, <2>1, <4>2 DEF HasMessage, Tags
        <5>2. Carried(c, q, r, "gatherv") = {<<q, r>>}
          BY <1>10 DEF Carried
        <5>. QED  BY <1>5, <5>1, <5>2
      <4>. QED  BY <4>1, <4>2
    <3>2. Allowed(c) = { <<q, r>> : q \in Rank }
      BY <1>10, <2>1 DEF Allowed
    <3>. QED  BY <1>2, <3>1, <3>2
  <2>. QED  BY <1>10, <2>1 DEF Prescribed
<1>11. CASE c.op = "scatter"
  <2>1. CASE r = c.root
    BY <1>2, <1>11, <2>1 DEF Contribution, Addressed, Prescribed
  <2>2. CASE r # c.root
    <3>1. HasMessage(c, c.root, r, "scatterv") /\ "scatterv" \in Tags
      BY <1>11, <2>2 DEF HasMessage, Tags
    <3>2. Carried(c, c.root, r, "scatterv") = {<<c.root, r>>}
      BY <1>11 DEF Carried
    <3>. QED  BY <1>1, <1>5, <1>11, <3>1, <3>2 DEF Prescribed
  <2>. QED  BY <2>1, <2>2
<1>12. CASE c.op = "allgather"
  BY <1>2, <1>4, <1>12 DEF Prescribed, Complete, Allowed
<1>13. CASE c.op = "alltoall"
  <2>1. ASSUME NEW q \in Rank PROVE <<q, r>> \in v.parts
    <3>1. CASE q = r
      BY <1>2, <1>13, <3>1 DEF Contribution, Addressed
    <3>2. CASE q # r
      <4>1. HasMessage(c, q, r, "alltoallv") /\ "alltoallv" \in Tags
        BY <1>13, <3>2 DEF HasMessage, Tags
      <4>2. Carried(c, q, r, "alltoallv") = {<<q, r>>}
        BY <1>13 DEF Carried
      <4>. QED  BY <1>5, <4>1, <4>2
    <3>. QED  BY <3>1, <3>2
  <2>. QED  BY <1>13, <2>1 DEF Prescribed
<1>14. CASE c.op = "reduce"
  <2>1. ASSUME r = c.root PROVE EachOnce(v.order, Rank)
    <3>1. Reduced(c, r, n)
      <4>1. FirstLocal(c, r).root = r
        BY <1>14, <2>1 DEF FirstLocal, LocalReduce, IsLocal
      <4>2. Len(Steps(c, r)) >= 1
        BY <1>14, StepsLemma DEF Begins
      <4>. QED  BY <1>3, <1>14, <4>1, <4>2 DEF Reduced, n
    <3>2. ASSUME NEW q \in Rank, IsCoordinator(q), ~ IsLocal(q, r)
          PROVE  q \in Heard(c, r, n)
      <4>1. HasMessage(c, q, r, "reduce") /\ "reduce" \in Tags
        BY <1>14, <2>1, <3>2 DEF HasMessage, Tags
      <4>. QED  BY <1>6, <4>1
    <3>3. Combined(c, r, n) = Rank
      BY <1>14, <3>1, <3>2, CombinedAll
    <3>4. Once(v.order, Rank)
      BY <1>7, <1>14, <3>3 DEF Reductions, Ends
    <3>. QED  BY <3>4, OnceEach
  <2>. QED  BY <1>14, <2>1 DEF Prescribed
<1>15. CASE c.op = "allreduce"
  <2>1. EachOnce(v.order, Rank)
    BY <1>4, <1>15, OnceEach DEF Complete
  <2>. QED  BY <1>15, <2>1 DEF Prescribed
<1>16. CASE c.op = "scan"
  <2>1. Combined(c, r, n) = {r} \cup Heard(c, r, n)
    BY <1>16 DEF Combined, Reduced, CombinedBy
  <2>2. ASSUME NEW q \in Rank PROVE q \in Heard(c, r, n) <=> q < r
    <3>1. ASSUME q < r PROVE q \in Heard(c, r, n)
      <4>1. HasMessage(c, q, r, "scan") /\ "scan" \in Tags
        BY <1>16, <3>1 DEF HasMessage, Tags
      <4>. QED  BY <1>6, <4>1
    <3>2. ASSUME q \in Heard(c, r, n) PROVE q < r
      <4>1. PICK j \in 1 .. n - 1, g \in Tags : Steps(c, r)[j] \in Incoming(q, g)
        BY <3>2 DEF Heard
      <4>2. j \in 1 .. Len(Steps(c, r))
        BY <1>3 DEF n
      <4>. QED  BY <1>16, <4>1, <4>2, HeardFrom DEF Reductions
    <3>. QED  BY <3>1, <3>2
  <2>3. Heard(c, r, n) \in SUBSET Rank
    BY DEF Heard
  <2>4. Size \in Nat /\ Rank = 0 .. Size - 1
    BY MembersLemma
  <2>5. Combined(c, r, n) = 0 .. r
    BY <2>1, <2>2, <2>3, <2>4
  <2>6. 0 .. r \in SUBSET Rank
    BY <2>4
  <2>7. Once(v.order, 0 .. r)
    BY <1>7, <1>16, <2>5 DEF Reductions, Ends
  <2>8. EachOnce(v.order, 0 .. r)
    BY <2>6, <2>7, OnceEach
  <2>. QED  BY <1>16, <2>8 DEF Prescribed
<1>. QED  BY <1>1, <1>8, <1>9, <1>10, <1>11, <1>12, <1>13, <1>14, <1>15, <1>16 DEF Op

-----------------------------------------------------------------------------
(* The messages on the wire *)

\* f gives, for each message of the wire w from s to d, the call it is of: one of those
\* in U whose message with that tag is under way, all of them, in their order.
Tracks(f, w, U, p, s, d) ==
  /\ f \in Seq(Nat) /\ Len(f) = Len(w)
  /\ \A i \in 1 .. Len(w) : /\ f[i] \in U[w[i].tag]
                            /\ MessageGood(p[f[i]], s, d, w[i].tag, w[i].payload)
  /\ \A i, j \in 1 .. Len(w) : i < j /\ w[i].tag = w[j].tag => f[i] < f[j]
  /\ \A g \in Tags : \A k \in U[g] : \E i \in 1 .. Len(w) : w[i].tag = g /\ f[i] = k

\* The first message with tag g is at b.
IsFirst(b, w, g) ==
  b \in 1 .. Len(w) /\ w[b].tag = g /\ \A i \in 1 .. Len(w) : w[i].tag = g => b <= i

\* The elements after one is taken out.
LEMMA RemoveAtElements ==
  ASSUME NEW T, NEW s \in Seq(T), NEW i \in 1 .. Len(s)
  PROVE  /\ RemoveAt(s, i) \in Seq(T) /\ Len(RemoveAt(s, i)) = Len(s) - 1
         /\ \A k \in 1 .. Len(s) - 1 : RemoveAt(s, i)[k] = IF k < i THEN s[k] ELSE s[k + 1]
<1> DEFINE a == SubSeq(s, 1, i - 1)
           b == SubSeq(s, i + 1, Len(s))
           ab == a \o b
<1>1. Len(s) \in Nat /\ (\A k \in 1 .. Len(s) : s[k] \in T) /\ i \in Nat
  BY LenProperties, ElementOfSeq
<1>2. a \in Seq(T) /\ Len(a) = i - 1 /\ \A k \in 1 .. i - 1 : a[k] = s[k]
  <2>1. \A k \in 1 .. i - 1 : s[k] \in T
    BY <1>1
  <2>. QED  BY <1>1, <2>1, SubSeqProperties
<1>3. b \in Seq(T) /\ Len(b) = Len(s) - i /\ \A k \in 1 .. Len(s) - i : b[k] = s[i + k]
  <2>1. \A k \in i + 1 .. Len(s) : s[k] \in T
    BY <1>1
  <2>. QED  BY <1>1, <2>1, SubSeqProperties
<1>4. RemoveAt(s, i) = ab
  BY DEF RemoveAt
<1> HIDE DEF a, b
<1>5. /\ ab \in Seq(T) /\ Len(ab) = Len(a) + Len(b)
      /\ \A k \in 1 .. Len(a) + Len(b) : ab[k] = IF k <= Len(a) THEN a[k] ELSE b[k - Len(a)]
  BY <1>2, <1>3, ConcatProperties
<1> HIDE DEF ab
<1>6. Len(a) + Len(b) = Len(s) - 1
  BY <1>1, <1>2, <1>3
<1>7. ASSUME NEW k \in 1 .. Len(s) - 1
      PROVE  ab[k] = IF k < i THEN s[k] ELSE s[k + 1]
  <2>1. CASE k < i
    <3>1. k \in 1 .. i - 1 /\ k <= Len(a) /\ k \in 1 .. Len(a) + Len(b)
      BY <1>1, <1>2, <1>6, <2>1
    <3>. QED  BY <1>2, <1>5, <2>1, <3>1
  <2>2. CASE ~ (k < i)
    <3>1. /\ ~ (k <= Len(a)) /\ k \in 1 .. Len(a) + Len(b)
          /\ k - Len(a) \in 1 .. Len(s) - i /\ i + (k - Len(a)) = k + 1
      BY <1>1, <1>2, <1>6, <2>2
    <3>. QED  BY <1>3, <1>5, <2>2, <3>1
  <2>. QED  BY <2>1, <2>2
<1>. QED  BY <1>4, <1>5, <1>6, <1>7

\* A message is sent, in a call later than those under way.
LEMMA TrackAppend ==
  ASSUME NEW s \in Rank, NEW d \in Rank, NEW p, NEW U \in [Tags -> SUBSET Nat],
         NEW w \in Seq(Message), NEW f, Tracks(f, w, U, p, s, d),
         NEW m \in Message, NEW k \in Nat, MessageGood(p[k], s, d, m.tag, m.payload),
         \A j \in U[m.tag] : j < k
  PROVE  Tracks(Append(f, k), Append(w, m), [U EXCEPT ![m.tag] = @ \cup {k}], p, s, d)
<1> DEFINE V == [U EXCEPT ![m.tag] = @ \cup {k}]
           h == Append(f, k)
           x == Append(w, m)
           n == Len(w)
<1>1. f \in Seq(Nat) /\ Len(f) = n /\ n \in Nat
  BY LenProperties DEF Tracks
<1>2. h \in Seq(Nat) /\ Len(h) = n + 1 /\ h[n + 1] = k /\ \A i \in 1 .. n : h[i] = f[i]
  BY <1>1, AppendProperties
<1>3. x \in Seq(Message) /\ Len(x) = n + 1 /\ x[n + 1] = m /\ \A i \in 1 .. n : x[i] = w[i]
  BY <1>1, AppendProperties
<1>4. m.tag \in Tags /\ \A i \in 1 .. n : w[i].tag \in Tags
  <2>1. \A i \in 1 .. n : w[i] \in Message
    BY ElementOfSeq
  <2>. QED  BY <2>1 DEF Message
<1>5. \A g \in Tags : V[g] = IF g = m.tag THEN U[g] \cup {k} ELSE U[g]
  OBVIOUS
<1>6. \A i \in 1 .. n + 1 : i \in 1 .. n \/ i = n + 1
  BY <1>1
<1>7. n + 1 \in 1 .. n + 1 /\ 1 .. n \subseteq 1 .. n + 1
  BY <1>1
<1> HIDE DEF V, h, x
<1>8. ASSUME NEW i \in 1 .. n + 1
      PROVE  h[i] \in V[x[i].tag] /\ MessageGood(p[h[i]], s, d, x[i].tag, x[i].payload)
  <2>1. CASE i = n + 1
    BY <1>2, <1>3, <1>4, <1>5, <2>1
  <2>2. CASE i \in 1 .. n
    <3>1. f[i] \in U[w[i].tag] /\ MessageGood(p[f[i]], s, d, w[i].tag, w[i].payload)
      BY <2>2 DEF Tracks
    <3>. QED  BY <1>2, <1>3, <1>4, <1>5, <2>2, <3>1
  <2>. QED  BY <1>6, <2>1, <2>2
<1>9. ASSUME NEW i \in 1 .. n + 1, NEW j \in 1 .. n + 1, i < j, x[i].tag = x[j].tag
      PROVE  h[i] < h[j]
  <2>1. i \in 1 .. n
    BY <1>1, <1>9
  <2>2. CASE j = n + 1
    <3>1. w[i].tag = m.tag
      BY <1>3, <1>9, <2>1, <2>2
    <3>2. f[i] \in U[m.tag]
      BY <2>1, <3>1 DEF Tracks
    <3>. QED  BY <1>2, <2>1, <2>2, <3>2
  <2>3. CASE j \in 1 .. n
    <3>1. f[i] < f[j]
      BY <1>3, <1>9, <2>1, <2>3 DEF Tracks
    <3>. QED  BY <1>2, <2>1, <2>3, <3>1
  <2>. QED  BY <1>6, <2>2, <2>3
<1>10. ASSUME NEW g \in Tags, NEW l \in V[g]
       PROVE  \E i \in 1 .. n + 1 : x[i].tag = g /\ h[i] = l
  <2>1. CASE l \in U[g]
    <3>1. PICK i \in 1 .. n : w[i].tag = g /\ f[i] = l
      BY <2>1 DEF Tracks
    <3>. QED  BY <1>2, <1>3, <1>7, <3>1
  <2>2. CASE g = m.tag /\ l = k
    BY <1>2, <1>3, <1>7, <2>2
  <2>. QED  BY <1>5, <1>10, <2>1, <2>2
<1>. QED  BY <1>2, <1>3, <1>8, <1>9, <1>10 DEF Tracks, V, h, x

\* The first message of a tag is that of the first of the calls, and is taken off.
LEMMA TrackRemove ==
  ASSUME NEW s \in Rank, NEW d \in Rank, NEW p, NEW U \in [Tags -> SUBSET Nat],
         NEW w \in Seq(Message), NEW f, Tracks(f, w, U, p, s, d), NEW g \in Tags,
         NEW b, IsFirst(b, w, g)
  PROVE  /\ f[b] \in U[g] /\ MessageGood(p[f[b]], s, d, g, w[b].payload)
         /\ \A k \in U[g] : f[b] <= k
         /\ Tracks(RemoveAt(f, b), RemoveAt(w, b), [U EXCEPT ![g] = @ \ {f[b]}], p, s, d)
<1> DEFINE V == [U EXCEPT ![g] = @ \ {f[b]}]
           h == RemoveAt(f, b)
           x == RemoveAt(w, b)
           n == Len(w)
<1>0. b \in 1 .. n /\ w[b].tag = g /\ \A i \in 1 .. n : w[i].tag = g => b <= i
  BY DEF IsFirst
<1>1. f \in Seq(Nat) /\ Len(f) = n /\ n \in Nat /\ b \in Nat
  BY <1>0, LenProperties DEF Tracks
<1>2. h \in Seq(Nat) /\ Len(h) = n - 1 /\ \A k \in 1 .. n - 1 : h[k] = IF k < b THEN f[k] ELSE f[k + 1]
  <2>1. b \in 1 .. Len(f)
    BY <1>0, <1>1
  <2>2. /\ h \in Seq(Nat) /\ Len(h) = Len(f) - 1
        /\ \A k \in 1 .. Len(f) - 1 : h[k] = IF k < b THEN f[k] ELSE f[k + 1]
    BY <1>1, <2>1, RemoveAtElements
  <2>. QED  BY <1>1, <2>2
<1>3. x \in Seq(Message) /\ Len(x) = n - 1 /\ \A k \in 1 .. n - 1 : x[k] = IF k < b THEN w[k] ELSE w[k + 1]
  BY <1>0, RemoveAtElements
<1>4. \A i \in 1 .. n : w[i].tag \in Tags /\ f[i] \in Nat
  <2>1. \A i \in 1 .. n : w[i] \in Message
    BY ElementOfSeq
  <2>2. \A i \in 1 .. Len(f) : f[i] \in Nat
    BY <1>1, ElementOfSeq
  <2>. QED  BY <1>1, <2>1, <2>2 DEF Message
<1>5. \A a \in Tags : V[a] = IF a = g THEN U[a] \ {f[b]} ELSE U[a]
  OBVIOUS
<1> HIDE DEF V, h, x
<1> DEFINE Old(k) == IF k < b THEN k ELSE k + 1
<1>6. ASSUME NEW k \in 1 .. n - 1
      PROVE  /\ Old(k) \in 1 .. n /\ Old(k) # b
             /\ h[k] = f[Old(k)] /\ x[k] = w[Old(k)]
  <2>1. h[k] = (IF k < b THEN f[k] ELSE f[k + 1]) /\ x[k] = IF k < b THEN w[k] ELSE w[k + 1]
    BY <1>2, <1>3
  <2>2. k \in Nat /\ 1 <= k /\ k <= n - 1
    BY <1>1, <1>6
  <2>3. Old(k) \in 1 .. n /\ Old(k) # b
    BY <1>0, <1>1, <2>2
  <2>. QED  BY <2>1, <2>3
<1>7. ASSUME NEW i \in 1 .. n - 1, NEW j \in 1 .. n - 1, i < j PROVE Old(i) < Old(j)
  BY <1>1, <1>7
<1>8. ASSUME NEW i \in 1 .. n, i # b PROVE \E k \in 1 .. n - 1 : Old(k) = i
  <2>1. CASE i < b
    <3>1. i \in 1 .. n - 1
      BY <1>0, <1>1, <2>1
    <3>. QED  BY <2>1, <3>1
  <2>2. CASE i > b
    <3>1. i - 1 \in 1 .. n - 1 /\ ~ (i - 1 < b) /\ (i - 1) + 1 = i
      BY <1>0, <1>1, <2>2
    <3>. QED  BY <3>1
  <2>. QED  BY <1>1, <1>8, <2>1, <2>2
<1> HIDE DEF Old
<1>9. /\ \A i \in 1 .. n : f[i] \in U[w[i].tag] /\ MessageGood(p[f[i]], s, d, w[i].tag, w[i].payload)
      /\ \A i, j \in 1 .. n : i < j /\ w[i].tag = w[j].tag => f[i] < f[j]
      /\ \A a \in Tags : \A k \in U[a] : \E i \in 1 .. n : w[i].tag = a /\ f[i] = k
  BY DEF Tracks
<1>10. ASSUME NEW i \in 1 .. n, i # b, w[i].tag = g PROVE f[b] < f[i]
  <2>1. b < i
    BY <1>0, <1>1, <1>10
  <2>. QED  BY <1>0, <1>9, <1>10, <2>1
<1>11. ASSUME NEW k \in U[g] PROVE f[b] <= k
  <2>1. PICK i \in 1 .. n : w[i].tag = g /\ f[i] = k
    BY <1>9
  <2>2. CASE i = b
    BY <1>0, <1>4, <2>1, <2>2
  <2>3. CASE i # b
    <3>1. f[b] < f[i]
      BY <1>10, <2>1, <2>3
    <3>. QED  BY <1>0, <1>4, <2>1, <3>1
  <2>. QED  BY <2>2, <2>3
<1>12. ASSUME NEW k \in 1 .. n - 1
       PROVE  h[k] \in V[x[k].tag] /\ MessageGood(p[h[k]], s, d, x[k].tag, x[k].payload)
  <2> DEFINE i == Old(k)
  <2>1. i \in 1 .. n /\ i # b /\ h[k] = f[i] /\ x[k] = w[i]
    BY <1>6
  <2> HIDE DEF i
  <2>2. f[i] \in U[w[i].tag] /\ MessageGood(p[f[i]], s, d, w[i].tag, w[i].payload)
    BY <1>9, <2>1
  <2>3. w[i].tag = g => f[i] # f[b]
    <3>1. w[i].tag = g => f[b] < f[i]
      BY <1>10, <2>1
    <3>. QED  BY <1>0, <1>4, <2>1, <3>1
  <2>. QED  BY <1>0, <1>4, <1>5, <2>1, <2>2, <2>3
<1>13. ASSUME NEW i \in 1 .. n - 1, NEW j \in 1 .. n - 1, i < j, x[i].tag = x[j].tag
       PROVE  h[i] < h[j]
  <2>1. Old(i) \in 1 .. n /\ Old(j) \in 1 .. n /\ Old(i) < Old(j)
    BY <1>6, <1>7, <1>13
  <2>2. h[i] = f[Old(i)] /\ x[i] = w[Old(i)] /\ h[j] = f[Old(j)] /\ x[j] = w[Old(j)]
    BY <1>6
  <2>3. f[Old(i)] < f[Old(j)]
    BY <1>9, <1>13, <2>1, <2>2
  <2>. QED  BY <2>2, <2>3
<1>14. ASSUME NEW a \in Tags, NEW l \in V[a]
       PROVE  \E k \in 1 .. n - 1 : x[k].tag = a /\ h[k] = l
  <2>1. l \in U[a] /\ (a = g => l # f[b])
    BY <1>5, <1>14
  <2>2. PICK i \in 1 .. n : w[i].tag = a /\ f[i] = l
    BY <1>9, <2>1
  <2>3. i # b
    BY <1>0, <2>1, <2>2
  <2>4. PICK k \in 1 .. n - 1 : Old(k) = i
    BY <1>8, <2>3
  <2>. QED  BY <1>6, <2>2, <2>4
<1>15. Tracks(h, x, V, p, s, d)
  BY <1>2, <1>3, <1>12, <1>13, <1>14 DEF Tracks
<1>. QED  BY <1>0, <1>9, <1>11, <1>15 DEF V, h, x

\* The calls whose message from s to d is under way, for each tag.
Pending(s, d) == [g \in Tags |-> PassedIn(s, Outgoing(d, g)) \ PassedIn(d, Incoming(s, g))]

\* Every message on the wire is a good message of one of these calls, in their order.
Tracked(s, d) == \E f : Tracks(f, wire[<<s, d>>], Pending(s, d), program, s, d)
WireInv == \A s, d \in Rank : Tracked(s, d)

\* Without buffering nothing is on the wire inside a cluster.
Unbuffered == ~ eager => \A s, d \in Rank : IsLocal(s, d) => wire[<<s, d>>] = << >>

\* A member that passes a step of its call has passed one message more if it is one.
LEMMA MoveGrows ==
  ASSUME IInv, Balanced, NEW r \in Rank, UNCHANGED program, Moves(r), NEW q \in Rank, NEW g \in Tags
  PROVE  LET O == Outgoing(q, g)
             I == Incoming(q, g)
         IN  /\ PassedIn(r, O)' = PassedIn(r, O) \cup (IF Now(r) \in O THEN {done[r] + 1} ELSE {})
             /\ Now(r) \in O => done[r] + 1 \notin PassedIn(r, O)
             /\ PassedIn(r, I)' = PassedIn(r, I) \cup (IF Now(r) \in I THEN {done[r] + 1} ELSE {})
             /\ Now(r) \in I => done[r] + 1 \notin PassedIn(r, I)
<1>1. \A c \in Call : Num(Steps(c, r), Outgoing(q, g)) \in {0, 1} /\ Num(Steps(c, r), Incoming(q, g)) \in {0, 1}
  BY DEF Balanced
<1>2. InCall(r) /\ ~ AtEnd(r) /\ done'[r] = done[r] /\ step'[r] = step[r] + 1
  BY DEF Moves
<1>3. \A M : (\A c \in Call : Num(Steps(c, r), M) \in {0, 1}) =>
        /\ PassedIn(r, M)' = PassedIn(r, M) \cup (IF Now(r) \in M THEN {done[r] + 1} ELSE {})
        /\ Now(r) \in M => done[r] + 1 \notin PassedIn(r, M)
  BY <1>2, PassedGrows
<1> DEFINE O == Outgoing(q, g)
           I == Incoming(q, g)
<1>4. \A c \in Call : Num(Steps(c, r), O) \in {0, 1}
  BY <1>1
<1>5. \A c \in Call : Num(Steps(c, r), I) \in {0, 1}
  BY <1>1
<1> HIDE DEF O, I
<1>6. /\ PassedIn(r, O)' = PassedIn(r, O) \cup (IF Now(r) \in O THEN {done[r] + 1} ELSE {})
      /\ Now(r) \in O => done[r] + 1 \notin PassedIn(r, O)
      /\ PassedIn(r, I)' = PassedIn(r, I) \cup (IF Now(r) \in I THEN {done[r] + 1} ELSE {})
      /\ Now(r) \in I => done[r] + 1 \notin PassedIn(r, I)
  BY <1>3, <1>4, <1>5
<1>. QED  BY <1>6 DEF O, I

\* The calls under way are calls of the program.
LEMMA PendingType ==
  ASSUME IInv, NEW s \in Rank, NEW d \in Rank
  PROVE  /\ Pending(s, d) \in [Tags -> SUBSET Nat]
         /\ \A g \in Tags : Pending(s, d)[g] \in SUBSET (1 .. Len(program))
<1>1. \A g \in Tags : PassedIn(s, Outgoing(d, g)) \in SUBSET (1 .. Len(program))
  BY DEF PassedIn
<1>2. 1 .. Len(program) \subseteq Nat
  BY ProgramAssumption, LenProperties DEF IInv, TypeInv
<1>. QED  BY <1>1, <1>2 DEF Pending

\* What a member has passed stays when it passes nothing of the kind.
LEMMA PassedSame ==
  ASSUME IInv, Balanced, UNCHANGED program, NEW r \in Rank, NEW q \in Rank, NEW g \in Tags
  PROVE  /\ Rests(r) \/ (Moves(r) /\ Now(r) \notin Outgoing(q, g)) =>
              PassedIn(r, Outgoing(q, g))' = PassedIn(r, Outgoing(q, g))
         /\ Rests(r) \/ (Moves(r) /\ Now(r) \notin Incoming(q, g)) =>
              PassedIn(r, Incoming(q, g))' = PassedIn(r, Incoming(q, g))
<1>1. ASSUME Rests(r)
      PROVE  /\ PassedIn(r, Outgoing(q, g))' = PassedIn(r, Outgoing(q, g))
             /\ PassedIn(r, Incoming(q, g))' = PassedIn(r, Incoming(q, g))
  <2>1. \A M : PassedIn(r, M)' = PassedIn(r, M)
    BY <1>1, PassedKept DEF Rests
  <2>. QED  BY <2>1
<1>2. ASSUME Moves(r)
      PROVE  /\ Now(r) \notin Outgoing(q, g) => PassedIn(r, Outgoing(q, g))' = PassedIn(r, Outgoing(q, g))
             /\ Now(r) \notin Incoming(q, g) => PassedIn(r, Incoming(q, g))' = PassedIn(r, Incoming(q, g))
  <2>1. PassedIn(r, Outgoing(q, g))'
          = PassedIn(r, Outgoing(q, g)) \cup (IF Now(r) \in Outgoing(q, g) THEN {done[r] + 1} ELSE {})
    BY <1>2, MoveGrows
  <2>2. PassedIn(r, Incoming(q, g))'
          = PassedIn(r, Incoming(q, g)) \cup (IF Now(r) \in Incoming(q, g) THEN {done[r] + 1} ELSE {})
    BY <1>2, MoveGrows
  <2>. QED  BY <2>1, <2>2
<1>. QED  BY <1>1, <1>2

\* A pair of members of which neither moves a message to the other.
LEMMA TrackedIdle ==
  ASSUME IInv, Balanced, UNCHANGED program, NEW s \in Rank, NEW d \in Rank,
         Rests(s) \/ (Moves(s) /\ \A g \in Tags : Now(s) \notin Outgoing(d, g)),
         Rests(d) \/ (Moves(d) /\ \A g \in Tags : Now(d) \notin Incoming(s, g)),
         wire'[<<s, d>>] = wire[<<s, d>>], Tracked(s, d)
  PROVE  Tracked(s, d)'
<1>1. ASSUME NEW g \in Tags PROVE PassedIn(s, Outgoing(d, g))' = PassedIn(s, Outgoing(d, g))
  BY PassedSame
<1>2. ASSUME NEW g \in Tags PROVE PassedIn(d, Incoming(s, g))' = PassedIn(d, Incoming(s, g))
  BY PassedSame
<1>3. Pending(s, d)' = Pending(s, d)
  BY <1>1, <1>2 DEF Pending
<1>. QED  BY <1>3 DEF Tracked

\* A step in which no message moves.
LEMMA WireQuiet ==
  ASSUME IInv, Balanced, WireInv, UNCHANGED <<program, wire>>,
         \A q \in Rank : \/ Rests(q)
                         \/ Moves(q) /\ Now(q) \in LocalCall
  PROVE  WireInv'
<1> SUFFICES ASSUME NEW s \in Rank, NEW d \in Rank PROVE Tracked(s, d)'
  BY DEF WireInv
<1>1. Tracked(s, d)
  BY DEF WireInv
<1>2. \A q \in Rank, g \in Tags : \A x \in LocalCall : x \notin Outgoing(q, g) /\ x \notin Incoming(q, g)
  BY MessageKinds
<1>3. Rests(s) \/ (Moves(s) /\ \A g \in Tags : Now(s) \notin Outgoing(d, g))
  BY <1>2
<1>4. Rests(d) \/ (Moves(d) /\ \A g \in Tags : Now(d) \notin Incoming(s, g))
  BY <1>2
<1>. QED  BY <1>1, <1>3, <1>4, TrackedIdle

\* The buffers of the members in a call.
Holding(r) == InCall(r) => ValueGood(Current(r), r, step[r], value[r])

\* The message a member sends is a good one of its call, which is later than those
\* under way.
LEMMA PayloadGood ==
  ASSUME InOrder, Grouped, IInv, NEW r \in Rank, Holding(r), InCall(r), ~ AtEnd(r), Now(r).do = "send"
  PROVE  MessageGood(Current(r), r, Now(r).peer, Now(r).tag, Payload(r))
<1> DEFINE c == Current(r)
           i == step[r]
<1>1. TypeInv /\ PlaceInv
  BY DEF IInv
<1>2. c \in Call /\ i \in 1 .. Len(Steps(c, r)) /\ Now(r) = Steps(c, r)[i] /\ Now(r) \in Talk
  BY <1>1, NowLemma
<1>3. Now(r).peer \in Rank /\ Now(r).tag \in Tags
  BY <1>2, Kinds
<1>4. Now(r) \in Outgoing(Now(r).peer, Now(r).tag)
  BY <1>2 DEF Outgoing
<1>5. value[r] \in Value /\ ValueGood(c, r, i, value[r])
  BY <1>1 DEF TypeInv, Holding
<1> HIDE DEF c, i
<1>6. MessageGood(c, r, Now(r).peer, Now(r).tag,
                  IF Now(r).own THEN Contribution(c, r) ELSE [value[r] EXCEPT !.parts = @ \cap Now(r).what])
  BY <1>2, <1>3, <1>4, <1>5, SendComplete
<1>. QED  BY <1>6 DEF Payload, c

\* A message joins the wire.
LEMMA WireSend ==
  ASSUME InOrder, Grouped, IInv, FlowInv, WireInv, NEW r \in Rank, Holding(r), SendMessage(r)
  PROVE  WireInv'
<1> DEFINE x == Now(r)
<1>1. TypeInv /\ PlaceInv /\ Balanced
  BY BalancedHolds DEF IInv
<1>2. /\ InCall(r) /\ ~ AtEnd(r) /\ x.do = "send"
      /\ wire' = [wire EXCEPT ![<<r, x.peer>>] = Append(@, [tag |-> x.tag, payload |-> Payload(r)])]
      /\ step' = [step EXCEPT ![r] = @ + 1]
      /\ UNCHANGED <<program, done>>
  BY DEF SendMessage, IsAt
<1>3. x \in Talk /\ x.peer \in Rank /\ x.tag \in Tags /\ done[r] + 1 \in Nat
  BY <1>1, <1>2, NowLemma, Kinds
<1>4. PICK d0 \in Rank, t \in Tags, k \in Nat : d0 = x.peer /\ t = x.tag /\ k = done[r] + 1
  BY <1>3
<1> DEFINE m == [tag |-> t, payload |-> Payload(r)]
           U == Pending(r, d0)
<1>5. wire' = [wire EXCEPT ![<<r, d0>>] = Append(@, m)]
  BY <1>2, <1>4
<1>6. Moves(r) /\ \A q \in Rank \ {r} : Rests(q)
  BY <1>1, <1>2 DEF Moves, Rests, TypeInv
<1>7. \A q \in Rank, g \in Tags : x \notin Incoming(q, g) /\ (x \in Outgoing(q, g) <=> q = d0 /\ g = t)
  BY <1>2, <1>3, <1>4 DEF Incoming, Outgoing
<1> SUFFICES ASSUME NEW s \in Rank, NEW d \in Rank PROVE Tracked(s, d)'
  BY DEF WireInv
<1>8. Tracked(s, d)
  BY DEF WireInv
<1>9. CASE <<s, d>> # <<r, d0>>
  <2>1. wire'[<<s, d>>] = wire[<<s, d>>]
    BY <1>1, <1>9, <1>5 DEF TypeInv
  <2>2. Rests(s) \/ (Moves(s) /\ \A g \in Tags : Now(s) \notin Outgoing(d, g))
    BY <1>6, <1>7, <1>9
  <2>3. Rests(d) \/ (Moves(d) /\ \A g \in Tags : Now(d) \notin Incoming(s, g))
    BY <1>6, <1>7
  <2>. QED  BY <1>1, <1>2, <1>8, <2>1, <2>2, <2>3, TrackedIdle
<1>10. CASE s = r /\ d = d0
  <2>1. PICK f : Tracks(f, wire[<<r, d0>>], U, program, r, d0)
    BY <1>8, <1>10 DEF Tracked
  <2>2. wire[<<r, d0>>] \in Seq(Message) /\ wire'[<<r, d0>>] = Append(wire[<<r, d0>>], m)
    BY <1>1, <1>5 DEF TypeInv
  <2>3. Payload(r) \in Value /\ m \in Message
    BY <1>1, <1>2, <1>3, PayloadType DEF Message
  <2>4. program[k] = Current(r) /\ k \in 1 .. Len(program)
    BY <1>1, <1>2, <1>4, NowLemma, LenProperties
  <2>5. MessageGood(program[k], r, d0, t, Payload(r))
    BY <1>2, <1>4, <2>4, PayloadGood
  <2> DEFINE S(g) == PassedIn(r, Outgoing(d0, g))
             R(g) == PassedIn(d0, Incoming(r, g))
  <2>6. \A g \in Tags : S(g)' = S(g) \cup (IF g = t THEN {k} ELSE {})
    <3>1. \A g \in Tags : S(g)' = S(g) \cup (IF x \in Outgoing(d0, g) THEN {k} ELSE {})
      BY <1>1, <1>2, <1>6, <1>4, MoveGrows
    <3>. QED  BY <1>7, <3>1
  <2>7. k \notin S(t)
    BY <1>1, <1>2, <1>6, <1>7, <1>4, MoveGrows
  <2>8. \A g \in Tags : R(g)' = R(g)
    BY <1>1, <1>2, <1>6, <1>7, PassedSame
  <2>9. k \notin R(t)
    BY <1>1, <1>3, <2>7, ReceivedSent
  <2>10. U \in [Tags -> SUBSET Nat] /\ U[t] = S(t) \ R(t) /\ U[t] \in SUBSET (1 .. Len(program))
    BY <1>3, PendingType DEF Pending
  <2>11. \A j \in U[t] : j < k
    <3>1. ASSUME NEW j \in U[t] PROVE j < k
      <4>1. j \in 1 .. Len(program) /\ j \in S(t)
        BY <2>10
      <4>2. j <= done[r] + 1
        BY <1>1, <4>1, PassedMessages
      <4>3. j # k
        BY <2>7, <4>1
      <4>. QED  BY <1>1, <1>4, <4>1, <4>2, <4>3 DEF TypeInv
    <3>. QED  BY <3>1
  <2>12. Pending(r, d0)' = [U EXCEPT ![t] = @ \cup {k}]
    <3>1. U = [g \in Tags |-> S(g) \ R(g)]
      BY DEF Pending
    <3>2. Pending(r, d0)' = [g \in Tags |-> (S(g) \ R(g)) \cup (IF g = t THEN {k} ELSE {})]
      <4>1. Pending(r, d0)' = [g \in Tags |-> PassedIn(r, Outgoing(d, g))' \ PassedIn(d, Incoming(r, g))']
        BY <1>2, <1>10 DEF Pending
      <4>2. \A g \in Tags : PassedIn(r, Outgoing(d, g))' \ PassedIn(d, Incoming(r, g))'
                              = (S(g) \ R(g)) \cup (IF g = t THEN {k} ELSE {})
        BY <1>10, <2>6, <2>8, <2>9
      <4>. QED  BY <4>1, <4>2
    <3> HIDE DEF S, R, U
    <3>. QED  BY <1>3, <3>1, <3>2
  <2> HIDE DEF U, S, R
  <2>13. m.tag = t /\ m.payload = Payload(r)
    OBVIOUS
  <2> HIDE DEF m
  <2>14. Tracks(Append(f, k), Append(wire[<<r, d0>>], m), [U EXCEPT ![t] = @ \cup {k}], program, r, d0)
    BY <2>1, <2>2, <2>3, <2>4, <2>5, <2>10, <2>11, <2>13, TrackAppend
  <2>15. \E h : Tracks(h, wire'[<<r, d0>>], Pending(r, d0)', program', r, d0)
    BY <1>2, <2>2, <2>12, <2>14
  <2>. QED  BY <1>10, <2>15 DEF Tracked
<1>. QED  BY <1>9, <1>10

\* The message a member at a receive takes off the wire.
FirstFit(r) ==
  First({ i \in DOMAIN wire[<<Now(r).peer, r>>] : wire[<<Now(r).peer, r>>][i].tag = Now(r).tag })
Arriving(r) == wire[<<Now(r).peer, r>>][FirstFit(r)].payload

\* A message leaves the wire: it is of the call its receiver is in.
LEMMA WireReceive ==
  ASSUME InOrder, Grouped, IInv, FlowInv, WireInv, NEW r \in Rank, ReceiveMessage(r)
  PROVE  /\ WireInv'
         /\ Arriving(r) \in Value
         /\ MessageGood(Current(r), Now(r).peer, r, Now(r).tag, Arriving(r))
<1> DEFINE x == Now(r)
<1>1. TypeInv /\ PlaceInv /\ Balanced
  BY BalancedHolds DEF IInv
<1>2. /\ InCall(r) /\ ~ AtEnd(r) /\ x.do = "receive"
      /\ { i \in DOMAIN wire[<<x.peer, r>>] : wire[<<x.peer, r>>][i].tag = x.tag } # {}
      /\ wire' = [wire EXCEPT ![<<x.peer, r>>] = RemoveAt(@, FirstFit(r))]
      /\ step' = [step EXCEPT ![r] = @ + 1]
      /\ UNCHANGED <<program, done>>
  BY DEF ReceiveMessage, IsAt, FirstFit
<1>3. x \in Talk /\ x.peer \in Rank /\ x.tag \in Tags /\ done[r] + 1 \in Nat
  BY <1>1, <1>2, NowLemma, Kinds
<1>4. Moves(r) /\ \A q \in Rank \ {r} : Rests(q)
  BY <1>1, <1>2 DEF Moves, Rests, TypeInv
<1>5. PICK s0 \in Rank, t \in Tags, k \in Nat : s0 = x.peer /\ t = x.tag /\ k = done[r] + 1
  BY <1>3
<1>6. \A q \in Rank, g \in Tags : x \notin Outgoing(q, g) /\ (x \in Incoming(q, g) <=> q = s0 /\ g = t)
  BY <1>2, <1>3, <1>5 DEF Incoming, Outgoing
<1> DEFINE w == wire[<<s0, r>>]
           fits == { i \in DOMAIN w : w[i].tag = t }
<1>7. w \in Seq(Message) /\ DOMAIN w = 1 .. Len(w) /\ Len(w) \in Nat
  BY <1>1, LenProperties DEF TypeInv
<1>8. PICK b \in 1 .. Len(w) : b = FirstFit(r) /\ w[b].tag = t /\ \A i \in 1 .. Len(w) : w[i].tag = t => b <= i
  <2>1. fits # {} /\ FirstFit(r) = First(fits)
    BY <1>2, <1>5 DEF FirstFit
  <2>2. fits \in SUBSET Nat
    BY <1>7
  <2>3. First(fits) \in fits /\ \A i \in fits : First(fits) <= i
    <3> HIDE DEF fits
    <3>. QED  BY <2>1, <2>2, FirstLemma
  <2>. QED  BY <1>7, <2>1, <2>3
<1>9. wire' = [wire EXCEPT ![<<s0, r>>] = RemoveAt(@, b)]
  BY <1>2, <1>5, <1>8
<1>10. Arriving(r) = w[b].payload /\ Arriving(r) \in Value
  <2>1. Arriving(r) = w[b].payload
    BY <1>5, <1>8 DEF Arriving
  <2>2. w[b] \in Message
    BY <1>7, <1>8, ElementOfSeq
  <2>. QED  BY <2>1, <2>2 DEF Message
<1> DEFINE S(g) == PassedIn(s0, Outgoing(r, g))
           R(g) == PassedIn(r, Incoming(s0, g))
           U == Pending(s0, r)
<1>11. U \in [Tags -> SUBSET Nat] /\ U[t] = S(t) \ R(t) /\ U[t] \in SUBSET (1 .. Len(program))
  BY <1>5, PendingType DEF Pending
<1>12. PICK f : Tracks(f, w, U, program, s0, r)
  BY DEF WireInv, Tracked
<1> HIDE DEF U, w
<1>13. /\ f[b] \in U[t] /\ MessageGood(program[f[b]], s0, r, t, w[b].payload)
       /\ \A j \in U[t] : f[b] <= j
       /\ Tracks(RemoveAt(f, b), RemoveAt(w, b), [U EXCEPT ![t] = @ \ {f[b]}], program, s0, r)
  <2>1. IsFirst(b, w, t)
    BY <1>8 DEF IsFirst
  <2>. QED  BY <1>7, <1>11, <1>12, <2>1, TrackRemove
<1>14. k \in 1 .. Len(program) /\ program[k] = Current(r) /\ Len(program) \in Nat
  BY <1>1, <1>2, <1>5, NowLemma, LenProperties
<1>15. HasMessage(program[k], s0, r, t)
  <2>1. /\ Current(r) \in Call /\ step[r] \in 1 .. Len(Steps(Current(r), r))
        /\ Steps(Current(r), r)[step[r]] = x
    BY <1>1, <1>2, NowLemma
  <2>2. x \in Incoming(s0, t)
    BY <1>6
  <2>. QED  BY <1>1, <1>14, <2>1, <2>2, HasStep
<1>16. k \notin R(t)
  BY <1>1, <1>2, <1>4, <1>5, <1>6, MoveGrows
<1>17. f[b] = k
  <2> DEFINE j == f[b]
  <2>1. j \in S(t) /\ j \notin R(t) /\ j \in 1 .. Len(program)
    BY <1>11, <1>13
  <2>2. HasMessage(program[j], s0, r, t) /\ j <= done[s0] + 1
    BY <1>1, <2>1, PassedMessages
  <2>3. ~ (j <= done[r])
    BY <1>1, <2>1, <2>2, PassedMessages
  <2>4. ~ (k < j)
    <3>1. SUFFICES ASSUME k < j PROVE FALSE
      OBVIOUS
    <3>2. k <= done[s0]
      BY <1>1, <1>14, <2>1, <2>2, <3>1 DEF TypeInv
    <3>3. k \in S(t)
      BY <1>1, <1>14, <1>15, <3>2, PassedMessages
    <3>4. j <= k
      BY <1>11, <1>13, <1>16, <3>3
    <3>. QED  BY <1>14, <2>1, <3>1, <3>4
  <2>5. done[r] \in Nat
    BY <1>1 DEF TypeInv
  <2> HIDE DEF j
  <2>6. j = k
    BY <1>5, <1>14, <2>1, <2>3, <2>4, <2>5
  <2>. QED  BY <2>6 DEF j
<1>18. MessageGood(Current(r), x.peer, r, x.tag, Arriving(r))
  BY <1>5, <1>10, <1>13, <1>14, <1>17
<1>19. ASSUME NEW s \in Rank, NEW d \in Rank PROVE Tracked(s, d)'
  <2>1. Tracked(s, d)
    BY DEF WireInv
  <2>2. CASE <<s, d>> # <<s0, r>>
    <3>1. wire'[<<s, d>>] = wire[<<s, d>>]
      BY <1>1, <1>9, <2>2 DEF TypeInv
    <3>2. Rests(s) \/ (Moves(s) /\ \A g \in Tags : Now(s) \notin Outgoing(d, g))
      BY <1>4, <1>6
    <3>3. Rests(d) \/ (Moves(d) /\ \A g \in Tags : Now(d) \notin Incoming(s, g))
      BY <1>4, <1>6, <2>2
    <3>. QED  BY <1>1, <1>2, <2>1, <3>1, <3>2, <3>3, TrackedIdle
  <2>3. CASE s = s0 /\ d = r
    <3>1. \A g \in Tags : R(g)' = R(g) \cup (IF g = t THEN {k} ELSE {})
      <4>1. \A g \in Tags : R(g)' = R(g) \cup (IF x \in Incoming(s0, g) THEN {k} ELSE {})
        BY <1>1, <1>2, <1>4, <1>5, MoveGrows
      <4>. QED  BY <1>6, <4>1
    <3>2. \A g \in Tags : S(g)' = S(g)
      BY <1>1, <1>2, <1>4, <1>6, PassedSame
    <3>3. Pending(s0, r)' = [U EXCEPT ![t] = @ \ {k}]
      <4>1. U = [g \in Tags |-> S(g) \ R(g)]
        BY DEF Pending, U
      <4>2. Pending(s0, r)' = [g \in Tags |-> PassedIn(s0, Outgoing(r, g))' \ PassedIn(r, Incoming(s0, g))']
        BY DEF Pending
      <4>3. \A g \in Tags : PassedIn(s0, Outgoing(r, g))' \ PassedIn(r, Incoming(s0, g))'
                              = (S(g) \ R(g)) \ (IF g = t THEN {k} ELSE {})
        BY <3>1, <3>2
      <4> HIDE DEF S, R
      <4>4. [U EXCEPT ![t] = @ \ {k}] = [g \in Tags |-> (S(g) \ R(g)) \ (IF g = t THEN {k} ELSE {})]
        BY <4>1
      <4>. QED  BY <4>2, <4>3, <4>4
    <3>4. wire'[<<s0, r>>] = RemoveAt(w, b)
      BY <1>1, <1>9 DEF TypeInv, w
    <3>5. \E h : Tracks(h, wire'[<<s0, r>>], Pending(s0, r)', program', s0, r)
      BY <1>2, <1>13, <1>17, <3>3, <3>4
    <3>. QED  BY <2>3, <3>5 DEF Tracked
  <2>. QED  BY <2>2, <2>3
<1>. QED  BY <1>10, <1>18, <1>19 DEF WireInv

\* Nothing on the wire is no call under way.
LEMMA TrackNothing ==
  ASSUME NEW s \in Rank, NEW d \in Rank, NEW p, NEW U \in [Tags -> SUBSET Nat]
  PROVE  (\E f : Tracks(f, << >>, U, p, s, d)) <=> \A g \in Tags : U[g] = {}
<1>1. Len(<< >>) = 0 /\ << >> \in Seq(Nat) /\ 1 .. 0 = {}
  OBVIOUS
<1>2. ASSUME NEW f, Tracks(f, << >>, U, p, s, d), NEW g \in Tags PROVE U[g] = {}
  BY <1>1, <1>2 DEF Tracks
<1>3. ASSUME \A g \in Tags : U[g] = {} PROVE Tracks(<< >>, << >>, U, p, s, d)
  BY <1>1, <1>3 DEF Tracks
<1>. QED  BY <1>2, <1>3

\* Without buffering a message is handed over in the same call of both: were one of the
\* members further, it would have passed the call of the other.
LEMMA WireRendezvous ==
  ASSUME InOrder, Grouped, IInv, FlowInv, WireInv, Unbuffered, NEW r \in Rank, NEW q \in Rank,
         Holding(r), Rendezvous(r, q)
  PROVE  /\ WireInv'
         /\ MessageGood(Current(q), r, q, Now(q).tag, Payload(r))
<1>1. TypeInv /\ PlaceInv /\ Balanced
  BY BalancedHolds DEF IInv
<1>2. /\ ~ eager /\ IsLocal(r, q)
      /\ InCall(r) /\ ~ AtEnd(r) /\ Now(r).do = "send" /\ Now(r).peer = q
      /\ InCall(q) /\ ~ AtEnd(q) /\ Now(q).do = "receive" /\ Now(q).peer = r
      /\ Now(q).tag = Now(r).tag
      /\ step'  = [step EXCEPT ![r] = @ + 1, ![q] = @ + 1]
      /\ UNCHANGED <<program, done, wire>>
  BY DEF Rendezvous, IsAt
<1>3. Now(r) \in Talk /\ Now(q) \in Talk /\ r # q /\ Now(r).tag \in Tags
      /\ done[r] + 1 \in Nat /\ done[q] + 1 \in Nat
  <2>1. Now(r) \in Talk /\ Now(q) \in Talk
    BY <1>1, <1>2, NowLemma
  <2>2. r # q
    BY <1>2
  <2>3. Now(r).tag \in Tags
    BY <2>1, Kinds
  <2>4. done \in [Rank -> Nat]
    BY <1>1 DEF TypeInv
  <2>. QED  BY <2>1, <2>2, <2>3, <2>4
<1>4. step'[r] = step[r] + 1 /\ step'[q] = step[q] + 1
      /\ \A m \in Rank \ {r, q} : step'[m] = step[m]
  <2>1. step \in [Rank -> Nat]
    BY <1>1 DEF TypeInv
  <2> DEFINE half == [step EXCEPT ![r] = @ + 1]
  <2>2. half \in [Rank -> Nat] /\ half[r] = step[r] + 1 /\ \A m \in Rank \ {r} : half[m] = step[m]
    BY <2>1
  <2>3. step' = [half EXCEPT ![q] = @ + 1]
    BY <1>2
  <2> HIDE DEF half
  <2>4. step'[q] = half[q] + 1 /\ \A m \in Rank \ {q} : step'[m] = half[m]
    BY <2>2, <2>3
  <2>. QED  BY <1>3, <2>2, <2>4
<1>5. Moves(r) /\ Moves(q) /\ \A m \in Rank \ {r, q} : Rests(m)
  BY <1>2, <1>4 DEF Moves, Rests
<1>6. PICK t \in Tags, k \in Nat, l \in Nat : t = Now(r).tag /\ k = done[r] + 1 /\ l = done[q] + 1
  BY <1>3
<1>7. /\ \A d \in Rank, g \in Tags : Now(r) \in Outgoing(d, g) <=> d = q /\ g = t
      /\ \A d \in Rank, g \in Tags : Now(r) \notin Incoming(d, g) /\ Now(q) \notin Outgoing(d, g)
      /\ \A d \in Rank, g \in Tags : Now(q) \in Incoming(d, g) <=> d = r /\ g = t
  BY <1>2, <1>3, <1>6 DEF Incoming, Outgoing
<1> DEFINE S(g) == PassedIn(r, Outgoing(q, g))
           R(g) == PassedIn(q, Incoming(r, g))
<1>8. \A g \in Tags : S(g) = R(g)
  <2>1. wire[<<r, q>>] = << >>
    BY <1>2 DEF Unbuffered
  <2>2. Pending(r, q) \in [Tags -> SUBSET Nat]
    BY PendingType
  <2>3. \E f : Tracks(f, << >>, Pending(r, q), program, r, q)
    BY <2>1 DEF WireInv, Tracked
  <2>4. ASSUME NEW g \in Tags PROVE S(g) \ R(g) = {}
    <3>1. Pending(r, q)[g] = {}
      <4> DEFINE U == Pending(r, q)
      <4> HIDE DEF U
      <4>1. U \in [Tags -> SUBSET Nat] /\ \E f : Tracks(f, << >>, U, program, r, q)
        BY <2>2, <2>3 DEF U
      <4>2. U[g] = {}
        BY <4>1, TrackNothing
      <4>. QED  BY <4>2 DEF U
    <3>. QED  BY <3>1 DEF Pending
  <2>5. ASSUME NEW g \in Tags, NEW j \in R(g) PROVE j \in S(g)
    BY <1>1, ReceivedSent
  <2>. QED  BY <2>4, <2>5
<1>9. /\ \A g \in Tags : S(g)' = S(g) \cup (IF g = t THEN {k} ELSE {})
      /\ \A g \in Tags : R(g)' = R(g) \cup (IF g = t THEN {l} ELSE {})
      /\ k \notin S(t) /\ l \notin R(t)
  <2>1. \A g \in Tags : S(g)' = S(g) \cup (IF Now(r) \in Outgoing(q, g) THEN {k} ELSE {})
    BY <1>1, <1>2, <1>5, <1>6, MoveGrows
  <2>2. \A g \in Tags : R(g)' = R(g) \cup (IF Now(q) \in Incoming(r, g) THEN {l} ELSE {})
    BY <1>1, <1>2, <1>5, <1>6, MoveGrows
  <2>3. k \notin S(t)
    BY <1>1, <1>2, <1>5, <1>6, <1>7, MoveGrows
  <2>4. l \notin R(t)
    BY <1>1, <1>2, <1>5, <1>6, <1>7, MoveGrows
  <2>. QED  BY <1>7, <2>1, <2>2, <2>3, <2>4
<1>10. /\ k \in 1 .. Len(program) /\ program[k] = Current(r) /\ HasMessage(program[k], r, q, t)
       /\ l \in 1 .. Len(program) /\ program[l] = Current(q) /\ HasMessage(program[l], r, q, t)
  <2>1. /\ k \in 1 .. Len(program) /\ program[k] = Current(r)
        /\ l \in 1 .. Len(program) /\ program[l] = Current(q)
    <3>1. /\ program \in Seq(Call)
          /\ done[r] \in 0 .. Len(program) - 1 /\ Current(r) = program[done[r] + 1]
          /\ done[q] \in 0 .. Len(program) - 1 /\ Current(q) = program[done[q] + 1]
      BY <1>1, <1>2, NowLemma
    <3>2. Len(program) \in Nat
      BY <3>1, LenProperties
    <3>3. done[r] + 1 \in 1 .. Len(program) /\ done[q] + 1 \in 1 .. Len(program)
      BY <3>1, <3>2
    <3>. QED  BY <1>6, <3>1, <3>3
  <2>2. /\ Current(r) \in Call /\ step[r] \in 1 .. Len(Steps(Current(r), r))
        /\ Steps(Current(r), r)[step[r]] = Now(r)
        /\ Current(q) \in Call /\ step[q] \in 1 .. Len(Steps(Current(q), q))
        /\ Steps(Current(q), q)[step[q]] = Now(q)
    BY <1>1, <1>2, NowLemma
  <2>3. Now(r) \in Outgoing(q, t) /\ Now(q) \in Incoming(r, t)
    BY <1>7
  <2>4. HasMessage(Current(r), r, q, t)
    BY <1>1, <2>2, <2>3, HasStep
  <2>5. HasMessage(Current(q), r, q, t)
    BY <1>1, <2>2, <2>3, HasStep
  <2>. QED  BY <2>1, <2>4, <2>5
<1>11. k = l
  <2>1. done[r] \in Nat /\ done[q] \in Nat
    BY <1>1 DEF TypeInv
  <2>2. ~ (k < l)
    <3>1. k < l => k \in R(t)
      BY <1>1, <1>6, <1>10, <2>1, PassedMessages
    <3>. QED  BY <1>8, <1>9, <3>1
  <2>3. ~ (l < k)
    <3>1. l < k => l \in S(t)
      BY <1>1, <1>6, <1>10, <2>1, PassedMessages
    <3>. QED  BY <1>8, <1>9, <3>1
  <2>. QED  BY <2>2, <2>3
<1>12. MessageGood(Current(q), r, q, Now(q).tag, Payload(r))
  <2>1. MessageGood(Current(r), r, Now(r).peer, Now(r).tag, Payload(r))
    BY <1>2, PayloadGood
  <2>. QED  BY <1>2, <1>10, <1>11, <2>1
<1>13. ASSUME NEW s \in Rank, NEW d \in Rank PROVE Tracked(s, d)'
  <2>1. Tracked(s, d) /\ wire'[<<s, d>>] = wire[<<s, d>>]
    BY <1>2 DEF WireInv
  <2>2. CASE <<s, d>> # <<r, q>>
    <3>1. Rests(s) \/ (Moves(s) /\ \A g \in Tags : Now(s) \notin Outgoing(d, g))
      BY <1>5, <1>7, <2>2
    <3>2. Rests(d) \/ (Moves(d) /\ \A g \in Tags : Now(d) \notin Incoming(s, g))
      BY <1>5, <1>7, <2>2
    <3>. QED  BY <1>1, <1>2, <2>1, <3>1, <3>2, TrackedIdle
  <2>3. CASE s = r /\ d = q
    <3>1. \A g \in Tags : S(g)' = R(g)'
      BY <1>8, <1>9, <1>11
    <3>2. Pending(r, q)' = [g \in Tags |-> {}]
      <4>1. Pending(r, q)' = [g \in Tags |-> PassedIn(r, Outgoing(q, g))' \ PassedIn(q, Incoming(r, g))']
        BY DEF Pending
      <4>. QED  BY <3>1, <4>1
    <3>3. \E f : Tracks(f, << >>, [g \in Tags |-> {}], program, r, q)
      <4> DEFINE U == [g \in Tags |-> {}]
      <4>1. U \in [Tags -> SUBSET Nat] /\ \A g \in Tags : U[g] = {}
        OBVIOUS
      <4> HIDE DEF U
      <4>2. \E f : Tracks(f, << >>, U, program, r, q)
        BY <4>1, TrackNothing
      <4>. QED  BY <4>2 DEF U
    <3>4. wire'[<<r, q>>] = << >>
      BY <1>2 DEF Unbuffered
    <3>5. \E f : Tracks(f, wire'[<<r, q>>], Pending(r, q)', program', r, q)
      BY <1>2, <3>2, <3>3, <3>4
    <3>. QED  BY <2>3, <3>5 DEF Tracked
  <2>. QED  BY <2>2, <2>3
<1>. QED  BY <1>12, <1>13 DEF WireInv

\* Only buffered sends put messages on the wire inside a cluster.
LEMMA UnbufferedNext == TypeInv /\ PlaceInv /\ Unbuffered /\ [Next]_vars => Unbuffered'
<1> SUFFICES ASSUME TypeInv, PlaceInv, Unbuffered, [Next]_vars, ~ eager', NEW s \in Rank, NEW d \in Rank,
                    IsLocal(s, d)
             PROVE  wire'[<<s, d>>] = << >>
  BY DEF Unbuffered, IsLocal, Home
<1>1. eager' = eager
  BY DEF Next, Step, Enter, SendMessage, ReceiveMessage, LocalEnter, LocalLeave, Leave, Rendezvous,
         Finished, vars
<1>2. wire[<<s, d>>] = << >>
  BY <1>1 DEF Unbuffered
<1>3. CASE \E r \in Rank : SendMessage(r)
  <2>1. PICK r \in Rank : SendMessage(r)
    BY <1>3
  <2>2. /\ wire' = [wire EXCEPT ![<<r, Now(r).peer>>] =
                      Append(@, [tag |-> Now(r).tag, payload |-> Payload(r)])]
        /\ ~ IsLocal(r, Now(r).peer)
    BY <1>1, <2>1 DEF SendMessage
  <2>3. wire'[<<s, d>>] = wire[<<s, d>>]
    BY <2>2 DEF TypeInv
  <2>. QED  BY <1>2, <2>3
<1>4. CASE \E r \in Rank : ReceiveMessage(r)
  <2>1. PICK r \in Rank : ReceiveMessage(r)
    BY <1>4
  <2>2. /\ wire' = [wire EXCEPT ![<<Now(r).peer, r>>] = RemoveAt(@, FirstFit(r))]
        /\ DOMAIN wire[<<Now(r).peer, r>>] # {}
    BY <2>1 DEF ReceiveMessage, FirstFit
  <2>3. <<s, d>> # <<Now(r).peer, r>>
    BY <1>2, <2>2
  <2>4. wire'[<<s, d>>] = wire[<<s, d>>]
    BY <2>2, <2>3 DEF TypeInv
  <2>. QED  BY <1>2, <2>4
<1>5. CASE UNCHANGED wire
  BY <1>2, <1>5
<1>. QED  BY <1>3, <1>4, <1>5 DEF Next, Step, Enter, LocalEnter, LocalLeave, Leave, Rendezvous, Finished, vars

-----------------------------------------------------------------------------
(* The buffers, the values given to local calls, and the results *)

\* What r gave to its n-th local call, v, is what it has to have there.
EntryGood(r, n, v) ==
  \A k \in 1 .. Len(program) : \A j \in 1 .. LocalCount(program[k]) :
    n = Base(k - 1) + j => ValueGood(program[k], r, PlaceOfLocal(program[k], r, j), v)

Deposits(r) == \A n \in 1 .. Len(entered[r]) : EntryGood(r, n, entered[r][n].value)
Results(r) == \A k \in 1 .. Len(results[r]) : Prescribed(program[k], r, results[r][k])

Good(r) == Holding(r) /\ Deposits(r) /\ Results(r)
Buffers(r) == <<done[r], step[r], value[r], results[r], entered[r]>>

\* What is given for a place depends on the program alone.
LEMMA EntryKept ==
  ASSUME UNCHANGED program, NEW r \in Rank, NEW n \in Nat, NEW v, EntryGood(r, n, v)
  PROVE  EntryGood(r, n, v)'
<1>1. \A k : Base(k)' = Base(k)
  BY SameBase
<1>. QED  BY <1>1 DEF EntryGood

\* The buffers are of the member alone.
LEMMA HoldingKept ==
  ASSUME UNCHANGED program, NEW r \in Rank,
         UNCHANGED <<done[r], step[r], value[r]>>, Holding(r)
  PROVE  Holding(r)'
<1>1. Current(r)' = Current(r)
  BY SameCall
<1>. QED  BY <1>1 DEF Holding, InCall

\* What was given to local calls stays.
LEMMA DepositsKept ==
  ASSUME TypeInv, UNCHANGED program, NEW r \in Rank, UNCHANGED entered[r], Deposits(r)
  PROVE  Deposits(r)'
<1> SUFFICES ASSUME NEW n \in 1 .. Len(entered[r]) PROVE EntryGood(r, n, entered[r][n].value)'
  BY DEF Deposits
<1>1. n \in Nat
  BY LenProperties DEF TypeInv
<1> DEFINE v == entered[r][n].value
<1>2. EntryGood(r, n, v) /\ v' = v
  BY DEF Deposits
<1>3. \A u : EntryGood(r, n, u) => EntryGood(r, n, u)'
  BY <1>1, EntryKept
<1> HIDE DEF v
<1>4. PICK u : u = v
  OBVIOUS
<1>5. EntryGood(r, n, u)'
  BY <1>2, <1>3, <1>4
<1>. QED  BY <1>2, <1>4, <1>5 DEF v

\* A step of another member.
LEMMA GoodKept ==
  ASSUME TypeInv, UNCHANGED program, NEW r \in Rank, UNCHANGED Buffers(r), Good(r)
  PROVE  Good(r)'
<1>1. UNCHANGED <<done[r], step[r], value[r]>> /\ UNCHANGED entered[r] /\ UNCHANGED results[r]
  BY DEF Buffers
<1>2. Holding(r)' /\ Deposits(r)'
  BY <1>1, HoldingKept, DepositsKept DEF Good
<1>3. Results(r)'
  BY <1>1 DEF Good, Results
<1>. QED  BY <1>2, <1>3 DEF Good

\* A member that only goes to another step of its call.
LEMMA GoodMove ==
  ASSUME TypeInv, UNCHANGED program, NEW r \in Rank, UNCHANGED <<done[r], results[r], entered[r]>>, Good(r),
         NEW i, i = step'[r], NEW v, v = value'[r], ValueGood(Current(r), r, i, v)
  PROVE  Good(r)'
<1>1. Deposits(r)'
  BY DepositsKept DEF Good
<1>2. Results(r)'
  BY DEF Good, Results
<1>3. Holding(r)'
  <2>1. Current(r)' = Current(r)
    BY SameCall
  <2>. QED  BY <2>1 DEF Holding
<1>. QED  BY <1>1, <1>2, <1>3 DEF Good

\* After sending, the buffers are what they have to be for the next step.
LEMMA SendKeeps ==
  ASSUME NEW c \in Call, NEW r \in Rank, NEW i \in 1 .. Len(Steps(c, r)),
         Steps(c, r)[i] \in Talk, Steps(c, r)[i].do = "send", NEW v, ValueGood(c, r, i, v)
  PROVE  ValueGood(c, r, i + 1, v)
<1>1. i \in Nat \ {0} /\ Len(Steps(c, r)) \in Nat
  BY StepsLemma
<1>2. \A s \in Rank, g \in Tags : Steps(c, r)[i] \notin Incoming(s, g)
  BY DEF Incoming
<1>3. \A j \in 1 .. (i + 1) - 1 : j \in 1 .. i - 1 \/ j = i
  BY <1>1
<1>4. 1 .. i - 1 \subseteq 1 .. (i + 1) - 1
  BY <1>1
<1>5. Heard(c, r, i + 1) = Heard(c, r, i)
  BY <1>2, <1>3, <1>4 DEF Heard
<1>6. \/ c.op \in Begins /\ i = 1 /\ Steps(c, r)[i] = FirstLocal(c, r)
      \/ c.op \in Ends /\ i = Len(Steps(c, r)) /\ Steps(c, r)[i] = LastLocal(c, r)
      \/ ~ (c.op \in Begins /\ i = 1) /\ ~ (c.op \in Ends /\ i = Len(Steps(c, r)))
  BY StepsLemma
<1>7. ~ (c.op \in Begins /\ i = 1) /\ ~ (c.op \in Ends /\ i = Len(Steps(c, r)))
  BY <1>6, LocalType, Kinds
<1>8. c.op \in Reductions => (Reduced(c, r, i + 1) <=> Reduced(c, r, i))
  BY <1>1, <1>7 DEF Reduced, Reductions, Begins
<1>9. c.op \in Reductions => Combined(c, r, i + 1) = Combined(c, r, i)
  BY <1>5, <1>8 DEF Combined
<1>10. i + 1 > Len(Steps(c, r)) => Complete(c, v)
  BY <1>1, <1>7 DEF Complete, Ends
<1>11. c.op \in Reductions /\ (c.op \in Ends => i + 1 <= Len(Steps(c, r)))
         => Once(v.order, Combined(c, r, i + 1))
  BY <1>1, <1>9 DEF ValueGood
<1>12. \A s \in Rank, g \in Tags, j \in 1 .. (i + 1) - 1 :
         Steps(c, r)[j] \in Incoming(s, g) => Carried(c, s, r, g) \subseteq v.parts
  BY <1>2, <1>3 DEF ValueGood
<1>. QED  BY <1>10, <1>11, <1>12 DEF ValueGood

\* A member enters a call.
LEMMA GoodEnter ==
  ASSUME Grouped, IInv, NEW r \in Rank, Good(r), Enter(r)
  PROVE  Good(r)'
<1>1. TypeInv
  BY DEF IInv
<1>2. /\ step' = [step EXCEPT ![r] = 1] /\ value' = [value EXCEPT ![r] = Contribution(Current(r), r)]
      /\ done[r] < Len(program) /\ UNCHANGED <<program, done, results, entered>>
  BY DEF Enter
<1>3. step'[r] = 1 /\ value'[r] = Contribution(Current(r), r)
  BY <1>1, <1>2 DEF TypeInv
<1>4. Current(r) \in Call
  <2>1. program \in Seq(Call) /\ done[r] \in 0 .. Len(program) /\ Len(program) \in Nat
    BY <1>1, ProgramAssumption, LenProperties DEF TypeInv
  <2>. QED  BY <1>2, <2>1, ElementOfSeq DEF Current
<1>5. ValueGood(Current(r), r, 1, Contribution(Current(r), r))
  BY <1>4, StartGood
<1>6. UNCHANGED <<done[r], results[r], entered[r]>>
  BY <1>2
<1>. QED  BY <1>1, <1>2, <1>3, <1>5, <1>6, GoodMove

\* A member sends.
LEMMA GoodSend ==
  ASSUME IInv, NEW r \in Rank, Good(r), IsAt(r, "send"),
         step'[r] = step[r] + 1, UNCHANGED <<program, done[r], value[r], results[r], entered[r]>>
  PROVE  Good(r)'
<1>1. TypeInv /\ PlaceInv /\ InCall(r) /\ ~ AtEnd(r) /\ Now(r).do = "send"
  BY DEF IInv, IsAt
<1>2. /\ Current(r) \in Call /\ step[r] \in 1 .. Len(Steps(Current(r), r))
      /\ Steps(Current(r), r)[step[r]] = Now(r) /\ Now(r) \in Talk
  BY <1>1, NowLemma
<1>3. ValueGood(Current(r), r, step[r], value[r])
  BY <1>1 DEF Good, Holding
<1>4. ValueGood(Current(r), r, step[r] + 1, value[r])
  BY <1>1, <1>2, <1>3, SendKeeps
<1>. QED  BY <1>1, <1>4, GoodMove

\* A member receives the right message.
LEMMA GoodReceive ==
  ASSUME InOrder, Grouped, IInv, NEW r \in Rank, Good(r), IsAt(r, "receive"),
         NEW p \in Value, MessageGood(Current(r), Now(r).peer, r, Now(r).tag, p),
         value'[r] = Applied(r, p), step'[r] = step[r] + 1,
         UNCHANGED <<program, done[r], results[r], entered[r]>>
  PROVE  Good(r)'
<1>1. TypeInv /\ PlaceInv /\ InCall(r) /\ ~ AtEnd(r) /\ Now(r).do = "receive"
  BY DEF IInv, IsAt
<1>2. /\ Current(r) \in Call /\ step[r] \in 1 .. Len(Steps(Current(r), r))
      /\ Steps(Current(r), r)[step[r]] = Now(r) /\ Now(r) \in Talk
      /\ Now(r).peer \in Rank /\ Now(r).tag \in Tags
  BY <1>1, NowLemma, Kinds
<1>3. ValueGood(Current(r), r, step[r], value[r]) /\ value[r] \in Value
  BY <1>1 DEF Good, Holding, TypeInv
<1>4. Now(r) \in Incoming(Now(r).peer, Now(r).tag)
  BY <1>1, <1>2 DEF Incoming
<1>5. ValueGood(Current(r), r, step[r] + 1,
                [parts |-> value[r].parts \cup p.parts,
                 order |-> IF Now(r).how = "combine" THEN p.order \o value[r].order ELSE p.order])
  <2> DEFINE c == Current(r)
             s == Now(r).peer
             g == Now(r).tag
             i == step[r]
             v == value[r]
  <2>1. /\ c \in Call /\ s \in Rank /\ g \in Tags /\ i \in 1 .. Len(Steps(c, r))
        /\ Steps(c, r)[i] = Now(r) /\ Steps(c, r)[i] \in Incoming(s, g)
        /\ v \in Value /\ ValueGood(c, r, i, v) /\ MessageGood(c, s, r, g, p)
    BY <1>2, <1>3, <1>4
  <2> HIDE DEF c, s, g, i, v
  <2>2. ValueGood(c, r, i + 1,
                  [parts |-> v.parts \cup p.parts,
                   order |-> IF Steps(c, r)[i].how = "combine" THEN p.order \o v.order ELSE p.order])
    BY <2>1, ReceiveGood
  <2>. QED  BY <2>1, <2>2 DEF c, i, v
<1>6. ValueGood(Current(r), r, step[r] + 1, Applied(r, p))
  BY <1>5 DEF Applied
<1>. QED  BY <1>1, <1>6, GoodMove

\* The place of a local call in its call.
LEMMA PlaceLemma ==
  ASSUME NEW c \in Call, NEW r \in Rank, NEW i \in 1 .. Len(Steps(c, r)), Steps(c, r)[i] \in LocalCall
  PROVE  LET j == Before(c, r, i + 1) IN
         /\ PlaceOfLocal(c, r, j) = i
         /\ Steps(c, r)[i].do = "bcast" => \A q \in Rank : PlaceOfLocal(c, q, j) = Len(Steps(c, q))
         /\ Steps(c, r)[i].do = "reduce" => \A q \in Rank : PlaceOfLocal(c, q, j) = 1
<1> DEFINE j == Before(c, r, i + 1)
<1>1. i \in Nat \ {0} /\ Len(Steps(c, r)) \in Nat /\ i <= Len(Steps(c, r))
  BY StepsLemma
<1>2. c.op \in Begins /\ c.op \in Ends => Len(Steps(c, r)) >= 2
  BY StepsLemma
<1>3. (c.op \in Begins /\ i = 1) \/ (c.op \in Ends /\ i = Len(Steps(c, r)))
  <2>1. \/ c.op \in Begins /\ i = 1
        \/ c.op \in Ends /\ i = Len(Steps(c, r))
        \/ Steps(c, r)[i] \in Talk
    BY StepsLemma
  <2>. QED  BY <2>1, Kinds
<1>4. CASE c.op \in Begins /\ i = 1
  <2>1. j = 1
    BY <1>1, <1>2, <1>4 DEF Before
  <2>2. Steps(c, r)[i].do = "bcast" => FALSE
    <3>1. Steps(c, r)[i].do = "bcast" => c.op \in Ends \ {"barrier"} /\ i = Len(Steps(c, r))
                                          /\ Steps(c, r)[i] = LastLocal(c, r)
      BY LocalKind
    <3>2. ASSUME c.op \in Ends PROVE i < Len(Steps(c, r))
      <4>1. Len(Steps(c, r)) >= 2
        BY <1>2, <1>4, <3>2
      <4>. QED  BY <1>1, <1>4, <4>1
    <3>. QED  BY <1>1, <3>1, <3>2
  <2> HIDE DEF j
  <2>3. \A q \in Rank : PlaceOfLocal(c, q, j) = 1
    BY <1>4, <2>1 DEF PlaceOfLocal
  <2>. QED  BY <1>4, <2>2, <2>3 DEF j
<1>5. CASE c.op \in Ends /\ i = Len(Steps(c, r)) /\ ~ (c.op \in Begins /\ i = 1)
  <2>1. ~ (j = 1 /\ c.op \in Begins)
    BY <1>1, <1>2, <1>5 DEF Before
  <2>2. Steps(c, r)[i].do = "reduce" => FALSE
    <3>1. Steps(c, r)[i].do = "reduce" => c.op \in {"reduce", "allreduce"} /\ i = 1
      BY LocalKind
    <3>. QED  BY <1>5, <3>1 DEF Begins
  <2> HIDE DEF j
  <2>3. \A q \in Rank : PlaceOfLocal(c, q, j) = Len(Steps(c, q))
    BY <2>1 DEF PlaceOfLocal
  <2>. QED  BY <1>5, <2>2, <2>3 DEF j
<1>. QED  BY <1>3, <1>4, <1>5

\* The number of a local call among those of its member.
LEMMA LocalNumber ==
  ASSUME IInv, NEW r \in Rank, IsLocalCall(r)
  PROVE  LET c == Current(r)
             k == done[r] + 1
             j == Before(c, r, step[r] + 1)
         IN  /\ c \in Call /\ k \in 1 .. Len(program) /\ program[k] = c /\ program \in Seq(Call)
             /\ j \in 1 .. LocalCount(c)
             /\ Base(k - 1) + j = Len(entered[r]) + (IF inside[r] THEN 0 ELSE 1)
             /\ Base(k - 1) + j \in Nat \ {0} /\ Len(entered[r]) \in Nat
             /\ step[r] \in 1 .. Len(Steps(c, r)) /\ Steps(c, r)[step[r]] = Now(r)
             /\ Now(r) \in LocalCall /\ InCall(r)
<1> DEFINE c == Current(r)
           k == done[r] + 1
           j == Before(c, r, step[r] + 1)
           n == Len(entered[r])
<1>1. TypeInv /\ PlaceInv /\ Count(r)
  BY Parts DEF IInv
<1>2. InCall(r) /\ ~ AtEnd(r) /\ Now(r).do \in {"barrier", "bcast", "reduce"}
  BY DEF IsLocalCall
<1>3. /\ program \in Seq(Call) /\ done[r] \in 0 .. Len(program) - 1
      /\ c \in Call /\ c = program[done[r] + 1]
      /\ step[r] \in 1 .. Len(Steps(c, r)) /\ Len(Steps(c, r)) \in Nat
      /\ Now(r) = Steps(c, r)[step[r]] /\ Now(r) \in LocalCall
  BY <1>1, <1>2, NowLemma
<1>4. k \in 1 .. Len(program) /\ program[k] = c /\ k - 1 = done[r]
  BY <1>3, LenProperties
<1>5. j \in 1 .. LocalCount(c) /\ j = Before(c, r, step[r]) + 1
  <2> DEFINE st == Steps(c, r)[step[r]]
  <2>1. st \in LocalCall
    BY <1>3
  <2> HIDE DEF c
  <2>2. /\ Before(c, r, step[r] + 1) = Before(c, r, step[r]) + 1
        /\ Before(c, r, step[r] + 1) \in 1 .. LocalCount(c)
    BY <1>3, <2>1, BeforeLemma
  <2>. QED  BY <2>2
<1>6. n = Base(done[r]) + Before(c, r, step[r]) + (IF inside[r] THEN 1 ELSE 0)
  BY <1>1, <1>2 DEF Count
<1>7. Base(done[r]) \in Nat /\ Before(c, r, step[r]) \in Nat /\ n \in Nat
  <2>1. Base(done[r]) \in Nat
    BY <1>3, BaseLemma
  <2>2. Before(c, r, step[r]) \in Nat
    BY DEF Before
  <2>3. n \in Nat
    BY <1>1, LenProperties DEF TypeInv
  <2>. QED  BY <2>1, <2>2, <2>3
<1> HIDE DEF c, j, n
<1>8. Base(k - 1) + j = n + (IF inside[r] THEN 0 ELSE 1) /\ Base(k - 1) + j \in Nat \ {0}
  <2>1. Base(k - 1) = Base(done[r])
    BY <1>4
  <2> HIDE DEF k
  <2>. QED  BY <1>5, <1>6, <1>7, <2>1
<1>. QED  BY <1>2, <1>3, <1>4, <1>5, <1>7, <1>8 DEF c, j, n

\* All but the last of n + 1 are the first n.
LEMMA NotLast ==
  ASSUME NEW n \in Nat, NEW i \in 1 .. n + 1, i # n + 1
  PROVE  i \in 1 .. n
OBVIOUS

\* A member gives its buffers to a local call.
LEMMA GoodLocalEnter ==
  ASSUME IInv, NEW r \in Rank, Good(r), LocalEnter(r)
  PROVE  Good(r)'
<1> DEFINE e == [call |-> Now(r), value |-> value[r]]
           c == Current(r)
           n == Len(entered[r])
           k == done[r] + 1
           j == Before(c, r, step[r] + 1)
<1>1. TypeInv
  BY DEF IInv
<1>2. /\ IsLocalCall(r) /\ ~ inside[r]
      /\ entered' = [entered EXCEPT ![r] = Append(@, e)]
      /\ UNCHANGED <<program, done, step, value, results>>
  BY DEF LocalEnter
<1>3. /\ c \in Call /\ k \in 1 .. Len(program) /\ program[k] = c /\ program \in Seq(Call)
      /\ j \in 1 .. LocalCount(c) /\ Base(k - 1) + j = n + 1 /\ n \in Nat
      /\ step[r] \in 1 .. Len(Steps(c, r)) /\ Steps(c, r)[step[r]] = Now(r)
      /\ Now(r) \in LocalCall /\ InCall(r)
  BY <1>2, LocalNumber
<1>4. PlaceOfLocal(c, r, j) = step[r]
  BY <1>3, PlaceLemma
<1>5. e \in Entry
  BY <1>1, <1>3 DEF Entry, TypeInv
<1>6. ValueGood(c, r, step[r], value[r])
  BY <1>3 DEF Good, Holding
<1>7. e.value = value[r]
  OBVIOUS
<1> HIDE DEF e
<1>8. /\ Len(entered'[r]) = n + 1 /\ entered'[r][n + 1] = e
      /\ \A i \in 1 .. n : entered'[r][i] = entered[r][i]
  <2>1. entered'[r] = Append(entered[r], e) /\ entered[r] \in Seq(Entry)
    BY <1>1, <1>2 DEF TypeInv
  <2>. QED  BY <1>3, <1>5, <2>1, AppendProperties
<1>9. EntryGood(r, n + 1, value[r])
  <2> HIDE DEF c, k, j, n
  <2>1. ASSUME NEW l \in 1 .. Len(program), NEW i \in 1 .. LocalCount(program[l]), n + 1 = Base(l - 1) + i
        PROVE  ValueGood(program[l], r, PlaceOfLocal(program[l], r, i), value[r])
    <3>1. l = k /\ i = j
      BY <1>3, <2>1, SamePlace
    <3>. QED  BY <1>3, <1>4, <1>6, <3>1 DEF c
  <2>. QED  BY <2>1 DEF EntryGood
<1>10. \A i \in 1 .. n : EntryGood(r, i, entered[r][i].value)
  BY DEF Good, Deposits
<1>11. ASSUME NEW i \in 1 .. n + 1 PROVE EntryGood(r, i, entered[r][i].value)'
  <2>1. PICK u : u = entered'[r][i].value
    OBVIOUS
  <2>2. EntryGood(r, i, u)
    <3>1. CASE i = n + 1
      BY <1>7, <1>8, <1>9, <2>1, <3>1
    <3>2. CASE i # n + 1
      <4>1. i \in 1 .. n
        BY <1>3, <3>2, NotLast
      <4>2. u = entered[r][i].value
        BY <1>8, <2>1, <4>1
      <4>. QED  BY <1>10, <4>1, <4>2
    <3>. QED  BY <3>1, <3>2
  <2>3. \A m \in Nat : \A w : EntryGood(r, m, w) => EntryGood(r, m, w)'
    BY <1>2, EntryKept
  <2>4. i \in Nat
    BY <1>3
  <2>5. EntryGood(r, i, u)'
    BY <2>2, <2>3, <2>4
  <2>. QED  BY <2>1, <2>5
<1>12. Deposits(r)'
  BY <1>8, <1>11 DEF Deposits
<1>13. Holding(r)'
  BY <1>2, HoldingKept DEF Good
<1>14. Results(r)'
  BY <1>2 DEF Good, Results
<1>. QED  BY <1>12, <1>13, <1>14 DEF Good

\* A member returns from a local call: from a barrier with what it had, from a broadcast
\* with what its root gave, from a reduction, at its root, with what its cluster gave.
LEMMA GoodLocalLeave ==
  ASSUME InOrder, Grouped, IInv, \A q \in Rank : Good(q), NEW r \in Rank, LocalLeave(r)
  PROVE  Good(r)'
<1> DEFINE c == Current(r)
           n == Len(entered[r])
           k == done[r] + 1
           j == Before(c, r, step[r] + 1)
           i == step[r]
           x == Now(r)
           order == Ascending(Peers(r))
<1>1. TypeInv
  BY DEF IInv
<1>2. /\ inside[r] /\ IsLocalCall(r)
      /\ step' = [step EXCEPT ![r] = @ + 1] /\ UNCHANGED <<program, done, results, entered>>
      /\ \/ x.do = "barrier" /\ UNCHANGED value
         \/ /\ x.do = "bcast" /\ HasEntered(x.root, n)
            /\ value' = [value EXCEPT ![r].parts = @ \cup Deposit(x.root, n).parts,
                                      ![r].order = Deposit(x.root, n).order]
         \/ /\ x.do = "reduce"
            /\ IF r = x.root
               THEN /\ \A q \in Peers(r) : HasEntered(q, n)
                    /\ value' = [value EXCEPT ![r].order =
                         FlattenSeq([m \in DOMAIN order |-> Deposit(order[m], n).order])]
               ELSE UNCHANGED value
  BY DEF LocalLeave, IInv, PlaceInv
<1>3. /\ c \in Call /\ k \in 1 .. Len(program) /\ program[k] = c
      /\ j \in 1 .. LocalCount(c) /\ Base(k - 1) + j = n /\ n \in Nat \ {0}
      /\ i \in 1 .. Len(Steps(c, r)) /\ Steps(c, r)[i] = x /\ x \in LocalCall /\ InCall(r)
  <2>1. inside[r] /\ IsLocalCall(r)
    BY <1>2
  <2>2. /\ c \in Call /\ k \in 1 .. Len(program) /\ program[k] = c /\ j \in 1 .. LocalCount(c)
        /\ Base(k - 1) + j = n + (IF inside[r] THEN 0 ELSE 1)
        /\ Base(k - 1) + j \in Nat \ {0} /\ n \in Nat
        /\ i \in 1 .. Len(Steps(c, r)) /\ Steps(c, r)[i] = x /\ x \in LocalCall /\ InCall(r)
    BY <2>1, LocalNumber
  <2>3. Base(k - 1) + j = n
    BY <2>1, <2>2
  <2>. QED  BY <2>2, <2>3
<1>4. /\ x.do = "bcast" => \A q \in Rank : PlaceOfLocal(c, q, j) = Len(Steps(c, q))
      /\ x.do = "reduce" => \A q \in Rank : PlaceOfLocal(c, q, j) = 1
  BY <1>3, PlaceLemma
<1>5. ValueGood(c, r, i, value[r])
  BY <1>3 DEF Good, Holding
<1>6. /\ value \in [Rank -> Value] /\ value[r].parts \in SUBSET Everything
      /\ value[r].order \in Seq(Rank) /\ value[r] \in Value
  BY <1>1 DEF TypeInv, Value
<1>7. ASSUME NEW q \in Rank, HasEntered(q, n)
      PROVE  /\ Deposit(q, n) \in Value
             /\ ValueGood(c, q, PlaceOfLocal(c, q, j), Deposit(q, n))
  <2>1. entered[q] \in Seq(Entry) /\ Len(entered[q]) \in Nat
    BY <1>1, LenProperties DEF TypeInv
  <2>2. n \in 1 .. Len(entered[q])
    BY <1>3, <1>7, <2>1 DEF HasEntered
  <2>3. entered[q][n] \in Entry
    BY <2>1, <2>2, ElementOfSeq
  <2>4. EntryGood(q, n, entered[q][n].value)
    BY <2>2 DEF Good, Deposits
  <2> HIDE DEF c, k, j, n
  <2>5. ValueGood(c, q, PlaceOfLocal(c, q, j), entered[q][n].value)
    BY <1>3, <2>4 DEF EntryGood
  <2>. QED  BY <2>3, <2>5 DEF Deposit, Entry
<1>8. step'[r] = i + 1
  BY <1>1, <1>2 DEF TypeInv
<1>9. value'[r] \in Value
  BY LocalLeaveType
<1> SUFFICES ValueGood(c, r, i + 1, value'[r])
  BY <1>1, <1>2, <1>8, GoodMove
<1> HIDE DEF c, i, x, k, j, order
<1>10. CASE x.do = "barrier"
  <2>1. value'[r] = value[r]
    BY <1>2, <1>10
  <2>2. ValueGood(c, r, i + 1, value[r])
    BY <1>3, <1>5, <1>10, BarrierGood
  <2>. QED  BY <2>1, <2>2
<1>11. CASE x.do = "bcast"
  <2> DEFINE u == Deposit(x.root, n)
  <2>1. x.root \in Rank /\ HasEntered(x.root, n)
    BY <1>2, <1>3, <1>11, Kinds
  <2>2. u \in Value /\ ValueGood(c, x.root, Len(Steps(c, x.root)), u)
    BY <1>4, <1>7, <1>11, <2>1
  <2>3. value' = [value EXCEPT ![r].parts = @ \cup u.parts, ![r].order = u.order]
    BY <1>2, <1>11
  <2> HIDE DEF u, n
  <2>4. value'[r] = [parts |-> value[r].parts \cup u.parts, order |-> u.order]
    <3>1. \E a, b : value[r] = [parts |-> a, order |-> b] /\ a = value[r].parts /\ b = value[r].order
      BY <1>6 DEF Value
    <3> DEFINE half == [value EXCEPT ![r].parts = @ \cup u.parts]
    <3>2. half[r] = [value[r] EXCEPT !.parts = value[r].parts \cup u.parts] /\ DOMAIN half = Rank
      BY <1>6
    <3>3. half[r] = [parts |-> value[r].parts \cup u.parts, order |-> value[r].order]
      BY <3>1, <3>2
    <3>4. value' = [half EXCEPT ![r].order = u.order]
      BY <2>3
    <3> DEFINE a == value[r].parts \cup u.parts
    <3> HIDE DEF half
    <3>5. value'[r] = [half[r] EXCEPT !.order = u.order]
      BY <3>2, <3>4
    <3>6. half[r] = [parts |-> a, order |-> value[r].order]
      BY <3>3
    <3> HIDE DEF a
    <3>7. value'[r] = [parts |-> a, order |-> u.order]
      BY <3>5, <3>6
    <3>. QED  BY <3>7 DEF a
  <2>5. ValueGood(c, r, i + 1, [parts |-> value[r].parts \cup u.parts, order |-> u.order])
    BY <1>3, <1>5, <1>6, <1>11, <2>2, BcastGood
  <2>. QED  BY <2>4, <2>5
<1>12. CASE x.do = "reduce"
  <2>1. value'[r].parts = value[r].parts
        /\ IF r = x.root THEN Once(value'[r].order, Peers(r)) ELSE value'[r].order = value[r].order
    <3>1. CASE r # x.root
      BY <1>2, <1>12, <3>1
    <3>2. CASE r = x.root
      <4> DEFINE s == [m \in DOMAIN order |-> Deposit(order[m], n).order]
      <4>1. order \in Seq(Peers(r)) /\ Len(order) \in Nat /\ DOMAIN order = 1 .. Len(order)
        BY PeersLemma, AscendingType, LenProperties DEF order
      <4>2. (\A q \in Peers(r) : HasEntered(q, n))
            /\ value' = [value EXCEPT ![r].order = FlattenSeq(s)]
        BY <1>2, <1>12, <3>2
      <4>3. ASSUME NEW m \in 1 .. Len(order)
            PROVE  /\ Deposit(order[m], n).order \in Seq(Rank)
                   /\ Once(Deposit(order[m], n).order, {order[m]})
        <5> DEFINE q == order[m]
                   v == Deposit(q, n)
        <5>1. q \in Rank /\ HasEntered(q, n)
          BY <4>1, <4>2, ElementOfSeq, PeersLemma
        <5> HIDE DEF q
        <5>2. v \in Value /\ ValueGood(c, q, 1, v)
          BY <1>4, <1>7, <1>12, <5>1
        <5>3. c.op \in {"reduce", "allreduce"}
          BY <1>3, <1>12, LocalKind
        <5>4. c.op \in Reductions /\ (c.op \in Ends => 1 <= Len(Steps(c, q)))
          BY <1>3, <5>1, <5>3, StepsLemma DEF Reductions
        <5>5. Combined(c, q, 1) = {q}
          BY <1>3, <5>1, StartGood
        <5>6. Once(v.order, {q})
          BY <5>2, <5>4, <5>5 DEF ValueGood
        <5>. QED  BY <5>2, <5>6 DEF q, Value
      <4> HIDE DEF n
      <4>4. /\ s \in Seq(Seq(Rank)) /\ Len(s) = Len(order)
            /\ \A m \in 1 .. Len(s) : Once(s[m], {order[m]})
        <5>1. DOMAIN s = 1 .. Len(order) /\ \A m \in 1 .. Len(order) : s[m] = Deposit(order[m], n).order
          BY <4>1
        <5>2. s \in [1 .. Len(order) -> Seq(Rank)]
          BY <4>1, <4>3
        <5> HIDE DEF s
        <5>3. s \in Seq(Seq(Rank)) /\ Len(s) = Len(order)
          BY <4>1, <5>2
        <5>. QED  BY <4>3, <5>1, <5>3
      <4> HIDE DEF s
      <4>5. Once(FlattenSeq(s), Peers(r))
        BY <4>4, ClusterOnce DEF order
      <4> DEFINE o == FlattenSeq(s)
      <4>6. Once(o, Peers(r)) /\ value' = [value EXCEPT ![r].order = o]
        BY <4>2, <4>5
      <4> HIDE DEF o
      <4>7. value'[r] = [value[r] EXCEPT !.order = o]
        BY <1>6, <4>6
      <4>8. \E a, b : value[r] = [parts |-> a, order |-> b]
        BY <1>6 DEF Value
      <4>9. value'[r].parts = value[r].parts /\ value'[r].order = o
        BY <4>7, <4>8
      <4>. QED  BY <3>2, <4>6, <4>9
    <3>. QED  BY <3>1, <3>2
  <2>. QED  BY <1>3, <1>5, <1>6, <1>9, <1>12, <2>1, ReduceGood
<1>. QED  BY <1>2, <1>10, <1>11, <1>12

\* A member returns from a call with what MPI prescribes.
LEMMA GoodLeave ==
  ASSUME InOrder, Grouped, IInv, NEW r \in Rank, Good(r), Leave(r)
  PROVE  Good(r)'
<1>1. TypeInv /\ PlaceInv /\ Len(results[r]) = done[r]
  BY DEF IInv, PlaceInv
<1>2. /\ AtEnd(r) /\ InCall(r) /\ step' = [step EXCEPT ![r] = 0]
      /\ results' = [results EXCEPT ![r] = Append(@, value[r])]
      /\ UNCHANGED <<program, entered>>
  BY DEF Leave, AtEnd
<1>3. /\ Current(r) \in Call /\ StepsOf(r) = Steps(Current(r), r) /\ Len(StepsOf(r)) \in Nat
      /\ step[r] \in 1 .. Len(StepsOf(r)) + 1 /\ Current(r) = program[done[r] + 1]
      /\ done[r] \in Nat
  BY <1>1, <1>2, NowLemma DEF TypeInv
<1>4. step[r] = Len(Steps(Current(r), r)) + 1
  BY <1>2, <1>3 DEF AtEnd
<1>5. value[r] \in Value /\ ValueGood(Current(r), r, step[r], value[r])
  BY <1>1, <1>2 DEF Good, Holding, TypeInv
<1>6. Prescribed(Current(r), r, value[r])
  BY <1>3, <1>4, <1>5, ResultGood
<1>7. results'[r] = Append(results[r], value[r]) /\ results[r] \in Seq(Value)
  BY <1>1, <1>2 DEF TypeInv
<1>8. /\ Len(results'[r]) = done[r] + 1 /\ results'[r][done[r] + 1] = value[r]
      /\ \A k \in 1 .. done[r] : results'[r][k] = results[r][k]
  BY <1>1, <1>3, <1>5, <1>7, AppendProperties
<1>9. ASSUME NEW k \in 1 .. done[r] + 1 PROVE Prescribed(program[k], r, results'[r][k])
  <2>1. CASE k = done[r] + 1
    BY <1>3, <1>6, <1>8, <2>1
  <2>2. CASE k # done[r] + 1
    <3>1. k \in 1 .. done[r]
      BY <1>3, <2>2
    <3>2. Prescribed(program[k], r, results[r][k])
      BY <1>1, <3>1 DEF Good, Results
    <3>. QED  BY <1>8, <3>1, <3>2
  <2>. QED  BY <2>1, <2>2
<1>10. Results(r)'
  BY <1>2, <1>8, <1>9 DEF Results
<1>11. Deposits(r)'
  BY <1>1, <1>2, DepositsKept DEF Good
<1>12. Holding(r)'
  <2>1. step'[r] = 0
    BY <1>1, <1>2 DEF TypeInv
  <2>. QED  BY <2>1 DEF Holding, InCall
<1>. QED  BY <1>10, <1>11, <1>12 DEF Good

-----------------------------------------------------------------------------
(* The theorem *)

\* The invariant of the wire and the buffers.
ValuesInv == WireInv /\ Unbuffered /\ \A r \in Rank : Good(r)

\* It holds at the start.
LEMMA ValuesInit == InOrder /\ Grouped /\ IInv /\ Init => ValuesInv
<1> SUFFICES ASSUME InOrder, Grouped, IInv, Init PROVE ValuesInv
  OBVIOUS
<1>1. Unbuffered
  BY DEF Init, Unbuffered
<1>2. ASSUME NEW r \in Rank PROVE Good(r)
  <2>1. step[r] = 0 /\ results[r] = << >> /\ entered[r] = << >>
    BY DEF Init
  <2>2. Holding(r)
    BY <2>1 DEF Holding, InCall
  <2>3. Deposits(r) /\ Results(r)
    BY <2>1 DEF Deposits, Results
  <2>. QED  BY <2>2, <2>3 DEF Good
<1>3. ASSUME NEW s \in Rank, NEW d \in Rank PROVE Tracked(s, d)
  <2>1. wire[<<s, d>>] = << >>
    BY DEF Init
  <2> DEFINE U == Pending(s, d)
  <2>2. U \in [Tags -> SUBSET Nat] /\ \A g \in Tags : U[g] = {}
    <3>1. U \in [Tags -> SUBSET Nat]
      BY PendingType
    <3>2. \A g \in Tags : PassedIn(s, Outgoing(d, g)) = {}
      BY DEF Init, PassedIn
    <3>. QED  BY <3>1, <3>2 DEF Pending
  <2> HIDE DEF U
  <2>3. \E f : Tracks(f, << >>, U, program, s, d)
    BY <2>2, TrackNothing
  <2>. QED  BY <2>1, <2>3 DEF Tracked, U
<1>. QED  BY <1>1, <1>2, <1>3 DEF ValuesInv, WireInv

\* Every step keeps the buffers good, and the messages.
LEMMA ValuesNext ==
  ASSUME InOrder, Grouped, IInv, FlowInv, ValuesInv, [Next]_vars
  PROVE  ValuesInv'
<1>1. TypeInv /\ PlaceInv /\ Balanced /\ WireInv /\ Unbuffered /\ \A q \in Rank : Good(q)
  BY BalancedHolds DEF IInv, ValuesInv
<1>2. Unbuffered'
  BY <1>1, UnbufferedNext
<1>3. ASSUME UNCHANGED program, NEW S \in SUBSET Rank, \A q \in S : Good(q)',
             \A q \in Rank \ S : UNCHANGED Buffers(q)
      PROVE  \A q \in Rank : Good(q)'
  BY <1>1, <1>3, GoodKept
<1>4. CASE UNCHANGED vars
  <2>1. UNCHANGED <<program, wire>> /\ \A q \in Rank : Rests(q) /\ UNCHANGED Buffers(q)
    BY <1>4 DEF vars, Rests, Buffers
  <2>2. WireInv'
    BY <1>1, <2>1, WireQuiet
  <2>3. \A q \in Rank : Good(q)'
    BY <1>1, <2>1, GoodKept
  <2>. QED  BY <1>2, <2>2, <2>3 DEF ValuesInv
<1>5. ASSUME NEW r \in Rank, Step(r) PROVE ValuesInv'
  <2>1. ASSUME UNCHANGED program, Good(r)', \A q \in Rank \ {r} : UNCHANGED Buffers(q), WireInv'
        PROVE  ValuesInv'
    <3>1. \A q \in Rank : Good(q)'
      BY <1>1, <2>1, GoodKept
    <3>. QED  BY <1>2, <2>1, <3>1 DEF ValuesInv
  <2>2. CASE Enter(r)
    <3>1. /\ UNCHANGED <<program, wire, done, results, entered>> /\ ~ InCall(r)
          /\ step' = [step EXCEPT ![r] = 1]
          /\ value' = [value EXCEPT ![r] = Contribution(Current(r), r)]
      BY <2>2 DEF Enter
    <3>2. step[r] = 0 /\ step'[r] = 1 /\ \A q \in Rank \ {r} : step'[q] = step[q] /\ value'[q] = value[q]
      BY <1>1, <3>1 DEF TypeInv, InCall
    <3>3. \A q \in Rank : Rests(q)
      BY <3>1, <3>2 DEF Rests
    <3>4. WireInv'
      BY <1>1, <3>1, <3>3, WireQuiet
    <3>5. \A q \in Rank \ {r} : UNCHANGED Buffers(q)
      BY <3>1, <3>2 DEF Buffers
    <3>6. Good(r)'
      BY <1>1, <2>2, GoodEnter
    <3>. QED  BY <2>1, <3>1, <3>4, <3>5, <3>6
  <2>3. CASE SendMessage(r)
    <3>1. /\ IsAt(r, "send") /\ step' = [step EXCEPT ![r] = @ + 1]
          /\ UNCHANGED <<program, done, value, results, entered>>
      BY <2>3 DEF SendMessage
    <3>2. step'[r] = step[r] + 1 /\ \A q \in Rank \ {r} : step'[q] = step[q]
      BY <1>1, <3>1 DEF TypeInv
    <3>3. \A q \in Rank \ {r} : UNCHANGED Buffers(q)
      BY <3>1, <3>2 DEF Buffers
    <3>4. Good(r)'
      BY <1>1, <3>1, <3>2, GoodSend
    <3>5. WireInv'
      BY <1>1, <2>3, WireSend DEF Good
    <3>. QED  BY <2>1, <3>1, <3>3, <3>4, <3>5
  <2>4. CASE ReceiveMessage(r)
    <3>1. /\ IsAt(r, "receive") /\ step' = [step EXCEPT ![r] = @ + 1]
          /\ value' = [value EXCEPT ![r] = Applied(r, Arriving(r))]
          /\ UNCHANGED <<program, done, results, entered>>
      BY <2>4 DEF ReceiveMessage, Arriving, FirstFit
    <3>2. /\ step'[r] = step[r] + 1 /\ value'[r] = Applied(r, Arriving(r))
          /\ \A q \in Rank \ {r} : step'[q] = step[q] /\ value'[q] = value[q]
      BY <1>1, <3>1 DEF TypeInv
    <3>3. \A q \in Rank \ {r} : UNCHANGED Buffers(q)
      BY <3>1, <3>2 DEF Buffers
    <3>4. /\ WireInv' /\ Arriving(r) \in Value
          /\ MessageGood(Current(r), Now(r).peer, r, Now(r).tag, Arriving(r))
      BY <1>1, <2>4, WireReceive
    <3>5. Good(r)'
      BY <1>1, <3>1, <3>2, <3>4, GoodReceive
    <3>. QED  BY <2>1, <3>1, <3>3, <3>4, <3>5
  <2>5. CASE LocalEnter(r)
    <3>1. /\ UNCHANGED <<program, wire, done, step, value, results>>
          /\ \A q \in Rank \ {r} : entered'[q] = entered[q]
      BY <1>1, <2>5 DEF LocalEnter, TypeInv
    <3>2. \A q \in Rank : Rests(q)
      BY <3>1 DEF Rests
    <3>3. WireInv'
      BY <1>1, <3>1, <3>2, WireQuiet
    <3>4. \A q \in Rank \ {r} : UNCHANGED Buffers(q)
      BY <3>1 DEF Buffers
    <3>5. Good(r)'
      BY <1>1, <2>5, GoodLocalEnter
    <3>. QED  BY <2>1, <3>1, <3>3, <3>4, <3>5
  <2>6. CASE LocalLeave(r)
    <3>1. inside[r] /\ UNCHANGED <<program, wire, done, results, entered>> /\ step' = [step EXCEPT ![r] = @ + 1]
      BY <2>6 DEF LocalLeave
    <3>2. IsLocalCall(r) /\ InCall(r) /\ ~ AtEnd(r)
      BY <1>1, <3>1 DEF PlaceInv, IsLocalCall
    <3>3. Now(r) \in LocalCall
      BY <1>1, <3>2, NowLemma DEF IsLocalCall
    <3>4. step'[r] = step[r] + 1 /\ \A q \in Rank \ {r} : step'[q] = step[q]
      BY <1>1, <3>1 DEF TypeInv
    <3>5. \A q \in Rank : Rests(q) \/ (Moves(q) /\ Now(q) \in LocalCall)
      BY <3>1, <3>2, <3>3, <3>4 DEF Rests, Moves
    <3>6. WireInv'
      BY <1>1, <3>1, <3>5, WireQuiet
    <3>7. \A q \in Rank \ {r} : value'[q] = value[q]
      BY <1>1, <2>6 DEF LocalLeave, TypeInv
    <3>8. \A q \in Rank \ {r} : UNCHANGED Buffers(q)
      BY <3>1, <3>4, <3>7 DEF Buffers
    <3>9. Good(r)'
      BY <1>1, <2>6, GoodLocalLeave
    <3>. QED  BY <2>1, <3>1, <3>6, <3>8, <3>9
  <2>7. CASE Leave(r)
    <3>1. /\ AtEnd(r) /\ UNCHANGED <<program, wire, entered>>
          /\ done'[r] = done[r] + 1 /\ step'[r] = 0
          /\ \A q \in Rank \ {r} : /\ done'[q] = done[q] /\ step'[q] = step[q]
                                   /\ value'[q] = value[q] /\ results'[q] = results[q]
      BY <1>1, <2>7 DEF Leave, TypeInv
    <3>2. \A q \in Rank : Rests(q)
      BY <3>1 DEF Rests
    <3>3. WireInv'
      BY <1>1, <3>1, <3>2, WireQuiet
    <3>4. \A q \in Rank \ {r} : UNCHANGED Buffers(q)
      BY <3>1 DEF Buffers
    <3>5. Good(r)'
      BY <1>1, <2>7, GoodLeave
    <3>. QED  BY <2>1, <3>1, <3>3, <3>4, <3>5
  <2>8. ASSUME NEW q \in Rank, Rendezvous(r, q) PROVE ValuesInv'
    <3>1. /\ IsAt(r, "send") /\ IsAt(q, "receive") /\ Now(q).peer = r
          /\ value' = [value EXCEPT ![q] = Applied(q, Payload(r))]
          /\ step'  = [step EXCEPT ![r] = @ + 1, ![q] = @ + 1]
          /\ UNCHANGED <<program, done, results, entered>>
      BY <2>8 DEF Rendezvous
    <3>2. r # q /\ InCall(r)
      BY <3>1 DEF IsAt
    <3>3. /\ step'[r] = step[r] + 1 /\ step'[q] = step[q] + 1
          /\ \A m \in Rank \ {r, q} : step'[m] = step[m]
      <4> DEFINE half == [step EXCEPT ![r] = @ + 1]
      <4>1. half \in [Rank -> Nat] /\ half[r] = step[r] + 1 /\ \A m \in Rank \ {r} : half[m] = step[m]
        BY <1>1 DEF TypeInv
      <4>2. step' = [half EXCEPT ![q] = @ + 1]
        <5>1. step' = [step EXCEPT ![r] = @ + 1, ![q] = @ + 1]
          BY <3>1
        <5>2. step \in [Rank -> Nat]
          BY <1>1 DEF TypeInv
        <5>. QED  BY <3>2, <5>1, <5>2
      <4> HIDE DEF half
      <4>3. step'[q] = half[q] + 1 /\ \A m \in Rank \ {q} : step'[m] = half[m]
        BY <4>1, <4>2
      <4>. QED  BY <3>2, <4>1, <4>3
    <3>4. value'[q] = Applied(q, Payload(r)) /\ \A m \in Rank \ {q} : value'[m] = value[m]
      BY <1>1, <3>1 DEF TypeInv
    <3>5. WireInv' /\ MessageGood(Current(q), r, q, Now(q).tag, Payload(r))
      BY <1>1, <2>8, WireRendezvous DEF Good
    <3>6. Payload(r) \in Value
      BY <1>1, <3>2, PayloadType
    <3>7. Good(r)'
      BY <1>1, <3>1, <3>2, <3>3, <3>4, GoodSend
    <3>8. Good(q)'
      BY <1>1, <3>1, <3>3, <3>4, <3>5, <3>6, GoodReceive
    <3>9. ASSUME NEW m \in Rank \ {r, q} PROVE Good(m)'
      <4>1. UNCHANGED Buffers(m)
        BY <3>1, <3>3, <3>4 DEF Buffers
      <4>. QED  BY <1>1, <3>1, <4>1, GoodKept
    <3>. QED  BY <1>2, <3>5, <3>7, <3>8, <3>9 DEF ValuesInv
  <2>. QED  BY <1>5, <2>2, <2>3, <2>4, <2>5, <2>6, <2>7, <2>8 DEF Step
<1>6. CASE Finished
  BY <1>4, <1>6 DEF Finished
<1>. QED  BY <1>4, <1>5, <1>6 DEF Next

\* Whatever the pace of the members, a collective operation gives each of them what MPI
\* prescribes: the trees of EMPI_Bcast, EMPI_Allgatherv, EMPI_Reduce, EMPI_Allreduce and
\* the others neither lose nor repeat a contribution, nor take one of another call.
THEOREM CollectiveResultsHolds ==
  ASSUME InOrder, Grouped
  PROVE  Spec => []CollectiveResults
<1>1. Spec => [](IInv /\ FlowInv /\ ReleaseInv)
  BY FlowInvariant
<1>2. Init /\ IInv => ValuesInv
  BY ValuesInit
<1>3. IInv /\ FlowInv /\ ValuesInv /\ [Next]_vars => ValuesInv'
  BY ValuesNext
<1>4. IInv /\ ValuesInv => CollectiveResults
  <2>1. ASSUME IInv, ValuesInv, NEW r \in Rank, NEW k \in DOMAIN results[r]
        PROVE  Prescribed(program[k], r, results[r][k])
    <3>1. k \in 1 .. Len(results[r])
      BY <2>1 DEF IInv, TypeInv
    <3>. QED  BY <2>1, <3>1 DEF ValuesInv, Good, Results
  <2>. QED  BY <2>1 DEF CollectiveResults
<1>. QED  BY <1>1, <1>2, <1>3, <1>4, PTL DEF Spec
=============================================================================
