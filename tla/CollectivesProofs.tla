------------------------- MODULE CollectivesProofs -------------------------
(***************************************************************************)
(* Theorems about Collectives, for any number of clusters and members, any *)
(* placement of the members and any programs.                              *)
(*                                                                         *)
(* The steps of a call are messages, with a local collective call before   *)
(* them, after them, both or none, depending on the operation alone.  The  *)
(* n-th local call of a member is therefore determined by the program and  *)
(* its cluster: the members of a cluster make the same calls of the local  *)
(* MPI (LocalCallsMatch).                                                  *)
(*                                                                         *)
(* If every other coordinator finds its own place in the loops of          *)
(* messaging_bcast (InOrder), the steps of a call have one receive for     *)
(* each of its sends, by the receiver the send names (Balanced).  With     *)
(* what is sent equal to what is received and what is on the wire          *)
(* (FlowInv), no message is left when all have returned (NothingLeft), and *)
(* a message that was received in a barrier was sent in that barrier: the  *)
(* chain of local barrier, coordinators, local barrier reaches every       *)
(* member (BarrierHolds).                                                  *)
(***************************************************************************)
EXTENDS Collectives, SequenceTheorems, FiniteSetTheorems, WellFoundedInduction, TLAPS

Tags == {"barrier", "bcast", "gatherv", "scatterv", "allgatherv", "alltoallv",
         "reduce", "scan"}

\* Steps that are a message, and those that are a call of the local MPI.
Talk == [do : {"send"}, peer : Rank, tag : Tags, what : SUBSET Everything, own : BOOLEAN]
        \cup [do : {"receive"}, peer : Rank, tag : Tags, how : {"add", "combine"}]
LocalCall == {LocalBarrier} \cup [do : {"bcast", "reduce"}, root : Rank]

\* The operations that begin, and those that end, with a local call.
Begins == {"barrier", "reduce", "allreduce"}
Ends   == {"barrier", "bcast", "allgather", "allreduce"}

FirstLocal(c, r) ==
  IF c.op = "barrier" THEN LocalBarrier
  ELSE LocalReduce(IF c.op = "reduce" /\ IsLocal(r, c.root) THEN c.root ELSE MyCoordinator(r))
LastLocal(c, r) ==
  IF c.op = "barrier" THEN LocalBarrier
  ELSE LocalBcast(IF c.op = "bcast" /\ IsLocal(r, c.root) THEN c.root ELSE MyCoordinator(r))

Prologue(c, r) == When(c.op \in Begins, <<FirstLocal(c, r)>>)
Epilogue(c, r) == When(c.op \in Ends, <<LastLocal(c, r)>>)

\* The number of local calls of c, and the j-th of them.
LocalCount(c) == (IF c.op \in Begins THEN 1 ELSE 0) + (IF c.op \in Ends THEN 1 ELSE 0)
LocalOf(c, r, j) == IF j = 1 /\ c.op \in Begins THEN FirstLocal(c, r) ELSE LastLocal(c, r)

\* The number of local calls among the first s - 1 steps of c, and in the first k
\* calls of the program.
Before(c, r, s) ==
  (IF c.op \in Begins /\ s > 1 THEN 1 ELSE 0)
  + (IF c.op \in Ends /\ s > Len(Steps(c, r)) THEN 1 ELSE 0)
LocalsUpTo(k) == { u \in (1 .. k) \X (1 .. 2) : u[2] <= LocalCount(program[u[1]]) }
Base(k) == Cardinality(LocalsUpTo(k))

Value   == [parts : SUBSET Everything, order : Seq(Rank)]
Message == [tag : Tags, payload : Value]
Entry   == [call : LocalCall, value : Value]

TypeInv ==
  /\ program \in Programs
  /\ eager \in BOOLEAN
  /\ done \in [Rank -> 0 .. Len(program)]
  /\ step \in [Rank -> Nat]
  /\ value \in [Rank -> Value]
  /\ results \in [Rank -> Seq(Value)]
  /\ wire \in [Rank \X Rank -> Seq(Message)]
  /\ entered \in [Rank -> Seq(Entry)]
  /\ inside \in [Rank -> BOOLEAN]

\* A member in a call is at a step of it or at its end.
PlaceInv ==
  \A r \in Rank :
    /\ Len(results[r]) = done[r]
    /\ InCall(r) => done[r] < Len(program) /\ step[r] <= Len(StepsOf(r)) + 1
    /\ inside[r] => IsLocalCall(r)

\* A member has made the local calls of the calls it has returned from, and those
\* of the current call it has passed or is in.
CountInv ==
  \A r \in Rank :
    Len(entered[r]) = Base(done[r])
                      + (IF InCall(r) THEN Before(Current(r), r, step[r]) ELSE 0)
                      + (IF inside[r] THEN 1 ELSE 0)

\* The n-th local call is that of the program.
CallsInv ==
  \A r \in Rank : \A n \in 1 .. Len(entered[r]) :
    \E k \in 1 .. Len(program) : \E j \in 1 .. LocalCount(program[k]) :
      n = Base(k - 1) + j /\ entered[r][n].call = LocalOf(program[k], r, j)

IInv == TypeInv /\ PlaceInv /\ CountInv /\ CallsInv

\* The steps of every call have that shape.
Shape ==
  \A c \in Call, r \in Rank : \E t \in Seq(Talk) :
    Steps(c, r) = Prologue(c, r) \o t \o Epilogue(c, r)
-----------------------------------------------------------------------------
(* The operators on sets and sequences *)

\* A set of natural numbers has a least element, and First is it.
LEMMA FirstLemma ==
  ASSUME NEW S \in SUBSET Nat, S # {}
  PROVE  First(S) \in S /\ \A y \in S : First(S) <= y
<1>1. PICK x \in S : \A y \in S : ~(<<y, x>> \in OpToRel(<, Nat))
  BY NatLessThanWellFounded, WFMin, Zenon
<1>2. \A y \in S : ~(y < x)
  BY <1>1 DEF OpToRel
<1>3. \A y \in S : x <= y
  BY <1>2
<1>. QED  BY <1>3 DEF First

IsAscending(s, S) ==
  s \in [1 .. Cardinality(S) -> S] /\ \A i, j \in DOMAIN s : i < j => s[i] < s[j]

\* One more number, greater than the others, goes to the end.
LEMMA AscendingStep ==
  ASSUME NEW b \in Nat, NEW S \in SUBSET (0 .. b), b \in S,
         NEW t, IsAscending(t, S \ {b})
  PROVE  \E s : IsAscending(s, S)
<1> DEFINE n == Cardinality(S \ {b})
           s == [i \in 1 .. n + 1 |-> IF i = n + 1 THEN b ELSE t[i]]
<1>1. IsFiniteSet(S) /\ IsFiniteSet(S \ {b})
  BY FS_Interval, FS_Subset, 0 \in Int, b \in Int
<1>2. n \in Nat /\ Cardinality(S) = n + 1
  <2>1. Cardinality(S \ {b}) = Cardinality(S) - 1
    BY <1>1, FS_RemoveElement
  <2>. QED  BY <1>1, <2>1, FS_CardinalityType
<1>3. /\ t \in [1 .. n -> S \ {b}]
      /\ \A i, j \in 1 .. n : i < j => t[i] < t[j]
  BY DEF IsAscending
<1> HIDE DEF n
<1>4. s \in [1 .. n + 1 -> S]
  BY <1>2, <1>3
<1>5. ASSUME NEW i \in 1 .. n + 1, NEW j \in 1 .. n + 1, i < j PROVE s[i] < s[j]
  <2>0. i \in 1 .. n
    BY <1>2, <1>5
  <2>1. i \in 1 .. n /\ t[i] \in 0 .. b /\ t[i] # b /\ t[i] < b
    <3>1. t[i] \in S \ {b}
      BY <1>3, <2>0
    <3>2. t[i] \in 0 .. b /\ t[i] # b
      BY <3>1
    <3>. QED  BY <2>0, <3>2
  <2>2. CASE j = n + 1
    BY <1>2, <2>1, <2>2
  <2>3. CASE j \in 1 .. n
    BY <1>2, <1>3, <1>5, <2>1, <2>3
  <2>. QED  BY <1>2, <2>2, <2>3
<1> HIDE DEF s
<1>. QED  BY <1>2, <1>4, <1>5 DEF IsAscending

\* Numbers up to a bound can be put in their order.
LEMMA AscendingExists ==
  ASSUME NEW n \in Nat, NEW S \in SUBSET (0 .. n - 1)
  PROVE  \E s : IsAscending(s, S)
<1> DEFINE Bad == { b \in Nat : \E T \in SUBSET (0 .. b - 1) : ~ \E s : IsAscending(s, T) }
<1>1. SUFFICES Bad = {}
  OBVIOUS
<1>2. SUFFICES ASSUME Bad # {} PROVE FALSE
  OBVIOUS
<1>3. First(Bad) \in Bad /\ \A y \in Bad : First(Bad) <= y
  <2>1. Bad \in SUBSET Nat
    OBVIOUS
  <2> HIDE DEF Bad
  <2>. QED  BY <1>2, <2>1, FirstLemma
<1> DEFINE m == First(Bad)
<1>4. m \in Nat
  BY <1>3
<1>5. PICK T \in SUBSET (0 .. m - 1) : ~ \E s : IsAscending(s, T)
  BY <1>3
<1>6. \A b \in Nat : b < m => b \notin Bad
  <2>1. \A y \in Bad : m <= y
    BY <1>3
  <2> HIDE DEF m, Bad
  <2>. QED  BY <1>4, <2>1
<1> HIDE DEF m
<1>7. CASE m = 0
  <2>1. T = {}
    BY <1>4, <1>7
  <2>2. Cardinality(T) = 0
    BY <2>1, FS_EmptySet
  <2>3. IsAscending([i \in 1 .. 0 |-> 0], T)
    <3>1. [i \in 1 .. 0 |-> 0] \in [1 .. 0 -> T] /\ 1 .. 0 = {}
      OBVIOUS
    <3>. QED  BY <2>2, <3>1 DEF IsAscending
  <2>. QED  BY <1>5, <2>3
<1>8. CASE m > 0
  <2>1. m - 1 \in Nat /\ m - 1 < m /\ T \in SUBSET (0 .. m - 1)
    BY <1>4, <1>8
  <2>2. m - 1 \notin Bad
    BY <1>6, <2>1
  <2>3. T \ {m - 1} \in SUBSET (0 .. (m - 1) - 1)
    <3>1. \A x \in T \ {m - 1} : x \in 0 .. (m - 1) - 1
      BY <1>4, <2>1
    <3>. QED  BY <3>1
  <2>4. PICK t : IsAscending(t, T \ {m - 1})
    BY <2>1, <2>2, <2>3
  <2>5. CASE m - 1 \in T
    BY <1>5, <2>1, <2>4, <2>5, AscendingStep
  <2>6. CASE m - 1 \notin T
    <3>1. T \ {m - 1} = T
      BY <2>6
    <3>. QED  BY <1>5, <2>4, <3>1
  <2>. QED  BY <2>5, <2>6
<1>. QED  BY <1>4, <1>7, <1>8

\* The function Ascending chooses: it enumerates the set, upwards and without repetition.
LEMMA AscendingLemma ==
  ASSUME NEW n \in Nat, NEW S \in SUBSET (0 .. n - 1)
  PROVE  /\ Cardinality(S) \in Nat
         /\ Ascending(S) \in [1 .. Cardinality(S) -> S]
         /\ Len(Ascending(S)) = Cardinality(S)
         /\ Ascending(S) \in Seq(S)
<1>1. Cardinality(S) \in Nat
  BY FS_Interval, FS_Subset, FS_CardinalityType, 0 \in Int, n - 1 \in Int
<1>2. PICK s : IsAscending(s, S)
  BY AscendingExists
<1>3. Ascending(S) \in [1 .. Cardinality(S) -> S]
  BY <1>2 DEF IsAscending, Ascending
<1>. QED  BY <1>1, <1>3

\* f flattens the first n sequences of s.
Flattens(f, s, n) ==
  f = [i \in 1 .. n |-> IF i = 1 THEN s[i] ELSE f[i - 1] \o s[i]]

\* For every sequence of sequences there are its partial concatenations.
LEMMA FlattensExists ==
  ASSUME NEW T, NEW s \in Seq(Seq(T)), NEW n \in 0 .. Len(s)
  PROVE  \E f : Flattens(f, s, n)
<1> DEFINE Bad == { m \in Nat : m <= Len(s) /\ ~ \E f : Flattens(f, s, m) }
<1>1. SUFFICES ASSUME Bad # {} PROVE FALSE
  OBVIOUS
<1>2. Bad \in SUBSET Nat
  OBVIOUS
<1>3. First(Bad) \in Bad /\ \A y \in Bad : First(Bad) <= y
  <2> HIDE DEF Bad
  <2>. QED  BY <1>1, <1>2, FirstLemma
<1> DEFINE m == First(Bad)
<1>4. m \in Nat /\ m <= Len(s) /\ ~ \E f : Flattens(f, s, m)
  BY <1>3
<1>5. m - 1 \in Nat => m - 1 \notin Bad
  <2>1. \A y \in Bad : m <= y
    BY <1>3
  <2> HIDE DEF m, Bad
  <2>. QED  BY <1>4, <2>1
<1>6. m - 1 \in Nat => \E f : Flattens(f, s, m - 1)
  <2> HIDE DEF m
  <2>. QED  BY <1>4, <1>5
<1> HIDE DEF m, Bad
<1>7. CASE m = 0
  <2>1. Flattens([i \in 1 .. 0 |-> 0], s, 0)
    BY DEF Flattens
  <2>. QED  BY <1>4, <1>7, <2>1
<1>8. CASE m > 0
  <2>1. PICK f : Flattens(f, s, m - 1)
    BY <1>4, <1>6, <1>8
  <2> DEFINE g == [i \in 1 .. m |-> IF i = m THEN (IF i = 1 THEN s[i] ELSE f[i - 1] \o s[i]) ELSE f[i]]
  <2>2. ASSUME NEW i \in 1 .. m
        PROVE  g[i] = IF i = 1 THEN s[i] ELSE g[i - 1] \o s[i]
    <3>1. i \in Nat /\ (i # 1 => i - 1 \in 1 .. m /\ i - 1 # m)
      BY <1>4
    <3>2. i # 1 => g[i - 1] = f[i - 1]
      BY <3>1
    <3>3. CASE i = m
      BY <3>2, <3>3
    <3>4. CASE i # m
      <4>1. i \in 1 .. m - 1
        BY <1>4, <3>4
      <4>2. f[i] = IF i = 1 THEN s[i] ELSE f[i - 1] \o s[i]
        BY <2>1, <4>1 DEF Flattens
      <4>3. g[i] = f[i]
        BY <3>4
      <4> HIDE DEF g
      <4>. QED  BY <3>2, <4>2, <4>3
    <3>. QED  BY <3>3, <3>4
  <2>3. DOMAIN g = 1 .. m /\ g = [i \in 1 .. m |-> g[i]]
    OBVIOUS
  <2> HIDE DEF g
  <2>4. Flattens(g, s, m)
    BY <2>2, <2>3 DEF Flattens
  <2>. QED  BY <1>4, <2>4
<1>. QED  BY <1>4, <1>7, <1>8

\* They are sequences over the set that the parts are over.
LEMMA FlattensType ==
  ASSUME NEW T, NEW s \in Seq(Seq(T)), NEW f, Flattens(f, s, Len(s)), NEW n \in 1 .. Len(s)
  PROVE  f[n] \in Seq(T)
<1> DEFINE Bad == { i \in 1 .. Len(s) : f[i] \notin Seq(T) }
<1>1. SUFFICES ASSUME Bad # {} PROVE FALSE
  OBVIOUS
<1>2. Bad \in SUBSET Nat
  OBVIOUS
<1>3. First(Bad) \in Bad /\ \A y \in Bad : First(Bad) <= y
  <2> HIDE DEF Bad
  <2>. QED  BY <1>1, <1>2, FirstLemma
<1> DEFINE m == First(Bad)
<1>4. m \in 1 .. Len(s) /\ f[m] \notin Seq(T) /\ Len(s) \in Nat
  BY <1>3
<1>5. \A y \in Bad : m <= y
  BY <1>3
<1> HIDE DEF m
<1>6. m # 1 => f[m - 1] \in Seq(T)
  BY <1>4, <1>5
<1> HIDE DEF Bad
<1>7. s[m] \in Seq(T)
  BY <1>4, ElementOfSeq
<1>8. f[m] = IF m = 1 THEN s[m] ELSE f[m - 1] \o s[m]
  BY <1>4 DEF Flattens
<1>. QED  BY <1>4, <1>6, <1>7, <1>8, ConcatProperties

\* The last of them is FlattenSeq, of the same type.
LEMMA FlattenSeqLemma ==
  ASSUME NEW T, NEW s \in Seq(Seq(T))
  PROVE  FlattenSeq(s) \in Seq(T)
<1>1. CASE Len(s) = 0
  <2>1. s = << >>
    BY <1>1, EmptySeq
  <2>. QED  BY <1>1, <2>1 DEF FlattenSeq
<1>2. CASE Len(s) # 0
  <2> DEFINE f == CHOOSE f : Flattens(f, s, Len(s))
  <2>1. Len(s) \in 1 .. Len(s) /\ Len(s) \in 0 .. Len(s)
    BY <1>2, LenProperties
  <2>2. Flattens(f, s, Len(s))
    BY <2>1, FlattensExists
  <2>3. FlattenSeq(s) = f[Len(s)]
    BY <1>2 DEF FlattenSeq, Flattens
  <2> HIDE DEF f
  <2>. QED  BY <2>1, <2>2, <2>3, FlattensType
<1>. QED  BY <1>1, <1>2

-----------------------------------------------------------------------------
(* The communicator *)

\* There is a member, and every member has a cluster.
LEMMA MembersLemma ==
  /\ Size \in Nat \ {0} /\ Rank = 0 .. Size - 1
  /\ \A r \in Rank : Home(r) \in Cluster
<1>1. Size \in Nat
  BY ClusterAssumption, LenProperties DEF Size
<1>2. 0 \in Cluster
  BY ClusterAssumption DEF Cluster
<1>3. Rank # {}
  BY <1>2, SpanAssumption
<1>4. Size # 0
  BY <1>3 DEF Rank
<1>. QED  BY <1>1, <1>4, SpanAssumption DEF Rank

\* Being in one cluster is an equivalence, and its coordinator stands for the class.
LEMMA PeersLemma ==
  ASSUME NEW r \in Rank
  PROVE  /\ Peers(r) \in SUBSET Rank /\ r \in Peers(r)
         /\ MyCoordinator(r) \in Rank /\ IsLocal(MyCoordinator(r), r)
         /\ \A q \in Rank : IsLocal(r, q) => Peers(q) = Peers(r)
<1>1. Peers(r) \in SUBSET Rank /\ r \in Peers(r)
  BY DEF Peers
<1>2. Peers(r) \in SUBSET Nat
  BY <1>1, MembersLemma
<1>3. MyCoordinator(r) \in Peers(r)
  BY <1>1, <1>2, FirstLemma DEF MyCoordinator
<1>. QED  BY <1>1, <1>3 DEF Peers, IsLocal

\* There is a coordinator for every cluster.
LEMMA CoordinatorsLemma ==
  /\ Coordinators \in Seq(Rank) /\ Len(Coordinators) = ClusterCount
  /\ \A i \in Cluster : CoordinatorAt(i) \in Rank
  /\ ToSet(Coordinators) \in SUBSET Rank
<1> DEFINE C == { First(Peers(r)) : r \in Rank }
           g == [i \in Cluster |-> First({ q \in Rank : Home(q) = i })]
<1>1. C \in SUBSET Rank
  BY PeersLemma DEF MyCoordinator
<1>2. ASSUME NEW i \in Cluster
      PROVE  g[i] \in Rank /\ Home(g[i]) = i /\ g[i] = First(Peers(g[i])) /\ g[i] \in C
  <2> DEFINE Q == { q \in Rank : Home(q) = i }
  <2>1. Q # {} /\ Q \in SUBSET Rank
    BY SpanAssumption
  <2>2. Q \in SUBSET Nat
    BY <2>1, MembersLemma
  <2>3. First(Q) \in Q
    BY <2>1, <2>2, FirstLemma
  <2>4. g[i] = First(Q) /\ g[i] \in Rank /\ Home(g[i]) = i
    BY <2>3
  <2>5. Peers(g[i]) = Q
    BY <2>4 DEF Peers
  <2>. QED  BY <2>4, <2>5
<1>3. ASSUME NEW x \in C PROVE \E i \in Cluster : g[i] = x
  <2>1. PICK r \in Rank : x = First(Peers(r))
    OBVIOUS
  <2>2. Home(r) \in Cluster
    BY MembersLemma
  <2>3. g[Home(r)] = x
    BY <2>1, <2>2 DEF Peers
  <2>. QED  BY <2>2, <2>3
<1>4. \A i, j \in Cluster : g[i] = g[j] => i = j
  BY <1>2
<1>5. g \in [Cluster -> C]
  <2>1. DOMAIN g = Cluster /\ g = [i \in Cluster |-> g[i]]
    OBVIOUS
  <2> HIDE DEF g, C
  <2>. QED  BY <1>2, <2>1
<1> HIDE DEF g, C
<1>6. g \in Bijection(Cluster, C)
  BY <1>3, <1>4, <1>5 DEF Bijection, Injection, Surjection, IsInjective
<1>7. IsFiniteSet(Cluster) /\ Cardinality(Cluster) = ClusterCount
  <2>1. ClusterCount \in Nat \ {0} /\ 0 \in Int /\ ClusterCount - 1 \in Int /\ ~ (0 > ClusterCount - 1)
    BY ClusterAssumption
  <2>2. IsFiniteSet(Cluster) /\ Cardinality(Cluster) = (ClusterCount - 1) - 0 + 1
    BY <2>1, FS_Interval DEF Cluster
  <2>. QED  BY <2>1, <2>2
<1>8. Cardinality(C) = ClusterCount
  BY <1>6, <1>7, FS_Bijection DEF ExistsBijection
<1>9. C \in SUBSET (0 .. Size - 1) /\ Size \in Nat
  BY <1>1, MembersLemma
<1>10. /\ Coordinators \in [1 .. ClusterCount -> C]
       /\ Len(Coordinators) = ClusterCount /\ Coordinators \in Seq(C)
  BY <1>8, <1>9, AscendingLemma DEF Coordinators, C
<1>11. \A i \in Cluster : i + 1 \in 1 .. ClusterCount
  BY ClusterAssumption DEF Cluster
<1>12. \A i \in 1 .. ClusterCount : Coordinators[i] \in Rank
  BY <1>1, <1>10
<1>. QED  BY <1>1, <1>10, <1>11, <1>12 DEF CoordinatorAt, ToSet

-----------------------------------------------------------------------------
(* The steps of a call *)

\* A send to a member is a message step.
LEMMA SendType ==
  ASSUME NEW q \in Rank, NEW tag \in Tags, NEW what \in SUBSET Everything
  PROVE  Send(q, tag, what) \in Talk /\ SendOwn(q, tag) \in Talk
BY DEF Send, SendOwn, Talk

\* A receive from a member is a message step.
LEMMA ReceiveType ==
  ASSUME NEW q \in Rank, NEW tag \in Tags, NEW how \in {"add", "combine"}
  PROVE  Receive(q, tag, how) \in Talk
BY DEF Receive, Talk

\* So are all the receives of a member.
LEMMA ReceivesType ==
  ASSUME NEW qs \in Seq(Rank), NEW tag \in Tags, NEW how \in {"add", "combine"}
  PROVE  [j \in DOMAIN qs |-> Receive(qs[j], tag, how)] \in Seq(Talk)
<1>1. Len(qs) \in Nat /\ DOMAIN qs = 1 .. Len(qs)
  BY LenProperties
<1>2. \A j \in 1 .. Len(qs) : Receive(qs[j], tag, how) \in Talk
  BY ElementOfSeq, ReceiveType
<1>. QED  BY <1>1, <1>2

\* Members, and clusters, in their order.
LEMMA AscendingType ==
  /\ \A S \in SUBSET Rank : Ascending(S) \in Seq(S) /\ Ascending(S) \in Seq(Rank)
  /\ \A S \in SUBSET Cluster : Ascending(S) \in Seq(S) /\ Ascending(S) \in Seq(Cluster)
<1>1. \A S \in SUBSET Rank : Ascending(S) \in Seq(S)
  BY MembersLemma, AscendingLemma
<1>2. \A S \in SUBSET Cluster : Ascending(S) \in Seq(S)
  BY ClusterAssumption, AscendingLemma DEF Cluster
<1>. QED  BY <1>1, <1>2, SeqMonotonic

\* messaging_bcast consists of message steps.
LEMMA WaBcastType ==
  ASSUME NEW r \in Rank, NEW what \in SUBSET Everything
  PROVE  WaBcast(r, what) \in Seq(Talk)
<1> DEFINE others == Ascending(Cluster \ {Home(r)})
<1>1. others \in Seq(Cluster)
  BY AscendingType
<1> HIDE DEF others
<1>2. Len(others) \in Nat /\ DOMAIN others = 1 .. Len(others)
  BY <1>1, LenProperties
<1>3. ASSUME NEW j \in 1 .. Len(others)
      PROVE  Send(CoordinatorAt(others[j]), "bcast", what) \in Talk
  <2>1. CoordinatorAt(others[j]) \in Rank
    BY <1>1, ElementOfSeq, CoordinatorsLemma
  <2>. QED  BY <2>1, SendType DEF Tags
<1>4. [j \in DOMAIN others |-> Send(CoordinatorAt(others[j]), "bcast", what)] \in Seq(Talk)
  BY <1>2, <1>3
<1>. QED  BY <1>4 DEF WaBcast, others

\* When keeps the type of the steps it guards.
LEMMA WhenType ==
  ASSUME NEW T, NEW s \in Seq(T), NEW condition
  PROVE  When(condition, s) \in Seq(T)
BY DEF When

\* A single step as a sequence.
LEMMA SingleType ==
  ASSUME NEW T, NEW x \in T
  PROVE  <<x>> \in Seq(T) /\ Len(<<x>>) = 1
OBVIOUS

AnyStep == Talk \cup LocalCall

\* The calls of the local MPI are of their type.
LEMMA LocalType ==
  ASSUME NEW c \in Call, NEW r \in Rank
  PROVE  FirstLocal(c, r) \in LocalCall /\ LastLocal(c, r) \in LocalCall
<1>1. MyCoordinator(r) \in Rank /\ c.root \in Rank
  BY PeersLemma DEF Call
<1>2. \A q \in Rank : LocalReduce(q) \in LocalCall /\ LocalBcast(q) \in LocalCall
  BY DEF LocalReduce, LocalBcast, LocalCall
<1>3. LocalBarrier \in LocalCall
  BY DEF LocalCall
<1>. QED  BY <1>1, <1>2, <1>3 DEF FirstLocal, LastLocal

\* Messages alone, after a local call, before one, or between two.
LEMMA ShapeLemma ==
  ASSUME NEW c \in Call, NEW r \in Rank, NEW t \in Seq(Talk)
  PROVE  Prologue(c, r) \o t \o Epilogue(c, r) =
           IF c.op \in Begins
           THEN IF c.op \in Ends THEN <<FirstLocal(c, r)>> \o t \o <<LastLocal(c, r)>>
                ELSE <<FirstLocal(c, r)>> \o t
           ELSE IF c.op \in Ends THEN t \o <<LastLocal(c, r)>> ELSE t
<1>1. t \in Seq(AnyStep)
  BY SeqMonotonic DEF AnyStep
<1>2. <<FirstLocal(c, r)>> \in Seq(AnyStep)
  BY LocalType, SingleType DEF AnyStep
<1>3. <<FirstLocal(c, r)>> \o t \in Seq(AnyStep)
  BY <1>1, <1>2, ConcatProperties
<1>4. << >> \o t = t /\ t \o << >> = t /\ (<<FirstLocal(c, r)>> \o t) \o << >> = <<FirstLocal(c, r)>> \o t
  BY <1>1, <1>3, ConcatEmptySeq
<1>. QED  BY <1>4 DEF Prologue, Epilogue, When

\* EMPI_Barrier: local barrier, messages of the coordinators, local barrier.
LEMMA BarrierShape ==
  ASSUME NEW c \in Call, NEW r \in Rank, c.op = "barrier"
  PROVE  \E t \in Seq(Talk) : Steps(c, r) = Prologue(c, r) \o t \o Epilogue(c, r)
<1> DEFINE others == Ascending(1 .. ClusterCount - 1)
           gather == [j \in DOMAIN others |-> Receive(CoordinatorAt(others[j]), "barrier", "add")]
           root == When(r = CoordinatorAt(0), gather \o WaBcast(r, {}))
           leaf == When(\E i \in 1 .. ClusterCount - 1 : r = CoordinatorAt(i),
                        <<Send(CoordinatorAt(0), "barrier", {}),
                          Receive(CoordinatorAt(0), "bcast", "add")>>)
<1>1. others \in Seq(Cluster)
  <2>1. 1 .. ClusterCount - 1 \in SUBSET Cluster
    BY ClusterAssumption DEF Cluster
  <2>. QED  BY <2>1, AscendingType
<1>2. gather \in Seq(Talk)
  <2> HIDE DEF others
  <2>1. Len(others) \in Nat /\ DOMAIN others = 1 .. Len(others)
    BY <1>1, LenProperties
  <2>2. \A j \in 1 .. Len(others) : Receive(CoordinatorAt(others[j]), "barrier", "add") \in Talk
    BY <1>1, ElementOfSeq, CoordinatorsLemma, ReceiveType DEF Tags
  <2>. QED  BY <2>1, <2>2
<1> HIDE DEF gather
<1>3. root \in Seq(Talk)
  BY <1>2, WaBcastType, ConcatProperties, WhenType
<1>4. leaf \in Seq(Talk)
  <2>1. CoordinatorAt(0) \in Rank
    BY CoordinatorsLemma, ClusterAssumption DEF Cluster
  <2>2. Send(CoordinatorAt(0), "barrier", {}) \in Talk /\ Receive(CoordinatorAt(0), "bcast", "add") \in Talk
    BY <2>1, SendType, ReceiveType DEF Tags
  <2>3. <<Send(CoordinatorAt(0), "barrier", {}), Receive(CoordinatorAt(0), "bcast", "add")>> \in Seq(Talk)
    BY <2>2
  <2>. QED  BY <2>3, WhenType
<1>5. Steps(c, r) = <<LocalBarrier>> \o root \o leaf \o <<LocalBarrier>>
  BY DEF Steps, Barrier, gather
<1> HIDE DEF root, leaf
<1>6. root \o leaf \in Seq(Talk)
  BY <1>3, <1>4, ConcatProperties
<1>7. <<LocalBarrier>> \o root \o leaf = <<LocalBarrier>> \o (root \o leaf)
  <2>1. <<LocalBarrier>> \in Seq(AnyStep)
    BY SingleType DEF AnyStep, LocalCall
  <2>2. root \in Seq(AnyStep) /\ leaf \in Seq(AnyStep)
    BY <1>3, <1>4, SeqMonotonic DEF AnyStep
  <2>. QED  BY <2>1, <2>2, ConcatAssociative
<1>8. c.op \in Begins /\ c.op \in Ends /\ FirstLocal(c, r) = LocalBarrier /\ LastLocal(c, r) = LocalBarrier
  BY DEF Begins, Ends, FirstLocal, LastLocal
<1>9. Prologue(c, r) \o (root \o leaf) \o Epilogue(c, r) = <<LocalBarrier>> \o (root \o leaf) \o <<LocalBarrier>>
  BY <1>6, <1>8, ShapeLemma
<1>. QED  BY <1>5, <1>6, <1>7, <1>9

\* EMPI_Bcast: messages of the root and the coordinators, then the local broadcast.
LEMMA BcastShape ==
  ASSUME NEW c \in Call, NEW r \in Rank, c.op = "bcast"
  PROVE  \E t \in Seq(Talk) : Steps(c, r) = Prologue(c, r) \o t \o Epilogue(c, r)
<1> DEFINE g == c.root
           root == When(r = g, WaBcast(r, Everything))
           leaf == When(~IsLocal(r, g) /\ r = MyCoordinator(r), <<Receive(g, "bcast", "add")>>)
<1>1. g \in Rank
  BY DEF Call
<1>2. root \in Seq(Talk)
  BY WaBcastType, WhenType
<1>3. leaf \in Seq(Talk)
  BY <1>1, ReceiveType, SingleType, WhenType DEF Tags
<1>4. Steps(c, r) = root \o leaf \o <<LastLocal(c, r)>>
  BY DEF Steps, Bcast, LastLocal
<1> HIDE DEF root, leaf
<1>5. root \o leaf \in Seq(Talk)
  BY <1>2, <1>3, ConcatProperties
<1>6. Prologue(c, r) \o (root \o leaf) \o Epilogue(c, r) = (root \o leaf) \o <<LastLocal(c, r)>>
  BY <1>5, ShapeLemma DEF Begins, Ends
<1>. QED  BY <1>4, <1>5, <1>6

\* EMPI_Gatherv: messages only.
LEMMA GathervType ==
  ASSUME NEW r \in Rank, NEW g \in Rank
  PROVE  Gatherv(r, g) \in Seq(Talk)
<1>1. Ascending(Rank \ {g}) \in Seq(Rank)
  BY AscendingType
<1>2. {<<r, g>>} \in SUBSET Everything
  BY DEF Everything
<1>3. Send(g, "gatherv", {<<r, g>>}) \in Talk
  BY <1>2, SendType DEF Tags
<1> DEFINE others == Ascending(Rank \ {g})
<1>4. [j \in DOMAIN others |-> Receive(others[j], "gatherv", "add")] \in Seq(Talk)
  BY <1>1, ReceivesType DEF Tags
<1>. QED  BY <1>3, <1>4, SingleType DEF Gatherv

\* EMPI_Scatterv: messages only.
LEMMA ScattervType ==
  ASSUME NEW r \in Rank, NEW g \in Rank
  PROVE  Scatterv(r, g) \in Seq(Talk)
<1> DEFINE others == Ascending(Rank \ {g})
<1>1. others \in Seq(Rank)
  BY AscendingType
<1>2. Receive(g, "scatterv", "add") \in Talk
  BY ReceiveType DEF Tags
<1>3. [j \in DOMAIN others |-> Send(others[j], "scatterv", {<<g, others[j]>>})] \in Seq(Talk)
  <2> HIDE DEF others
  <2>1. Len(others) \in Nat /\ DOMAIN others = 1 .. Len(others)
    BY <1>1, LenProperties
  <2>2. ASSUME NEW j \in 1 .. Len(others)
        PROVE  Send(others[j], "scatterv", {<<g, others[j]>>}) \in Talk
    <3>1. others[j] \in Rank
      BY <1>1, ElementOfSeq
    <3>2. {<<g, others[j]>>} \in SUBSET Everything
      BY <3>1 DEF Everything
    <3>. QED  BY <3>1, <3>2, SendType DEF Tags
  <2>. QED  BY <2>1, <2>2
<1>. QED  BY <1>2, <1>3, SingleType DEF Scatterv

\* EMPI_Allgatherv: messages through the coordinators, then the local broadcast.
LEMMA AllgathervShape ==
  ASSUME NEW c \in Call, NEW r \in Rank, c.op = "allgather"
  PROVE  \E t \in Seq(Talk) : Steps(c, r) = Prologue(c, r) \o t \o Epilogue(c, r)
<1> DEFINE peers == Ascending(Peers(r) \ {r})
           exchange == [i \in 1 .. ClusterCount |->
                         IF Coordinators[i] = r THEN WaBcast(r, OfCluster(r))
                         ELSE <<Receive(Coordinators[i], "bcast", "add")>>]
           gather == [j \in DOMAIN peers |-> Receive(peers[j], "allgatherv", "add")]
           t == IF r = MyCoordinator(r) THEN gather \o FlattenSeq(exchange)
                ELSE <<Send(MyCoordinator(r), "allgatherv", Everything)>>
<1>1. peers \in Seq(Rank)
  BY PeersLemma, AscendingType
<1>2. gather \in Seq(Talk)
  <2> HIDE DEF peers
  <2>. QED  BY <1>1, ReceivesType DEF Tags
<1>3. OfCluster(r) \in SUBSET Everything /\ Everything \in SUBSET Everything
  BY DEF OfCluster, Everything
<1>4. exchange \in Seq(Seq(Talk))
  <2>1. ASSUME NEW i \in 1 .. ClusterCount
        PROVE  <<Receive(Coordinators[i], "bcast", "add")>> \in Seq(Talk)
    BY CoordinatorsLemma, ElementOfSeq, ReceiveType, SingleType DEF Tags
  <2>2. WaBcast(r, OfCluster(r)) \in Seq(Talk)
    BY <1>3, WaBcastType
  <2>3. ClusterCount \in Nat
    BY ClusterAssumption
  <2>. QED  BY <2>1, <2>2, <2>3
<1> HIDE DEF exchange, gather
<1>5. FlattenSeq(exchange) \in Seq(Talk)
  BY <1>4, FlattenSeqLemma
<1>6. t \in Seq(Talk)
  <2>1. gather \o FlattenSeq(exchange) \in Seq(Talk)
    BY <1>2, <1>5, ConcatProperties
  <2>2. Send(MyCoordinator(r), "allgatherv", Everything) \in Talk
    BY <1>3, PeersLemma, SendType DEF Tags
  <2>. QED  BY <2>1, <2>2, SingleType
<1>7. Steps(c, r) = t \o <<LastLocal(c, r)>>
  BY DEF Steps, Allgather, Allgatherv, LastLocal, exchange, gather
<1> HIDE DEF t
<1>8. Prologue(c, r) \o t \o Epilogue(c, r) = t \o <<LastLocal(c, r)>>
  BY <1>6, ShapeLemma DEF Begins, Ends
<1>. QED  BY <1>6, <1>7, <1>8

\* EMPI_Alltoallv: messages only.
LEMMA AlltoallvType ==
  ASSUME NEW r \in Rank
  PROVE  Alltoallv(r) \in Seq(Talk)
<1> DEFINE Round(i) == LET others == Ascending(Rank \ {i})
                       IN  IF i = r THEN [j \in DOMAIN others |-> Receive(others[j], "alltoallv", "add")]
                                    ELSE <<Send(i, "alltoallv", {<<r, i>>})>>
           rounds == [k \in 1 .. Size |-> Round(k - 1)]
<1>1. ASSUME NEW i \in Rank PROVE Round(i) \in Seq(Talk)
  <2> DEFINE others == Ascending(Rank \ {i})
  <2>1. others \in Seq(Rank)
    BY AscendingType
  <2>2. [j \in DOMAIN others |-> Receive(others[j], "alltoallv", "add")] \in Seq(Talk)
    <3> HIDE DEF others
    <3>. QED  BY <2>1, ReceivesType DEF Tags
  <2>3. Send(i, "alltoallv", {<<r, i>>}) \in Talk
    <3>1. {<<r, i>>} \in SUBSET Everything
      BY DEF Everything
    <3>. QED  BY <3>1, SendType DEF Tags
  <2>. QED  BY <2>2, <2>3, SingleType
<1>2. Size \in Nat /\ \A k \in 1 .. Size : k - 1 \in Rank
  BY MembersLemma
<1>3. Alltoallv(r) = FlattenSeq(rounds)
  <2>1. rounds = [k \in 1 .. Size |->
          LET i == k - 1
              others == Ascending(Rank \ {i})
          IN  IF i = r THEN [j \in DOMAIN others |-> Receive(others[j], "alltoallv", "add")]
                       ELSE <<Send(i, "alltoallv", {<<r, i>>})>>]
    OBVIOUS
  <2>. QED  BY <2>1 DEF Alltoallv
<1> HIDE DEF Round
<1>4. rounds \in Seq(Seq(Talk))
  BY <1>1, <1>2
<1> HIDE DEF rounds
<1>. QED  BY <1>3, <1>4, FlattenSeqLemma

\* EMPI_Reduce: the local reduction, then messages of the coordinators.
LEMMA ReduceShape ==
  ASSUME NEW c \in Call, NEW r \in Rank, c.op = "reduce"
  PROVE  \E t \in Seq(Talk) : Steps(c, r) = Prologue(c, r) \o t \o Epilogue(c, r)
<1> DEFINE g == c.root
           remote == Ascending({ q \in ToSet(Coordinators) : ~IsLocal(r, q) })
           gather == [j \in DOMAIN remote |-> Receive(remote[j], "reduce", "combine")]
           leaf == When(~IsLocal(r, g) /\ r = MyCoordinator(r), <<Send(g, "reduce", Everything)>>)
           t == IF r = g THEN gather ELSE leaf
<1>1. g \in Rank
  BY DEF Call
<1>2. remote \in Seq(Rank)
  <2>1. { q \in ToSet(Coordinators) : ~IsLocal(r, q) } \in SUBSET Rank
    BY CoordinatorsLemma
  <2>. QED  BY <2>1, AscendingType
<1>3. gather \in Seq(Talk)
  <2> HIDE DEF remote
  <2>. QED  BY <1>2, ReceivesType DEF Tags
<1>4. leaf \in Seq(Talk)
  BY <1>1, SendType, SingleType, WhenType DEF Tags
<1>5. Steps(c, r) = <<FirstLocal(c, r)>> \o t
  BY DEF Steps, Reduce, FirstLocal
<1> HIDE DEF gather, leaf
<1>6. t \in Seq(Talk)
  BY <1>3, <1>4
<1> HIDE DEF t
<1>7. Prologue(c, r) \o t \o Epilogue(c, r) = <<FirstLocal(c, r)>> \o t
  BY <1>6, ShapeLemma DEF Begins, Ends
<1>. QED  BY <1>5, <1>6, <1>7

\* EMPI_Allreduce: local reduction, messages of the coordinators, local broadcast.
LEMMA AllreduceShape ==
  ASSUME NEW c \in Call, NEW r \in Rank, c.op = "allreduce"
  PROVE  \E t \in Seq(Talk) : Steps(c, r) = Prologue(c, r) \o t \o Epilogue(c, r)
<1> DEFINE remote == Ascending(ToSet(Coordinators) \ {r})
           gather == [j \in DOMAIN remote |-> Receive(remote[j], "bcast", "combine")]
           t == When(r = MyCoordinator(r), WaBcast(r, Everything) \o gather)
<1>1. remote \in Seq(Rank)
  <2>1. ToSet(Coordinators) \ {r} \in SUBSET Rank
    BY CoordinatorsLemma
  <2>. QED  BY <2>1, AscendingType
<1>2. gather \in Seq(Talk)
  <2> HIDE DEF remote
  <2>. QED  BY <1>1, ReceivesType DEF Tags
<1>3. Steps(c, r) = <<FirstLocal(c, r)>> \o t \o <<LastLocal(c, r)>>
  BY DEF Steps, Allreduce, FirstLocal, LastLocal, MyCoordinator
<1> HIDE DEF gather
<1>4. t \in Seq(Talk)
  BY <1>2, WaBcastType, ConcatProperties, WhenType
<1> HIDE DEF t
<1>5. Prologue(c, r) \o t \o Epilogue(c, r) = <<FirstLocal(c, r)>> \o t \o <<LastLocal(c, r)>>
  BY <1>4, ShapeLemma DEF Begins, Ends
<1>. QED  BY <1>3, <1>4, <1>5

\* EMPI_Scan: messages only.
LEMMA ScanType ==
  ASSUME NEW r \in Rank
  PROVE  Scan(r) \in Seq(Talk)
<1>1. Size - 1 \in Nat /\ \A k \in 1 .. Size - 1 : k \in Rank /\ k - 1 \in Rank
  BY MembersLemma
<1>2. \A k \in 1 .. Size - 1 : Receive(k - 1, "scan", "combine") \in Talk
  BY <1>1, ReceiveType DEF Tags
<1>3. \A k \in 1 .. Size - 1 : SendOwn(k, "scan") \in Talk
  <2>1. {} \in SUBSET Everything
    OBVIOUS
  <2>. QED  BY <1>1, <2>1, SendType DEF Tags
<1>. QED  BY <1>1, <1>2, <1>3 DEF Scan

\* The steps of every operation have the shape.
LEMMA ShapeHolds == Shape
<1> SUFFICES ASSUME NEW c \in Call, NEW r \in Rank
             PROVE  \E t \in Seq(Talk) : Steps(c, r) = Prologue(c, r) \o t \o Epilogue(c, r)
  BY DEF Shape
<1>1. c.root \in Rank /\ c.op \in Op
  BY DEF Call
<1>2. CASE c.op \in {"gather", "scatter", "alltoall", "scan"}
  <2>1. Steps(c, r) \in Seq(Talk)
    <3>1. CASE c.op = "gather"
      BY <1>1, <3>1, GathervType DEF Steps, Gather
    <3>2. CASE c.op = "scatter"
      BY <1>1, <3>2, ScattervType DEF Steps, Scatter
    <3>3. CASE c.op = "alltoall"
      BY <3>3, AlltoallvType DEF Steps, Alltoall
    <3>4. CASE c.op = "scan"
      BY <3>4, ScanType DEF Steps
    <3>. QED  BY <1>2, <3>1, <3>2, <3>3, <3>4
  <2>2. c.op \notin Begins /\ c.op \notin Ends
    BY <1>2 DEF Begins, Ends
  <2>3. Prologue(c, r) \o Steps(c, r) \o Epilogue(c, r) = Steps(c, r)
    BY <2>1, <2>2, ShapeLemma
  <2>. QED  BY <2>1, <2>3
<1>3. CASE c.op \in {"barrier", "bcast", "allgather", "reduce", "allreduce"}
  BY <1>3, BarrierShape, BcastShape, AllgathervShape, ReduceShape, AllreduceShape
<1>. QED  BY <1>1, <1>2, <1>3 DEF Op

\* Which steps are local calls.
LEMMA StepsLemma ==
  ASSUME NEW c \in Call, NEW r \in Rank
  PROVE  LET s == Steps(c, r) IN
         /\ s \in Seq(AnyStep) /\ Len(s) \in Nat
         /\ c.op \in Begins \cup Ends => Len(s) >= 1
         /\ c.op \in Begins \cap Ends => Len(s) >= 2
         /\ \A i \in 1 .. Len(s) :
              \/ c.op \in Begins /\ i = 1 /\ s[i] = FirstLocal(c, r)
              \/ c.op \in Ends /\ i = Len(s) /\ s[i] = LastLocal(c, r)
              \/ /\ ~ (c.op \in Begins /\ i = 1) /\ ~ (c.op \in Ends /\ i = Len(s))
                 /\ s[i] \in Talk
<1> DEFINE s == Steps(c, r)
           f == FirstLocal(c, r)
           l == LastLocal(c, r)
<1>1. PICK t \in Seq(Talk) : s = Prologue(c, r) \o t \o Epilogue(c, r)
  BY ShapeHolds DEF Shape
<1>2. f \in AnyStep /\ l \in AnyStep
  BY LocalType DEF AnyStep
<1> HIDE DEF f, l
<1>3. t \in Seq(AnyStep) /\ Len(t) \in Nat
  BY SeqMonotonic, LenProperties DEF AnyStep
<1>4. \A i \in 1 .. Len(t) : t[i] \in Talk
  BY ElementOfSeq
<1>5. /\ <<f>> \in Seq(AnyStep) /\ Len(<<f>>) = 1 /\ <<f>>[1] = f
      /\ <<l>> \in Seq(AnyStep) /\ Len(<<l>>) = 1 /\ <<l>>[1] = l
  BY <1>2, SingleType
<1> DEFINE ft == <<f>> \o t
<1>6. /\ ft \in Seq(AnyStep) /\ Len(ft) = Len(t) + 1
      /\ \A i \in 1 .. Len(t) + 1 : ft[i] = IF i = 1 THEN f ELSE t[i - 1]
  <2>1. /\ ft \in Seq(AnyStep) /\ Len(ft) = 1 + Len(t)
        /\ \A i \in 1 .. 1 + Len(t) : ft[i] = IF i <= 1 THEN <<f>>[i] ELSE t[i - 1]
    BY <1>3, <1>5, ConcatProperties
  <2> HIDE DEF ft
  <2>. QED  BY <1>3, <1>5, <2>1
<1>7. /\ t \o <<l>> \in Seq(AnyStep) /\ Len(t \o <<l>>) = Len(t) + 1
      /\ \A i \in 1 .. Len(t) + 1 : (t \o <<l>>)[i] = IF i = Len(t) + 1 THEN l ELSE t[i]
  <2> DEFINE x == t \o <<l>>
  <2>1. /\ x \in Seq(AnyStep) /\ Len(x) = Len(t) + 1
        /\ \A i \in 1 .. Len(t) + 1 : x[i] = IF i <= Len(t) THEN t[i] ELSE <<l>>[i - Len(t)]
    BY <1>3, <1>5, ConcatProperties
  <2> HIDE DEF x
  <2>2. ASSUME NEW i \in 1 .. Len(t) + 1 PROVE x[i] = IF i = Len(t) + 1 THEN l ELSE t[i]
    <3>1. i = Len(t) + 1 => i - Len(t) = 1 /\ ~ (i <= Len(t))
      BY <1>3
    <3>2. i # Len(t) + 1 => i <= Len(t)
      BY <1>3
    <3>. QED  BY <1>5, <2>1, <3>1, <3>2
  <2>. QED  BY <2>1, <2>2 DEF x
<1>8. /\ ft \o <<l>> \in Seq(AnyStep) /\ Len(ft \o <<l>>) = Len(t) + 2
      /\ \A i \in 1 .. Len(t) + 2 :
           (ft \o <<l>>)[i] = IF i = Len(t) + 2 THEN l ELSE ft[i]
  <2> HIDE DEF ft
  <2> DEFINE x == ft \o <<l>>
  <2>1. /\ x \in Seq(AnyStep) /\ Len(x) = Len(ft) + 1
        /\ \A i \in 1 .. Len(ft) + 1 : x[i] = IF i <= Len(ft) THEN ft[i] ELSE <<l>>[i - Len(ft)]
    BY <1>5, <1>6, ConcatProperties
  <2> HIDE DEF x
  <2>2. ASSUME NEW i \in 1 .. Len(t) + 2 PROVE x[i] = IF i = Len(t) + 2 THEN l ELSE ft[i]
    <3>1. i = Len(t) + 2 => i - Len(ft) = 1 /\ ~ (i <= Len(ft))
      BY <1>3, <1>6
    <3>2. i # Len(t) + 2 => i <= Len(ft)
      BY <1>3, <1>6
    <3>3. i \in 1 .. Len(ft) + 1
      BY <1>3, <1>6
    <3>. QED  BY <1>5, <2>1, <3>1, <3>2, <3>3
  <2>3. Len(x) = Len(t) + 2
    BY <1>3, <1>6, <2>1
  <2>. QED  BY <2>1, <2>2, <2>3 DEF x
<1>9. s = IF c.op \in Begins
          THEN IF c.op \in Ends THEN ft \o <<l>> ELSE ft
          ELSE IF c.op \in Ends THEN t \o <<l>> ELSE t
  BY <1>1, ShapeLemma DEF f, l
<1> HIDE DEF s, ft
<1>. SUFFICES
      /\ s \in Seq(AnyStep) /\ Len(s) \in Nat
      /\ c.op \in Begins \cup Ends => Len(s) >= 1
      /\ c.op \in Begins \cap Ends => Len(s) >= 2
      /\ \A i \in 1 .. Len(s) :
           \/ c.op \in Begins /\ i = 1 /\ s[i] = f
           \/ c.op \in Ends /\ i = Len(s) /\ s[i] = l
           \/ /\ ~ (c.op \in Begins /\ i = 1) /\ ~ (c.op \in Ends /\ i = Len(s))
              /\ s[i] \in Talk
  BY DEF s, f, l
<1>10. CASE c.op \in Begins /\ c.op \in Ends
  <2>1. s = ft \o <<l>>
    BY <1>9, <1>10
  <2>2. s \in Seq(AnyStep) /\ Len(s) = Len(t) + 2
    BY <1>8, <2>1
  <2>3. ASSUME NEW i \in 1 .. Len(s), i # 1, i # Len(s) PROVE s[i] \in Talk
    <3>1. i \in 1 .. Len(t) + 2 /\ i # Len(t) + 2 /\ i \in 1 .. Len(t) + 1 /\ i - 1 \in 1 .. Len(t)
      BY <1>3, <2>2, <2>3
    <3>2. s[i] = t[i - 1]
      BY <1>6, <1>8, <2>1, <2>3, <3>1
    <3>. QED  BY <1>4, <3>1, <3>2
  <2>4. s[1] = f /\ s[Len(s)] = l
    <3>1. 1 \in 1 .. Len(t) + 2 /\ 1 # Len(t) + 2 /\ Len(t) + 2 \in 1 .. Len(t) + 2 /\ 1 \in 1 .. Len(t) + 1
      BY <1>3
    <3>. QED  BY <1>6, <1>8, <2>1, <2>2, <3>1
  <2>. QED  BY <1>3, <1>10, <2>2, <2>3, <2>4
<1>11. CASE c.op \in Begins /\ c.op \notin Ends
  <2>1. s = ft /\ Len(s) = Len(t) + 1
    BY <1>6, <1>9, <1>11
  <2>2. ASSUME NEW i \in 1 .. Len(s) PROVE IF i = 1 THEN s[i] = f ELSE s[i] \in Talk
    <3>1. i # 1 => i - 1 \in 1 .. Len(t)
      BY <1>3, <2>1
    <3>. QED  BY <1>4, <1>6, <2>1, <3>1
  <2>. QED  BY <1>3, <1>6, <1>11, <2>1, <2>2
<1>12. CASE c.op \notin Begins /\ c.op \in Ends
  <2>1. s = t \o <<l>> /\ Len(s) = Len(t) + 1 /\ s \in Seq(AnyStep)
    BY <1>7, <1>9, <1>12
  <2>2. ASSUME NEW i \in 1 .. Len(s) PROVE IF i = Len(s) THEN s[i] = l ELSE s[i] \in Talk
    <3>1. i # Len(s) => i \in 1 .. Len(t)
      BY <1>3, <2>1
    <3>. QED  BY <1>4, <1>7, <2>1, <3>1
  <2>. QED  BY <1>3, <1>12, <2>1, <2>2
<1>13. CASE c.op \notin Begins /\ c.op \notin Ends
  <2>1. s = t
    BY <1>9, <1>13
  <2>. QED  BY <1>3, <1>4, <1>13, <2>1
<1>. QED  BY <1>10, <1>11, <1>12, <1>13

\* A step is either a message or a local call.
LEMMA Kinds ==
  /\ \A x \in Talk : /\ x \notin LocalCall /\ x.do \in {"send", "receive"} /\ x.peer \in Rank
                     /\ x.tag \in Tags
                     /\ x.do = "receive" => x.how \in {"add", "combine"}
  /\ \A x \in LocalCall : /\ x.do \in {"barrier", "bcast", "reduce"}
                          /\ x.do # "barrier" => x.root \in Rank
<1>1. \A x \in Talk : /\ x.do \in {"send", "receive"} /\ x.peer \in Rank /\ x.tag \in Tags
                      /\ x.do = "receive" => x.how \in {"add", "combine"}
  BY DEF Talk
<1>2. \A x \in LocalCall : /\ x.do \in {"barrier", "bcast", "reduce"}
                           /\ x.do # "barrier" => x.root \in Rank
  BY DEF LocalCall, LocalBarrier
<1>. QED  BY <1>1, <1>2

\* How a step changes the number of local calls made.
LEMMA BeforeLemma ==
  ASSUME NEW c \in Call, NEW r \in Rank
  PROVE  /\ Before(c, r, 1) = 0
         /\ Before(c, r, Len(Steps(c, r)) + 1) = LocalCount(c)
         /\ \A i \in 1 .. Len(Steps(c, r)) :
              /\ Before(c, r, i) \in 0 .. LocalCount(c)
              /\ Steps(c, r)[i] \in Talk => Before(c, r, i + 1) = Before(c, r, i)
              /\ Steps(c, r)[i] \in LocalCall =>
                   /\ Before(c, r, i + 1) = Before(c, r, i) + 1
                   /\ Before(c, r, i + 1) \in 1 .. LocalCount(c)
                   /\ Steps(c, r)[i] = LocalOf(c, r, Before(c, r, i + 1))
<1> DEFINE s == Steps(c, r)
           B == c.op \in Begins
           E == c.op \in Ends
           n == Len(s)
<1>1. /\ n \in Nat
      /\ B \/ E => n >= 1
      /\ B /\ E => n >= 2
      /\ \A i \in 1 .. n :
           \/ B /\ i = 1 /\ s[i] = FirstLocal(c, r)
           \/ E /\ i = n /\ s[i] = LastLocal(c, r)
           \/ ~ (B /\ i = 1) /\ ~ (E /\ i = n) /\ s[i] \in Talk
  BY StepsLemma
<1>2. \A i : Before(c, r, i) = (IF B /\ i > 1 THEN 1 ELSE 0) + (IF E /\ i > n THEN 1 ELSE 0)
  BY DEF Before
<1>3. LocalCount(c) = (IF B THEN 1 ELSE 0) + (IF E THEN 1 ELSE 0)
  BY DEF LocalCount
<1>4. \A j : LocalOf(c, r, j) = IF j = 1 /\ B THEN FirstLocal(c, r) ELSE LastLocal(c, r)
  BY DEF LocalOf
<1>5. FirstLocal(c, r) \notin Talk /\ LastLocal(c, r) \notin Talk
  BY LocalType, Kinds
<1>6. \A x \in Talk : x \notin LocalCall
  BY Kinds
<1> HIDE DEF s, B, E, n
<1>7. Before(c, r, 1) = 0 /\ Before(c, r, n + 1) = LocalCount(c)
  BY <1>1, <1>2, <1>3
<1>8. ASSUME NEW i \in 1 .. n
      PROVE  /\ Before(c, r, i) \in 0 .. LocalCount(c)
             /\ s[i] \in Talk => Before(c, r, i + 1) = Before(c, r, i)
             /\ s[i] \in LocalCall =>
                   /\ Before(c, r, i + 1) = Before(c, r, i) + 1
                   /\ Before(c, r, i + 1) \in 1 .. LocalCount(c)
                   /\ s[i] = LocalOf(c, r, Before(c, r, i + 1))
  <2>1. Before(c, r, i) \in 0 .. LocalCount(c)
    BY <1>1, <1>2, <1>3
  <2>2. CASE B /\ i = 1 /\ s[i] = FirstLocal(c, r)
    BY <1>1, <1>2, <1>3, <1>4, <1>5, <2>1, <2>2
  <2>3. CASE E /\ i = n /\ s[i] = LastLocal(c, r) /\ ~ (B /\ i = 1)
    BY <1>1, <1>2, <1>3, <1>4, <1>5, <2>1, <2>3
  <2>4. CASE ~ (B /\ i = 1) /\ ~ (E /\ i = n) /\ s[i] \in Talk
    BY <1>1, <1>2, <1>6, <2>1, <2>4
  <2>. QED  BY <1>1, <2>2, <2>3, <2>4
<1>. QED  BY <1>7, <1>8 DEF s, n

-----------------------------------------------------------------------------
(* The local calls of the program *)

\* The local calls up to a call are counted call by call, at most two for each.
LEMMA BaseLemma ==
  ASSUME NEW p \in Seq(Call), program = p
  PROVE  /\ Base(0) = 0
         /\ \A k \in 0 .. Len(p) : IsFiniteSet(LocalsUpTo(k)) /\ Base(k) \in Nat
         /\ \A k \in 1 .. Len(p) : Base(k) = Base(k - 1) + LocalCount(p[k])
         /\ \A j, k \in 0 .. Len(p) : j <= k => Base(j) <= Base(k)
<1>1. Len(p) \in Nat
  BY LenProperties
<1>2. \A i : LocalCount(p[i]) \in {0, 1, 2}
  BY DEF LocalCount
<1>3. ASSUME NEW k \in 0 .. Len(p)
      PROVE  IsFiniteSet(LocalsUpTo(k)) /\ Base(k) \in Nat
  <2>1. IsFiniteSet(1 .. k) /\ IsFiniteSet(1 .. 2)
    BY <1>1, FS_Interval, 1 \in Int, 2 \in Int, k \in Int
  <2>2. IsFiniteSet((1 .. k) \X (1 .. 2))
    BY <2>1, FS_Product
  <2>3. LocalsUpTo(k) \in SUBSET ((1 .. k) \X (1 .. 2))
    BY DEF LocalsUpTo
  <2>. QED  BY <2>2, <2>3, FS_Subset, FS_CardinalityType DEF Base
<1>4. Base(0) = 0
  <2>1. LocalsUpTo(0) = {}
    BY DEF LocalsUpTo
  <2>. QED  BY <2>1, FS_EmptySet DEF Base
<1>5. ASSUME NEW k \in 1 .. Len(p)
      PROVE  Base(k) = Base(k - 1) + LocalCount(p[k])
  <2>1. k \in Nat /\ k - 1 \in 0 .. Len(p) /\ IsFiniteSet(LocalsUpTo(k - 1)) /\ Base(k - 1) \in Nat
    BY <1>1, <1>3
  <2> DEFINE S == LocalsUpTo(k - 1)
  <2>2. \A u \in S : u[1] # k
    BY <2>1 DEF LocalsUpTo
  <2>3. <<k, 1>> \notin S /\ <<k, 2>> \notin S \cup {<<k, 1>>}
    BY <2>2
  <2>4. /\ IsFiniteSet(S \cup {<<k, 1>>})
        /\ Cardinality(S \cup {<<k, 1>>}) = Base(k - 1) + 1
        /\ Cardinality((S \cup {<<k, 1>>}) \cup {<<k, 2>>}) = Base(k - 1) + 1 + 1
    <3>1. IsFiniteSet(S) /\ Cardinality(S) = Base(k - 1)
      BY <2>1 DEF Base
    <3> HIDE DEF S
    <3>2. IsFiniteSet(S \cup {<<k, 1>>}) /\ Cardinality(S \cup {<<k, 1>>}) = Base(k - 1) + 1
      BY <2>3, <3>1, FS_AddElement
    <3> DEFINE T == S \cup {<<k, 1>>}
    <3> HIDE DEF T
    <3>3. IsFiniteSet(T) /\ <<k, 2>> \notin T /\ Cardinality(T) = Base(k - 1) + 1
      BY <2>3, <3>2 DEF T
    <3>4. Cardinality(T \cup {<<k, 2>>}) = Base(k - 1) + 1 + 1
      BY <3>3, FS_AddElement
    <3>. QED  BY <3>2, <3>4 DEF T
  <2>5. \A u : u \in LocalsUpTo(k) <=> \/ u \in S
                                       \/ u = <<k, 1>> /\ LocalCount(p[k]) >= 1
                                       \/ u = <<k, 2>> /\ LocalCount(p[k]) >= 2
    <3>1. \A i, j : <<i, j>> \in LocalsUpTo(k) <=> i \in 1 .. k /\ j \in {1, 2} /\ j <= LocalCount(p[i])
      BY DEF LocalsUpTo
    <3>2. \A i, j : <<i, j>> \in S <=> i \in 1 .. k - 1 /\ j \in {1, 2} /\ j <= LocalCount(p[i])
      BY DEF LocalsUpTo
    <3>3. \A u : u \in LocalsUpTo(k) \/ u \in S => \E i, j : u = <<i, j>>
      BY DEF LocalsUpTo
    <3>4. \A i : i \in 1 .. k <=> i \in 1 .. k - 1 \/ i = k
      BY <2>1
    <3> HIDE DEF S
    <3>5. \A i, j : <<i, j>> \in LocalsUpTo(k) <=>
            \/ <<i, j>> \in S
            \/ <<i, j>> = <<k, 1>> /\ LocalCount(p[k]) >= 1
            \/ <<i, j>> = <<k, 2>> /\ LocalCount(p[k]) >= 2
      <4>1. \A j : (j \in {1, 2} /\ j <= LocalCount(p[k])) <=>
                     (j = 1 /\ LocalCount(p[k]) >= 1) \/ (j = 2 /\ LocalCount(p[k]) >= 2)
        BY <1>2
      <4>. QED  BY <3>1, <3>2, <3>4, <4>1
    <3>. QED  BY <3>3, <3>5
  <2> HIDE DEF S
  <2>6. CASE LocalCount(p[k]) = 0
    <3>1. LocalsUpTo(k) = S
      <4>1. \A u : u \in LocalsUpTo(k) <=> u \in S
        BY <2>5, <2>6
      <4>. QED  BY <4>1, Zenon
    <3>. QED  BY <2>1, <2>6, <3>1 DEF Base, S
  <2>7. CASE LocalCount(p[k]) = 1
    <3>1. LocalsUpTo(k) = S \cup {<<k, 1>>}
      BY <2>5, <2>7
    <3>. QED  BY <2>4, <2>7, <3>1 DEF Base
  <2>8. CASE LocalCount(p[k]) = 2
    <3>1. LocalsUpTo(k) = (S \cup {<<k, 1>>}) \cup {<<k, 2>>}
      BY <2>5, <2>8
    <3>. QED  BY <2>1, <2>4, <2>8, <3>1 DEF Base
  <2>. QED  BY <1>2, <2>6, <2>7, <2>8
<1>6. ASSUME NEW j \in 0 .. Len(p), NEW k \in 0 .. Len(p), j <= k
      PROVE  Base(j) <= Base(k)
  <2>1. \A i : i \in 1 .. j => i \in 1 .. k
    BY <1>6
  <2>2. LocalsUpTo(j) \in SUBSET LocalsUpTo(k)
    BY <2>1 DEF LocalsUpTo
  <2>. QED  BY <1>3, <2>2, FS_Subset DEF Base
<1>. QED  BY <1>3, <1>4, <1>5, <1>6

\* The same number of local calls into the program is the same call.
LEMMA SamePlace ==
  ASSUME NEW p \in Seq(Call), program = p,
         NEW k \in 1 .. Len(p), NEW j \in 1 .. LocalCount(p[k]),
         NEW l \in 1 .. Len(p), NEW i \in 1 .. LocalCount(p[l]),
         Base(k - 1) + j = Base(l - 1) + i
  PROVE  k = l /\ j = i
<1>1. Len(p) \in Nat /\ LocalCount(p[k]) \in Nat /\ LocalCount(p[l]) \in Nat
  BY LenProperties DEF LocalCount
<1>2. k - 1 \in 0 .. Len(p) /\ l - 1 \in 0 .. Len(p) /\ k \in 0 .. Len(p) /\ l \in 0 .. Len(p)
  BY <1>1
<1>3. /\ Base(k - 1) \in Nat /\ Base(l - 1) \in Nat
      /\ Base(k) = Base(k - 1) + LocalCount(p[k]) /\ Base(l) = Base(l - 1) + LocalCount(p[l])
  BY <1>2, BaseLemma
<1>4. ~ (k < l)
  <2>1. k < l => Base(k) <= Base(l - 1)
    BY <1>2, BaseLemma
  <2>. QED  BY <1>1, <1>3, <2>1
<1>5. ~ (l < k)
  <2>1. l < k => Base(l) <= Base(k - 1)
    BY <1>2, BaseLemma
  <2>. QED  BY <1>1, <1>3, <2>1
<1>. QED  BY <1>1, <1>3, <1>4, <1>5

-----------------------------------------------------------------------------
(* Values *)

\* What a member contributes to a call is a value.
LEMMA ContributionType ==
  ASSUME NEW c \in Call, NEW r \in Rank
  PROVE  Contribution(c, r) \in Value
<1>1. c.root \in Rank
  BY DEF Call
<1>2. <<r, All>> \in Everything /\ \A q \in Rank : <<r, q>> \in Everything
  BY DEF Everything
<1>3. Addressed(r) \in SUBSET Everything
  BY <1>2 DEF Addressed
<1>4. OfCluster(r) \in SUBSET Everything
  BY DEF OfCluster, Everything
<1>5. Contribution(c, r).parts \in SUBSET Everything
  BY <1>1, <1>2, <1>3, <1>4 DEF Contribution
<1>6. Contribution(c, r).order \in Seq(Rank)
  BY SingleType, EmptySeq DEF Contribution
<1>7. Contribution(c, r) = [parts |-> Contribution(c, r).parts, order |-> Contribution(c, r).order]
  BY DEF Contribution
<1>. QED  BY <1>5, <1>6, <1>7 DEF Value

\* No contribution is a value.
LEMMA EmptyType == Empty \in Value
BY EmptySeq DEF Empty, Value

\* What a member has in front of it.
LEMMA NowLemma ==
  ASSUME TypeInv, PlaceInv, NEW r \in Rank, InCall(r)
  PROVE  /\ program \in Seq(Call) /\ done[r] \in 0 .. Len(program) - 1
         /\ Current(r) \in Call /\ Current(r) = program[done[r] + 1]
         /\ StepsOf(r) = Steps(Current(r), r)
         /\ Len(StepsOf(r)) \in Nat /\ step[r] \in 1 .. Len(StepsOf(r)) + 1
         /\ ~ AtEnd(r) =>
              /\ step[r] \in 1 .. Len(StepsOf(r))
              /\ Now(r) = Steps(Current(r), r)[step[r]]
              /\ Now(r) \in AnyStep
              /\ Now(r).do \in {"send", "receive"} => Now(r) \in Talk
              /\ Now(r).do \in {"barrier", "bcast", "reduce"} => Now(r) \in LocalCall
<1>1. program \in Seq(Call) /\ done[r] \in 0 .. Len(program) /\ step[r] \in Nat
  BY ProgramAssumption DEF TypeInv
<1>2. done[r] < Len(program) /\ step[r] <= Len(StepsOf(r)) + 1
  BY DEF PlaceInv
<1>3. Len(program) \in Nat
  BY <1>1, LenProperties
<1>4. done[r] + 1 \in 1 .. Len(program) /\ done[r] \in 0 .. Len(program) - 1
  BY <1>1, <1>2, <1>3
<1>5. Current(r) \in Call /\ Current(r) = program[done[r] + 1]
  BY <1>1, <1>4, ElementOfSeq DEF Current
<1>6. StepsOf(r) = Steps(Current(r), r)
  BY <1>5 DEF StepsOf, StepTable
<1>7. StepsOf(r) \in Seq(AnyStep) /\ Len(StepsOf(r)) \in Nat
  BY <1>5, <1>6, StepsLemma
<1>8. step[r] \in 1 .. Len(StepsOf(r)) + 1
  BY <1>1, <1>2, <1>7 DEF InCall
<1>9. ASSUME ~ AtEnd(r)
      PROVE  /\ step[r] \in 1 .. Len(StepsOf(r))
             /\ Now(r) = Steps(Current(r), r)[step[r]]
             /\ Now(r) \in AnyStep
  <2>1. step[r] \in 1 .. Len(StepsOf(r))
    BY <1>7, <1>8, <1>9 DEF AtEnd
  <2>. QED  BY <1>6, <1>7, <2>1, ElementOfSeq DEF Now
<1>10. \A x \in AnyStep : /\ x.do \in {"send", "receive"} => x \in Talk
                          /\ x.do \in {"barrier", "bcast", "reduce"} => x \in LocalCall
  BY Kinds DEF AnyStep
<1>. QED  BY <1>1, <1>4, <1>5, <1>6, <1>7, <1>8, <1>9, <1>10

\* What a member sends is a message.
LEMMA PayloadType ==
  ASSUME TypeInv, PlaceInv, NEW r \in Rank, InCall(r)
  PROVE  Payload(r) \in Value
<1>1. Contribution(Current(r), r) \in Value
  BY NowLemma, ContributionType
<1>2. value[r] \in Value
  BY DEF TypeInv
<1>3. [value[r] EXCEPT !.parts = @ \cap Now(r).what] \in Value
  BY <1>2 DEF Value
<1>. QED  BY <1>1, <1>3 DEF Payload

\* What a member makes of a message it receives is a value.
LEMMA AppliedType ==
  ASSUME TypeInv, NEW r \in Rank, NEW payload \in Value
  PROVE  Applied(r, payload) \in Value
<1>1. value[r].parts \in SUBSET Everything /\ value[r].order \in Seq(Rank)
  BY DEF TypeInv, Value
<1>2. payload.parts \in SUBSET Everything /\ payload.order \in Seq(Rank)
  BY DEF Value
<1>3. payload.order \o value[r].order \in Seq(Rank)
  BY <1>1, <1>2, ConcatProperties
<1>. QED  BY <1>1, <1>2, <1>3 DEF Applied, Value

-----------------------------------------------------------------------------
(* The steps *)

\* What a member has before it depends on the calls it has returned from.
LEMMA SameCall ==
  ASSUME NEW r \in Rank, UNCHANGED program, done'[r] = done[r]
  PROVE  Current(r)' = Current(r) /\ StepsOf(r)' = StepsOf(r)
<1>1. Current(r)' = Current(r)
  BY DEF Current
<1>. QED  BY <1>1 DEF StepsOf

\* The number of local calls up to a call depends on the program alone.
LEMMA SameBase ==
  ASSUME UNCHANGED program
  PROVE  \A k : Base(k)' = Base(k)
BY DEF Base, LocalsUpTo

\* A member that changes nothing of its own keeps the invariant, as long as only
\* others move.
Own(r) == <<done[r], step[r], results[r], entered[r], inside[r]>>
Place(r) ==
  /\ Len(results[r]) = done[r]
  /\ InCall(r) => done[r] < Len(program) /\ step[r] <= Len(StepsOf(r)) + 1
  /\ inside[r] => IsLocalCall(r)
Count(r) ==
  Len(entered[r]) = Base(done[r])
                    + (IF InCall(r) THEN Before(Current(r), r, step[r]) ELSE 0)
                    + (IF inside[r] THEN 1 ELSE 0)
Calls(r) ==
  \A n \in 1 .. Len(entered[r]) :
    \E k \in 1 .. Len(program) : \E j \in 1 .. LocalCount(program[k]) :
      n = Base(k - 1) + j /\ entered[r][n].call = LocalOf(program[k], r, j)

\* The local calls made stay those of the program when none is made.
LEMMA CallsKept ==
  ASSUME NEW r \in Rank, UNCHANGED program, entered'[r] = entered[r], Calls(r)
  PROVE  Calls(r)'
BY SameBase DEF Calls

\* A step that leaves a member alone keeps its invariant.
LEMMA IdleLemma ==
  ASSUME NEW r \in Rank, UNCHANGED program, UNCHANGED Own(r), Place(r), Count(r), Calls(r)
  PROVE  Place(r)' /\ Count(r)' /\ Calls(r)'
<1>1. done'[r] = done[r] /\ step'[r] = step[r] /\ results'[r] = results[r]
      /\ entered'[r] = entered[r] /\ inside'[r] = inside[r]
  BY DEF Own
<1>2. Current(r)' = Current(r) /\ StepsOf(r)' = StepsOf(r)
  BY <1>1, SameCall
<1>3. InCall(r)' = InCall(r) /\ IsLocalCall(r)' = IsLocalCall(r)
  BY <1>1, <1>2 DEF InCall, IsLocalCall, AtEnd, Now
<1>4. Place(r)'
  BY <1>1, <1>2, <1>3 DEF Place
<1>5. Count(r)'
  <2>1. Base(done[r])' = Base(done[r])
    BY <1>1, SameBase DEF Base, LocalsUpTo
  <2>. QED  BY <1>1, <1>2, <1>3, <2>1 DEF Count, Before
<1>. QED  BY <1>1, <1>4, <1>5, CallsKept

\* A member that sends or receives a message goes to the next step.
LEMMA TalkLemma ==
  ASSUME TypeInv, PlaceInv, NEW r \in Rank, Count(r), Calls(r),
         InCall(r), ~ AtEnd(r), Now(r) \in Talk,
         UNCHANGED program, done'[r] = done[r], step'[r] = step[r] + 1,
         results'[r] = results[r], entered'[r] = entered[r], inside'[r] = inside[r]
  PROVE  Place(r)' /\ Count(r)' /\ Calls(r)'
<1>1. Current(r)' = Current(r) /\ StepsOf(r)' = StepsOf(r)
  BY SameCall
<1>2. step[r] \in 1 .. Len(StepsOf(r)) /\ Len(StepsOf(r)) \in Nat
      /\ Now(r) = Steps(Current(r), r)[step[r]] /\ Current(r) \in Call
      /\ StepsOf(r) = Steps(Current(r), r)
  BY NowLemma
<1>3. inside[r] = FALSE
  <2>1. Now(r).do \in {"send", "receive"}
    BY Kinds
  <2>2. inside[r] => IsLocalCall(r)
    BY DEF PlaceInv
  <2>3. inside[r] \in BOOLEAN
    BY DEF TypeInv
  <2>. QED  BY <2>1, <2>2, <2>3 DEF IsLocalCall
<1>4. InCall(r)'
  BY <1>2 DEF InCall
<1>5. Place(r)'
  <2>1. Len(results[r]) = done[r] /\ done[r] < Len(program)
    BY DEF PlaceInv
  <2>2. step'[r] <= Len(StepsOf(r)) + 1
    BY <1>2
  <2>. QED  BY <1>1, <1>3, <2>1, <2>2 DEF Place
<1>6. Count(r)'
  <2>1. Before(Current(r), r, step[r] + 1) = Before(Current(r), r, step[r])
    BY <1>2, BeforeLemma
  <2>2. Base(done[r])' = Base(done[r])
    BY SameBase DEF Base, LocalsUpTo
  <2>. QED  BY <1>1, <1>3, <1>4, <2>1, <2>2 DEF Count, Before
<1>. QED  BY <1>5, <1>6, CallsKept

\* The invariant, member by member.
LEMMA Parts ==
  /\ PlaceInv <=> \A r \in Rank : Place(r)
  /\ CountInv <=> \A r \in Rank : Count(r)
  /\ CallsInv <=> \A r \in Rank : Calls(r)
BY DEF PlaceInv, CountInv, CallsInv, Place, Count, Calls

\* What happens to one member is enough to know.
LEMMA OneMember ==
  ASSUME IInv, NEW r \in Rank, UNCHANGED program,
         \A q \in Rank \ {r} : UNCHANGED Own(q),
         TypeInv', Place(r)', Count(r)', Calls(r)'
  PROVE  IInv'
<1>1. \A q \in Rank : Place(q) /\ Count(q) /\ Calls(q)
  BY Parts DEF IInv
<1>2. ASSUME NEW q \in Rank PROVE Place(q)' /\ Count(q)' /\ Calls(q)'
  <2>1. CASE q = r
    BY <2>1
  <2>2. CASE q # r
    BY <1>1, <2>2, IdleLemma
  <2>. QED  BY <2>1, <2>2
<1>. QED  BY <1>2 DEF IInv, PlaceInv, CountInv, CallsInv, Place, Count, Calls

\* Initially no member has made a call.
LEMMA InitLemma == Init => IInv
<1> SUFFICES ASSUME Init PROVE IInv
  OBVIOUS
<1>1. program \in Seq(Call)
  BY ProgramAssumption DEF Init
<1>2. Len(program) \in Nat /\ Base(0) = 0
  BY <1>1, LenProperties, BaseLemma
<1>3. TypeInv
  <2>1. /\ << >> \in Seq(Value) /\ << >> \in Seq(Message) /\ << >> \in Seq(Entry)
        /\ 0 \in 0 .. Len(program)
    BY <1>2, EmptySeq
  <2>. QED  BY <2>1, EmptyType DEF Init, TypeInv
<1>4. Len(<< >>) = 0
  BY EmptySeq
<1>5. PlaceInv /\ CountInv /\ CallsInv
  BY <1>2, <1>4 DEF Init, PlaceInv, CountInv, CallsInv, InCall
<1>. QED  BY <1>3, <1>5 DEF IInv

\* A member enters its next call.
LEMMA EnterStep ==
  ASSUME IInv, NEW r \in Rank, Enter(r)
  PROVE  IInv'
<1>1. TypeInv /\ PlaceInv /\ Place(r) /\ Count(r) /\ Calls(r)
  BY Parts DEF IInv
<1>2. /\ ~ InCall(r) /\ done[r] < Len(program)
      /\ step' = [step EXCEPT ![r] = 1]
      /\ value' = [value EXCEPT ![r] = Contribution(Current(r), r)]
      /\ UNCHANGED <<program, eager, done, results, wire, entered, inside>>
  BY DEF Enter
<1>3. program \in Seq(Call) /\ done[r] + 1 \in 1 .. Len(program)
  <2>1. program \in Seq(Call) /\ done[r] \in 0 .. Len(program)
    BY <1>1, ProgramAssumption DEF TypeInv
  <2>. QED  BY <1>2, <2>1, LenProperties
<1>4. Current(r) \in Call
  BY <1>3, ElementOfSeq DEF Current
<1>5. TypeInv'
  <2>1. Contribution(Current(r), r) \in Value
    BY <1>4, ContributionType
  <2>. QED  BY <1>1, <1>2, <2>1 DEF TypeInv
<1>6. step'[r] = 1 /\ inside[r] = FALSE
  BY <1>1, <1>2 DEF TypeInv, Place, IsLocalCall
<1>7. Current(r)' = Current(r) /\ StepsOf(r)' = StepsOf(r) /\ InCall(r)'
  BY <1>2, <1>6, SameCall DEF InCall
<1>8. Len(StepsOf(r)) \in Nat
  <2>1. StepsOf(r) = Steps(Current(r), r)
    BY <1>4 DEF StepsOf, StepTable
  <2>. QED  BY <1>4, <2>1, StepsLemma
<1>9. Place(r)'
  <2>1. Len(results[r]) = done[r]
    BY <1>1 DEF Place
  <2>. QED  BY <1>2, <1>6, <1>7, <1>8, <2>1 DEF Place
<1>10. Count(r)'
  <2>1. Before(Current(r), r, 1) = 0
    BY <1>4, BeforeLemma
  <2>2. Base(done[r])' = Base(done[r])
    BY <1>2, SameBase DEF Base, LocalsUpTo
  <2>. QED  BY <1>1, <1>2, <1>6, <1>7, <2>1, <2>2 DEF Count, Before
<1>11. Calls(r)'
  BY <1>1, <1>2, CallsKept
<1>12. \A q \in Rank \ {r} : UNCHANGED Own(q)
  BY <1>1, <1>2 DEF Own, TypeInv
<1>. QED  BY <1>2, <1>5, <1>9, <1>10, <1>11, <1>12, OneMember

\* A member sends a message and goes on.
LEMMA SendStep ==
  ASSUME IInv, NEW r \in Rank, SendMessage(r)
  PROVE  IInv'
<1>1. TypeInv /\ PlaceInv /\ Count(r) /\ Calls(r)
  BY Parts DEF IInv
<1>2. /\ InCall(r) /\ ~ AtEnd(r) /\ Now(r).do = "send"
      /\ wire' = [wire EXCEPT ![<<r, Now(r).peer>>] =
                    Append(@, [tag |-> Now(r).tag, payload |-> Payload(r)])]
      /\ step' = [step EXCEPT ![r] = @ + 1]
      /\ UNCHANGED <<program, eager, done, value, results, entered, inside>>
  BY DEF SendMessage, IsAt
<1>3. Now(r) \in Talk
  BY <1>1, <1>2, NowLemma
<1>4. TypeInv'
  <2>1. Now(r).peer \in Rank /\ Now(r).tag \in Tags
    BY <1>3, Kinds
  <2>2. [tag |-> Now(r).tag, payload |-> Payload(r)] \in Message
    BY <1>1, <1>2, <2>1, PayloadType DEF Message
  <2>3. wire[<<r, Now(r).peer>>] \in Seq(Message)
    BY <1>1, <2>1 DEF TypeInv
  <2>4. Append(wire[<<r, Now(r).peer>>], [tag |-> Now(r).tag, payload |-> Payload(r)]) \in Seq(Message)
    BY <2>2, <2>3, AppendProperties
  <2> DEFINE new == Append(wire[<<r, Now(r).peer>>], [tag |-> Now(r).tag, payload |-> Payload(r)])
  <2>5. wire' = [wire EXCEPT ![<<r, Now(r).peer>>] = new]
    BY <1>2
  <2>6. new \in Seq(Message)
    BY <2>4
  <2> HIDE DEF new
  <2>7. wire' \in [Rank \X Rank -> Seq(Message)]
    BY <1>1, <2>5, <2>6 DEF TypeInv
  <2>8. step' \in [Rank -> Nat]
    BY <1>1, <1>2 DEF TypeInv
  <2>. QED  BY <1>1, <1>2, <2>7, <2>8 DEF TypeInv
<1>5. step'[r] = step[r] + 1
  BY <1>1, <1>2 DEF TypeInv
<1>6. Place(r)' /\ Count(r)' /\ Calls(r)'
  BY <1>1, <1>2, <1>3, <1>5, TalkLemma
<1>7. \A q \in Rank \ {r} : UNCHANGED Own(q)
  BY <1>1, <1>2 DEF Own, TypeInv
<1>. QED  BY <1>2, <1>4, <1>6, <1>7, OneMember

\* Taking one element out of a sequence.
LEMMA RemoveAtLemma ==
  ASSUME NEW S, NEW s \in Seq(S), NEW i \in 1 .. Len(s)
  PROVE  RemoveAt(s, i) \in Seq(S)
<1>1. Len(s) \in Nat /\ \A k \in 1 .. Len(s) : s[k] \in S
  BY LenProperties, ElementOfSeq
<1>2. SubSeq(s, 1, i - 1) \in Seq(S)
  <2>1. \A k \in 1 .. i - 1 : s[k] \in S
    BY <1>1
  <2>. QED  BY <1>1, <2>1, SubSeqProperties
<1>3. SubSeq(s, i + 1, Len(s)) \in Seq(S)
  <2>1. \A k \in i + 1 .. Len(s) : s[k] \in S
    BY <1>1
  <2>. QED  BY <1>1, <2>1, SubSeqProperties
<1>. QED  BY <1>2, <1>3, ConcatProperties DEF RemoveAt

\* A member takes the first message of a tag off the wire.
LEMMA ReceiveStep ==
  ASSUME IInv, NEW r \in Rank, ReceiveMessage(r)
  PROVE  IInv'
<1> DEFINE x == <<Now(r).peer, r>>
           fits == { i \in DOMAIN wire[x] : wire[x][i].tag = Now(r).tag }
<1>1. TypeInv /\ PlaceInv /\ Count(r) /\ Calls(r)
  BY Parts DEF IInv
<1>2. /\ InCall(r) /\ ~ AtEnd(r) /\ Now(r).do = "receive"
      /\ fits # {}
      /\ value' = [value EXCEPT ![r] = Applied(r, wire[x][First(fits)].payload)]
      /\ wire'  = [wire EXCEPT ![x] = RemoveAt(@, First(fits))]
      /\ step' = [step EXCEPT ![r] = @ + 1]
      /\ UNCHANGED <<program, eager, done, results, entered, inside>>
  BY DEF ReceiveMessage, IsAt
<1>3. Now(r) \in Talk
  BY <1>1, <1>2, NowLemma
<1>4. TypeInv'
  <2>1. x \in Rank \X Rank /\ wire[x] \in Seq(Message)
    BY <1>1, <1>3, Kinds DEF TypeInv
  <2>2. DOMAIN wire[x] = 1 .. Len(wire[x]) /\ Len(wire[x]) \in Nat
    BY <2>1, LenProperties
  <2>3. fits \in SUBSET Nat
    BY <2>2
  <2>4. First(fits) \in fits
    BY <1>2, <2>3, FirstLemma
  <2>5. First(fits) \in 1 .. Len(wire[x])
    BY <2>2, <2>4
  <2> DEFINE f == First(fits)
  <2> HIDE DEF f, x, fits
  <2>6. f \in 1 .. Len(wire[x])
    BY <2>5 DEF f
  <2>7. wire[x][f].payload \in Value
    <3>1. wire[x][f] \in Message
      BY <2>1, <2>6, ElementOfSeq
    <3>. QED  BY <3>1 DEF Message
  <2>8. RemoveAt(wire[x], f) \in Seq(Message)
    BY <2>1, <2>6, RemoveAtLemma
  <2>9. Applied(r, wire[x][f].payload) \in Value
    BY <1>1, <2>7, AppliedType
  <2>10. value' \in [Rank -> Value]
    BY <1>1, <1>2, <2>9 DEF TypeInv, f
  <2>11. wire' \in [Rank \X Rank -> Seq(Message)]
    BY <1>1, <1>2, <2>8 DEF TypeInv, f
  <2>12. step' \in [Rank -> Nat]
    BY <1>1, <1>2 DEF TypeInv
  <2>. QED  BY <1>1, <1>2, <2>10, <2>11, <2>12 DEF TypeInv
<1> HIDE DEF x, fits
<1>5. step'[r] = step[r] + 1
  BY <1>1, <1>2 DEF TypeInv
<1>6. Place(r)' /\ Count(r)' /\ Calls(r)'
  BY <1>1, <1>2, <1>3, <1>5, TalkLemma
<1>7. \A q \in Rank \ {r} : UNCHANGED Own(q)
  BY <1>1, <1>2 DEF Own, TypeInv
<1>. QED  BY <1>2, <1>4, <1>6, <1>7, OneMember

\* A send and its receive at once.
LEMMA RendezvousStep ==
  ASSUME IInv, NEW r \in Rank, NEW q \in Rank, Rendezvous(r, q)
  PROVE  IInv'
<1>1. TypeInv /\ PlaceInv /\ \A m \in Rank : Place(m) /\ Count(m) /\ Calls(m)
  BY Parts DEF IInv
<1>2. /\ InCall(r) /\ ~ AtEnd(r) /\ Now(r).do = "send"
      /\ InCall(q) /\ ~ AtEnd(q) /\ Now(q).do = "receive"
      /\ value' = [value EXCEPT ![q] = Applied(q, Payload(r))]
      /\ step'  = [step EXCEPT ![r] = @ + 1, ![q] = @ + 1]
      /\ UNCHANGED <<program, eager, done, results, wire, entered, inside>>
  BY DEF Rendezvous, IsAt
<1>3. Now(r) \in Talk /\ Now(q) \in Talk /\ r # q
  BY <1>1, <1>2, NowLemma
<1>4. step' \in [Rank -> Nat] /\ step'[r] = step[r] + 1 /\ step'[q] = step[q] + 1
      /\ \A m \in Rank \ {r, q} : step'[m] = step[m]
  <2>1. step \in [Rank -> Nat] /\ r # q
    <3>1. Now(r) # Now(q)
      BY <1>2
    <3>. QED  BY <1>1, <3>1 DEF TypeInv
  <2> DEFINE half == [step EXCEPT ![r] = @ + 1]
  <2>2. half \in [Rank -> Nat] /\ half[r] = step[r] + 1 /\ \A m \in Rank \ {r} : half[m] = step[m]
    BY <2>1
  <2>3. step' = [half EXCEPT ![q] = @ + 1]
    BY <1>2
  <2> HIDE DEF half
  <2>4. step' \in [Rank -> Nat] /\ step'[q] = half[q] + 1 /\ \A m \in Rank \ {q} : step'[m] = half[m]
    BY <2>2, <2>3
  <2>. QED  BY <2>1, <2>2, <2>4
<1>5. TypeInv'
  <2>1. Applied(q, Payload(r)) \in Value
    BY <1>1, <1>2, PayloadType, AppliedType
  <2>2. value' \in [Rank -> Value]
    BY <1>1, <1>2, <2>1 DEF TypeInv
  <2>. QED  BY <1>1, <1>2, <1>4, <2>2 DEF TypeInv
<1>6. ASSUME NEW m \in Rank PROVE Place(m)' /\ Count(m)' /\ Calls(m)'
  <2>1. CASE m \in {r, q}
    <3>1. InCall(m) /\ ~ AtEnd(m) /\ Now(m) \in Talk /\ step'[m] = step[m] + 1
      BY <1>2, <1>3, <1>4, <2>1
    <3>. QED  BY <1>1, <1>2, <3>1, TalkLemma
  <2>2. CASE m \notin {r, q}
    <3>1. UNCHANGED Own(m)
      BY <1>2, <1>4, <2>2 DEF Own
    <3>. QED  BY <1>1, <1>2, <3>1, IdleLemma
  <2>. QED  BY <2>1, <2>2
<1>. QED  BY <1>5, <1>6 DEF IInv, PlaceInv, CountInv, CallsInv, Place, Count, Calls

\* A local call is the next one of the program.
LEMMA LocalEnterStep ==
  ASSUME IInv, NEW r \in Rank, LocalEnter(r)
  PROVE  IInv'
<1> DEFINE e == [call |-> Now(r), value |-> value[r]]
           c == Current(r)
           b == Base(done[r])
           n == Len(entered[r])
<1>1. TypeInv /\ PlaceInv /\ Place(r) /\ Count(r) /\ Calls(r)
  BY Parts DEF IInv
<1>2. /\ IsLocalCall(r) /\ ~ inside[r] /\ InCall(r) /\ ~ AtEnd(r)
      /\ Now(r).do \in {"barrier", "bcast", "reduce"}
      /\ entered' = [entered EXCEPT ![r] = Append(@, e)]
      /\ inside'  = [inside EXCEPT ![r] = TRUE]
      /\ UNCHANGED <<program, eager, done, step, value, results, wire>>
  BY DEF LocalEnter, IsLocalCall
<1>3. /\ program \in Seq(Call) /\ done[r] \in 0 .. Len(program) - 1
      /\ c \in Call /\ c = program[done[r] + 1]
      /\ step[r] \in 1 .. Len(Steps(c, r)) /\ Len(Steps(c, r)) \in Nat
      /\ Now(r) = Steps(c, r)[step[r]] /\ Now(r) \in LocalCall
  BY <1>1, <1>2, NowLemma
<1>4. e \in Entry /\ e.call = Now(r)
  BY <1>1, <1>3 DEF Entry, TypeInv
<1> HIDE DEF e, c
<1>5. entered[r] \in Seq(Entry) /\ n \in Nat
  BY <1>1, LenProperties DEF TypeInv
<1>6. /\ entered'[r] = Append(entered[r], e) /\ inside'[r] = TRUE
      /\ Append(entered[r], e) \in Seq(Entry)
      /\ Len(entered'[r]) = n + 1 /\ entered'[r][n + 1] = e
      /\ \A i \in 1 .. n : entered'[r][i] = entered[r][i]
  <2>1. entered'[r] = Append(entered[r], e) /\ inside'[r] = TRUE
    BY <1>1, <1>2 DEF TypeInv
  <2>. QED  BY <1>4, <1>5, <2>1, AppendProperties
<1>7. TypeInv'
  <2>1. entered' \in [Rank -> Seq(Entry)] /\ inside' \in [Rank -> BOOLEAN]
    BY <1>1, <1>2, <1>6 DEF TypeInv
  <2>. QED  BY <1>1, <1>2, <2>1 DEF TypeInv
<1>8. Current(r)' = Current(r) /\ StepsOf(r)' = StepsOf(r) /\ InCall(r)' = InCall(r)
      /\ IsLocalCall(r)' = IsLocalCall(r)
  <2>1. Current(r)' = Current(r) /\ StepsOf(r)' = StepsOf(r)
    BY <1>2, SameCall
  <2>. QED  BY <1>2, <2>1 DEF InCall, IsLocalCall, AtEnd, Now
<1>9. Place(r)'
  BY <1>1, <1>2, <1>8 DEF Place
<1>10. \A k : Base(k)' = Base(k)
  BY <1>2, SameBase
<1>11. n = b + Before(c, r, step[r]) /\ b \in Nat /\ Before(c, r, step[r]) \in Nat
  <2>1. b \in Nat
    BY <1>3, BaseLemma
  <2>2. Before(c, r, step[r]) \in Nat
    BY DEF Before
  <2>. QED  BY <1>1, <1>2, <2>1, <2>2 DEF Count, c
<1>12. Count(r)'
  <2>1. Before(Current(r), r, step[r])' = Before(c, r, step[r])
    BY <1>2, <1>8 DEF Before, c
  <2>2. Base(done[r])' = b
    BY <1>2 DEF Base, LocalsUpTo
  <2>3. Len(entered[r])' = b + Before(c, r, step[r]) + 1
    BY <1>6, <1>11
  <2>. QED  BY <1>2, <1>6, <1>8, <2>1, <2>2, <2>3 DEF Count
<1>13. Calls(r)'
  <2>1. ASSUME NEW i \in 1 .. n + 1
        PROVE  \E k \in 1 .. Len(program) : \E j \in 1 .. LocalCount(program[k]) :
                 i = Base(k - 1) + j /\ entered'[r][i].call = LocalOf(program[k], r, j)
    <3>1. CASE i \in 1 .. n
      BY <1>1, <1>6, <3>1 DEF Calls
    <3>2. CASE i = n + 1
      <4> DEFINE k == done[r] + 1
                 j == Before(c, r, step[r]) + 1
      <4>1. k \in 1 .. Len(program) /\ program[k] = c /\ k - 1 = done[r]
        BY <1>3, LenProperties
      <4>2. /\ j = Before(c, r, step[r] + 1) /\ j \in 1 .. LocalCount(c)
            /\ Now(r) = LocalOf(c, r, j)
        <5> DEFINE st == Steps(c, r)[step[r]]
        <5>1. st \in LocalCall /\ Now(r) = st
          BY <1>3
        <5>2. /\ Before(c, r, step[r] + 1) = Before(c, r, step[r]) + 1
              /\ Before(c, r, step[r] + 1) \in 1 .. LocalCount(c)
              /\ st = LocalOf(c, r, Before(c, r, step[r] + 1))
          BY <1>3, <5>1, BeforeLemma
        <5> HIDE DEF st
        <5>. QED  BY <5>1, <5>2
      <4>3. i = Base(k - 1) + j
        BY <1>11, <3>2, <4>1
      <4>4. entered'[r][i].call = LocalOf(program[k], r, j)
        BY <1>4, <1>6, <3>2, <4>1, <4>2
      <4> HIDE DEF k, j
      <4>. QED  BY <4>1, <4>2, <4>3, <4>4
    <3>. QED  BY <1>5, <2>1, <3>1, <3>2
  <2>. QED  BY <1>2, <1>6, <1>10, <2>1 DEF Calls
<1>14. \A q \in Rank \ {r} : UNCHANGED Own(q)
  BY <1>1, <1>2 DEF Own, TypeInv
<1>. QED  BY <1>2, <1>7, <1>9, <1>12, <1>13, <1>14, OneMember

\* What the local call leaves in the buffer.
LEMMA LocalLeaveType ==
  ASSUME IInv, NEW r \in Rank, LocalLeave(r)
  PROVE  value' \in [Rank -> Value]
<1> DEFINE n == Len(entered[r])
           order == Ascending(Peers(r))
           root == Now(r).root
<1>1. TypeInv /\ PlaceInv /\ Count(r)
  BY Parts DEF IInv
<1>2. inside[r] /\ IsLocalCall(r) /\ InCall(r) /\ ~ AtEnd(r) /\ Now(r) \in LocalCall
  <2>1. inside[r] /\ IsLocalCall(r) /\ InCall(r) /\ ~ AtEnd(r)
    BY <1>1 DEF LocalLeave, PlaceInv, IsLocalCall
  <2>. QED  BY <1>1, <2>1, NowLemma DEF IsLocalCall
<1>3. n \in Nat \ {0}
  <2>1. program \in Seq(Call) /\ done[r] \in 0 .. Len(program)
    BY <1>1, ProgramAssumption DEF TypeInv
  <2>2. Base(done[r]) \in Nat
    BY <2>1, BaseLemma
  <2>3. Before(Current(r), r, step[r]) \in Nat
    BY DEF Before
  <2>. QED  BY <1>1, <1>2, <2>2, <2>3 DEF Count
<1>4. ASSUME NEW q \in Rank, HasEntered(q, n)
      PROVE  Deposit(q, n) \in Value
  <2>1. entered[q] \in Seq(Entry) /\ Len(entered[q]) \in Nat
    BY <1>1, LenProperties DEF TypeInv
  <2>2. n \in 1 .. Len(entered[q])
    BY <1>3, <1>4, <2>1 DEF HasEntered
  <2>3. entered[q][n] \in Entry
    BY <2>1, <2>2, ElementOfSeq
  <2>. QED  BY <2>3 DEF Deposit, Entry
<1>5. value \in [Rank -> Value] /\ value[r].parts \in SUBSET Everything /\ value[r].order \in Seq(Rank)
  BY <1>1 DEF TypeInv, Value
<1>6. CASE UNCHANGED value
  BY <1>5, <1>6
<1>7. CASE /\ Now(r).do = "bcast" /\ HasEntered(root, n)
           /\ value' = [value EXCEPT ![r].parts = @ \cup Deposit(root, n).parts,
                                     ![r].order = Deposit(root, n).order]
  <2>1. root \in Rank
    BY <1>2, <1>7, Kinds
  <2>2. Deposit(root, n) \in Value
    BY <1>4, <1>7, <2>1
  <2> DEFINE d == Deposit(root, n)
  <2> HIDE DEF d
  <2>3. d.parts \in SUBSET Everything /\ d.order \in Seq(Rank)
    BY <2>2 DEF Value, d
  <2> DEFINE v == [parts |-> value[r].parts \cup d.parts, order |-> d.order]
  <2>4. v \in Value
    BY <1>5, <2>3 DEF Value
  <2>5. value' = [value EXCEPT ![r] = v]
    <3>1. value[r] = [parts |-> value[r].parts, order |-> value[r].order]
      BY <1>5 DEF Value
    <3>2. value' = [value EXCEPT ![r].parts = @ \cup d.parts, ![r].order = d.order]
      BY <1>7 DEF d
    <3> DEFINE half == [value EXCEPT ![r].parts = @ \cup d.parts]
    <3>3. half = [value EXCEPT ![r] = [value[r] EXCEPT !.parts = value[r].parts \cup d.parts]]
      BY <1>5
    <3>4. half[r] = [parts |-> value[r].parts \cup d.parts, order |-> value[r].order]
          /\ DOMAIN half = Rank /\ \A q \in Rank \ {r} : half[q] = value[q]
      BY <1>5, <3>1, <3>3
    <3>5. value' = [half EXCEPT ![r].order = d.order]
      BY <3>2
    <3> HIDE DEF half
    <3>6. value' = [half EXCEPT ![r] = v]
      <4>1. [half[r] EXCEPT !.order = d.order] = v
        <5> DEFINE a == value[r].parts \cup d.parts
        <5> HIDE DEF a
        <5>1. half[r] = [parts |-> a, order |-> value[r].order]
          BY <3>4 DEF a
        <5>2. [[parts |-> a, order |-> value[r].order] EXCEPT !.order = d.order]
              = [parts |-> a, order |-> d.order]
          OBVIOUS
        <5>. QED  BY <5>1, <5>2 DEF a
      <4>2. value' = [half EXCEPT ![r] = [half[r] EXCEPT !.order = d.order]]
        BY <3>5
      <4> HIDE DEF v
      <4>. QED  BY <4>1, <4>2
    <3>. QED  BY <1>5, <3>3, <3>4, <3>6
  <2> HIDE DEF v
  <2>. QED  BY <1>5, <2>4, <2>5
<1>8. CASE /\ \A q \in Peers(r) : HasEntered(q, n)
           /\ value' = [value EXCEPT ![r].order =
                FlattenSeq([j \in DOMAIN order |-> Deposit(order[j], n).order])]
  <2>1. order \in Seq(Peers(r)) /\ Len(order) \in Nat /\ DOMAIN order = 1 .. Len(order)
    BY PeersLemma, AscendingType, LenProperties
  <2>2. ASSUME NEW j \in 1 .. Len(order) PROVE Deposit(order[j], n).order \in Seq(Rank)
    <3>1. order[j] \in Peers(r)
      BY <2>1, ElementOfSeq
    <3>2. order[j] \in Rank /\ HasEntered(order[j], n)
      BY <1>8, <3>1, PeersLemma
    <3>. QED  BY <1>4, <3>2 DEF Value
  <2> DEFINE parts == [j \in DOMAIN order |-> Deposit(order[j], n).order]
  <2> HIDE DEF order
  <2>3. parts \in Seq(Seq(Rank))
    BY <2>1, <2>2
  <2>4. FlattenSeq(parts) \in Seq(Rank)
    BY <2>3, FlattenSeqLemma
  <2> DEFINE o == FlattenSeq(parts)
  <2> HIDE DEF parts
  <2>5. value' = [value EXCEPT ![r].order = o]
    BY <1>8 DEF parts, order
  <2>6. o \in Seq(Rank)
    BY <2>4
  <2> HIDE DEF o
  <2>7. [value[r] EXCEPT !.order = o] \in Value
    BY <1>5, <2>6 DEF Value
  <2>8. value' = [value EXCEPT ![r] = [value[r] EXCEPT !.order = o]]
    BY <1>5, <2>5
  <2>. QED  BY <1>5, <2>7, <2>8
<1>. QED  BY <1>6, <1>7, <1>8 DEF LocalLeave

\* A member returns from a local call.
LEMMA LocalLeaveStep ==
  ASSUME IInv, NEW r \in Rank, LocalLeave(r)
  PROVE  IInv'
<1>1. TypeInv /\ PlaceInv /\ Place(r) /\ Count(r) /\ Calls(r)
  BY Parts DEF IInv
<1>2. /\ inside[r] /\ IsLocalCall(r) /\ InCall(r) /\ ~ AtEnd(r)
      /\ inside' = [inside EXCEPT ![r] = FALSE]
      /\ step'   = [step EXCEPT ![r] = @ + 1]
      /\ UNCHANGED <<program, eager, done, results, wire, entered>>
  BY <1>1 DEF LocalLeave, Place, IsLocalCall
<1>3. /\ Current(r) \in Call /\ StepsOf(r) = Steps(Current(r), r) /\ Len(StepsOf(r)) \in Nat
      /\ step[r] \in 1 .. Len(StepsOf(r))
      /\ Now(r) = Steps(Current(r), r)[step[r]] /\ Now(r) \in LocalCall
  BY <1>1, <1>2, NowLemma DEF IsLocalCall
<1>4. TypeInv'
  <2>1. value' \in [Rank -> Value]
    BY LocalLeaveType
  <2>2. step' \in [Rank -> Nat] /\ inside' \in [Rank -> BOOLEAN]
    BY <1>1, <1>2 DEF TypeInv
  <2>. QED  BY <1>1, <1>2, <2>1, <2>2 DEF TypeInv
<1>5. step'[r] = step[r] + 1 /\ inside'[r] = FALSE
  BY <1>1, <1>2 DEF TypeInv
<1>6. Current(r)' = Current(r) /\ StepsOf(r)' = StepsOf(r) /\ InCall(r)'
  BY <1>2, <1>3, <1>5, SameCall DEF InCall
<1>7. Place(r)'
  <2>1. step'[r] <= Len(StepsOf(r)) + 1
    BY <1>3, <1>5
  <2>. QED  BY <1>1, <1>2, <1>5, <1>6, <2>1 DEF Place
<1>8. Count(r)'
  <2>1. Before(Current(r), r, step[r] + 1) = Before(Current(r), r, step[r]) + 1
    BY <1>3, BeforeLemma
  <2>2. Before(Current(r), r, step[r])' = Before(Current(r), r, step[r] + 1)
    BY <1>5, <1>6 DEF Before
  <2>3. Base(done[r])' = Base(done[r])
    BY <1>2 DEF Base, LocalsUpTo
  <2>4. Before(Current(r), r, step[r]) \in Nat /\ Base(done[r]) \in Nat
    <3>1. program \in Seq(Call) /\ done[r] \in 0 .. Len(program)
      BY <1>1, ProgramAssumption DEF TypeInv
    <3>. QED  BY <3>1, BaseLemma DEF Before
  <2>5. Len(entered[r]) = Base(done[r]) + Before(Current(r), r, step[r]) + 1
    BY <1>1, <1>2 DEF Count
  <2>6. Len(entered[r])' = Len(entered[r])
    BY <1>2
  <2>7. Len(entered[r])' = Base(done[r])' + Before(Current(r), r, step[r])'
    BY <2>1, <2>2, <2>3, <2>4, <2>5, <2>6
  <2>8. Base(done[r])' \in Nat /\ Before(Current(r), r, step[r])' \in Nat
    BY <2>1, <2>2, <2>3, <2>4
  <2>. QED  BY <1>5, <1>6, <2>7, <2>8 DEF Count
<1>9. Calls(r)'
  BY <1>1, <1>2, CallsKept
<1>10. \A q \in Rank \ {r} : UNCHANGED Own(q)
  BY <1>1, <1>2 DEF Own, TypeInv
<1>. QED  BY <1>2, <1>4, <1>7, <1>8, <1>9, <1>10, OneMember

\* A member returns from a call.
LEMMA LeaveStep ==
  ASSUME IInv, NEW r \in Rank, Leave(r)
  PROVE  IInv'
<1>1. TypeInv /\ PlaceInv /\ Place(r) /\ Count(r) /\ Calls(r)
  BY Parts DEF IInv
<1>2. /\ InCall(r) /\ AtEnd(r)
      /\ done'    = [done EXCEPT ![r] = @ + 1]
      /\ step'    = [step EXCEPT ![r] = 0]
      /\ results' = [results EXCEPT ![r] = Append(@, value[r])]
      /\ value'   = [value EXCEPT ![r] = Empty]
      /\ UNCHANGED <<program, eager, wire, entered, inside>>
  BY DEF Leave, AtEnd
<1>3. /\ program \in Seq(Call) /\ done[r] \in 0 .. Len(program) - 1
      /\ Current(r) \in Call /\ Current(r) = program[done[r] + 1]
      /\ StepsOf(r) = Steps(Current(r), r)
      /\ Len(StepsOf(r)) \in Nat /\ step[r] = Len(Steps(Current(r), r)) + 1
  <2>1. step[r] \in 1 .. Len(StepsOf(r)) + 1 /\ Len(StepsOf(r)) \in Nat
        /\ StepsOf(r) = Steps(Current(r), r)
    BY <1>1, <1>2, NowLemma
  <2>2. step[r] > Len(StepsOf(r))
    BY <1>2 DEF AtEnd
  <2>. QED  BY <1>1, <1>2, <2>1, <2>2, NowLemma
<1>4. Len(program) \in Nat /\ done[r] + 1 \in 1 .. Len(program)
  BY <1>3, LenProperties
<1>5. results[r] \in Seq(Value) /\ value[r] \in Value /\ Len(results[r]) = done[r]
  BY <1>1 DEF TypeInv, Place
<1>6. Append(results[r], value[r]) \in Seq(Value) /\ Len(Append(results[r], value[r])) = done[r] + 1
  BY <1>5, AppendProperties
<1>7. TypeInv'
  <2>1. done' \in [Rank -> 0 .. Len(program)]
    <3>1. done[r] + 1 \in 0 .. Len(program)
      BY <1>4
    <3>. QED  BY <1>1, <1>2, <3>1 DEF TypeInv
  <2>2. step' \in [Rank -> Nat] /\ value' \in [Rank -> Value]
    BY <1>1, <1>2, EmptyType DEF TypeInv
  <2>3. results' \in [Rank -> Seq(Value)]
    BY <1>1, <1>2, <1>6 DEF TypeInv
  <2>. QED  BY <1>1, <1>2, <2>1, <2>2, <2>3 DEF TypeInv
<1>8. /\ done'[r] = done[r] + 1 /\ step'[r] = 0
      /\ results'[r] = Append(results[r], value[r]) /\ inside'[r] = FALSE
  <2>1. inside[r] = FALSE
    BY <1>1, <1>2 DEF TypeInv, Place, IsLocalCall
  <2>. QED  BY <1>1, <1>2, <2>1 DEF TypeInv
<1>9. ~ InCall(r)'
  BY <1>8 DEF InCall
<1>10. Place(r)'
  BY <1>6, <1>8, <1>9 DEF Place
<1>11. Count(r)'
  <2>1. Base(done[r] + 1) = Base(done[r]) + LocalCount(Current(r)) /\ Base(done[r]) \in Nat
    <3>1. done[r] + 1 - 1 = done[r] /\ done[r] \in 0 .. Len(program)
      BY <1>3, <1>4
    <3>. QED  BY <1>3, <1>4, <3>1, BaseLemma
  <2>2. Base(done[r])' = Base(done[r] + 1)
    BY <1>2, <1>8 DEF Base, LocalsUpTo
  <2>3. Before(Current(r), r, step[r]) = LocalCount(Current(r)) /\ LocalCount(Current(r)) \in Nat
    <3>1. Before(Current(r), r, Len(Steps(Current(r), r)) + 1) = LocalCount(Current(r))
      BY <1>3, BeforeLemma
    <3>2. LocalCount(Current(r)) \in Nat
      BY DEF LocalCount
    <3>. QED  BY <1>3, <3>1, <3>2
  <2>4. Len(entered[r]) = Base(done[r]) + LocalCount(Current(r))
    BY <1>1, <1>2, <1>8, <2>1, <2>3 DEF Count
  <2>5. Len(entered[r])' = Len(entered[r])
    BY <1>2
  <2>6. Len(entered[r])' = Base(done[r])' /\ Base(done[r])' \in Nat
    BY <2>1, <2>2, <2>3, <2>4, <2>5
  <2>. QED  BY <1>8, <1>9, <2>6 DEF Count
<1>12. Calls(r)'
  BY <1>1, <1>2, CallsKept
<1>13. \A q \in Rank \ {r} : UNCHANGED Own(q)
  BY <1>1, <1>2 DEF Own, TypeInv
<1>. QED  BY <1>2, <1>7, <1>10, <1>11, <1>12, <1>13, OneMember

\* Every step keeps the invariant.
LEMMA NextLemma == IInv /\ [Next]_vars => IInv'
<1> SUFFICES ASSUME IInv, [Next]_vars PROVE IInv'
  OBVIOUS
<1>1. CASE UNCHANGED vars
  <2>1. /\ UNCHANGED <<program, eager, done, step, value, results, wire, entered, inside>>
    BY <1>1 DEF vars
  <2>2. TypeInv'
    BY <2>1 DEF IInv, TypeInv
  <2>3. ASSUME NEW q \in Rank PROVE Place(q)' /\ Count(q)' /\ Calls(q)'
    <3>1. Place(q) /\ Count(q) /\ Calls(q)
      BY Parts DEF IInv
    <3>2. UNCHANGED Own(q)
      BY <2>1 DEF Own
    <3>. QED  BY <2>1, <3>1, <3>2, IdleLemma
  <2>. QED  BY <2>2, <2>3 DEF IInv, PlaceInv, CountInv, CallsInv, Place, Count, Calls
<1>2. ASSUME NEW r \in Rank, Step(r) PROVE IInv'
  BY <1>2, EnterStep, SendStep, ReceiveStep, RendezvousStep, LocalEnterStep, LocalLeaveStep,
     LeaveStep DEF Step
<1>. QED  BY <1>1, <1>2 DEF Next, Finished

\* The inductive invariant: the place of a member in its steps determines how many local
\* calls it has made, and each of them is that of the program.
THEOREM Invariant == Spec => []IInv
BY InitLemma, NextLemma, PTL DEF Spec

-----------------------------------------------------------------------------
(* The theorems *)

\* In every state the variables are of their types: messages, buffers, results and
\* deposits hold contributions of members, and there is one result for every call
\* that a member has returned from.
THEOREM TypeCorrect == Spec => []TypeOK
<1>1. IInv => TypeOK
  <2> SUFFICES ASSUME IInv PROVE TypeOK
    OBVIOUS
  <2>1. TypeInv /\ PlaceInv
    BY DEF IInv
  <2>2. \A v \in Value : IsValue(v)
    BY DEF Value, IsValue
  <2>3. ASSUME NEW r \in Rank
        PROVE  /\ IsValue(value[r]) /\ Len(results[r]) = done[r]
               /\ \A k \in DOMAIN results[r] : IsValue(results[r][k])
    <3>1. results[r] \in Seq(Value) /\ DOMAIN results[r] = 1 .. Len(results[r])
      BY <2>1, LenProperties DEF TypeInv
    <3>2. \A k \in DOMAIN results[r] : results[r][k] \in Value
      BY <3>1, ElementOfSeq
    <3>. QED  BY <2>1, <2>2, <3>2 DEF TypeInv, PlaceInv
  <2>4. ASSUME NEW x \in Rank \X Rank, NEW i \in DOMAIN wire[x]
        PROVE  IsValue(wire[x][i].payload)
    <3>1. wire[x] \in Seq(Message) /\ DOMAIN wire[x] = 1 .. Len(wire[x])
      BY <2>1, LenProperties DEF TypeInv
    <3>2. wire[x][i] \in Message
      BY <3>1, ElementOfSeq
    <3>. QED  BY <2>2, <3>2 DEF Message
  <2>. QED  BY <2>1, <2>3, <2>4 DEF TypeInv, TypeOK
<1>. QED  BY <1>1, Invariant, PTL

\* Members of the same cluster agree on the local call of every place in the program.
LEMMA LocalOfCluster ==
  ASSUME NEW c, NEW r \in Rank, NEW q \in Rank, IsLocal(r, q), NEW j
  PROVE  LocalOf(c, r, j) = LocalOf(c, q, j)
<1>1. Peers(q) = Peers(r)
  BY PeersLemma
<1>2. MyCoordinator(q) = MyCoordinator(r) /\ IsLocal(r, c.root) = IsLocal(q, c.root)
  BY <1>1 DEF MyCoordinator, IsLocal
<1>. QED  BY <1>2 DEF LocalOf, FirstLocal, LastLocal

\* The members of a cluster make the same local collective calls, with the same
\* roots, in the same order, whatever the programs, the clusters and the pace: the
\* roots that EMPI_Bcast, EMPI_Reduce, EMPI_Allreduce and EMPI_Allgatherv compute in
\* every process on its own agree.
THEOREM LocalCallsMatchHolds == Spec => []LocalCallsMatch
<1>1. IInv => LocalCallsMatch
  <2> SUFFICES ASSUME IInv, NEW r \in Rank, NEW q \in Rank, IsLocal(r, q),
                      NEW n \in DOMAIN entered[r] \cap DOMAIN entered[q]
               PROVE  entered[r][n].call = entered[q][n].call
    BY DEF LocalCallsMatch
  <2>1. TypeInv /\ Calls(r) /\ Calls(q)
    BY Parts DEF IInv
  <2>2. program \in Seq(Call)
    BY <2>1, ProgramAssumption DEF TypeInv
  <2>3. n \in 1 .. Len(entered[r]) /\ n \in 1 .. Len(entered[q])
    BY <2>1, LenProperties DEF TypeInv
  <2>4. PICK k \in 1 .. Len(program) : \E j \in 1 .. LocalCount(program[k]) :
          n = Base(k - 1) + j /\ entered[r][n].call = LocalOf(program[k], r, j)
    BY <2>1, <2>3 DEF Calls
  <2>5. PICK j \in 1 .. LocalCount(program[k]) :
          n = Base(k - 1) + j /\ entered[r][n].call = LocalOf(program[k], r, j)
    BY <2>4
  <2>6. PICK l \in 1 .. Len(program) : \E i \in 1 .. LocalCount(program[l]) :
          n = Base(l - 1) + i /\ entered[q][n].call = LocalOf(program[l], q, i)
    BY <2>1, <2>3 DEF Calls
  <2>7. PICK i \in 1 .. LocalCount(program[l]) :
          n = Base(l - 1) + i /\ entered[q][n].call = LocalOf(program[l], q, i)
    BY <2>6
  <2>8. k = l /\ j = i
    BY <2>2, <2>5, <2>7, SamePlace
  <2>. QED  BY <2>5, <2>7, <2>8, LocalOfCluster
<1>. QED  BY <1>1, Invariant, PTL

-----------------------------------------------------------------------------
(* The messages of a call *)

\* The number of elements of s that are in M.
Num(s, M) == Cardinality({ i \in DOMAIN s : s[i] \in M })

Outgoing(d, g) == { x \in Talk : x.do = "send" /\ x.peer = d /\ x.tag = g }
Incoming(s, g) == { x \in Talk : x.do = "receive" /\ x.peer = s /\ x.tag = g }

IsCoordinator(r) == r = MyCoordinator(r)

\* Call c has a message with tag g from s to d.
HasMessage(c, s, d, g) ==
  \/ /\ c.op = "barrier" /\ IsCoordinator(s) /\ IsCoordinator(d) /\ s # d
     /\ \/ g = "barrier" /\ d = CoordinatorAt(0)
        \/ g = "bcast" /\ s = CoordinatorAt(0)
  \/ c.op = "bcast" /\ g = "bcast" /\ s = c.root /\ IsCoordinator(d) /\ ~ IsLocal(s, d)
  \/ c.op = "gather" /\ g = "gatherv" /\ d = c.root /\ s # d
  \/ c.op = "scatter" /\ g = "scatterv" /\ s = c.root /\ s # d
  \/ c.op = "allgather" /\ g = "allgatherv" /\ d = MyCoordinator(s) /\ s # d
  \/ c.op \in {"allgather", "allreduce"} /\ g = "bcast"
     /\ IsCoordinator(s) /\ IsCoordinator(d) /\ s # d
  \/ c.op = "alltoall" /\ g = "alltoallv" /\ s # d
  \/ c.op = "reduce" /\ g = "reduce" /\ d = c.root /\ IsCoordinator(s) /\ ~ IsLocal(s, d)
  \/ c.op = "scan" /\ g = "scan" /\ s < d

\* The order of the coordinators in which messaging_bcast finds them: see
\* collectives_order.
InOrder == \A i \in Cluster : Home(CoordinatorAt(i)) = i

\* Every call has, of each tag, as many sends from s to d as receives: one or none.
Balanced ==
  \A c \in Call, s, d \in Rank, g \in Tags :
    LET n == IF HasMessage(c, s, d, g) THEN 1 ELSE 0
    IN  Num(Steps(c, s), Outgoing(d, g)) = n /\ Num(Steps(c, d), Incoming(s, g)) = n

\* The calls in which r has passed a step of M.
PassedIn(r, M) ==
  { k \in 1 .. Len(program) :
      \E i \in 1 .. Len(Steps(program[k], r)) :
        /\ Steps(program[k], r)[i] \in M
        /\ k <= done[r] \/ (k = done[r] + 1 /\ i < step[r]) }

\* The numbers of messages with tag g that s has sent to d, that d has received from s,
\* and that are on their way.
SentBy(s, d, g)     == Cardinality(PassedIn(s, Outgoing(d, g)))
ReceivedBy(s, d, g) == Cardinality(PassedIn(d, Incoming(s, g)))
Tagged(g)           == { m \in Message : m.tag = g }
OnWire(s, d, g)     == Num(wire[<<s, d>>], Tagged(g))

\* What was sent and not received is on the wire.
FlowInv ==
  \A s, d \in Rank, g \in Tags : SentBy(s, d, g) = ReceivedBy(s, d, g) + OnWire(s, d, g)

\* Who is out of a local barrier has seen all its peers in.
ReleaseInv ==
  \A r \in Rank : \A n \in 1 .. Len(entered[r]) :
    entered[r][n].call = LocalBarrier /\ (n < Len(entered[r]) \/ ~ inside[r]) =>
      \A q \in Peers(r) : Len(entered[q]) >= n

-----------------------------------------------------------------------------
(* Counting elements *)

At(s, M) == { i \in DOMAIN s : s[i] \in M }

\* A count is a number up to the length.
LEMMA NumType ==
  ASSUME NEW T, NEW s \in Seq(T), NEW M
  PROVE  IsFiniteSet(At(s, M)) /\ Num(s, M) = Cardinality(At(s, M)) /\ Num(s, M) \in Nat
<1>1. DOMAIN s = 1 .. Len(s) /\ Len(s) \in Nat
  BY LenProperties
<1>2. IsFiniteSet(1 .. Len(s))
  BY <1>1, FS_Interval, 1 \in Int, Len(s) \in Int
<1>3. At(s, M) \in SUBSET (1 .. Len(s))
  BY <1>1 DEF At
<1>. QED  BY <1>2, <1>3, FS_Subset, FS_CardinalityType DEF Num, At

\* A count is zero when no element is counted.
LEMMA NumZero ==
  ASSUME NEW T, NEW s \in Seq(T), NEW M
  PROVE  Num(s, M) = 0 <=> \A i \in 1 .. Len(s) : s[i] \notin M
<1>1. DOMAIN s = 1 .. Len(s)
  BY LenProperties
<1>2. Num(s, M) = 0 <=> At(s, M) = {}
  BY NumType, FS_EmptySet
<1>. QED  BY <1>1, <1>2 DEF At

\* Exactly one.
LEMMA NumOne ==
  ASSUME NEW T, NEW s \in Seq(T), NEW M, NEW i \in 1 .. Len(s), s[i] \in M
  PROVE  Num(s, M) = 1 <=> \A j \in 1 .. Len(s) : s[j] \in M => j = i
<1>1. DOMAIN s = 1 .. Len(s)
  BY LenProperties
<1>2. i \in At(s, M)
  BY <1>1 DEF At
<1>3. (\A j \in 1 .. Len(s) : s[j] \in M => j = i) <=> At(s, M) = {i}
  BY <1>1, <1>2 DEF At
<1>4. ASSUME At(s, M) = {i} PROVE Num(s, M) = 1
  <2>1. Cardinality({i}) = 1
    BY FS_Singleton
  <2>. QED  BY <1>4, <2>1, NumType
<1>5. ASSUME Num(s, M) = 1 PROVE At(s, M) = {i}
  <2>1. PICK x : At(s, M) = {x}
    BY <1>5, NumType, FS_Singleton
  <2>. QED  BY <1>2, <2>1
<1>. QED  BY <1>3, <1>4, <1>5

\* Counting in a sequence of one element.
LEMMA NumSingle ==
  ASSUME NEW T, NEW x \in T, NEW M
  PROVE  Num(<<x>>, M) = IF x \in M THEN 1 ELSE 0
<1>1. <<x>> \in Seq(T) /\ Len(<<x>>) = 1 /\ <<x>>[1] = x /\ 1 .. 1 = {1}
  BY SingleType
<1>2. x \in M => Num(<<x>>, M) = 1
  BY <1>1, NumOne
<1>3. x \notin M => Num(<<x>>, M) = 0
  <2>1. ASSUME x \notin M PROVE \A i \in 1 .. Len(<<x>>) : <<x>>[i] \notin M
    BY <1>1, <2>1
  <2>. QED  BY <1>1, <2>1, NumZero
<1>. QED  BY <1>2, <1>3

\* Counts add up over a concatenation.
LEMMA NumConcat ==
  ASSUME NEW T, NEW s \in Seq(T), NEW t \in Seq(T), NEW M
  PROVE  Num(s \o t, M) = Num(s, M) + Num(t, M)
<1> DEFINE n == Len(s)
           shifted == { n + i : i \in At(t, M) }
           f == [i \in At(t, M) |-> n + i]
<1>1. n \in Nat /\ Len(t) \in Nat /\ DOMAIN s = 1 .. n /\ DOMAIN t = 1 .. Len(t)
  BY LenProperties
<1>2. /\ s \o t \in Seq(T) /\ Len(s \o t) = n + Len(t)
      /\ \A i \in 1 .. n + Len(t) : (s \o t)[i] = IF i <= n THEN s[i] ELSE t[i - n]
  BY ConcatProperties
<1>3. DOMAIN (s \o t) = 1 .. n + Len(t)
  BY <1>2, LenProperties
<1> HIDE DEF n
<1>4. IsFiniteSet(At(s, M)) /\ IsFiniteSet(At(t, M)) /\ Cardinality(At(s, M)) \in Nat
      /\ Cardinality(At(t, M)) \in Nat
  BY NumType
<1>5. \A i \in At(t, M) : i \in 1 .. Len(t)
  BY <1>1 DEF At
<1>6. f \in Bijection(At(t, M), shifted)
  <2>1. f \in [At(t, M) -> shifted]
    OBVIOUS
  <2>2. \A x \in shifted : \E i \in At(t, M) : f[i] = x
    OBVIOUS
  <2>3. ASSUME NEW i \in At(t, M), NEW j \in At(t, M), f[i] = f[j] PROVE i = j
    <3>1. i \in Nat /\ j \in Nat /\ n + i = n + j
      BY <1>1, <1>5, <2>3
    <3>. QED  BY <1>1, <3>1
  <2> HIDE DEF f, shifted
  <2>. QED  BY <2>1, <2>2, <2>3 DEF Bijection, Injection, Surjection, IsInjective
<1>7. IsFiniteSet(shifted) /\ Cardinality(shifted) = Cardinality(At(t, M))
  <2> HIDE DEF f, shifted
  <2>. QED  BY <1>4, <1>6, FS_Bijection DEF ExistsBijection
<1>8. At(s, M) \cap shifted = {}
  BY <1>1, <1>5 DEF At
<1>9. At(s \o t, M) = At(s, M) \cup shifted
  <2>1. ASSUME NEW i \in At(s \o t, M) PROVE i \in At(s, M) \cup shifted
    <3>1. i \in 1 .. n + Len(t) /\ (s \o t)[i] \in M
      BY <1>3 DEF At
    <3>2. CASE i <= n
      BY <1>1, <1>2, <3>1, <3>2 DEF At
    <3>3. CASE ~ (i <= n)
      <4>1. i - n \in 1 .. Len(t) /\ t[i - n] \in M /\ i = n + (i - n)
        BY <1>1, <1>2, <3>1, <3>3
      <4>2. i - n \in At(t, M)
        BY <1>1, <4>1 DEF At
      <4>. QED  BY <4>1, <4>2
    <3>. QED  BY <3>2, <3>3
  <2>2. ASSUME NEW i \in At(s, M) PROVE i \in At(s \o t, M)
    <3>1. i \in 1 .. n + Len(t) /\ i <= n /\ s[i] \in M
      BY <1>1 DEF At
    <3>. QED  BY <1>2, <1>3, <3>1 DEF At
  <2>3. ASSUME NEW i \in At(t, M) PROVE n + i \in At(s \o t, M)
    <3>1. i \in 1 .. Len(t) /\ t[i] \in M
      BY <1>1 DEF At
    <3>2. n + i \in 1 .. n + Len(t) /\ ~ (n + i <= n) /\ (n + i) - n = i
      BY <1>1, <3>1
    <3>. QED  BY <1>2, <1>3, <3>1, <3>2 DEF At
  <2>. QED  BY <2>1, <2>2, <2>3
<1> HIDE DEF shifted
<1>10. Cardinality(At(s \o t, M)) = Cardinality(At(s, M)) + Cardinality(At(t, M))
  <2>1. Cardinality(At(s, M) \cup shifted)
        = Cardinality(At(s, M)) + Cardinality(shifted) - Cardinality(At(s, M) \cap shifted)
    BY <1>4, <1>7, FS_Union
  <2>2. Cardinality(At(s, M) \cap shifted) = 0
    BY <1>8, FS_EmptySet
  <2>. QED  BY <1>4, <1>7, <1>9, <2>1, <2>2
<1>. QED  BY <1>2, <1>10, NumType

\* Ascending puts every element at one place.
LEMMA AscendingPlaces ==
  ASSUME NEW n \in Nat, NEW S \in SUBSET (0 .. n - 1), NEW x \in S
  PROVE  \E i \in 1 .. Len(Ascending(S)) :
           /\ Ascending(S)[i] = x
           /\ \A j \in 1 .. Len(Ascending(S)) : Ascending(S)[j] = x => j = i
<1> DEFINE c == Cardinality(S)
           a == Ascending(S)
<1>1. c \in Nat /\ Len(a) = c /\ a \in [1 .. c -> S]
  BY AscendingLemma
<1>2. \A i, j \in 1 .. c : i < j => a[i] < a[j]
  <2>1. PICK s : IsAscending(s, S)
    BY AscendingExists
  <2>2. \A i, j \in DOMAIN a : i < j => a[i] < a[j]
    BY <2>1 DEF IsAscending, Ascending
  <2>. QED  BY <1>1, <2>2
<1>3. IsFiniteSet(S)
  BY FS_Interval, FS_Subset, 0 \in Int, n - 1 \in Int
<1> HIDE DEF a, c
<1>4. \A i, j \in 1 .. c : a[i] = a[j] => i = j
  <2>1. ASSUME NEW i \in 1 .. c, NEW j \in 1 .. c, a[i] = a[j] PROVE i = j
    <3>1. a[i] \in Int /\ a[j] \in Int
      <4>1. a[i] \in S /\ a[j] \in S
        BY <1>1
      <4>2. a[i] \in 0 .. n - 1 /\ a[j] \in 0 .. n - 1
        BY <4>1
      <4>. QED  BY <4>2
    <3>2. ~ (i < j) /\ ~ (j < i)
      BY <1>2, <2>1, <3>1
    <3>. QED  BY <1>1, <3>2
  <2>. QED  BY <2>1
<1>5. \E i \in 1 .. c : a[i] = x
  <2>1. IsFiniteSet(1 .. c) /\ Cardinality(1 .. c) = c
    BY <1>1, FS_Interval, 1 \in Int, c \in Int
  <2>2. a \in Injection(1 .. c, S)
    BY <1>1, <1>4 DEF Injection, IsInjective
  <2>3. a \in Bijection(1 .. c, S)
    <3>1. a \in Surjection(1 .. c, S)
      <4>1. Cardinality(1 .. c) = Cardinality(S)
        BY <2>1 DEF c
      <4>. QED  BY <1>3, <2>2, <4>1, FS_Injection
    <3>. QED  BY <2>2, <3>1 DEF Bijection
  <2>. QED  BY <2>3 DEF Bijection, Surjection
<1>. QED  BY <1>1, <1>4, <1>5 DEF a

\* The elements of s in M are where x is among the numbers of S.
Follows(s, M, S, x) ==
  /\ Len(s) = Len(Ascending(S))
  /\ \A j \in 1 .. Len(s) : s[j] \in M <=> Ascending(S)[j] = x

\* Such a list has one element in M, if x is there.
LEMMA NumFollows ==
  ASSUME NEW n \in Nat, NEW S \in SUBSET (0 .. n - 1), NEW x,
         NEW T, NEW s \in Seq(T), NEW M, Follows(s, M, S, x)
  PROVE  Num(s, M) = IF x \in S THEN 1 ELSE 0
<1>0. /\ Len(s) = Len(Ascending(S))
      /\ \A j \in 1 .. Len(s) : s[j] \in M <=> Ascending(S)[j] = x
  BY DEF Follows
<1>1. CASE x \in S
  <2>1. PICK i \in 1 .. Len(s) : /\ Ascending(S)[i] = x
                                 /\ \A j \in 1 .. Len(s) : Ascending(S)[j] = x => j = i
    BY <1>0, <1>1, AscendingPlaces
  <2>2. s[i] \in M /\ \A j \in 1 .. Len(s) : s[j] \in M => j = i
    BY <1>0, <2>1
  <2>. QED  BY <1>1, <2>2, NumOne
<1>2. CASE x \notin S
  <2>1. Ascending(S) \in Seq(S)
    BY AscendingLemma
  <2>2. \A j \in 1 .. Len(s) : Ascending(S)[j] \in S
    BY <1>0, <2>1, ElementOfSeq
  <2>3. \A j \in 1 .. Len(s) : s[j] \notin M
    BY <1>0, <1>2, <2>2
  <2>. QED  BY <1>2, <2>3, NumZero
<1>. QED  BY <1>1, <1>2

\* Only the b-th of the sequences has an element in M, and it has one.
OnlyIn(s, M, b) ==
  \A k \in 1 .. Len(s) : Num(s[k], M) = IF k = b THEN 1 ELSE 0

\* Flattened they have one element in M.
LEMMA NumFlattens ==
  ASSUME NEW T, NEW s \in Seq(Seq(T)), NEW f, Flattens(f, s, Len(s)), NEW M, NEW b, OnlyIn(s, M, b),
         NEW n \in 1 .. Len(s)
  PROVE  Num(f[n], M) = IF b \in 1 .. n THEN 1 ELSE 0
<1> DEFINE Bad == { i \in 1 .. Len(s) : ~ (Num(f[i], M) = IF b \in 1 .. i THEN 1 ELSE 0) }
<1>1. SUFFICES ASSUME Bad # {} PROVE FALSE
  OBVIOUS
<1>2. Bad \in SUBSET Nat
  OBVIOUS
<1>3. First(Bad) \in Bad /\ \A y \in Bad : First(Bad) <= y
  <2> HIDE DEF Bad
  <2>. QED  BY <1>1, <1>2, FirstLemma
<1> DEFINE m == First(Bad)
<1>4. m \in 1 .. Len(s) /\ ~ (Num(f[m], M) = IF b \in 1 .. m THEN 1 ELSE 0) /\ Len(s) \in Nat
  BY <1>3
<1>5. \A y \in Bad : m <= y
  BY <1>3
<1> HIDE DEF m
<1>6. m # 1 => m - 1 \in 1 .. Len(s) /\ Num(f[m - 1], M) = IF b \in 1 .. m - 1 THEN 1 ELSE 0
  <2>1. m # 1 => m - 1 \in 1 .. Len(s) /\ ~ (m <= m - 1)
    BY <1>4
  <2>. QED  BY <1>5, <2>1
<1> HIDE DEF Bad
<1>7. f[m] = IF m = 1 THEN s[m] ELSE f[m - 1] \o s[m]
  BY <1>4 DEF Flattens
<1>8. Num(s[m], M) = IF m = b THEN 1 ELSE 0
  BY <1>4 DEF OnlyIn
<1>9. CASE m = 1
  BY <1>4, <1>7, <1>8, <1>9
<1>10. CASE m # 1
  <2>1. f[m - 1] \in Seq(T) /\ s[m] \in Seq(T)
    BY <1>4, <1>6, <1>10, FlattensType, ElementOfSeq
  <2>2. Num(f[m], M) = Num(f[m - 1], M) + Num(s[m], M)
    BY <1>7, <1>10, <2>1, NumConcat
  <2>3. b \in 1 .. m <=> b \in 1 .. m - 1 \/ b = m
    BY <1>4
  <2>4. b = m => b \notin 1 .. m - 1
    BY <1>4
  <2>. QED  BY <1>4, <1>6, <1>8, <1>10, <2>2, <2>3, <2>4
<1>. QED  BY <1>9, <1>10

\* Counts over FlattenSeq: one part, or none, has an element of M.
LEMMA NumFlattenSeq ==
  ASSUME NEW T, NEW s \in Seq(Seq(T)), Len(s) # 0, NEW M, NEW b, OnlyIn(s, M, b)
  PROVE  Num(FlattenSeq(s), M) = IF b \in 1 .. Len(s) THEN 1 ELSE 0
<1> DEFINE f == CHOOSE f : Flattens(f, s, Len(s))
<1>1. Len(s) \in 1 .. Len(s) /\ Len(s) \in 0 .. Len(s)
  BY LenProperties
<1>2. Flattens(f, s, Len(s))
  BY <1>1, FlattensExists
<1>3. FlattenSeq(s) = f[Len(s)]
  BY DEF FlattenSeq, Flattens
<1> HIDE DEF f
<1>4. Num(f[Len(s)], M) = IF b \in 1 .. Len(s) THEN 1 ELSE 0
  <2> DEFINE n == Len(s)
  <2>1. n \in 1 .. Len(s)
    BY <1>1
  <2> HIDE DEF n
  <2>2. Num(f[n], M) = IF b \in 1 .. n THEN 1 ELSE 0
    BY <1>2, <2>1, NumFlattens
  <2>. QED  BY <2>2 DEF n
<1>. QED  BY <1>3, <1>4

-----------------------------------------------------------------------------
(* The messages of the operations *)

\* What step is a message of.
LEMMA MessageKinds ==
  /\ \A q, d \in Rank, t, g \in Tags, w \in SUBSET Everything :
       /\ Send(q, t, w) \in Outgoing(d, g) <=> q = d /\ t = g
       /\ SendOwn(q, t) \in Outgoing(d, g) <=> q = d /\ t = g
       /\ Send(q, t, w) \notin Incoming(d, g) /\ SendOwn(q, t) \notin Incoming(d, g)
  /\ \A q, s \in Rank, t, g \in Tags, h \in {"add", "combine"} :
       /\ Receive(q, t, h) \in Incoming(s, g) <=> q = s /\ t = g
       /\ Receive(q, t, h) \notin Outgoing(s, g)
  /\ \A q \in Rank, g \in Tags : \A x \in LocalCall : x \notin Outgoing(q, g) /\ x \notin Incoming(q, g)
<1>1. ASSUME NEW q \in Rank, NEW d \in Rank, NEW t \in Tags, NEW g \in Tags, NEW w \in SUBSET Everything
      PROVE  /\ Send(q, t, w) \in Outgoing(d, g) <=> q = d /\ t = g
             /\ SendOwn(q, t) \in Outgoing(d, g) <=> q = d /\ t = g
             /\ Send(q, t, w) \notin Incoming(d, g) /\ SendOwn(q, t) \notin Incoming(d, g)
  <2>1. Send(q, t, w) \in Talk /\ SendOwn(q, t) \in Talk
    BY SendType
  <2>. QED  BY <2>1 DEF Outgoing, Incoming, Send, SendOwn
<1>2. ASSUME NEW q \in Rank, NEW s \in Rank, NEW t \in Tags, NEW g \in Tags, NEW h \in {"add", "combine"}
      PROVE  /\ Receive(q, t, h) \in Incoming(s, g) <=> q = s /\ t = g
             /\ Receive(q, t, h) \notin Outgoing(s, g)
  <2>1. Receive(q, t, h) \in Talk
    BY ReceiveType
  <2>. QED  BY <2>1 DEF Outgoing, Incoming, Receive
<1>3. \A q, g : \A x \in LocalCall : x \notin Outgoing(q, g) /\ x \notin Incoming(q, g)
  BY Kinds DEF Outgoing, Incoming
<1>. QED  BY <1>1, <1>2, <1>3

\* A list for the members of S in their order, with an element in M for q.
LEMMA NumMembers ==
  ASSUME NEW S \in SUBSET Rank, NEW q, NEW l \in Seq(Talk), NEW M, Follows(l, M, S, q)
  PROVE  Num(l, M) = IF q \in S THEN 1 ELSE 0
<1> DEFINE n == Size
<1>1. n \in Nat /\ S \in SUBSET (0 .. n - 1)
  BY MembersLemma
<1> HIDE DEF n
<1>2. \A k \in Nat : \A U \in SUBSET (0 .. k - 1) : \A x, T : \A s \in Seq(T) : \A m :
        Follows(s, m, U, x) => Num(s, m) = IF x \in U THEN 1 ELSE 0
  BY NumFollows
<1>3. \A x, T : \A s \in Seq(T) : \A m :
        Follows(s, m, S, x) => Num(s, m) = IF x \in S THEN 1 ELSE 0
  BY <1>1, <1>2
<1>4. \A x : \A s \in Seq(Talk) : \A m :
        Follows(s, m, S, x) => Num(s, m) = IF x \in S THEN 1 ELSE 0
  BY <1>3
<1>. QED  BY <1>4

\* The steps l are, besides local calls, one message to each member and with each tag
\* in S, and one message from each member and with each tag in R.
Talks(l, S, R) ==
  /\ l \in Seq(AnyStep)
  /\ \A q \in Rank, g \in Tags :
       /\ Num(l, Outgoing(q, g)) = IF <<q, g>> \in S THEN 1 ELSE 0
       /\ Num(l, Incoming(q, g)) = IF <<q, g>> \in R THEN 1 ELSE 0

\* The messages of two pieces of a call, one after the other.
LEMMA TalksConcat ==
  ASSUME NEW l, NEW S, NEW R, Talks(l, S, R), NEW m, NEW U, NEW V, Talks(m, U, V),
         S \cap U = {}, R \cap V = {}
  PROVE  Talks(l \o m, S \cup U, R \cup V)
<1>1. l \in Seq(AnyStep) /\ m \in Seq(AnyStep) /\ l \o m \in Seq(AnyStep)
  BY ConcatProperties DEF Talks
<1>2. \A M : Num(l \o m, M) = Num(l, M) + Num(m, M)
  BY <1>1, NumConcat
<1>3. ASSUME NEW q \in Rank, NEW g \in Tags
      PROVE  /\ Num(l \o m, Outgoing(q, g)) = IF <<q, g>> \in S \cup U THEN 1 ELSE 0
             /\ Num(l \o m, Incoming(q, g)) = IF <<q, g>> \in R \cup V THEN 1 ELSE 0
  <2>1. /\ Num(l, Outgoing(q, g)) = IF <<q, g>> \in S THEN 1 ELSE 0
        /\ Num(l, Incoming(q, g)) = IF <<q, g>> \in R THEN 1 ELSE 0
        /\ Num(m, Outgoing(q, g)) = IF <<q, g>> \in U THEN 1 ELSE 0
        /\ Num(m, Incoming(q, g)) = IF <<q, g>> \in V THEN 1 ELSE 0
    BY DEF Talks
  <2>. QED  BY <1>2, <2>1
<1>. QED  BY <1>1, <1>3 DEF Talks

\* No step has no message.
LEMMA TalksEmpty == Talks(<< >>, {}, {})
<1>1. << >> \in Seq(AnyStep) /\ Len(<< >>) = 0
  BY EmptySeq
<1>2. ASSUME NEW M PROVE Num(<< >>, M) = 0
  <2>1. DOMAIN << >> = {}
    BY <1>1
  <2>2. { i \in DOMAIN << >> : << >>[i] \in M } = {}
    BY <2>1
  <2>. QED  BY <2>2, FS_EmptySet DEF Num
<1>. QED  BY <1>1, <1>2 DEF Talks

\* Guarded steps have their messages if the guard holds.
LEMMA TalksWhen ==
  ASSUME NEW l, NEW S, NEW R, Talks(l, S, R), NEW condition
  PROVE  Talks(When(condition, l), IF condition THEN S ELSE {}, IF condition THEN R ELSE {})
BY TalksEmpty DEF When

\* A send has one message.
LEMMA TalksSend ==
  ASSUME NEW q \in Rank, NEW t \in Tags, NEW w \in SUBSET Everything
  PROVE  Talks(<<Send(q, t, w)>>, {<<q, t>>}, {}) /\ Talks(<<SendOwn(q, t)>>, {<<q, t>>}, {})
<1>1. Send(q, t, w) \in AnyStep /\ SendOwn(q, t) \in AnyStep
  BY SendType DEF AnyStep
<1>2. <<Send(q, t, w)>> \in Seq(AnyStep) /\ <<SendOwn(q, t)>> \in Seq(AnyStep)
  BY <1>1, SingleType
<1>3. \A M : /\ Num(<<Send(q, t, w)>>, M) = IF Send(q, t, w) \in M THEN 1 ELSE 0
             /\ Num(<<SendOwn(q, t)>>, M) = IF SendOwn(q, t) \in M THEN 1 ELSE 0
  BY <1>1, NumSingle
<1>. QED  BY <1>2, <1>3, MessageKinds DEF Talks

\* So has a receive.
LEMMA TalksReceive ==
  ASSUME NEW q \in Rank, NEW t \in Tags, NEW h \in {"add", "combine"}
  PROVE  Talks(<<Receive(q, t, h)>>, {}, {<<q, t>>})
<1>1. Receive(q, t, h) \in AnyStep
  BY ReceiveType DEF AnyStep
<1>2. <<Receive(q, t, h)>> \in Seq(AnyStep)
  BY <1>1, SingleType
<1>3. \A M : Num(<<Receive(q, t, h)>>, M) = IF Receive(q, t, h) \in M THEN 1 ELSE 0
  BY <1>1, NumSingle
<1>. QED  BY <1>2, <1>3, MessageKinds DEF Talks

\* A local call has none.
LEMMA TalksLocal ==
  ASSUME NEW x \in LocalCall
  PROVE  Talks(<<x>>, {}, {})
<1>1. x \in AnyStep /\ <<x>> \in Seq(AnyStep)
  BY SingleType DEF AnyStep
<1>2. \A M : Num(<<x>>, M) = IF x \in M THEN 1 ELSE 0
  BY <1>1, NumSingle
<1>. QED  BY <1>1, <1>2, MessageKinds DEF Talks

\* Receives from, and sends to, members in their order.
LEMMA TalksReceives ==
  ASSUME NEW S \in SUBSET Rank, NEW t \in Tags, NEW h \in {"add", "combine"}
  PROVE  Talks([j \in DOMAIN Ascending(S) |-> Receive(Ascending(S)[j], t, h)], {}, S \X {t})
<1> DEFINE a == Ascending(S)
           l == [j \in DOMAIN a |-> Receive(a[j], t, h)]
<1>1. a \in Seq(Rank) /\ Len(a) \in Nat /\ DOMAIN a = 1 .. Len(a)
  BY AscendingType, LenProperties
<1>2. l \in Seq(Talk)
  <2> HIDE DEF a
  <2>. QED  BY <1>1, ReceivesType
<1>3. Len(l) = Len(a) /\ \A j \in 1 .. Len(a) : l[j] = Receive(a[j], t, h) /\ a[j] \in Rank
  <2> HIDE DEF a
  <2>. QED  BY <1>1, ElementOfSeq
<1> HIDE DEF l
<1>4. ASSUME NEW q \in Rank, NEW g \in Tags
      PROVE  /\ Num(l, Outgoing(q, g)) = 0
             /\ Num(l, Incoming(q, g)) = IF <<q, g>> \in S \X {t} THEN 1 ELSE 0
  <2>1. \A j \in 1 .. Len(l) : /\ l[j] \notin Outgoing(q, g)
                               /\ l[j] \in Incoming(q, g) <=> a[j] = q /\ g = t
    BY <1>3, MessageKinds
  <2>2. Num(l, Outgoing(q, g)) = 0
    BY <1>2, <2>1, NumZero
  <2>3. g # t => Num(l, Incoming(q, g)) = 0
    BY <1>2, <2>1, NumZero
  <2>4. ASSUME g = t PROVE Num(l, Incoming(q, g)) = IF q \in S THEN 1 ELSE 0
    <3>1. Follows(l, Incoming(q, g), S, q)
      BY <1>3, <2>1, <2>4 DEF Follows
    <3>. QED  BY <1>2, <3>1, NumMembers
  <2>. QED  BY <2>2, <2>3, <2>4
<1>5. l \in Seq(AnyStep)
  BY <1>2, SeqMonotonic DEF AnyStep
<1>6. Talks(l, {}, S \X {t})
  BY <1>4, <1>5 DEF Talks
<1>. QED  BY <1>6 DEF l

\* A send to each of a set of members.
LEMMA TalksSends ==
  ASSUME NEW S \in SUBSET Rank, NEW t \in Tags, NEW l \in Seq(Talk),
         Len(l) = Len(Ascending(S)),
         \A j \in 1 .. Len(l) : \E w \in SUBSET Everything : l[j] = Send(Ascending(S)[j], t, w)
  PROVE  Talks(l, S \X {t}, {})
<1> DEFINE a == Ascending(S)
<1>1. a \in Seq(Rank)
  BY AscendingType
<1>2. \A j \in 1 .. Len(l) : a[j] \in Rank
  BY <1>1, ElementOfSeq
<1>3. ASSUME NEW q \in Rank, NEW g \in Tags
      PROVE  /\ Num(l, Outgoing(q, g)) = IF <<q, g>> \in S \X {t} THEN 1 ELSE 0
             /\ Num(l, Incoming(q, g)) = 0
  <2>1. \A j \in 1 .. Len(l) : /\ l[j] \notin Incoming(q, g)
                               /\ l[j] \in Outgoing(q, g) <=> a[j] = q /\ g = t
    BY <1>2, MessageKinds
  <2>2. Num(l, Incoming(q, g)) = 0
    BY <2>1, NumZero
  <2>3. g # t => Num(l, Outgoing(q, g)) = 0
    BY <2>1, NumZero
  <2>4. ASSUME g = t PROVE Num(l, Outgoing(q, g)) = IF q \in S THEN 1 ELSE 0
    <3>1. Follows(l, Outgoing(q, g), S, q)
      BY <2>1, <2>4 DEF Follows
    <3>. QED  BY <3>1, NumMembers
  <2>. QED  BY <2>2, <2>3, <2>4
<1>4. l \in Seq(AnyStep)
  BY SeqMonotonic DEF AnyStep
<1>. QED  BY <1>3, <1>4 DEF Talks

\* messaging_bcast sends to the coordinators of the other clusters.
OtherCoordinators(r) == { q \in Rank : IsCoordinator(q) /\ ~ IsLocal(r, q) }

\* With the coordinators in the order of their clusters each is at the index of its own.
LEMMA InOrderLemma ==
  ASSUME InOrder
  PROVE  /\ \A i \in Cluster : /\ CoordinatorAt(i) \in Rank /\ IsCoordinator(CoordinatorAt(i))
                               /\ Home(CoordinatorAt(i)) = i
         /\ \A q \in Rank : IsCoordinator(q) => q = CoordinatorAt(Home(q))
         /\ \A q \in Rank : Home(q) \in Cluster /\ MyCoordinator(q) = CoordinatorAt(Home(q))
         /\ ToSet(Coordinators) = { q \in Rank : IsCoordinator(q) }
<1>1. ASSUME NEW i \in Cluster
      PROVE  /\ CoordinatorAt(i) \in Rank /\ IsCoordinator(CoordinatorAt(i))
             /\ Home(CoordinatorAt(i)) = i
  <2> DEFINE C == { First(Peers(r)) : r \in Rank }
  <2>1. CoordinatorAt(i) \in Rank /\ Home(CoordinatorAt(i)) = i
    BY CoordinatorsLemma DEF InOrder
  <2>2. C \in SUBSET Rank
    BY PeersLemma DEF MyCoordinator
  <2>3. Coordinators \in Seq(C) /\ Len(Coordinators) = ClusterCount
    <3>1. C \in SUBSET (0 .. Size - 1) /\ Size \in Nat
      BY <2>2, MembersLemma
    <3>. QED  BY <3>1, AscendingLemma, CoordinatorsLemma DEF Coordinators
  <2>4. i + 1 \in 1 .. Len(Coordinators)
    BY <2>3, ClusterAssumption DEF Cluster
  <2>5. CoordinatorAt(i) \in C
    BY <2>3, <2>4, ElementOfSeq DEF CoordinatorAt
  <2>6. PICK r \in Rank : CoordinatorAt(i) = MyCoordinator(r)
    BY <2>5 DEF MyCoordinator
  <2>7. IsLocal(MyCoordinator(r), r)
    BY PeersLemma
  <2>8. Peers(MyCoordinator(r)) = Peers(r)
    <3>1. IsLocal(r, MyCoordinator(r)) /\ MyCoordinator(r) \in Rank
      BY <2>7, PeersLemma DEF IsLocal
    <3>. QED  BY <3>1, PeersLemma
  <2>9. IsCoordinator(CoordinatorAt(i))
    BY <2>6, <2>8 DEF IsCoordinator, MyCoordinator
  <2>. QED  BY <2>1, <2>9
<1>2. \A p, q \in Rank : IsLocal(p, q) => MyCoordinator(p) = MyCoordinator(q)
  BY PeersLemma DEF MyCoordinator
<1>3. \A q \in Rank : Home(q) \in Cluster
  BY MembersLemma
<1>4. ASSUME NEW q \in Rank PROVE MyCoordinator(q) = CoordinatorAt(Home(q))
  <2>1. CoordinatorAt(Home(q)) \in Rank /\ IsCoordinator(CoordinatorAt(Home(q)))
        /\ IsLocal(CoordinatorAt(Home(q)), q)
    BY <1>1, <1>3 DEF IsLocal
  <2>2. MyCoordinator(CoordinatorAt(Home(q))) = MyCoordinator(q)
    BY <1>2, <2>1
  <2>. QED  BY <2>1, <2>2 DEF IsCoordinator
<1>5. ASSUME NEW q \in Rank, IsCoordinator(q) PROVE q = CoordinatorAt(Home(q))
  BY <1>4, <1>5 DEF IsCoordinator
<1>6. ASSUME NEW q \in ToSet(Coordinators) PROVE q \in Rank /\ IsCoordinator(q)
  <2>1. PICK j \in 1 .. ClusterCount : q = Coordinators[j]
    BY CoordinatorsLemma, LenProperties DEF ToSet
  <2>2. j - 1 \in Cluster /\ (j - 1) + 1 = j
    BY ClusterAssumption DEF Cluster
  <2>3. q = CoordinatorAt(j - 1)
    BY <2>1, <2>2 DEF CoordinatorAt
  <2>. QED  BY <1>1, <2>2, <2>3
<1>7. ASSUME NEW q \in Rank, IsCoordinator(q) PROVE q \in ToSet(Coordinators)
  <2>1. Home(q) + 1 \in 1 .. ClusterCount
    BY <1>3, ClusterAssumption DEF Cluster
  <2>2. q = Coordinators[Home(q) + 1]
    BY <1>5, <1>7 DEF CoordinatorAt
  <2>3. DOMAIN Coordinators = 1 .. ClusterCount
    BY CoordinatorsLemma, LenProperties
  <2>. QED  BY <2>1, <2>2, <2>3 DEF ToSet
<1>. QED  BY <1>1, <1>3, <1>4, <1>5, <1>6, <1>7

\* A list for clusters in their order, with an element in M for the cluster i.
LEMMA NumClusters ==
  ASSUME NEW S \in SUBSET Cluster, NEW i, NEW l \in Seq(Talk), NEW M, Follows(l, M, S, i)
  PROVE  Num(l, M) = IF i \in S THEN 1 ELSE 0
<1> DEFINE n == ClusterCount
<1>1. n \in Nat /\ S \in SUBSET (0 .. n - 1)
  BY ClusterAssumption DEF Cluster
<1> HIDE DEF n
<1>2. \A k \in Nat : \A U \in SUBSET (0 .. k - 1) : \A x, T : \A s \in Seq(T) : \A m :
        Follows(s, m, U, x) => Num(s, m) = IF x \in U THEN 1 ELSE 0
  BY NumFollows
<1>3. \A x, T : \A s \in Seq(T) : \A m :
        Follows(s, m, S, x) => Num(s, m) = IF x \in S THEN 1 ELSE 0
  BY <1>1, <1>2
<1>4. \A x : \A s \in Seq(Talk) : \A m :
        Follows(s, m, S, x) => Num(s, m) = IF x \in S THEN 1 ELSE 0
  BY <1>3
<1>. QED  BY <1>4

\* A list of messages to, or from, the coordinators of S in the order of the clusters.
LEMMA TalksClusters ==
  ASSUME InOrder, NEW S \in SUBSET Cluster, NEW t \in Tags, NEW l \in Seq(Talk),
         Len(l) = Len(Ascending(S)),
         NEW Q, Q = { q \in Rank : IsCoordinator(q) /\ Home(q) \in S }
  PROVE  /\ (\A j \in 1 .. Len(l) : \E w \in SUBSET Everything :
               l[j] = Send(CoordinatorAt(Ascending(S)[j]), t, w))
            => Talks(l, Q \X {t}, {})
         /\ (\A j \in 1 .. Len(l) : l[j] = Receive(CoordinatorAt(Ascending(S)[j]), t, "add"))
            => Talks(l, {}, Q \X {t})
<1> DEFINE a == Ascending(S)
<1>1. a \in Seq(Cluster) /\ a \in Seq(S)
  BY AscendingType
<1>2. \A j \in 1 .. Len(l) : a[j] \in Cluster
  BY <1>1, ElementOfSeq
<1> HIDE DEF a
<1>3. \A j \in 1 .. Len(l), q \in Rank : CoordinatorAt(a[j]) = q => IsCoordinator(q) /\ Home(q) = a[j]
  BY <1>2, InOrderLemma
<1>4. \A q \in Rank : IsCoordinator(q) => q = CoordinatorAt(Home(q))
  BY InOrderLemma
<1>5. \A j \in 1 .. Len(l) : CoordinatorAt(a[j]) \in Rank
  BY <1>2, CoordinatorsLemma
<1>6. l \in Seq(AnyStep)
  BY SeqMonotonic DEF AnyStep
<1>7. \A M : (\A j \in 1 .. Len(l) : l[j] \notin M) => Num(l, M) = 0
  BY NumZero
<1>8. ASSUME NEW q \in Rank, NEW g \in Tags, NEW M,
             \A j \in 1 .. Len(l) : l[j] \in M <=> CoordinatorAt(a[j]) = q /\ g = t
      PROVE  Num(l, M) = IF <<q, g>> \in Q \X {t} THEN 1 ELSE 0
  <2>1. CASE g # t \/ ~ IsCoordinator(q)
    <3>1. \A j \in 1 .. Len(l) : l[j] \notin M
      BY <1>3, <1>8, <2>1
    <3>. QED  BY <1>7, <2>1, <3>1
  <2>2. CASE g = t /\ IsCoordinator(q)
    <3>1. \A j \in 1 .. Len(l) : l[j] \in M <=> a[j] = Home(q)
      BY <1>3, <1>4, <1>8, <2>2
    <3>2. Follows(l, M, S, Home(q))
      BY <3>1 DEF Follows, a
    <3>3. Num(l, M) = IF Home(q) \in S THEN 1 ELSE 0
      BY <3>2, NumClusters
    <3>. QED  BY <2>2, <3>3
  <2>. QED  BY <2>1, <2>2
<1>9. ASSUME \A j \in 1 .. Len(l) : \E w \in SUBSET Everything :
               l[j] = Send(CoordinatorAt(Ascending(S)[j]), t, w)
      PROVE  Talks(l, Q \X {t}, {})
  <2>1. ASSUME NEW q \in Rank, NEW g \in Tags
        PROVE  /\ Num(l, Outgoing(q, g)) = IF <<q, g>> \in Q \X {t} THEN 1 ELSE 0
               /\ Num(l, Incoming(q, g)) = 0
    <3>1. \A j \in 1 .. Len(l) : /\ l[j] \notin Incoming(q, g)
                                 /\ l[j] \in Outgoing(q, g) <=> CoordinatorAt(a[j]) = q /\ g = t
      BY <1>5, <1>9, MessageKinds DEF a
    <3>. QED  BY <1>7, <1>8, <3>1
  <2>. QED  BY <1>6, <2>1 DEF Talks
<1>10. ASSUME \A j \in 1 .. Len(l) : l[j] = Receive(CoordinatorAt(Ascending(S)[j]), t, "add")
       PROVE  Talks(l, {}, Q \X {t})
  <2>1. ASSUME NEW q \in Rank, NEW g \in Tags
        PROVE  /\ Num(l, Incoming(q, g)) = IF <<q, g>> \in Q \X {t} THEN 1 ELSE 0
               /\ Num(l, Outgoing(q, g)) = 0
    <3>1. \A j \in 1 .. Len(l) : /\ l[j] \notin Outgoing(q, g)
                                 /\ l[j] \in Incoming(q, g) <=> CoordinatorAt(a[j]) = q /\ g = t
      BY <1>5, <1>10, MessageKinds DEF a
    <3>. QED  BY <1>7, <1>8, <3>1
  <2>. QED  BY <1>6, <2>1 DEF Talks
<1>. QED  BY <1>9, <1>10

\* messaging_bcast sends one message to each of the other coordinators.
LEMMA TalksWaBcast ==
  ASSUME InOrder, NEW r \in Rank, NEW what \in SUBSET Everything
  PROVE  Talks(WaBcast(r, what), OtherCoordinators(r) \X {"bcast"}, {})
<1> DEFINE S == Cluster \ {Home(r)}
           a == Ascending(S)
           l == WaBcast(r, what)
           Q == { q \in Rank : IsCoordinator(q) /\ Home(q) \in S }
<1>1. a \in Seq(Cluster)
  BY AscendingType
<1>2. l = [j \in DOMAIN a |-> Send(CoordinatorAt(a[j]), "bcast", what)]
  BY DEF WaBcast
<1>3. l \in Seq(Talk)
  BY WaBcastType
<1>4. Len(l) = Len(a) /\ \A j \in 1 .. Len(l) : l[j] = Send(CoordinatorAt(a[j]), "bcast", what)
  <2> HIDE DEF a, l
  <2>1. Len(a) \in Nat /\ DOMAIN a = 1 .. Len(a)
    BY <1>1, LenProperties
  <2>. QED  BY <1>2, <2>1
<1>5. Q = OtherCoordinators(r)
  BY MembersLemma DEF OtherCoordinators, IsLocal
<1> HIDE DEF l, Q
<1>6. Talks(l, Q \X {"bcast"}, {})
  <2>1. S \in SUBSET Cluster /\ "bcast" \in Tags
    BY DEF Tags
  <2>2. Q = { q \in Rank : IsCoordinator(q) /\ Home(q) \in S }
    BY DEF Q
  <2>3. \A j \in 1 .. Len(l) : \E w \in SUBSET Everything : l[j] = Send(CoordinatorAt(a[j]), "bcast", w)
    BY <1>4
  <2> HIDE DEF S
  <2>. QED  BY <1>3, <1>4, <2>1, <2>2, <2>3, TalksClusters
<1>. QED  BY <1>5, <1>6 DEF l

\* What a member sends and receives in a call.
Sending(c, r)   == { x \in Rank \X Tags : HasMessage(c, r, x[1], x[2]) }
Receiving(c, r) == { x \in Rank \X Tags : HasMessage(c, x[1], r, x[2]) }

\* Different coordinators are of different clusters.
LEMMA CoordinatorsApart ==
  /\ \A p, q \in Rank : IsCoordinator(p) /\ IsCoordinator(q) /\ IsLocal(p, q) => p = q
  /\ \A p, q \in Rank : IsCoordinator(p) /\ IsCoordinator(q) => (p # q <=> ~ IsLocal(p, q))
<1>1. ASSUME NEW p \in Rank, NEW q \in Rank, IsCoordinator(p), IsCoordinator(q), IsLocal(p, q)
      PROVE  p = q
  <2>1. Peers(q) = Peers(p)
    BY <1>1, PeersLemma
  <2>. QED  BY <1>1, <2>1 DEF IsCoordinator, MyCoordinator
<1>2. \A p \in Rank : IsLocal(p, p)
  BY DEF IsLocal
<1>. QED  BY <1>1, <1>2

\* The messages of EMPI_Barrier: to the first coordinator, and back.
LEMMA TalksBarrier ==
  ASSUME InOrder, NEW c \in Call, NEW r \in Rank, c.op = "barrier"
  PROVE  Talks(Barrier(r), Sending(c, r), Receiving(c, r))
<1> DEFINE S == 1 .. ClusterCount - 1
           others == Ascending(S)
           gather == [j \in DOMAIN others |-> Receive(CoordinatorAt(others[j]), "barrier", "add")]
           down == WaBcast(r, {})
           isFirst == r = CoordinatorAt(0)
           isOther == \E i \in 1 .. ClusterCount - 1 : r = CoordinatorAt(i)
           up == <<Send(CoordinatorAt(0), "barrier", {}), Receive(CoordinatorAt(0), "bcast", "add")>>
           Q == { q \in Rank : IsCoordinator(q) /\ Home(q) \in S }
           g == CoordinatorAt(0)
<1>1. S \in SUBSET Cluster /\ 0 \in Cluster /\ Cluster = S \cup {0} /\ 0 \notin S
  BY ClusterAssumption DEF Cluster
<1>2. others \in Seq(Cluster)
  BY <1>1, AscendingType
<1>3. g \in Rank /\ IsCoordinator(g) /\ Home(g) = 0
  BY <1>1, InOrderLemma
<1>4. Talks(gather, {}, Q \X {"barrier"})
  <2>1. Len(others) \in Nat /\ DOMAIN others = 1 .. Len(others)
    BY <1>2, LenProperties
  <2>2. \A j \in 1 .. Len(others) : Receive(CoordinatorAt(others[j]), "barrier", "add") \in Talk
    <3> HIDE DEF others
    <3>. QED  BY <1>2, ElementOfSeq, CoordinatorsLemma, ReceiveType DEF Tags
  <2>3. gather \in Seq(Talk) /\ Len(gather) = Len(others)
        /\ \A j \in 1 .. Len(gather) : gather[j] = Receive(CoordinatorAt(others[j]), "barrier", "add")
    <3> HIDE DEF others
    <3>. QED  BY <2>1, <2>2
  <2>4. Q = { q \in Rank : IsCoordinator(q) /\ Home(q) \in S } /\ "barrier" \in Tags
    BY DEF Tags
  <2> HIDE DEF gather, Q, S
  <2>. QED  BY <1>1, <2>3, <2>4, TalksClusters
<1>5. Talks(down, OtherCoordinators(r) \X {"bcast"}, {})
  BY TalksWaBcast
<1>6. Talks(up, {<<g, "barrier">>}, {<<g, "bcast">>})
  <2>1. /\ Talks(<<Send(g, "barrier", {})>>, {<<g, "barrier">>}, {})
        /\ Talks(<<Receive(g, "bcast", "add")>>, {}, {<<g, "bcast">>})
    BY <1>3, TalksSend, TalksReceive DEF Tags
  <2>2. up = <<Send(g, "barrier", {})>> \o <<Receive(g, "bcast", "add")>>
    OBVIOUS
  <2>3. Talks(up, {<<g, "barrier">>} \cup {}, {} \cup {<<g, "bcast">>})
    <3> HIDE DEF g, up
    <3>. QED  BY <2>1, <2>2, TalksConcat
  <2>. QED  BY <2>3
<1> DEFINE rootPart == When(isFirst, gather \o down)
           leafPart == When(isOther, up)
           S1 == IF isFirst THEN OtherCoordinators(r) \X {"bcast"} ELSE {}
           R1 == IF isFirst THEN Q \X {"barrier"} ELSE {}
           S2 == IF isOther THEN {<<g, "barrier">>} ELSE {}
           R2 == IF isOther THEN {<<g, "bcast">>} ELSE {}
<1> HIDE DEF gather, down, up
<1>7. Talks(rootPart, S1, R1)
  <2>1. Talks(gather \o down, {} \cup (OtherCoordinators(r) \X {"bcast"}), (Q \X {"barrier"}) \cup {})
    BY <1>4, <1>5, TalksConcat
  <2>2. Talks(gather \o down, OtherCoordinators(r) \X {"bcast"}, Q \X {"barrier"})
    BY <2>1
  <2>. QED  BY <2>2, TalksWhen
<1>8. Talks(leafPart, S2, R2)
  BY <1>6, TalksWhen
<1>9. ~ (isFirst /\ isOther)
  BY <1>1, InOrderLemma
<1>10. LocalBarrier \in LocalCall
  BY DEF LocalCall
<1>11. Talks(<<LocalBarrier>>, {}, {})
  BY <1>10, TalksLocal
<1>12. Sending(c, r) = S1 \cup S2 /\ Receiving(c, r) = R1 \cup R2
  <2>1. IsCoordinator(r) <=> isFirst \/ isOther
    <3>1. IsCoordinator(r) => r = CoordinatorAt(Home(r)) /\ Home(r) \in Cluster
      BY InOrderLemma
    <3>2. isFirst \/ isOther => IsCoordinator(r)
      BY <1>1, InOrderLemma
    <3>. QED  BY <1>1, <3>1, <3>2
  <2>2. \A q \in Rank : IsCoordinator(q) => (Home(q) \in S <=> q # g)
    BY <1>1, <1>3, InOrderLemma
  <2>3. \A q \in Rank, t \in Tags : HasMessage(c, r, q, t) <=>
          IsCoordinator(r) /\ IsCoordinator(q) /\ r # q /\ ((t = "barrier" /\ q = g) \/ (t = "bcast" /\ r = g))
    BY DEF HasMessage
  <2>4. \A q \in Rank, t \in Tags : HasMessage(c, q, r, t) <=>
          IsCoordinator(r) /\ IsCoordinator(q) /\ r # q /\ ((t = "barrier" /\ r = g) \/ (t = "bcast" /\ q = g))
    BY DEF HasMessage
  <2>5. \A q \in Rank : q \in OtherCoordinators(r) <=> IsCoordinator(q) /\ ~ IsLocal(r, q)
    BY DEF OtherCoordinators
  <2>6. \A q \in Rank : IsCoordinator(r) /\ IsCoordinator(q) => (r # q <=> ~ IsLocal(r, q))
    BY CoordinatorsApart
  <2>7. "barrier" \in Tags /\ "bcast" \in Tags /\ OtherCoordinators(r) \in SUBSET Rank
    BY DEF Tags, OtherCoordinators
  <2>8. ASSUME NEW q \in Rank, NEW t \in Tags PROVE HasMessage(c, r, q, t) <=> <<q, t>> \in S1 \cup S2
    <3>1. <<q, t>> \in S1 <=> isFirst /\ q \in OtherCoordinators(r) /\ t = "bcast"
      OBVIOUS
    <3>2. <<q, t>> \in S2 <=> isOther /\ q = g /\ t = "barrier"
      OBVIOUS
    <3>3. isFirst <=> r = g
      OBVIOUS
    <3> HIDE DEF S1, S2, isFirst, isOther, g
    <3>. QED  BY <1>3, <1>9, <2>1, <2>3, <2>5, <2>6, <3>1, <3>2, <3>3
  <2>9. ASSUME NEW q \in Rank, NEW t \in Tags PROVE HasMessage(c, q, r, t) <=> <<q, t>> \in R1 \cup R2
    <3>1. <<q, t>> \in R1 <=> isFirst /\ IsCoordinator(q) /\ Home(q) \in S /\ t = "barrier"
      OBVIOUS
    <3>2. <<q, t>> \in R2 <=> isOther /\ q = g /\ t = "bcast"
      OBVIOUS
    <3>3. isFirst <=> r = g
      OBVIOUS
    <3> HIDE DEF R1, R2, isFirst, isOther, g, S
    <3>. QED  BY <1>3, <1>9, <2>1, <2>2, <2>4, <3>1, <3>2, <3>3
  <2>10. S1 \cup S2 \in SUBSET (Rank \X Tags) /\ R1 \cup R2 \in SUBSET (Rank \X Tags)
    BY <1>3, <2>7
  <2> HIDE DEF S1, S2, R1, R2
  <2>. QED  BY <2>8, <2>9, <2>10 DEF Sending, Receiving
<1>13. S1 \cap S2 = {} /\ R1 \cap R2 = {}
  BY <1>9
<1>14. Barrier(r) = <<LocalBarrier>> \o rootPart \o leafPart \o <<LocalBarrier>>
  BY DEF Barrier, gather, down, up
<1> HIDE DEF rootPart, leafPart, S1, S2, R1, R2
<1>15. Talks(<<LocalBarrier>> \o rootPart, {} \cup S1, {} \cup R1)
  BY <1>7, <1>11, TalksConcat
<1>16. Talks(<<LocalBarrier>> \o rootPart \o leafPart, ({} \cup S1) \cup S2, ({} \cup R1) \cup R2)
  BY <1>8, <1>13, <1>15, TalksConcat
<1>17. Talks(<<LocalBarrier>> \o rootPart \o leafPart \o <<LocalBarrier>>,
             (({} \cup S1) \cup S2) \cup {}, (({} \cup R1) \cup R2) \cup {})
  BY <1>11, <1>16, TalksConcat
<1>. QED  BY <1>12, <1>14, <1>17

\* Of EMPI_Bcast: from the root to the coordinators of the other clusters.
LEMMA TalksBcast ==
  ASSUME InOrder, NEW c \in Call, NEW r \in Rank, c.op = "bcast"
  PROVE  Talks(Bcast(r, c.root), Sending(c, r), Receiving(c, r))
<1> DEFINE g == c.root
           isRoot == r = g
           isFar == ~ IsLocal(r, g) /\ r = MyCoordinator(r)
           down == WaBcast(r, Everything)
           rootPart == When(isRoot, down)
           farPart == When(isFar, <<Receive(g, "bcast", "add")>>)
           last == LocalBcast(IF IsLocal(r, g) THEN g ELSE MyCoordinator(r))
           S1 == IF isRoot THEN OtherCoordinators(r) \X {"bcast"} ELSE {}
           R2 == IF isFar THEN {<<g, "bcast">>} ELSE {}
<1>1. g \in Rank /\ "bcast" \in Tags /\ OtherCoordinators(r) \in SUBSET Rank
  BY DEF Call, Tags, OtherCoordinators
<1>2. Talks(down, OtherCoordinators(r) \X {"bcast"}, {})
  BY TalksWaBcast
<1>3. Talks(<<Receive(g, "bcast", "add")>>, {}, {<<g, "bcast">>})
  BY <1>1, TalksReceive
<1>4. last \in LocalCall
  BY <1>1, PeersLemma DEF LocalBcast, LocalCall
<1>5. Talks(<<last>>, {}, {})
  BY <1>4, TalksLocal
<1>6. Bcast(r, c.root) = rootPart \o farPart \o <<last>>
  BY DEF Bcast
<1> HIDE DEF down, last
<1>7. Talks(rootPart, S1, {})
  <2>1. Talks(rootPart, S1, IF isRoot THEN {} ELSE {})
    BY <1>2, TalksWhen
  <2>. QED  BY <2>1
<1>8. Talks(farPart, {}, R2)
  <2>1. Talks(farPart, IF isFar THEN {} ELSE {}, R2)
    BY <1>3, TalksWhen
  <2>. QED  BY <2>1
<1>9. Sending(c, r) = S1 /\ Receiving(c, r) = R2
  <2>1. S1 \in SUBSET (Rank \X Tags) /\ R2 \in SUBSET (Rank \X Tags)
    BY <1>1
  <2>2. ASSUME NEW q \in Rank, NEW t \in Tags
        PROVE  /\ HasMessage(c, r, q, t) <=> <<q, t>> \in S1
               /\ HasMessage(c, q, r, t) <=> <<q, t>> \in R2
    <3>1. <<q, t>> \in S1 <=> r = g /\ IsCoordinator(q) /\ ~ IsLocal(r, q) /\ t = "bcast"
      BY DEF OtherCoordinators
    <3>2. <<q, t>> \in R2 <=> ~ IsLocal(r, g) /\ IsCoordinator(r) /\ q = g /\ t = "bcast"
      BY DEF IsCoordinator
    <3>3. HasMessage(c, r, q, t) <=> t = "bcast" /\ r = g /\ IsCoordinator(q) /\ ~ IsLocal(r, q)
      BY DEF HasMessage
    <3>4. HasMessage(c, q, r, t) <=> t = "bcast" /\ q = g /\ IsCoordinator(r) /\ ~ IsLocal(q, r)
      BY DEF HasMessage
    <3>5. IsLocal(q, r) <=> IsLocal(r, q)
      BY DEF IsLocal
    <3> HIDE DEF S1, R2, g
    <3>. QED  BY <3>1, <3>2, <3>3, <3>4, <3>5
  <2> HIDE DEF S1, R2
  <2>. QED  BY <2>1, <2>2 DEF Sending, Receiving
<1> HIDE DEF rootPart, farPart, S1, R2
<1>10. Talks(rootPart \o farPart, S1 \cup {}, {} \cup R2)
  BY <1>7, <1>8, TalksConcat
<1>11. Talks(rootPart \o farPart \o <<last>>, (S1 \cup {}) \cup {}, ({} \cup R2) \cup {})
  BY <1>5, <1>10, TalksConcat
<1>. QED  BY <1>6, <1>9, <1>11

\* Of EMPI_Gatherv: from every member to the root.
LEMMA TalksGather ==
  ASSUME NEW c \in Call, NEW r \in Rank, c.op = "gather"
  PROVE  Talks(Gatherv(r, c.root), Sending(c, r), Receiving(c, r))
<1> DEFINE g == c.root
<1>1. g \in Rank /\ "gatherv" \in Tags /\ {<<r, g>>} \in SUBSET Everything
  BY DEF Call, Tags, Everything
<1>2. \A q \in Rank, t \in Tags :
        /\ HasMessage(c, r, q, t) <=> t = "gatherv" /\ q = g /\ r # q
        /\ HasMessage(c, q, r, t) <=> t = "gatherv" /\ r = g /\ r # q
  BY DEF HasMessage
<1>3. CASE r = g
  <2> DEFINE S == Rank \ {g}
  <2>1. Talks(Gatherv(r, g), {}, S \X {"gatherv"})
    <3>1. Gatherv(r, g) = [j \in DOMAIN Ascending(S) |-> Receive(Ascending(S)[j], "gatherv", "add")]
      BY <1>3 DEF Gatherv
    <3>2. S \in SUBSET Rank
      OBVIOUS
    <3> HIDE DEF S, g
    <3>. QED  BY <1>1, <3>1, <3>2, TalksReceives
  <2>2. Sending(c, r) = {} /\ Receiving(c, r) = S \X {"gatherv"}
    <3>1. S \X {"gatherv"} \in SUBSET (Rank \X Tags)
      BY <1>1
    <3>2. \A q \in Rank, t \in Tags : /\ ~ HasMessage(c, r, q, t)
                                      /\ HasMessage(c, q, r, t) <=> <<q, t>> \in S \X {"gatherv"}
      BY <1>2, <1>3
    <3> HIDE DEF S
    <3>. QED  BY <3>1, <3>2 DEF Sending, Receiving
  <2>. QED  BY <2>1, <2>2
<1>4. CASE r # g
  <2>1. Talks(Gatherv(r, g), {<<g, "gatherv">>}, {})
    BY <1>1, <1>4, TalksSend DEF Gatherv
  <2>2. Sending(c, r) = {<<g, "gatherv">>} /\ Receiving(c, r) = {}
    <3>1. \A q \in Rank, t \in Tags : /\ HasMessage(c, r, q, t) <=> <<q, t>> \in {<<g, "gatherv">>}
                                      /\ ~ HasMessage(c, q, r, t)
      BY <1>2, <1>4
    <3>2. {<<g, "gatherv">>} \in SUBSET (Rank \X Tags)
      BY <1>1
    <3>. QED  BY <3>1, <3>2 DEF Sending, Receiving
  <2>. QED  BY <2>1, <2>2
<1>. QED  BY <1>3, <1>4

\* Of EMPI_Scatterv: from the root to every other member.
LEMMA TalksScatter ==
  ASSUME NEW c \in Call, NEW r \in Rank, c.op = "scatter"
  PROVE  Talks(Scatterv(r, c.root), Sending(c, r), Receiving(c, r))
<1> DEFINE g == c.root
<1>1. g \in Rank /\ "scatterv" \in Tags
  BY DEF Call, Tags
<1>2. \A q \in Rank, t \in Tags :
        /\ HasMessage(c, r, q, t) <=> t = "scatterv" /\ r = g /\ r # q
        /\ HasMessage(c, q, r, t) <=> t = "scatterv" /\ q = g /\ r # q
  BY DEF HasMessage
<1>3. CASE r = g
  <2> DEFINE S == Rank \ {g}
             a == Ascending(S)
             l == Scatterv(r, g)
  <2>1. Talks(l, S \X {"scatterv"}, {})
    <3>1. l = [j \in DOMAIN a |-> Send(a[j], "scatterv", {<<g, a[j]>>})]
      BY <1>3 DEF Scatterv
    <3>2. S \in SUBSET Rank
      OBVIOUS
    <3>3. l \in Seq(Talk)
      BY <1>1, ScattervType
    <3>4. a \in Seq(Rank) /\ Len(a) \in Nat /\ DOMAIN a = 1 .. Len(a)
      BY <3>2, AscendingType, LenProperties
    <3> HIDE DEF a, l
    <3>5. Len(l) = Len(a)
      BY <3>1, <3>4
    <3>6. ASSUME NEW j \in 1 .. Len(l)
          PROVE  \E w \in SUBSET Everything : l[j] = Send(a[j], "scatterv", w)
      <4>1. a[j] \in Rank
        BY <3>4, <3>5, ElementOfSeq
      <4>2. {<<g, a[j]>>} \in SUBSET Everything
        BY <1>1, <4>1 DEF Everything
      <4>. QED  BY <3>1, <3>4, <3>5, <4>2
    <3>. QED  BY <1>1, <3>2, <3>3, <3>5, <3>6, TalksSends DEF a
  <2>2. Sending(c, r) = S \X {"scatterv"} /\ Receiving(c, r) = {}
    <3>1. S \X {"scatterv"} \in SUBSET (Rank \X Tags)
      BY <1>1
    <3>2. \A q \in Rank, t \in Tags : /\ ~ HasMessage(c, q, r, t)
                                      /\ HasMessage(c, r, q, t) <=> <<q, t>> \in S \X {"scatterv"}
      BY <1>2, <1>3
    <3> HIDE DEF S
    <3>. QED  BY <3>1, <3>2 DEF Sending, Receiving
  <2>. QED  BY <2>1, <2>2
<1>4. CASE r # g
  <2>1. Talks(Scatterv(r, g), {}, {<<g, "scatterv">>})
    BY <1>1, <1>4, TalksReceive DEF Scatterv
  <2>2. Receiving(c, r) = {<<g, "scatterv">>} /\ Sending(c, r) = {}
    <3>1. \A q \in Rank, t \in Tags : /\ HasMessage(c, q, r, t) <=> <<q, t>> \in {<<g, "scatterv">>}
                                      /\ ~ HasMessage(c, r, q, t)
      BY <1>2, <1>4
    <3>2. {<<g, "scatterv">>} \in SUBSET (Rank \X Tags)
      BY <1>1
    <3>. QED  BY <3>1, <3>2 DEF Sending, Receiving
  <2>. QED  BY <2>1, <2>2
<1>. QED  BY <1>3, <1>4

\* Of EMPI_Reduce: from the coordinators of the other clusters to the root.
LEMMA TalksReduce ==
  ASSUME InOrder, NEW c \in Call, NEW r \in Rank, c.op = "reduce"
  PROVE  Talks(Reduce(r, c.root), Sending(c, r), Receiving(c, r))
<1> DEFINE g == c.root
           S == { q \in ToSet(Coordinators) : ~ IsLocal(r, q) }
           first == LocalReduce(IF IsLocal(r, g) THEN g ELSE MyCoordinator(r))
           gather == [j \in DOMAIN Ascending(S) |-> Receive(Ascending(S)[j], "reduce", "combine")]
           isFar == ~ IsLocal(r, g) /\ r = MyCoordinator(r)
           leaf == When(isFar, <<Send(g, "reduce", Everything)>>)
<1>1. g \in Rank /\ "reduce" \in Tags
  BY DEF Call, Tags
<1>2. \A q : q \in S <=> q \in Rank /\ IsCoordinator(q) /\ ~ IsLocal(r, q)
  BY InOrderLemma
<1>3. first \in LocalCall
  BY <1>1, PeersLemma DEF LocalReduce, LocalCall
<1>4. Talks(<<first>>, {}, {})
  BY <1>3, TalksLocal
<1>5. Reduce(r, c.root) = <<first>> \o (IF r = g THEN gather ELSE leaf)
  BY DEF Reduce
<1>6. \A q \in Rank, t \in Tags :
        /\ HasMessage(c, r, q, t) <=> t = "reduce" /\ q = g /\ IsCoordinator(r) /\ ~ IsLocal(r, q)
        /\ HasMessage(c, q, r, t) <=> t = "reduce" /\ r = g /\ IsCoordinator(q) /\ ~ IsLocal(q, r)
  BY DEF HasMessage
<1>7. \A q : IsLocal(r, r) /\ (IsLocal(q, r) <=> IsLocal(r, q))
  BY DEF IsLocal
<1> HIDE DEF first, g
<1>8. CASE r = g
  <2>1. Talks(gather, {}, S \X {"reduce"})
    <3>1. S \in SUBSET Rank
      BY <1>2
    <3> HIDE DEF S
    <3>. QED  BY <1>1, <3>1, TalksReceives
  <2>2. Sending(c, r) = {} /\ Receiving(c, r) = S \X {"reduce"}
    <3>1. S \X {"reduce"} \in SUBSET (Rank \X Tags)
      BY <1>1, <1>2
    <3>2. \A q \in Rank, t \in Tags : /\ ~ HasMessage(c, r, q, t)
                                      /\ HasMessage(c, q, r, t) <=> <<q, t>> \in S \X {"reduce"}
      <4> HIDE DEF S
      <4>. QED  BY <1>2, <1>6, <1>7, <1>8
    <3> HIDE DEF S
    <3>. QED  BY <3>1, <3>2 DEF Sending, Receiving
  <2> HIDE DEF gather, S
  <2>3. Talks(<<first>> \o gather, {} \cup {}, {} \cup (S \X {"reduce"}))
    BY <1>4, <2>1, TalksConcat
  <2>. QED  BY <1>5, <1>8, <2>2, <2>3 DEF g
<1>9. CASE r # g
  <2> DEFINE S2 == IF isFar THEN {<<g, "reduce">>} ELSE {}
  <2>1. Talks(leaf, S2, {})
    <3>1. Talks(<<Send(g, "reduce", Everything)>>, {<<g, "reduce">>}, {})
      BY <1>1, TalksSend
    <3>2. Talks(leaf, S2, IF isFar THEN {} ELSE {})
      BY <3>1, TalksWhen
    <3>. QED  BY <3>2
  <2>2. Sending(c, r) = S2 /\ Receiving(c, r) = {}
    <3>1. S2 \in SUBSET (Rank \X Tags)
      BY <1>1
    <3>2. \A q \in Rank, t \in Tags : /\ HasMessage(c, r, q, t) <=> <<q, t>> \in S2
                                      /\ ~ HasMessage(c, q, r, t)
      BY <1>6, <1>9 DEF IsCoordinator
    <3> HIDE DEF S2
    <3>. QED  BY <3>1, <3>2 DEF Sending, Receiving
  <2> HIDE DEF leaf, S2
  <2>3. Talks(<<first>> \o leaf, {} \cup S2, {} \cup {})
    BY <1>4, <2>1, TalksConcat
  <2>. QED  BY <1>5, <1>9, <2>2, <2>3 DEF g
<1>. QED  BY <1>8, <1>9 DEF g

\* Of EMPI_Allreduce: from every coordinator to every other one.
LEMMA TalksAllreduce ==
  ASSUME InOrder, NEW c \in Call, NEW r \in Rank, c.op = "allreduce"
  PROVE  Talks(Allreduce(r), Sending(c, r), Receiving(c, r))
<1> DEFINE S == ToSet(Coordinators) \ {r}
           T == IF IsCoordinator(r) THEN OtherCoordinators(r) \X {"bcast"} ELSE {}
           first == LocalReduce(MyCoordinator(r))
           last == LocalBcast(First(Peers(r)))
           down == WaBcast(r, Everything)
           gather == [j \in DOMAIN Ascending(S) |-> Receive(Ascending(S)[j], "bcast", "combine")]
           middle == When(r = MyCoordinator(r), down \o gather)
<1>1. "bcast" \in Tags /\ OtherCoordinators(r) \in SUBSET Rank
  BY DEF Tags, OtherCoordinators
<1>2. IsCoordinator(r) => S = OtherCoordinators(r)
  BY InOrderLemma, CoordinatorsApart DEF OtherCoordinators
<1>3. Talks(<<first>>, {}, {}) /\ Talks(<<last>>, {}, {})
  <2>1. first \in LocalCall /\ last \in LocalCall
    BY PeersLemma DEF LocalReduce, LocalBcast, LocalCall, MyCoordinator
  <2> HIDE DEF first, last
  <2>. QED  BY <2>1, TalksLocal
<1>4. Allreduce(r) = <<first>> \o middle \o <<last>>
  BY DEF Allreduce
<1>5. Talks(middle, T, T)
  <2>1. Talks(down, OtherCoordinators(r) \X {"bcast"}, {})
    BY TalksWaBcast
  <2>2. Talks(gather, {}, S \X {"bcast"})
    <3>1. S \in SUBSET Rank
      BY CoordinatorsLemma
    <3> HIDE DEF S
    <3>. QED  BY <1>1, <3>1, TalksReceives
  <2> HIDE DEF down, gather, S
  <2>3. Talks(down \o gather, (OtherCoordinators(r) \X {"bcast"}) \cup {}, {} \cup (S \X {"bcast"}))
    BY <2>1, <2>2, TalksConcat
  <2>4. CASE IsCoordinator(r)
    BY <1>2, <2>3, <2>4 DEF When, IsCoordinator
  <2>5. CASE ~ IsCoordinator(r)
    BY <2>5, TalksEmpty DEF When, IsCoordinator
  <2>. QED  BY <2>4, <2>5
<1>6. Sending(c, r) = T /\ Receiving(c, r) = T
  <2>1. \A q \in Rank, t \in Tags :
          /\ HasMessage(c, r, q, t) <=> t = "bcast" /\ IsCoordinator(r) /\ IsCoordinator(q) /\ r # q
          /\ HasMessage(c, q, r, t) <=> t = "bcast" /\ IsCoordinator(r) /\ IsCoordinator(q) /\ r # q
    BY DEF HasMessage
  <2>2. \A q \in Rank : IsCoordinator(r) /\ IsCoordinator(q) => (r # q <=> ~ IsLocal(r, q))
    BY CoordinatorsApart
  <2>3. \A q \in Rank, t \in Tags : /\ HasMessage(c, r, q, t) <=> <<q, t>> \in T
                                    /\ HasMessage(c, q, r, t) <=> <<q, t>> \in T
    BY <2>1, <2>2 DEF OtherCoordinators
  <2>4. T \in SUBSET (Rank \X Tags)
    BY <1>1
  <2> HIDE DEF T
  <2>. QED  BY <2>3, <2>4 DEF Sending, Receiving
<1> HIDE DEF first, last, middle, T
<1>7. Talks(<<first>> \o middle, {} \cup T, {} \cup T)
  BY <1>3, <1>5, TalksConcat
<1>8. Talks(<<first>> \o middle \o <<last>>, ({} \cup T) \cup {}, ({} \cup T) \cup {})
  BY <1>3, <1>7, TalksConcat
<1>. QED  BY <1>4, <1>6, <1>8

\* Of EMPI_Scan: from every member to all that follow it.
LEMMA TalksScan ==
  ASSUME NEW c \in Call, NEW r \in Rank, c.op = "scan"
  PROVE  Talks(Scan(r), Sending(c, r), Receiving(c, r))
<1> DEFINE l == Scan(r)
<1>1. Size \in Nat \ {0} /\ Rank = 0 .. Size - 1
  BY MembersLemma
<1>2. l \in Seq(Talk)
  BY ScanType
<1>3. /\ Len(l) = Size - 1
      /\ \A k \in 1 .. Size - 1 : l[k] = IF k - 1 < r THEN Receive(k - 1, "scan", "combine")
                                                      ELSE SendOwn(k, "scan")
  BY <1>1 DEF Scan
<1> HIDE DEF l
<1>4. "scan" \in Tags
  BY DEF Tags
<1>5. \A q \in Rank, t \in Tags : /\ HasMessage(c, r, q, t) <=> t = "scan" /\ r < q
                                  /\ HasMessage(c, q, r, t) <=> t = "scan" /\ q < r
  BY DEF HasMessage
<1>6. ASSUME NEW q \in Rank, NEW t \in Tags
      PROVE  /\ Num(l, Outgoing(q, t)) = IF HasMessage(c, r, q, t) THEN 1 ELSE 0
             /\ Num(l, Incoming(q, t)) = IF HasMessage(c, q, r, t) THEN 1 ELSE 0
  <2>1. ASSUME NEW k \in 1 .. Len(l)
        PROVE  /\ l[k] \in Outgoing(q, t) <=> ~ (k - 1 < r) /\ q = k /\ t = "scan"
               /\ l[k] \in Incoming(q, t) <=> k - 1 < r /\ q = k - 1 /\ t = "scan"
    <3>1. k \in Rank /\ k - 1 \in Rank /\ {} \in SUBSET Everything
      BY <1>1, <1>3
    <3>2. CASE k - 1 < r
      BY <1>3, <1>4, <3>1, <3>2, MessageKinds
    <3>3. CASE ~ (k - 1 < r)
      <4>1. /\ SendOwn(k, "scan") \in Outgoing(q, t) <=> k = q /\ t = "scan"
            /\ SendOwn(k, "scan") \notin Incoming(q, t)
        <5>1. \A x, d \in Rank, u, v \in Tags, w \in SUBSET Everything :
                /\ SendOwn(x, u) \in Outgoing(d, v) <=> x = d /\ u = v
                /\ SendOwn(x, u) \notin Incoming(d, v)
          BY MessageKinds
        <5>. QED  BY <1>4, <3>1, <5>1
      <4>. QED  BY <1>3, <3>3, <4>1
    <3>. QED  BY <3>2, <3>3
  <2>2. Num(l, Outgoing(q, t)) = IF HasMessage(c, r, q, t) THEN 1 ELSE 0
    <3>1. CASE t = "scan" /\ r < q
      <4>1. q \in 1 .. Len(l) /\ ~ (q - 1 < r)
        BY <1>1, <1>3, <3>1
      <4>2. l[q] \in Outgoing(q, t) /\ \A j \in 1 .. Len(l) : l[j] \in Outgoing(q, t) => j = q
        BY <2>1, <3>1, <4>1
      <4>. QED  BY <1>2, <1>5, <3>1, <4>1, <4>2, NumOne
    <3>2. CASE ~ (t = "scan" /\ r < q)
      <4>1. \A k \in 1 .. Len(l) : l[k] \notin Outgoing(q, t)
        BY <1>1, <2>1, <3>2
      <4>. QED  BY <1>2, <1>5, <3>2, <4>1, NumZero
    <3>. QED  BY <3>1, <3>2
  <2>3. Num(l, Incoming(q, t)) = IF HasMessage(c, q, r, t) THEN 1 ELSE 0
    <3>1. CASE t = "scan" /\ q < r
      <4>1. q + 1 \in 1 .. Len(l) /\ (q + 1) - 1 = q
        BY <1>1, <1>3, <3>1
      <4>2. l[q + 1] \in Incoming(q, t) /\ \A j \in 1 .. Len(l) : l[j] \in Incoming(q, t) => j = q + 1
        BY <1>1, <2>1, <3>1, <4>1
      <4>. QED  BY <1>2, <1>5, <3>1, <4>1, <4>2, NumOne
    <3>2. CASE ~ (t = "scan" /\ q < r)
      <4>1. \A k \in 1 .. Len(l) : l[k] \notin Incoming(q, t)
        BY <1>1, <2>1, <3>2
      <4>. QED  BY <1>2, <1>5, <3>2, <4>1, NumZero
    <3>. QED  BY <3>1, <3>2
  <2>. QED  BY <2>2, <2>3
<1>7. l \in Seq(AnyStep)
  BY <1>2, SeqMonotonic DEF AnyStep
<1>8. Talks(l, Sending(c, r), Receiving(c, r))
  <2>1. \A q \in Rank, t \in Tags : /\ <<q, t>> \in Sending(c, r) <=> HasMessage(c, r, q, t)
                                    /\ <<q, t>> \in Receiving(c, r) <=> HasMessage(c, q, r, t)
    BY DEF Sending, Receiving
  <2>. QED  BY <1>6, <1>7, <2>1 DEF Talks
<1>. QED  BY <1>8 DEF l

\* Lists of steps with different messages, and all messages of them.
Apart(F, n) == \A k, l \in 1 .. n : k # l => F[k] \cap F[l] = {}
Rounds(s, S, R) ==
  /\ s \in Seq(Seq(AnyStep)) /\ Len(s) # 0
  /\ \A k \in 1 .. Len(s) : Talks(s[k], S[k], R[k])
  /\ Apart(S, Len(s)) /\ Apart(R, Len(s))
Joined(F, n) == UNION { F[k] : k \in 1 .. n }

\* Of rounds, no two of which have a message in common.
LEMMA TalksFlatten ==
  ASSUME NEW s, NEW S, NEW R, Rounds(s, S, R)
  PROVE  Talks(FlattenSeq(s), Joined(S, Len(s)), Joined(R, Len(s)))
<1> USE DEF Rounds
<1> DEFINE Counts(x, M, F) == \A k \in 1 .. Len(s) : Num(s[k], M) = IF x \in F[k] THEN 1 ELSE 0
<1>1. FlattenSeq(s) \in Seq(AnyStep) /\ Apart(S, Len(s)) /\ Apart(R, Len(s))
  BY FlattenSeqLemma, SeqMonotonic
<1>2. ASSUME NEW q \in Rank, NEW g \in Tags, NEW M, NEW F, Counts(<<q, g>>, M, F), Apart(F, Len(s))
      PROVE  Num(FlattenSeq(s), M) = IF <<q, g>> \in Joined(F, Len(s)) THEN 1 ELSE 0
  <2>1. CASE \E b \in 1 .. Len(s) : <<q, g>> \in F[b]
    <3>1. PICK b \in 1 .. Len(s) : <<q, g>> \in F[b]
      BY <2>1
    <3>2. \A k \in 1 .. Len(s) : <<q, g>> \in F[k] <=> k = b
      BY <1>2, <3>1 DEF Apart
    <3>3. OnlyIn(s, M, b)
      BY <1>2, <3>2 DEF OnlyIn
    <3>4. Num(FlattenSeq(s), M) = IF b \in 1 .. Len(s) THEN 1 ELSE 0
      BY <3>3, NumFlattenSeq DEF Rounds
    <3>. QED  BY <3>1, <3>4 DEF Joined
  <2>2. CASE ~ \E b \in 1 .. Len(s) : <<q, g>> \in F[b]
    <3>1. OnlyIn(s, M, 0)
      <4>1. \A k \in 1 .. Len(s) : k # 0
        BY LenProperties
      <4>. QED  BY <1>2, <2>2, <4>1 DEF OnlyIn
    <3>2. 0 \notin 1 .. Len(s)
      BY LenProperties
    <3>3. Num(FlattenSeq(s), M) = 0
      BY <3>1, <3>2, NumFlattenSeq DEF Rounds
    <3>. QED  BY <2>2, <3>3 DEF Joined
  <2>. QED  BY <2>1, <2>2
<1>3. ASSUME NEW q \in Rank, NEW g \in Tags
      PROVE  /\ Num(FlattenSeq(s), Outgoing(q, g)) = IF <<q, g>> \in Joined(S, Len(s)) THEN 1 ELSE 0
             /\ Num(FlattenSeq(s), Incoming(q, g)) = IF <<q, g>> \in Joined(R, Len(s)) THEN 1 ELSE 0
  <2>1. Counts(<<q, g>>, Outgoing(q, g), S) /\ Counts(<<q, g>>, Incoming(q, g), R)
    BY DEF Talks
  <2> HIDE DEF Counts
  <2>. QED  BY <1>1, <1>2, <2>1
<1>. QED  BY <1>1, <1>3 DEF Talks

\* Of EMPI_Alltoallv: from every member to every other one, in its round.
LEMMA TalksAlltoall ==
  ASSUME NEW c \in Call, NEW r \in Rank, c.op = "alltoall"
  PROVE  Talks(Alltoallv(r), Sending(c, r), Receiving(c, r))
<1> DEFINE g == "alltoallv"
           Gathered(i) == [j \in DOMAIN Ascending(Rank \ {i}) |-> Receive(Ascending(Rank \ {i})[j], g, "add")]
           Round(i) == IF i = r THEN Gathered(i) ELSE <<Send(i, g, {<<r, i>>})>>
           rounds == [k \in 1 .. Size |-> Round(k - 1)]
           S == [k \in 1 .. Size |-> IF k - 1 = r THEN {} ELSE {<<k - 1, g>>}]
           R == [k \in 1 .. Size |-> IF k - 1 = r THEN (Rank \ {r}) \X {g} ELSE {}]
<1>1. Size \in Nat \ {0} /\ Rank = 0 .. Size - 1 /\ g \in Tags
  BY MembersLemma DEF Tags
<1>2. Alltoallv(r) = FlattenSeq(rounds)
  <2>1. rounds = [k \in 1 .. Size |->
          LET i == k - 1
              others == Ascending(Rank \ {i})
          IN  IF i = r THEN [j \in DOMAIN others |-> Receive(others[j], "alltoallv", "add")]
                       ELSE <<Send(i, "alltoallv", {<<r, i>>})>>]
    OBVIOUS
  <2>. QED  BY <2>1 DEF Alltoallv
<1>3. ASSUME NEW i \in Rank
      PROVE  Talks(Round(i), IF i = r THEN {} ELSE {<<i, g>>},
                             IF i = r THEN (Rank \ {r}) \X {g} ELSE {})
  <2>1. Talks(Gathered(i), {}, (Rank \ {i}) \X {g})
    <3> DEFINE U == Rank \ {i}
    <3>1. U \in SUBSET Rank
      OBVIOUS
    <3> HIDE DEF U, g
    <3>2. Talks([j \in DOMAIN Ascending(U) |-> Receive(Ascending(U)[j], g, "add")], {}, U \X {g})
      BY <1>1, <3>1, TalksReceives
    <3>. QED  BY <3>2 DEF U
  <2>2. Talks(<<Send(i, g, {<<r, i>>})>>, {<<i, g>>}, {})
    <3>1. {<<r, i>>} \in SUBSET Everything
      BY DEF Everything
    <3> HIDE DEF g
    <3>. QED  BY <1>1, <3>1, TalksSend
  <2> HIDE DEF Gathered, g
  <2>3. CASE i = r
    BY <2>1, <2>3
  <2>4. CASE i # r
    BY <2>2, <2>4
  <2>. QED  BY <2>3, <2>4
<1> HIDE DEF Round, g
<1>4. Len(rounds) = Size /\ \A k \in 1 .. Size : rounds[k] = Round(k - 1) /\ k - 1 \in Rank
  BY <1>1
<1>5. \A k \in 1 .. Size : Talks(rounds[k], S[k], R[k])
  <2> HIDE DEF rounds
  <2>. QED  BY <1>3, <1>4
<1>6. rounds \in Seq(Seq(AnyStep))
  <2>1. \A k \in 1 .. Size : Round(k - 1) \in Seq(AnyStep)
    BY <1>3, <1>4 DEF Talks
  <2>. QED  BY <1>1, <2>1
<1>7. Apart(S, Size) /\ Apart(R, Size)
  <2>1. ASSUME NEW k \in 1 .. Size, NEW l \in 1 .. Size, k # l
        PROVE  S[k] \cap S[l] = {} /\ R[k] \cap R[l] = {}
    <3>1. k - 1 # l - 1
      BY <1>1, <2>1
    <3>. QED  BY <3>1
  <2> HIDE DEF S, R
  <2>. QED  BY <2>1 DEF Apart
<1>8. Talks(FlattenSeq(rounds), Joined(S, Size), Joined(R, Size))
  <2> HIDE DEF rounds, S, R
  <2>1. Rounds(rounds, S, R)
    BY <1>1, <1>4, <1>5, <1>6, <1>7 DEF Rounds
  <2>. QED  BY <1>4, <2>1, TalksFlatten
<1>9. Sending(c, r) = Joined(S, Size) /\ Receiving(c, r) = Joined(R, Size)
  <2>1. \A q \in Rank, t \in Tags : /\ HasMessage(c, r, q, t) <=> t = g /\ q # r
                                    /\ HasMessage(c, q, r, t) <=> t = g /\ q # r
    BY DEF HasMessage, g
  <2>2. Sending(c, r) = (Rank \ {r}) \X {g} /\ Receiving(c, r) = (Rank \ {r}) \X {g}
    BY <1>1, <2>1 DEF Sending, Receiving
  <2>3. Joined(R, Size) = (Rank \ {r}) \X {g}
    <3>1. r + 1 \in 1 .. Size /\ (r + 1) - 1 = r
      BY <1>1
    <3>2. R[r + 1] = (Rank \ {r}) \X {g}
      BY <3>1
    <3>3. \A k \in 1 .. Size : R[k] \in SUBSET ((Rank \ {r}) \X {g})
      OBVIOUS
    <3> HIDE DEF R
    <3>. QED  BY <3>1, <3>2, <3>3 DEF Joined
  <2>4. Joined(S, Size) = (Rank \ {r}) \X {g}
    <3>1. ASSUME NEW q \in Rank \ {r} PROVE q + 1 \in 1 .. Size /\ S[q + 1] = {<<q, g>>}
      <4>1. q + 1 \in 1 .. Size /\ (q + 1) - 1 = q
        BY <1>1
      <4>. QED  BY <4>1
    <3>2. \A k \in 1 .. Size : S[k] \in SUBSET ((Rank \ {r}) \X {g})
      BY <1>4
    <3> HIDE DEF S
    <3>3. ASSUME NEW q \in Rank \ {r} PROVE <<q, g>> \in Joined(S, Size)
      BY <3>1 DEF Joined
    <3>. QED  BY <3>2, <3>3 DEF Joined
  <2>. QED  BY <2>2, <2>3, <2>4
<1>. QED  BY <1>2, <1>8, <1>9

\* EMPI_Allgatherv exchanges the parts of the clusters in the order of the coordinators.
Exchange(r) ==
  [i \in 1 .. ClusterCount |-> IF Coordinators[i] = r THEN WaBcast(r, OfCluster(r))
                               ELSE <<Receive(Coordinators[i], "bcast", "add")>>]

\* Of the exchange between the coordinators in EMPI_Allgatherv, round by round.
LEMMA TalksExchange ==
  ASSUME InOrder, NEW r \in Rank, IsCoordinator(r)
  PROVE  Talks(FlattenSeq(Exchange(r)), OtherCoordinators(r) \X {"bcast"},
                                        OtherCoordinators(r) \X {"bcast"})
<1> DEFINE g == "bcast"
           n == ClusterCount
           O == OtherCoordinators(r) \X {g}
           S == [i \in 1 .. n |-> IF Coordinators[i] = r THEN O ELSE {}]
           R == [i \in 1 .. n |-> IF Coordinators[i] = r THEN {} ELSE {<<Coordinators[i], g>>}]
           s == Exchange(r)
<1>1. n \in Nat \ {0} /\ g \in Tags
  BY ClusterAssumption DEF Tags
<1>2. \A i \in 1 .. n : /\ Coordinators[i] \in Rank /\ IsCoordinator(Coordinators[i])
                        /\ Home(Coordinators[i]) = i - 1
  <2>1. ASSUME NEW i \in 1 .. n
        PROVE  /\ Coordinators[i] \in Rank /\ IsCoordinator(Coordinators[i])
               /\ Home(Coordinators[i]) = i - 1
    <3>1. i - 1 \in Cluster /\ (i - 1) + 1 = i
      BY <1>1 DEF Cluster
    <3>2. CoordinatorAt(i - 1) = Coordinators[i]
      BY <3>1 DEF CoordinatorAt
    <3>. QED  BY <3>1, <3>2, InOrderLemma
  <2>. QED  BY <2>1
<1>3. \A i, j \in 1 .. n : Coordinators[i] = Coordinators[j] => i = j
  <2>1. ASSUME NEW i \in 1 .. n, NEW j \in 1 .. n, Coordinators[i] = Coordinators[j] PROVE i = j
    <3>1. i - 1 = j - 1
      BY <1>2, <2>1
    <3>. QED  BY <1>1, <3>1
  <2>. QED  BY <2>1
<1>4. \A q \in Rank : IsCoordinator(q) => \E i \in 1 .. n : Coordinators[i] = q
  <2>1. ASSUME NEW q \in Rank, IsCoordinator(q) PROVE \E i \in 1 .. n : Coordinators[i] = q
    <3>1. q \in ToSet(Coordinators)
      BY <2>1, InOrderLemma
    <3>2. DOMAIN Coordinators = 1 .. n
      BY CoordinatorsLemma, LenProperties
    <3>. QED  BY <3>1, <3>2 DEF ToSet
  <2>. QED  BY <2>1
<1>5. OfCluster(r) \in SUBSET Everything
  BY DEF OfCluster, Everything
<1>6. Len(s) = n /\ \A i \in 1 .. n : s[i] = IF Coordinators[i] = r THEN WaBcast(r, OfCluster(r))
                                             ELSE <<Receive(Coordinators[i], g, "add")>>
  BY <1>1 DEF Exchange
<1>7. ASSUME NEW i \in 1 .. n
      PROVE  Talks(IF Coordinators[i] = r THEN WaBcast(r, OfCluster(r))
                   ELSE <<Receive(Coordinators[i], g, "add")>>,
                   IF Coordinators[i] = r THEN O ELSE {},
                   IF Coordinators[i] = r THEN {} ELSE {<<Coordinators[i], g>>})
  <2>1. Talks(WaBcast(r, OfCluster(r)), O, {})
    BY <1>5, TalksWaBcast
  <2>2. Talks(<<Receive(Coordinators[i], g, "add")>>, {}, {<<Coordinators[i], g>>})
    <3> HIDE DEF g
    <3>. QED  BY <1>1, <1>2, TalksReceive
  <2> HIDE DEF O, g
  <2>. QED  BY <2>1, <2>2
<1>8. \A i \in 1 .. n : Talks(s[i], S[i], R[i])
  <2> HIDE DEF s, O, g
  <2>. QED  BY <1>6, <1>7
<1>9. s \in Seq(Seq(AnyStep))
  <2>1. \A i \in 1 .. n : (IF Coordinators[i] = r THEN WaBcast(r, OfCluster(r))
                           ELSE <<Receive(Coordinators[i], "bcast", "add")>>) \in Seq(AnyStep)
    BY <1>7 DEF Talks
  <2>. QED  BY <1>1, <2>1 DEF Exchange
<1> HIDE DEF s
<1>10. Apart(S, n) /\ Apart(R, n)
  <2>1. ASSUME NEW i \in 1 .. n, NEW j \in 1 .. n, i # j
        PROVE  S[i] \cap S[j] = {} /\ R[i] \cap R[j] = {}
    <3>1. Coordinators[i] # Coordinators[j]
      BY <1>3, <2>1
    <3> HIDE DEF O
    <3>. QED  BY <3>1
  <2> HIDE DEF S, R
  <2>. QED  BY <2>1 DEF Apart
<1>11. Talks(FlattenSeq(s), Joined(S, n), Joined(R, n))
  <2> HIDE DEF S, R
  <2>1. Rounds(s, S, R)
    BY <1>1, <1>6, <1>8, <1>9, <1>10 DEF Rounds
  <2>. QED  BY <1>6, <2>1, TalksFlatten
<1>12. Joined(S, n) = O
  <2>1. PICK i \in 1 .. n : Coordinators[i] = r
    BY <1>4
  <2>2. S[i] = O
    BY <2>1
  <2>3. \A j \in 1 .. n : S[j] \in SUBSET O
    OBVIOUS
  <2> HIDE DEF S, O
  <2>. QED  BY <2>2, <2>3 DEF Joined
<1>13. Joined(R, n) = O
  <2>1. ASSUME NEW i \in 1 .. n PROVE R[i] \in SUBSET O
    <3>1. CASE Coordinators[i] = r
      BY <3>1
    <3>2. CASE Coordinators[i] # r
      <4>1. Coordinators[i] \in OtherCoordinators(r)
        BY <1>2, <3>2, CoordinatorsApart DEF OtherCoordinators
      <4>. QED  BY <3>2, <4>1
    <3>. QED  BY <3>1, <3>2
  <2>2. ASSUME NEW q \in OtherCoordinators(r) PROVE <<q, g>> \in Joined(R, n)
    <3>1. q \in Rank /\ IsCoordinator(q) /\ q # r
      BY <2>2 DEF OtherCoordinators, IsLocal
    <3>2. PICK i \in 1 .. n : Coordinators[i] = q
      BY <1>4, <3>1
    <3>3. R[i] = {<<q, g>>}
      BY <3>1, <3>2
    <3> HIDE DEF R
    <3>. QED  BY <3>3 DEF Joined
  <2>3. \A x \in O : \E q \in OtherCoordinators(r) : x = <<q, g>>
    OBVIOUS
  <2> HIDE DEF R, g, O
  <2>4. Joined(R, n) \in SUBSET O
    BY <2>1 DEF Joined
  <2>. QED  BY <2>2, <2>3, <2>4
<1>. QED  BY <1>11, <1>12, <1>13 DEF s

\* Of EMPI_Allgatherv: from the members to their coordinator, and the exchange.
LEMMA TalksAllgather ==
  ASSUME InOrder, NEW c \in Call, NEW r \in Rank, c.op = "allgather"
  PROVE  Talks(Allgatherv(r), Sending(c, r), Receiving(c, r))
<1> DEFINE g == "allgatherv"
           m == MyCoordinator(r)
           P == Peers(r) \ {r}
           gather == [j \in DOMAIN Ascending(P) |-> Receive(Ascending(P)[j], g, "add")]
           exchange == FlattenSeq(Exchange(r))
           send == <<Send(m, g, Everything)>>
           last == LocalBcast(m)
           O == OtherCoordinators(r) \X {"bcast"}
<1>1. g \in Tags /\ "bcast" \in Tags /\ m \in Rank /\ P \in SUBSET Rank /\ OtherCoordinators(r) \in SUBSET Rank
  BY PeersLemma DEF Tags, OtherCoordinators
<1>2. Allgatherv(r) = (IF IsCoordinator(r) THEN gather \o exchange ELSE send) \o <<last>>
  BY DEF Allgatherv, Exchange, IsCoordinator
<1>3. Talks(<<last>>, {}, {})
  <2>1. last \in LocalCall
    BY <1>1 DEF LocalBcast, LocalCall
  <2> HIDE DEF last
  <2>. QED  BY <2>1, TalksLocal
<1>4. \A q \in Rank, t \in Tags :
        /\ HasMessage(c, r, q, t) <=>
             \/ t = g /\ q = m /\ r # q
             \/ t = "bcast" /\ IsCoordinator(r) /\ IsCoordinator(q) /\ r # q
        /\ HasMessage(c, q, r, t) <=>
             \/ t = g /\ r = MyCoordinator(q) /\ r # q
             \/ t = "bcast" /\ IsCoordinator(r) /\ IsCoordinator(q) /\ r # q
  BY DEF HasMessage
<1>5. \A q \in Rank : IsCoordinator(r) /\ IsCoordinator(q) => (r # q <=> ~ IsLocal(r, q))
  BY CoordinatorsApart
<1>6. \A q \in Rank : r = MyCoordinator(q) <=> IsCoordinator(r) /\ q \in Peers(r)
  <2>1. ASSUME NEW q \in Rank, r = MyCoordinator(q) PROVE IsCoordinator(r) /\ q \in Peers(r)
    <3>1. IsLocal(r, q)
      BY <2>1, PeersLemma
    <3>2. Peers(q) = Peers(r)
      BY <3>1, PeersLemma
    <3>. QED  BY <2>1, <3>1, <3>2 DEF IsCoordinator, MyCoordinator, Peers, IsLocal
  <2>2. ASSUME NEW q \in Rank, IsCoordinator(r), q \in Peers(r) PROVE r = MyCoordinator(q)
    <3>1. IsLocal(r, q)
      BY <2>2 DEF Peers, IsLocal
    <3>2. Peers(q) = Peers(r)
      BY <3>1, PeersLemma
    <3>. QED  BY <2>2, <3>2 DEF IsCoordinator, MyCoordinator
  <2>. QED  BY <2>1, <2>2
<1>7. CASE IsCoordinator(r)
  <2>1. Talks(gather, {}, P \X {g})
    <3> HIDE DEF P, g
    <3>. QED  BY <1>1, TalksReceives
  <2>2. Talks(exchange, O, O)
    BY <1>7, TalksExchange
  <2>3. (P \X {g}) \cap O = {}
    OBVIOUS
  <2>4. Sending(c, r) = O /\ Receiving(c, r) = (P \X {g}) \cup O
    <3>1. O \in SUBSET (Rank \X Tags) /\ P \X {g} \in SUBSET (Rank \X Tags)
      BY <1>1
    <3>2. m = r
      BY <1>7 DEF IsCoordinator
    <3>3. ASSUME NEW q \in Rank, NEW t \in Tags
          PROVE  /\ HasMessage(c, r, q, t) <=> <<q, t>> \in O
                 /\ HasMessage(c, q, r, t) <=> <<q, t>> \in (P \X {g}) \cup O
      <4>1. <<q, t>> \in O <=> IsCoordinator(q) /\ r # q /\ t = "bcast"
        BY <1>5, <1>7 DEF OtherCoordinators
      <4>2. <<q, t>> \in P \X {g} <=> r = MyCoordinator(q) /\ r # q /\ t = g
        BY <1>6, <1>7
      <4> HIDE DEF O, P, g, m
      <4>. QED  BY <1>4, <1>7, <3>2, <4>1, <4>2
    <3> HIDE DEF O, P, g, m
    <3>. QED  BY <3>1, <3>3 DEF Sending, Receiving
  <2> HIDE DEF gather, exchange, P, O, g, last
  <2>5. Talks(gather \o exchange, {} \cup O, (P \X {g}) \cup O)
    BY <2>1, <2>2, <2>3, TalksConcat
  <2>6. Talks(gather \o exchange \o <<last>>, ({} \cup O) \cup {}, ((P \X {g}) \cup O) \cup {})
    BY <1>3, <2>5, TalksConcat
  <2>. QED  BY <1>2, <1>7, <2>4, <2>6
<1>8. CASE ~ IsCoordinator(r)
  <2>1. Talks(send, {<<m, g>>}, {})
    <3>1. Everything \in SUBSET Everything
      BY DEF Everything
    <3> HIDE DEF g, m
    <3>. QED  BY <1>1, <3>1, TalksSend
  <2>2. Sending(c, r) = {<<m, g>>} /\ Receiving(c, r) = {}
    <3>1. {<<m, g>>} \in SUBSET (Rank \X Tags)
      BY <1>1
    <3>2. r # m
      BY <1>8 DEF IsCoordinator
    <3>3. \A q \in Rank, t \in Tags : /\ HasMessage(c, r, q, t) <=> <<q, t>> \in {<<m, g>>}
                                      /\ ~ HasMessage(c, q, r, t)
      <4> HIDE DEF m, g
      <4>. QED  BY <1>4, <1>6, <1>8, <3>2
    <3> HIDE DEF g, m
    <3>. QED  BY <3>1, <3>3 DEF Sending, Receiving
  <2> HIDE DEF send, m, g, last
  <2>3. Talks(send \o <<last>>, {<<m, g>>} \cup {}, {} \cup {})
    BY <1>3, <2>1, TalksConcat
  <2>. QED  BY <1>2, <1>8, <2>2, <2>3
<1>. QED  BY <1>7, <1>8

\* Every message of a call is sent once and received once.
LEMMA StepsTalk ==
  ASSUME InOrder, NEW c \in Call, NEW r \in Rank
  PROVE  Talks(Steps(c, r), Sending(c, r), Receiving(c, r))
<1>1. c.op \in Op
  BY DEF Call
<1>2. CASE c.op = "barrier"
  BY <1>2, TalksBarrier DEF Steps
<1>3. CASE c.op = "bcast"
  BY <1>3, TalksBcast DEF Steps
<1>4. CASE c.op = "gather"
  BY <1>4, TalksGather DEF Steps, Gather
<1>5. CASE c.op = "scatter"
  BY <1>5, TalksScatter DEF Steps, Scatter
<1>6. CASE c.op = "allgather"
  BY <1>6, TalksAllgather DEF Steps, Allgather
<1>7. CASE c.op = "alltoall"
  BY <1>7, TalksAlltoall DEF Steps, Alltoall
<1>8. CASE c.op = "reduce"
  BY <1>8, TalksReduce DEF Steps
<1>9. CASE c.op = "allreduce"
  BY <1>9, TalksAllreduce DEF Steps
<1>10. CASE c.op = "scan"
  BY <1>10, TalksScan DEF Steps
<1>. QED  BY <1>1, <1>2, <1>3, <1>4, <1>5, <1>6, <1>7, <1>8, <1>9, <1>10 DEF Op

\* A member has a step that sends a message exactly if the other has a step that
\* receives it, and no more than one.
LEMMA BalancedHolds == InOrder => Balanced
<1> SUFFICES ASSUME InOrder, NEW c \in Call, NEW s \in Rank, NEW d \in Rank, NEW g \in Tags
             PROVE  LET n == IF HasMessage(c, s, d, g) THEN 1 ELSE 0
                    IN  Num(Steps(c, s), Outgoing(d, g)) = n /\ Num(Steps(c, d), Incoming(s, g)) = n
  BY DEF Balanced
<1>1. <<d, g>> \in Sending(c, s) <=> HasMessage(c, s, d, g)
  BY DEF Sending
<1>2. <<s, g>> \in Receiving(c, d) <=> HasMessage(c, s, d, g)
  BY DEF Receiving
<1>3. /\ Num(Steps(c, s), Outgoing(d, g)) = IF <<d, g>> \in Sending(c, s) THEN 1 ELSE 0
      /\ Num(Steps(c, d), Incoming(s, g)) = IF <<s, g>> \in Receiving(c, d) THEN 1 ELSE 0
  BY StepsTalk DEF Talks
<1>. QED  BY <1>1, <1>2, <1>3

-----------------------------------------------------------------------------
(* Messages sent and received *)

\* The calls in which a member has passed a message are finitely many.
LEMMA PassedFinite ==
  ASSUME TypeInv, NEW r \in Rank, NEW M
  PROVE  /\ PassedIn(r, M) \in SUBSET (1 .. Len(program))
         /\ IsFiniteSet(PassedIn(r, M)) /\ Cardinality(PassedIn(r, M)) \in Nat
<1>1. program \in Seq(Call)
  BY ProgramAssumption DEF TypeInv
<1>2. Len(program) \in Nat
  BY <1>1, LenProperties
<1>3. PassedIn(r, M) \in SUBSET (1 .. Len(program))
  BY DEF PassedIn
<1>4. IsFiniteSet(1 .. Len(program))
  BY <1>2, FS_Interval, 1 \in Int, Len(program) \in Int
<1>. QED  BY <1>3, <1>4, FS_Subset, FS_CardinalityType

\* Only a step inside a call changes what a member has passed.
LEMMA PassedKept ==
  ASSUME IInv, NEW r \in Rank, UNCHANGED program,
         \/ done'[r] = done[r] /\ step'[r] = step[r]
         \/ step[r] = 0 /\ done'[r] = done[r] /\ step'[r] = 1
         \/ AtEnd(r) /\ done'[r] = done[r] + 1 /\ step'[r] = 0
  PROVE  \A M : PassedIn(r, M)' = PassedIn(r, M)
<1>1. TypeInv /\ PlaceInv
  BY DEF IInv
<1>2. program \in Seq(Call) /\ Len(program) \in Nat /\ done[r] \in Nat /\ step[r] \in Nat
  BY <1>1, ProgramAssumption, LenProperties DEF TypeInv
<1>3. ASSUME NEW k \in 1 .. Len(program), NEW i \in 1 .. Len(Steps(program[k], r))
      PROVE  (k <= done'[r] \/ (k = done'[r] + 1 /\ i < step'[r]))
             <=> (k <= done[r] \/ (k = done[r] + 1 /\ i < step[r]))
  <2>1. program[k] \in Call
    BY <1>2, ElementOfSeq
  <2>2. i \in Nat /\ i >= 1
    <3>1. Len(Steps(program[k], r)) \in Nat
      BY <2>1, StepsLemma
    <3>. QED  BY <3>1
  <2>3. CASE done'[r] = done[r] /\ step'[r] = step[r]
    BY <2>3
  <2>4. CASE step[r] = 0 /\ done'[r] = done[r] /\ step'[r] = 1
    BY <1>2, <2>2, <2>4
  <2>5. CASE AtEnd(r) /\ done'[r] = done[r] + 1 /\ step'[r] = 0
    <3>1. k = done[r] + 1 => i < step[r]
      <4>1. Current(r) = program[done[r] + 1] /\ StepsOf(r) = Steps(Current(r), r)
            /\ step[r] > Len(StepsOf(r)) /\ Len(StepsOf(r)) \in Nat
        BY <1>1, <2>5, NowLemma DEF AtEnd
      <4>. QED  BY <1>2, <4>1
    <3>. QED  BY <1>2, <2>2, <2>5, <3>1
  <2>. QED  BY <2>3, <2>4, <2>5
<1>. QED  BY <1>3 DEF PassedIn

\* The step that a member takes is the only one of its call that is in M, if it is.
LEMMA PassedGrows ==
  ASSUME IInv, NEW r \in Rank, UNCHANGED program,
         InCall(r), ~ AtEnd(r), done'[r] = done[r], step'[r] = step[r] + 1,
         NEW M, \A c \in Call : Num(Steps(c, r), M) \in {0, 1}
  PROVE  /\ PassedIn(r, M)' = PassedIn(r, M) \cup (IF Now(r) \in M THEN {done[r] + 1} ELSE {})
         /\ Now(r) \in M => done[r] + 1 \notin PassedIn(r, M)
<1> DEFINE c == Current(r)
           k == done[r] + 1
           s == step[r]
           P == PassedIn(r, M)
<1>1. TypeInv /\ PlaceInv
  BY DEF IInv
<1>2. /\ program \in Seq(Call) /\ done[r] \in 0 .. Len(program) - 1
      /\ c \in Call /\ c = program[k] /\ StepsOf(r) = Steps(c, r)
      /\ Len(Steps(c, r)) \in Nat /\ s \in 1 .. Len(Steps(c, r))
      /\ Now(r) = Steps(c, r)[s]
  BY <1>1, NowLemma
<1>3. Len(program) \in Nat /\ k \in 1 .. Len(program)
  BY <1>2, LenProperties
<1>4. P \in SUBSET (1 .. Len(program)) /\ IsFiniteSet(P) /\ Cardinality(P) \in Nat
  BY <1>1, PassedFinite
<1>5. \A j \in 1 .. Len(program) : j \in P' <=> j \in P \/ (j = k /\ Now(r) \in M)
  <2>1. ASSUME NEW j \in 1 .. Len(program), NEW i \in 1 .. Len(Steps(program[j], r))
        PROVE  (j <= done'[r] \/ (j = done'[r] + 1 /\ i < step'[r]))
               <=> (j <= done[r] \/ (j = done[r] + 1 /\ i < step[r])) \/ (j = k /\ i = s)
    <3>1. i \in Nat /\ s \in Nat /\ done[r] \in Nat
      <4>1. Len(Steps(program[j], r)) \in Nat
        BY <1>2, ElementOfSeq, StepsLemma
      <4>. QED  BY <1>2, <4>1
    <3>. QED  BY <3>1
  <2>2. \A j \in 1 .. Len(program) :
          j \in P' <=> \E i \in 1 .. Len(Steps(program[j], r)) :
                         /\ Steps(program[j], r)[i] \in M
                         /\ j <= done'[r] \/ (j = done'[r] + 1 /\ i < step'[r])
    BY DEF PassedIn
  <2>3. \A j \in 1 .. Len(program) :
          j \in P <=> \E i \in 1 .. Len(Steps(program[j], r)) :
                        /\ Steps(program[j], r)[i] \in M
                        /\ j <= done[r] \/ (j = done[r] + 1 /\ i < step[r])
    BY DEF PassedIn
  <2> HIDE DEF P
  <2>4. \A j \in 1 .. Len(program) :
          j \in P' <=> j \in P \/ \E i \in 1 .. Len(Steps(program[j], r)) :
                                    Steps(program[j], r)[i] \in M /\ j = k /\ i = s
    BY <2>1, <2>2, <2>3
  <2>. QED  BY <1>2, <1>3, <2>4
<1>6. P' \in SUBSET (1 .. Len(program))
  BY DEF PassedIn
<1> HIDE DEF P
<1>7. P' = P \cup (IF Now(r) \in M THEN {k} ELSE {})
  BY <1>3, <1>4, <1>5, <1>6
<1>8. ASSUME Now(r) \in M PROVE k \notin P
  <2>1. Num(Steps(c, r), M) = 1
    <3>1. Num(Steps(c, r), M) # 0
      BY <1>2, <1>8, StepsLemma, NumZero
    <3>. QED  BY <1>2, <3>1
  <2>2. \A j \in 1 .. Len(Steps(c, r)) : Steps(c, r)[j] \in M => j = s
    <3>1. Steps(c, r) \in Seq(AnyStep)
      BY <1>2, StepsLemma
    <3>2. s \in 1 .. Len(Steps(c, r)) /\ Steps(c, r)[s] \in M
      BY <1>2, <1>8
    <3>. QED  BY <2>1, <3>1, <3>2, NumOne
  <2>3. \A i \in 1 .. Len(Steps(c, r)) : Steps(c, r)[i] \in M => ~ (k <= done[r] \/ (k = done[r] + 1 /\ i < step[r]))
    BY <1>2, <2>2
  <2>. QED  BY <1>2, <2>3 DEF P, PassedIn
<1>. QED  BY <1>7, <1>8 DEF P

\* As a count of the calls passed.
LEMMA PassedStep ==
  ASSUME IInv, Balanced, NEW r \in Rank, UNCHANGED program,
         InCall(r), ~ AtEnd(r), done'[r] = done[r], step'[r] = step[r] + 1,
         NEW M, \A c \in Call : Num(Steps(c, r), M) \in {0, 1}
  PROVE  Cardinality(PassedIn(r, M))'
           = Cardinality(PassedIn(r, M)) + (IF Now(r) \in M THEN 1 ELSE 0)
<1> DEFINE P == PassedIn(r, M)
           k == done[r] + 1
<1>1. IsFiniteSet(P) /\ Cardinality(P) \in Nat
  BY PassedFinite DEF IInv
<1>2. P' = P \cup (IF Now(r) \in M THEN {k} ELSE {}) /\ (Now(r) \in M => k \notin P)
  BY PassedGrows
<1> HIDE DEF P, k
<1>3. CASE Now(r) \notin M
  <2>1. P' = P
    BY <1>2, <1>3
  <2>. QED  BY <1>1, <1>3, <2>1 DEF P
<1>4. CASE Now(r) \in M
  <2>1. P' = P \cup {k} /\ k \notin P
    BY <1>2, <1>4
  <2>2. Cardinality(P \cup {k}) = Cardinality(P) + 1
    BY <1>1, <2>1, FS_AddElement
  <2>. QED  BY <1>4, <2>1, <2>2 DEF P
<1>. QED  BY <1>3, <1>4

\* A step of a member in a call, and no step, as far as messages are concerned.
Moves(r) ==
  /\ InCall(r) /\ ~ AtEnd(r)
  /\ done'[r] = done[r] /\ step'[r] = step[r] + 1
Rests(r) ==
  \/ done'[r] = done[r] /\ step'[r] = step[r]
  \/ step[r] = 0 /\ done'[r] = done[r] /\ step'[r] = 1
  \/ AtEnd(r) /\ done'[r] = done[r] + 1 /\ step'[r] = 0
Gain(x, M) == IF x \in M THEN 1 ELSE 0

\* A member that passes a step has sent, or received, one message more if it is one.
LEMMA MoveGains ==
  ASSUME IInv, Balanced, NEW r \in Rank, UNCHANGED program, Moves(r), NEW q \in Rank, NEW g \in Tags
  PROVE  /\ SentBy(r, q, g)' = SentBy(r, q, g) + Gain(Now(r), Outgoing(q, g))
         /\ ReceivedBy(q, r, g)' = ReceivedBy(q, r, g) + Gain(Now(r), Incoming(q, g))
<1>1. \A c \in Call : Num(Steps(c, r), Outgoing(q, g)) \in {0, 1} /\ Num(Steps(c, r), Incoming(q, g)) \in {0, 1}
  BY DEF Balanced
<1>2. InCall(r) /\ ~ AtEnd(r) /\ done'[r] = done[r] /\ step'[r] = step[r] + 1
  BY DEF Moves
<1>3. \A M : (\A c \in Call : Num(Steps(c, r), M) \in {0, 1}) =>
        Cardinality(PassedIn(r, M))' = Cardinality(PassedIn(r, M)) + (IF Now(r) \in M THEN 1 ELSE 0)
  BY <1>2, PassedStep
<1> DEFINE O == Outgoing(q, g)
           I == Incoming(q, g)
<1>4. \A c \in Call : Num(Steps(c, r), O) \in {0, 1}
  BY <1>1
<1>5. \A c \in Call : Num(Steps(c, r), I) \in {0, 1}
  BY <1>1
<1> HIDE DEF O, I
<1>6. /\ Cardinality(PassedIn(r, O))' = Cardinality(PassedIn(r, O)) + (IF Now(r) \in O THEN 1 ELSE 0)
      /\ Cardinality(PassedIn(r, I))' = Cardinality(PassedIn(r, I)) + (IF Now(r) \in I THEN 1 ELSE 0)
  BY <1>3, <1>4, <1>5
<1>. QED  BY <1>6 DEF O, I, SentBy, ReceivedBy, Gain

\* A member that passes no step has sent and received what it had before.
LEMMA RestKeeps ==
  ASSUME IInv, NEW r \in Rank, UNCHANGED program, Rests(r), NEW q \in Rank, NEW g \in Tags
  PROVE  /\ SentBy(r, q, g)' = SentBy(r, q, g)
         /\ ReceivedBy(q, r, g)' = ReceivedBy(q, r, g)
<1>1. \A M : PassedIn(r, M)' = PassedIn(r, M)
  BY PassedKept DEF Rests
<1>2. PassedIn(r, Outgoing(q, g))' = PassedIn(r, Outgoing(q, g))
      /\ PassedIn(r, Incoming(q, g))' = PassedIn(r, Incoming(q, g))
  BY <1>1
<1>. QED  BY <1>2 DEF SentBy, ReceivedBy

\* The counts are numbers.
LEMMA FlowTypes ==
  ASSUME TypeInv, NEW s \in Rank, NEW d \in Rank, NEW g \in Tags
  PROVE  SentBy(s, d, g) \in Nat /\ ReceivedBy(s, d, g) \in Nat /\ OnWire(s, d, g) \in Nat
<1>1. wire[<<s, d>>] \in Seq(Message)
  BY DEF TypeInv
<1>. QED  BY <1>1, PassedFinite, NumType DEF SentBy, ReceivedBy, OnWire

\* Adding a message at the end, and taking one out.
LEMMA NumAppend ==
  ASSUME NEW T, NEW s \in Seq(T), NEW x \in T, NEW M
  PROVE  Num(Append(s, x), M) = Num(s, M) + Gain(x, M)
<1> DEFINE y == <<x>>
<1>1. Append(s, x) = s \o y /\ y \in Seq(T)
  BY SingleType, AppendIsConcat
<1>2. Num(y, M) = Gain(x, M)
  BY NumSingle DEF Gain
<1> HIDE DEF y
<1>3. Num(s \o y, M) = Num(s, M) + Num(y, M)
  BY <1>1, NumConcat
<1>. QED  BY <1>1, <1>2, <1>3

\* Removing a counted element takes one off the count.
LEMMA NumRemoveAt ==
  ASSUME NEW T, NEW s \in Seq(T), NEW i \in 1 .. Len(s), NEW M
  PROVE  Num(s, M) = Num(RemoveAt(s, i), M) + Gain(s[i], M)
<1> DEFINE a == SubSeq(s, 1, i - 1)
           b == SubSeq(s, i + 1, Len(s))
           x == <<s[i]>>
           ax == a \o x
           axb == ax \o b
<1>1. Len(s) \in Nat /\ (\A k \in 1 .. Len(s) : s[k] \in T) /\ s[i] \in T
  BY LenProperties, ElementOfSeq
<1>2. a \in Seq(T) /\ Len(a) = i - 1 /\ \A k \in 1 .. i - 1 : a[k] = s[k]
  <2>1. \A k \in 1 .. i - 1 : s[k] \in T
    BY <1>1
  <2>. QED  BY <1>1, <2>1, SubSeqProperties
<1>3. b \in Seq(T) /\ Len(b) = Len(s) - i /\ \A k \in 1 .. Len(s) - i : b[k] = s[i + k]
  <2>1. \A k \in i + 1 .. Len(s) : s[k] \in T
    BY <1>1
  <2>. QED  BY <1>1, <2>1, SubSeqProperties
<1>4. x \in Seq(T) /\ Len(x) = 1 /\ x[1] = s[i]
  BY <1>1, SingleType
<1>5. Num(x, M) = Gain(s[i], M)
  BY <1>1, NumSingle DEF Gain
<1>6. RemoveAt(s, i) = a \o b
  BY DEF RemoveAt
<1> HIDE DEF a, b, x
<1>7. /\ ax \in Seq(T) /\ Len(ax) = i
      /\ \A k \in 1 .. i : ax[k] = IF k <= i - 1 THEN a[k] ELSE x[k - (i - 1)]
  <2>1. Len(a) + Len(x) = i
    BY <1>2, <1>4
  <2>2. /\ ax \in Seq(T) /\ Len(ax) = Len(a) + Len(x)
        /\ \A k \in 1 .. Len(a) + Len(x) : ax[k] = IF k <= Len(a) THEN a[k] ELSE x[k - Len(a)]
    BY <1>2, <1>4, ConcatProperties
  <2> HIDE DEF ax
  <2>. QED  BY <1>2, <2>1, <2>2
<1>8. Num(ax, M) = Num(a, M) + Num(x, M) /\ Num(a \o b, M) = Num(a, M) + Num(b, M)
  BY <1>2, <1>3, <1>4, NumConcat
<1> HIDE DEF ax
<1>9. /\ axb \in Seq(T) /\ Len(axb) = Len(s)
      /\ \A k \in 1 .. Len(s) : axb[k] = IF k <= i THEN ax[k] ELSE b[k - i]
  <2>1. Len(ax) + Len(b) = Len(s)
    BY <1>1, <1>3, <1>7
  <2>2. /\ axb \in Seq(T) /\ Len(axb) = Len(ax) + Len(b)
        /\ \A k \in 1 .. Len(ax) + Len(b) : axb[k] = IF k <= Len(ax) THEN ax[k] ELSE b[k - Len(ax)]
    BY <1>3, <1>7, ConcatProperties
  <2> HIDE DEF axb
  <2>. QED  BY <1>7, <2>1, <2>2
<1>10. Num(axb, M) = Num(ax, M) + Num(b, M)
  BY <1>3, <1>7, NumConcat
<1> HIDE DEF axb
<1>11. \A k \in 1 .. Len(s) : axb[k] = s[k]
  <2>1. ASSUME NEW k \in 1 .. Len(s) PROVE axb[k] = s[k]
    <3>1. CASE k < i
      <4>1. k \in 1 .. i /\ k \in 1 .. i - 1 /\ k <= i - 1 /\ k <= i
        BY <1>1, <3>1
      <4>. QED  BY <1>2, <1>7, <1>9, <4>1
    <3>2. CASE k = i
      <4>1. k \in 1 .. i /\ ~ (k <= i - 1) /\ k - (i - 1) = 1 /\ k <= i
        BY <1>1, <3>2
      <4>. QED  BY <1>4, <1>7, <1>9, <3>2, <4>1
    <3>3. CASE k > i
      <4>1. k - i \in 1 .. Len(s) - i /\ i + (k - i) = k /\ ~ (k <= i)
        BY <1>1, <3>3
      <4>. QED  BY <1>3, <1>9, <4>1
    <3>. QED  BY <1>1, <3>1, <3>2, <3>3
  <2>. QED  BY <2>1
<1>12. s = axb
  BY <1>9, <1>11, SeqEqual
<1>13. Num(a, M) \in Nat /\ Num(b, M) \in Nat /\ Gain(s[i], M) \in Nat
  BY <1>2, <1>3, NumType DEF Gain
<1>. QED  BY <1>5, <1>6, <1>8, <1>10, <1>12, <1>13

\* Initially nothing is sent, received or on the wire.
LEMMA FlowInit == Init => FlowInv
<1> SUFFICES ASSUME Init, NEW s \in Rank, NEW d \in Rank, NEW g \in Tags
             PROVE  SentBy(s, d, g) = ReceivedBy(s, d, g) + OnWire(s, d, g)
  BY DEF FlowInv
<1>1. TypeInv
  BY InitLemma DEF IInv
<1>2. program \in Seq(Call)
  BY ProgramAssumption DEF Init
<1>3. ASSUME NEW r \in Rank, NEW M PROVE Cardinality(PassedIn(r, M)) = 0
  <2>1. done[r] = 0 /\ step[r] = 0
    BY DEF Init
  <2>2. ASSUME NEW k \in 1 .. Len(program), NEW i \in 1 .. Len(Steps(program[k], r))
        PROVE  ~ (k <= done[r] \/ (k = done[r] + 1 /\ i < step[r]))
    <3>1. Len(program) \in Nat /\ Len(Steps(program[k], r)) \in Nat
      BY <1>2, LenProperties, ElementOfSeq, StepsLemma
    <3>. QED  BY <2>1, <3>1
  <2>3. PassedIn(r, M) = {}
    BY <2>2 DEF PassedIn
  <2>. QED  BY <2>3, FS_EmptySet
<1>4. OnWire(s, d, g) = 0
  <2>1. wire[<<s, d>>] = << >>
    BY DEF Init
  <2>2. DOMAIN << >> = {}
    BY EmptySeq
  <2>3. { i \in DOMAIN << >> : << >>[i] \in Tagged(g) } = {}
    BY <2>2
  <2>. QED  BY <2>1, <2>3, FS_EmptySet DEF OnWire, Num
<1>. QED  BY <1>3, <1>4 DEF SentBy, ReceivedBy

\* A step in which no message moves.
LEMMA FlowQuiet ==
  ASSUME IInv, Balanced, FlowInv, UNCHANGED <<program, wire>>,
         \A q \in Rank : \/ Rests(q)
                         \/ Moves(q) /\ Now(q) \in LocalCall
  PROVE  FlowInv'
<1> SUFFICES ASSUME NEW s \in Rank, NEW d \in Rank, NEW g \in Tags
             PROVE  SentBy(s, d, g)' = ReceivedBy(s, d, g)' + OnWire(s, d, g)'
  BY DEF FlowInv
<1>1. TypeInv
  BY DEF IInv
<1>2. SentBy(s, d, g) = ReceivedBy(s, d, g) + OnWire(s, d, g)
  BY DEF FlowInv
<1>3. OnWire(s, d, g)' = OnWire(s, d, g)
  BY DEF OnWire
<1>4. SentBy(s, d, g)' = SentBy(s, d, g)
  <2>1. CASE Rests(s)
    BY <2>1, RestKeeps
  <2>2. CASE Moves(s) /\ Now(s) \in LocalCall
    <3>1. Gain(Now(s), Outgoing(d, g)) = 0
      BY <2>2, MessageKinds DEF Gain
    <3>. QED  BY <1>1, <2>2, <3>1, MoveGains, FlowTypes
  <2>. QED  BY <2>1, <2>2
<1>5. ReceivedBy(s, d, g)' = ReceivedBy(s, d, g)
  <2>1. CASE Rests(d)
    BY <2>1, RestKeeps
  <2>2. CASE Moves(d) /\ Now(d) \in LocalCall
    <3>1. Gain(Now(d), Incoming(s, g)) = 0
      BY <2>2, MessageKinds DEF Gain
    <3>. QED  BY <1>1, <2>2, <3>1, MoveGains, FlowTypes
  <2>. QED  BY <2>1, <2>2
<1>. QED  BY <1>2, <1>3, <1>4, <1>5

\* A message joins the wire, or leaves it, or goes from a sender to a receiver.
LEMMA FlowSend ==
  ASSUME IInv, Balanced, FlowInv, NEW r \in Rank, SendMessage(r)
  PROVE  FlowInv'
<1> DEFINE x == Now(r)
           m == [tag |-> x.tag, payload |-> Payload(r)]
<1>1. TypeInv /\ PlaceInv
  BY DEF IInv
<1>2. /\ InCall(r) /\ ~ AtEnd(r) /\ x.do = "send"
      /\ wire' = [wire EXCEPT ![<<r, x.peer>>] = Append(@, m)]
      /\ step' = [step EXCEPT ![r] = @ + 1]
      /\ UNCHANGED <<program, eager, done, value, results, entered, inside>>
  BY DEF SendMessage, IsAt
<1>3. x \in Talk
  BY <1>1, <1>2, NowLemma
<1>4. x.peer \in Rank /\ x.tag \in Tags
  BY <1>3, Kinds
<1>5. m \in Message
  BY <1>1, <1>2, <1>4, PayloadType DEF Message
<1>6. m.tag = x.tag
  OBVIOUS
<1> HIDE DEF m
<1>7. Moves(r) /\ \A q \in Rank \ {r} : Rests(q)
  BY <1>1, <1>2 DEF Moves, Rests, TypeInv
<1> SUFFICES ASSUME NEW s \in Rank, NEW d \in Rank, NEW g \in Tags
             PROVE  SentBy(s, d, g)' = ReceivedBy(s, d, g)' + OnWire(s, d, g)'
  BY DEF FlowInv
<1>8. SentBy(s, d, g) = ReceivedBy(s, d, g) + OnWire(s, d, g)
      /\ SentBy(s, d, g) \in Nat /\ ReceivedBy(s, d, g) \in Nat /\ OnWire(s, d, g) \in Nat
  BY <1>1, FlowTypes DEF FlowInv
<1>9. x \in Outgoing(d, g) <=> x.peer = d /\ x.tag = g
  BY <1>2, <1>3 DEF Outgoing
<1>10. x \notin Incoming(s, g)
  BY <1>2 DEF Incoming
<1>11. ReceivedBy(s, d, g)' = ReceivedBy(s, d, g)
  <2>1. CASE d = r
    <3>1. ReceivedBy(s, r, g)' = ReceivedBy(s, r, g) + Gain(x, Incoming(s, g))
      BY <1>2, <1>7, MoveGains
    <3>. QED  BY <1>8, <1>10, <2>1, <3>1 DEF Gain
  <2>2. CASE d # r
    BY <1>2, <1>7, <2>2, RestKeeps
  <2>. QED  BY <2>1, <2>2
<1>12. CASE s # r
  <2>1. wire'[<<s, d>>] = wire[<<s, d>>]
    BY <1>1, <1>2, <1>12 DEF TypeInv
  <2>2. SentBy(s, d, g)' = SentBy(s, d, g)
    BY <1>2, <1>7, <1>12, RestKeeps
  <2>3. OnWire(s, d, g)' = OnWire(s, d, g)
    BY <2>1 DEF OnWire
  <2>. QED  BY <1>8, <1>11, <2>2, <2>3
<1>13. CASE s = r
  <2>1. SentBy(s, d, g)' = SentBy(s, d, g) + Gain(x, Outgoing(d, g))
    BY <1>2, <1>7, <1>13, MoveGains
  <2>2. OnWire(s, d, g)' = OnWire(s, d, g) + Gain(x, Outgoing(d, g))
    <3>1. CASE d # x.peer
      <4>1. wire'[<<s, d>>] = wire[<<s, d>>]
        BY <1>1, <1>2, <3>1 DEF TypeInv
      <4>2. Gain(x, Outgoing(d, g)) = 0
        BY <1>9, <3>1 DEF Gain
      <4>. QED  BY <1>8, <4>1, <4>2 DEF OnWire
    <3>2. CASE d = x.peer
      <4>1. wire[<<s, d>>] \in Seq(Message)
        BY <1>1 DEF TypeInv
      <4>2. wire'[<<s, d>>] = Append(wire[<<s, d>>], m)
        BY <1>1, <1>2, <1>13, <3>2 DEF TypeInv
      <4>3. Gain(m, Tagged(g)) = Gain(x, Outgoing(d, g))
        BY <1>5, <1>6, <1>9, <3>2 DEF Gain, Tagged
      <4>4. Num(Append(wire[<<s, d>>], m), Tagged(g)) = Num(wire[<<s, d>>], Tagged(g)) + Gain(m, Tagged(g))
        BY <1>5, <4>1, NumAppend
      <4>. QED  BY <4>2, <4>3, <4>4 DEF OnWire
    <3>. QED  BY <3>1, <3>2
  <2>3. Gain(x, Outgoing(d, g)) \in Nat
    BY DEF Gain
  <2>. QED  BY <1>8, <1>11, <2>1, <2>2, <2>3
<1>. QED  BY <1>12, <1>13

\* A receive moves one message from the wire to those received.
LEMMA FlowReceive ==
  ASSUME IInv, Balanced, FlowInv, NEW r \in Rank, ReceiveMessage(r)
  PROVE  FlowInv'
<1> DEFINE x == Now(r)
           w == <<x.peer, r>>
           fits == { i \in DOMAIN wire[w] : wire[w][i].tag = x.tag }
           f == First(fits)
<1>1. TypeInv /\ PlaceInv
  BY DEF IInv
<1>2. /\ InCall(r) /\ ~ AtEnd(r) /\ x.do = "receive"
      /\ fits # {}
      /\ wire'  = [wire EXCEPT ![w] = RemoveAt(@, f)]
      /\ step' = [step EXCEPT ![r] = @ + 1]
      /\ UNCHANGED <<program, eager, done, results, entered, inside>>
  BY DEF ReceiveMessage, IsAt
<1>3. x \in Talk
  BY <1>1, <1>2, NowLemma
<1>4. x.peer \in Rank /\ x.tag \in Tags
  BY <1>3, Kinds
<1>5. wire[w] \in Seq(Message) /\ DOMAIN wire[w] = 1 .. Len(wire[w]) /\ Len(wire[w]) \in Nat
  BY <1>1, <1>4, LenProperties DEF TypeInv
<1>6. f \in 1 .. Len(wire[w]) /\ wire[w][f].tag = x.tag
  <2>1. fits \in SUBSET Nat
    BY <1>5
  <2>2. f \in fits
    BY <1>2, <2>1, FirstLemma
  <2>. QED  BY <1>5, <2>2
<1> HIDE DEF f, fits
<1>7. Moves(r) /\ \A q \in Rank \ {r} : Rests(q)
  BY <1>1, <1>2 DEF Moves, Rests, TypeInv
<1> SUFFICES ASSUME NEW s \in Rank, NEW d \in Rank, NEW g \in Tags
             PROVE  SentBy(s, d, g)' = ReceivedBy(s, d, g)' + OnWire(s, d, g)'
  BY DEF FlowInv
<1>8. SentBy(s, d, g) = ReceivedBy(s, d, g) + OnWire(s, d, g)
      /\ SentBy(s, d, g) \in Nat /\ ReceivedBy(s, d, g) \in Nat /\ OnWire(s, d, g) \in Nat
  BY <1>1, FlowTypes DEF FlowInv
<1>9. x \in Incoming(s, g) <=> x.peer = s /\ x.tag = g
  BY <1>2, <1>3 DEF Incoming
<1>10. x \notin Outgoing(d, g)
  BY <1>2 DEF Outgoing
<1>11. SentBy(s, d, g)' = SentBy(s, d, g)
  <2>1. CASE s = r
    <3>1. SentBy(r, d, g)' = SentBy(r, d, g) + Gain(x, Outgoing(d, g))
      BY <1>2, <1>7, MoveGains
    <3>. QED  BY <1>8, <1>10, <2>1, <3>1 DEF Gain
  <2>2. CASE s # r
    BY <1>2, <1>7, <2>2, RestKeeps
  <2>. QED  BY <2>1, <2>2
<1>12. CASE d # r
  <2>1. wire'[<<s, d>>] = wire[<<s, d>>]
    BY <1>1, <1>2, <1>12 DEF TypeInv
  <2>2. ReceivedBy(s, d, g)' = ReceivedBy(s, d, g)
    BY <1>2, <1>7, <1>12, RestKeeps
  <2>3. OnWire(s, d, g)' = OnWire(s, d, g)
    BY <2>1 DEF OnWire
  <2>. QED  BY <1>8, <1>11, <2>2, <2>3
<1>13. CASE d = r
  <2>1. ReceivedBy(s, d, g)' = ReceivedBy(s, d, g) + Gain(x, Incoming(s, g))
    BY <1>2, <1>7, <1>13, MoveGains
  <2>2. OnWire(s, d, g) = OnWire(s, d, g)' + Gain(x, Incoming(s, g)) /\ OnWire(s, d, g)' \in Nat
    <3>1. CASE s # x.peer
      <4>1. wire'[<<s, d>>] = wire[<<s, d>>]
        BY <1>1, <1>2, <3>1 DEF TypeInv
      <4>2. Gain(x, Incoming(s, g)) = 0
        BY <1>9, <3>1 DEF Gain
      <4>. QED  BY <1>8, <4>1, <4>2 DEF OnWire
    <3>2. CASE s = x.peer
      <4>1. <<s, d>> = w
        BY <1>13, <3>2
      <4> HIDE DEF w
      <4>2. wire'[w] = RemoveAt(wire[w], f)
        BY <1>1, <1>2, <4>1 DEF TypeInv
      <4>3. wire[w][f] \in Message
        BY <1>5, <1>6, ElementOfSeq
      <4>4. Gain(wire[w][f], Tagged(g)) = Gain(x, Incoming(s, g))
        BY <1>6, <1>9, <3>2, <4>3 DEF Gain, Tagged
      <4>5. Num(wire[w], Tagged(g)) = Num(RemoveAt(wire[w], f), Tagged(g)) + Gain(wire[w][f], Tagged(g))
        BY <1>5, <1>6, NumRemoveAt
      <4>6. RemoveAt(wire[w], f) \in Seq(Message)
        BY <1>5, <1>6, RemoveAtLemma
      <4>7. Num(RemoveAt(wire[w], f), Tagged(g)) \in Nat
        BY <4>6, NumType
      <4>. QED  BY <4>1, <4>2, <4>4, <4>5, <4>7 DEF OnWire
    <3>. QED  BY <3>1, <3>2
  <2>3. Gain(x, Incoming(s, g)) \in Nat
    BY DEF Gain
  <2>. QED  BY <1>8, <1>11, <2>1, <2>2, <2>3
<1>. QED  BY <1>12, <1>13

\* A rendezvous adds one to those sent and to those received.
LEMMA FlowRendezvous ==
  ASSUME IInv, Balanced, FlowInv, NEW r \in Rank, NEW q \in Rank, Rendezvous(r, q)
  PROVE  FlowInv'
<1>1. TypeInv /\ PlaceInv
  BY DEF IInv
<1>2. /\ InCall(r) /\ ~ AtEnd(r) /\ Now(r).do = "send" /\ Now(r).peer = q
      /\ InCall(q) /\ ~ AtEnd(q) /\ Now(q).do = "receive" /\ Now(q).peer = r
      /\ Now(q).tag = Now(r).tag
      /\ step'  = [step EXCEPT ![r] = @ + 1, ![q] = @ + 1]
      /\ UNCHANGED <<program, eager, done, results, wire, entered, inside>>
  BY DEF Rendezvous, IsAt
<1>3. Now(r) \in Talk /\ Now(q) \in Talk /\ r # q
  BY <1>1, <1>2, NowLemma
<1>4. step'[r] = step[r] + 1 /\ step'[q] = step[q] + 1
      /\ \A m \in Rank \ {r, q} : step'[m] = step[m]
  <2>1. step \in [Rank -> Nat]
    BY <1>1 DEF TypeInv
  <2> DEFINE half == [step EXCEPT ![r] = @ + 1]
  <2>2. half \in [Rank -> Nat] /\ half[r] = step[r] + 1 /\ \A m \in Rank \ {r} : half[m] = step[m]
    BY <2>1
  <2>3. step' = [half EXCEPT ![q] = @ + 1]
    BY <1>2
  <2> HIDE DEF half
  <2>4. step'[q] = half[q] + 1 /\ \A m \in Rank \ {q} : step'[m] = half[m]
    BY <2>2, <2>3
  <2>. QED  BY <1>3, <2>2, <2>4
<1>5. Moves(r) /\ Moves(q) /\ \A m \in Rank \ {r, q} : Rests(m)
  BY <1>2, <1>4 DEF Moves, Rests
<1> SUFFICES ASSUME NEW s \in Rank, NEW d \in Rank, NEW g \in Tags
             PROVE  SentBy(s, d, g)' = ReceivedBy(s, d, g)' + OnWire(s, d, g)'
  BY DEF FlowInv
<1>6. SentBy(s, d, g) = ReceivedBy(s, d, g) + OnWire(s, d, g)
      /\ SentBy(s, d, g) \in Nat /\ ReceivedBy(s, d, g) \in Nat /\ OnWire(s, d, g) \in Nat
  BY <1>1, FlowTypes DEF FlowInv
<1>7. OnWire(s, d, g)' = OnWire(s, d, g)
  BY <1>2 DEF OnWire
<1> DEFINE n == IF s = r /\ d = q /\ Now(r).tag = g THEN 1 ELSE 0
<1>8. SentBy(s, d, g)' = SentBy(s, d, g) + n
  <2>1. CASE s \in {r, q}
    <3>1. SentBy(s, d, g)' = SentBy(s, d, g) + Gain(Now(s), Outgoing(d, g))
      BY <1>2, <1>5, <2>1, MoveGains
    <3>2. Gain(Now(s), Outgoing(d, g)) = n
      BY <1>2, <1>3, <2>1 DEF Gain, Outgoing
    <3>. QED  BY <3>1, <3>2
  <2>2. CASE s \notin {r, q}
    <3>1. SentBy(s, d, g)' = SentBy(s, d, g)
      BY <1>2, <1>5, <2>2, RestKeeps
    <3>. QED  BY <1>6, <2>2, <3>1
  <2>. QED  BY <2>1, <2>2
<1>9. ReceivedBy(s, d, g)' = ReceivedBy(s, d, g) + n
  <2>1. CASE d \in {r, q}
    <3>1. ReceivedBy(s, d, g)' = ReceivedBy(s, d, g) + Gain(Now(d), Incoming(s, g))
      BY <1>2, <1>5, <2>1, MoveGains
    <3>2. Gain(Now(d), Incoming(s, g)) = n
      BY <1>2, <1>3, <2>1 DEF Gain, Incoming
    <3>. QED  BY <3>1, <3>2
  <2>2. CASE d \notin {r, q}
    <3>1. ReceivedBy(s, d, g)' = ReceivedBy(s, d, g)
      BY <1>2, <1>5, <2>2, RestKeeps
    <3>. QED  BY <1>6, <2>2, <3>1
  <2>. QED  BY <2>1, <2>2
<1>10. n \in Nat
  OBVIOUS
<1> HIDE DEF n
<1>. QED  BY <1>6, <1>7, <1>8, <1>9, <1>10


\* Every step keeps the balance of the wire.
LEMMA FlowNext == IInv /\ Balanced /\ FlowInv /\ [Next]_vars => FlowInv'
<1> SUFFICES ASSUME IInv, Balanced, FlowInv, [Next]_vars PROVE FlowInv'
  OBVIOUS
<1>1. TypeInv /\ PlaceInv
  BY DEF IInv
<1>2. CASE UNCHANGED vars
  <2>1. UNCHANGED <<program, wire>> /\ \A q \in Rank : Rests(q)
    BY <1>2 DEF vars, Rests
  <2>. QED  BY <2>1, FlowQuiet
<1>3. ASSUME NEW r \in Rank, Step(r) PROVE FlowInv'
  <2>1. CASE Enter(r)
    <3>1. UNCHANGED <<program, wire, done>> /\ ~ InCall(r) /\ step' = [step EXCEPT ![r] = 1]
      BY <2>1 DEF Enter
    <3>2. step[r] = 0 /\ step'[r] = 1 /\ \A q \in Rank \ {r} : step'[q] = step[q]
      BY <1>1, <3>1 DEF TypeInv, InCall
    <3>3. \A q \in Rank : Rests(q)
      BY <3>1, <3>2 DEF Rests
    <3>. QED  BY <3>1, <3>3, FlowQuiet
  <2>2. CASE SendMessage(r)
    BY <2>2, FlowSend
  <2>3. CASE ReceiveMessage(r)
    BY <2>3, FlowReceive
  <2>4. CASE LocalEnter(r)
    <3>1. UNCHANGED <<program, wire, done, step>>
      BY <2>4 DEF LocalEnter
    <3>2. \A q \in Rank : Rests(q)
      BY <3>1 DEF Rests
    <3>. QED  BY <3>1, <3>2, FlowQuiet
  <2>5. CASE LocalLeave(r)
    <3>1. inside[r] /\ UNCHANGED <<program, wire, done>> /\ step' = [step EXCEPT ![r] = @ + 1]
      BY <2>5 DEF LocalLeave
    <3>2. IsLocalCall(r) /\ InCall(r) /\ ~ AtEnd(r)
      BY <1>1, <3>1 DEF PlaceInv, IsLocalCall
    <3>3. Now(r) \in LocalCall
      BY <1>1, <3>2, NowLemma DEF IsLocalCall
    <3>4. step'[r] = step[r] + 1 /\ \A q \in Rank \ {r} : step'[q] = step[q]
      BY <1>1, <3>1 DEF TypeInv
    <3>5. Moves(r) /\ \A q \in Rank \ {r} : Rests(q)
      BY <3>1, <3>2, <3>4 DEF Moves, Rests
    <3>. QED  BY <3>1, <3>3, <3>5, FlowQuiet
  <2>6. CASE Leave(r)
    <3>1. /\ AtEnd(r) /\ UNCHANGED <<program, wire>>
          /\ done' = [done EXCEPT ![r] = @ + 1] /\ step' = [step EXCEPT ![r] = 0]
      BY <2>6 DEF Leave
    <3>2. done'[r] = done[r] + 1 /\ step'[r] = 0
          /\ \A q \in Rank \ {r} : done'[q] = done[q] /\ step'[q] = step[q]
      BY <1>1, <3>1 DEF TypeInv
    <3>3. \A q \in Rank : Rests(q)
      BY <3>1, <3>2 DEF Rests
    <3>. QED  BY <3>1, <3>3, FlowQuiet
  <2>7. CASE \E q \in Rank : Rendezvous(r, q)
    BY <2>7, FlowRendezvous
  <2>. QED  BY <1>3, <2>1, <2>2, <2>3, <2>4, <2>5, <2>6, <2>7 DEF Step
<1>. QED  BY <1>2, <1>3 DEF Next, Finished

\* The entry of a member inside a local call is that of the step it is at.
LEMMA InsideNow ==
  ASSUME IInv, NEW r \in Rank, inside[r]
  PROVE  /\ Len(entered[r]) \in Nat \ {0}
         /\ entered[r][Len(entered[r])].call = Now(r)
<1> DEFINE n == Len(entered[r])
           c == Current(r)
           s == step[r]
           b == Base(done[r])
<1>1. TypeInv /\ PlaceInv /\ Count(r) /\ Calls(r)
  BY Parts DEF IInv
<1>2. IsLocalCall(r) /\ InCall(r) /\ ~ AtEnd(r)
  BY <1>1 DEF PlaceInv, IsLocalCall
<1>3. /\ program \in Seq(Call) /\ done[r] \in 0 .. Len(program) - 1
      /\ c \in Call /\ c = program[done[r] + 1]
      /\ s \in 1 .. Len(Steps(c, r)) /\ Len(Steps(c, r)) \in Nat
      /\ Now(r) = Steps(c, r)[s] /\ Now(r) \in LocalCall
  BY <1>1, <1>2, NowLemma DEF IsLocalCall
<1>4. Len(program) \in Nat /\ done[r] + 1 \in 1 .. Len(program) /\ (done[r] + 1) - 1 = done[r]
  BY <1>3, LenProperties
<1>5. b \in Nat
  BY <1>3, <1>4, BaseLemma
<1>6. /\ Before(c, r, s) \in Nat
      /\ Before(c, r, s) + 1 \in 1 .. LocalCount(c)
      /\ Now(r) = LocalOf(c, r, Before(c, r, s) + 1)
  BY <1>3, BeforeLemma
<1>7. n = b + (Before(c, r, s) + 1)
  <2>1. n = b + Before(c, r, s) + 1
    BY <1>1, <1>2 DEF Count
  <2>. QED  BY <1>5, <1>6, <2>1
<1>8. n \in Nat \ {0} /\ n \in 1 .. n
  BY <1>5, <1>6, <1>7
<1>9. PICK k \in 1 .. Len(program) : \E j \in 1 .. LocalCount(program[k]) :
        n = Base(k - 1) + j /\ entered[r][n].call = LocalOf(program[k], r, j)
  BY <1>1, <1>8 DEF Calls
<1>10. PICK j \in 1 .. LocalCount(program[k]) :
         n = Base(k - 1) + j /\ entered[r][n].call = LocalOf(program[k], r, j)
  BY <1>9
<1> DEFINE l == done[r] + 1
           i == Before(c, r, s) + 1
<1>11. l \in 1 .. Len(program) /\ i \in 1 .. LocalCount(program[l]) /\ Base(k - 1) + j = Base(l - 1) + i
  BY <1>3, <1>4, <1>6, <1>7, <1>10
<1>12. k = l /\ j = i
  <2> HIDE DEF l, i
  <2>. QED  BY <1>3, <1>11, SamePlace
<1>. QED  BY <1>3, <1>6, <1>8, <1>10, <1>12


\* Nobody leaves a local barrier that a peer has not entered.
LEMMA ReleaseNext == IInv /\ ReleaseInv /\ [Next]_vars => ReleaseInv'
<1> SUFFICES ASSUME IInv, ReleaseInv, [Next]_vars PROVE ReleaseInv'
  OBVIOUS
<1>1. TypeInv /\ PlaceInv
  BY DEF IInv
<1>2. CASE UNCHANGED <<entered, inside>>
  BY <1>2 DEF ReleaseInv
<1>3. ASSUME NEW r \in Rank, LocalEnter(r) PROVE ReleaseInv'
  <2> DEFINE e == [call |-> Now(r), value |-> value[r]]
             n == Len(entered[r])
  <2>1. /\ IsLocalCall(r) /\ InCall(r) /\ ~ AtEnd(r) /\ ~ inside[r]
        /\ entered' = [entered EXCEPT ![r] = Append(@, e)]
        /\ inside'  = [inside EXCEPT ![r] = TRUE]
    BY <1>3 DEF LocalEnter, IsLocalCall
  <2>2. e \in Entry
    <3>1. Now(r) \in LocalCall
      BY <1>1, <2>1, NowLemma DEF IsLocalCall
    <3>. QED  BY <1>1, <3>1 DEF Entry, TypeInv
  <2> HIDE DEF e
  <2>3. entered[r] \in Seq(Entry) /\ n \in Nat
    BY <1>1, LenProperties DEF TypeInv
  <2>4. /\ Len(entered'[r]) = n + 1
        /\ \A i \in 1 .. n : entered'[r][i] = entered[r][i]
        /\ inside'[r] = TRUE
        /\ \A q \in Rank \ {r} : entered'[q] = entered[q] /\ inside'[q] = inside[q]
    <3>1. entered'[r] = Append(entered[r], e) /\ inside'[r] = TRUE
          /\ \A q \in Rank \ {r} : entered'[q] = entered[q] /\ inside'[q] = inside[q]
      BY <1>1, <2>1 DEF TypeInv
    <3>. QED  BY <2>2, <2>3, <3>1, AppendProperties
  <2>5. \A q \in Rank : Len(entered[q]) \in Nat /\ Len(entered'[q]) \in Nat
                        /\ Len(entered'[q]) >= Len(entered[q])
    <3>1. \A q \in Rank : Len(entered[q]) \in Nat
      BY <1>1, LenProperties DEF TypeInv
    <3>. QED  BY <2>3, <2>4, <3>1
  <2>6. ASSUME NEW p \in Rank, NEW i \in 1 .. Len(entered'[p]), entered'[p][i].call = LocalBarrier,
               i < Len(entered'[p]) \/ ~ inside'[p], NEW q \in Peers(p)
        PROVE  Len(entered'[q]) >= i
    <3>1. i \in 1 .. Len(entered[p]) /\ entered[p][i].call = LocalBarrier
          /\ (i < Len(entered[p]) \/ ~ inside[p])
      <4>1. CASE p = r
        <5>1. i \in 1 .. n /\ (i < n \/ ~ inside[r])
          BY <2>1, <2>3, <2>4, <2>6, <4>1
        <5>. QED  BY <2>4, <2>6, <4>1, <5>1
      <4>2. CASE p # r
        BY <2>4, <2>6, <4>2
      <4>. QED  BY <4>1, <4>2
    <3>2. q \in Rank
      BY PeersLemma
    <3>3. Len(entered[q]) >= i
      BY <3>1 DEF ReleaseInv
    <3>4. i \in Nat
      BY <2>5
    <3>. QED  BY <2>5, <3>2, <3>3, <3>4
  <2>. QED  BY <2>6 DEF ReleaseInv
<1>4. ASSUME NEW r \in Rank, LocalLeave(r) PROVE ReleaseInv'
  <2> DEFINE n == Len(entered[r])
  <2>1. inside[r] /\ inside' = [inside EXCEPT ![r] = FALSE] /\ UNCHANGED entered
        /\ (Now(r).do = "barrier" => \A q \in Peers(r) : HasEntered(q, n))
    BY <1>4 DEF LocalLeave
  <2>2. n \in Nat \ {0} /\ entered[r][n].call = Now(r)
    BY <2>1, InsideNow
  <2>3. \A p \in Rank \ {r} : inside'[p] = inside[p]
    BY <1>1, <2>1 DEF TypeInv
  <2>4. ASSUME NEW p \in Rank, NEW i \in 1 .. Len(entered[p]), entered[p][i].call = LocalBarrier,
               i < Len(entered[p]) \/ ~ inside'[p], NEW q \in Peers(p)
        PROVE  Len(entered[q]) >= i
    <3>1. CASE i < Len(entered[p]) \/ ~ inside[p]
      BY <2>4, <3>1 DEF ReleaseInv
    <3>2. CASE ~ (i < Len(entered[p]) \/ ~ inside[p])
      <4>1. p = r
        BY <2>3, <2>4, <3>2
      <4>2. i = n
        BY <2>2, <3>2, <4>1
      <4>3. Now(r).do = "barrier"
        BY <2>2, <2>4, <4>1, <4>2 DEF LocalBarrier
      <4>. QED  BY <2>1, <2>4, <4>1, <4>2, <4>3 DEF HasEntered
    <3>. QED  BY <3>1, <3>2
  <2>. QED  BY <2>1, <2>4 DEF ReleaseInv
<1>. QED
  BY <1>2, <1>3, <1>4
  DEF Next, Step, Finished, vars, Enter, SendMessage, ReceiveMessage, Leave, Rendezvous

\* Initially nobody has entered one.
LEMMA ReleaseInit == Init => ReleaseInv
<1> SUFFICES ASSUME Init PROVE ReleaseInv
  OBVIOUS
<1>1. \A r \in Rank : Len(entered[r]) = 0
  <2>1. Len(<< >>) = 0
    OBVIOUS
  <2>. QED  BY <2>1 DEF Init
<1>2. 1 .. 0 = {}
  OBVIOUS
<1>. QED  BY <1>1, <1>2 DEF ReleaseInv

\* Together they are an invariant when messaging_bcast finds the coordinators.
LEMMA FlowInvariant ==
  ASSUME InOrder
  PROVE  Spec => [](IInv /\ FlowInv /\ ReleaseInv)
<1>1. Balanced
  BY BalancedHolds
<1>2. Init => IInv /\ FlowInv /\ ReleaseInv
  BY InitLemma, FlowInit, ReleaseInit
<1>3. IInv /\ FlowInv /\ ReleaseInv /\ [Next]_vars => (IInv /\ FlowInv /\ ReleaseInv)'
  BY <1>1, NextLemma, FlowNext, ReleaseNext
<1>. QED  BY <1>2, <1>3, PTL DEF Spec

\* The steps of a call that are a message between two members.
LEMMA HasStep ==
  ASSUME Balanced, NEW c \in Call, NEW s \in Rank, NEW d \in Rank, NEW g \in Tags
  PROVE  /\ (\E i \in 1 .. Len(Steps(c, s)) : Steps(c, s)[i] \in Outgoing(d, g)) <=> HasMessage(c, s, d, g)
         /\ (\E i \in 1 .. Len(Steps(c, d)) : Steps(c, d)[i] \in Incoming(s, g)) <=> HasMessage(c, s, d, g)
<1> DEFINE O == Outgoing(d, g)
           I == Incoming(s, g)
<1>1. Steps(c, s) \in Seq(AnyStep) /\ Steps(c, d) \in Seq(AnyStep)
  BY StepsLemma
<1>2. /\ Num(Steps(c, s), O) = 0 <=> ~ HasMessage(c, s, d, g)
      /\ Num(Steps(c, d), I) = 0 <=> ~ HasMessage(c, s, d, g)
  BY DEF Balanced
<1> HIDE DEF O, I
<1>3. /\ Num(Steps(c, s), O) = 0 <=> \A i \in 1 .. Len(Steps(c, s)) : Steps(c, s)[i] \notin O
      /\ Num(Steps(c, d), I) = 0 <=> \A i \in 1 .. Len(Steps(c, d)) : Steps(c, d)[i] \notin I
  BY <1>1, NumZero
<1>. QED  BY <1>2, <1>3 DEF O, I

\* The calls with such a message, of which the members have passed a part.
LEMMA PassedMessages ==
  ASSUME IInv, Balanced, NEW s \in Rank, NEW d \in Rank, NEW g \in Tags, NEW k \in 1 .. Len(program)
  PROVE  /\ k \in PassedIn(s, Outgoing(d, g)) => HasMessage(program[k], s, d, g) /\ k <= done[s] + 1
         /\ k \in PassedIn(d, Incoming(s, g)) => HasMessage(program[k], s, d, g) /\ k <= done[d] + 1
         /\ HasMessage(program[k], s, d, g) /\ k <= done[s] => k \in PassedIn(s, Outgoing(d, g))
         /\ HasMessage(program[k], s, d, g) /\ k <= done[d] => k \in PassedIn(d, Incoming(s, g))
<1>1. program \in Seq(Call) /\ done[s] \in Nat /\ done[d] \in Nat /\ Len(program) \in Nat
  BY ProgramAssumption, LenProperties DEF IInv, TypeInv
<1>2. program[k] \in Call
  BY <1>1, ElementOfSeq
<1>3. ASSUME NEW r \in Rank, NEW M
      PROVE  /\ k \in PassedIn(r, M) => /\ \E i \in 1 .. Len(Steps(program[k], r)) : Steps(program[k], r)[i] \in M
                                        /\ k <= done[r] \/ k = done[r] + 1
             /\ (\E i \in 1 .. Len(Steps(program[k], r)) : Steps(program[k], r)[i] \in M) /\ k <= done[r]
                => k \in PassedIn(r, M)
  BY DEF PassedIn
<1>4. /\ k <= done[s] \/ k = done[s] + 1 => k <= done[s] + 1
      /\ k <= done[d] \/ k = done[d] + 1 => k <= done[d] + 1
  BY <1>1
<1>. QED  BY <1>2, <1>3, <1>4, HasStep

\* When all is done they have passed all of them.
LEMMA AllPassed ==
  ASSUME IInv, Balanced, FlowInv, AllDone, NEW s \in Rank, NEW d \in Rank
  PROVE  wire[<<s, d>>] = << >>
<1>1. wire[<<s, d>>] \in Seq(Message) /\ Len(wire[<<s, d>>]) \in Nat
  BY LenProperties DEF IInv, TypeInv
<1>2. ASSUME NEW g \in Tags PROVE Num(wire[<<s, d>>], Tagged(g)) = 0
  <2>1. done[s] = Len(program) /\ done[d] = Len(program)
    BY DEF AllDone
  <2>2. Len(program) \in Nat
    BY ProgramAssumption, LenProperties DEF IInv, TypeInv
  <2>3. /\ PassedIn(s, Outgoing(d, g)) \in SUBSET (1 .. Len(program))
        /\ PassedIn(d, Incoming(s, g)) \in SUBSET (1 .. Len(program))
    BY PassedFinite DEF IInv
  <2>4. \A k \in 1 .. Len(program) : k <= Len(program)
    BY <2>2
  <2>5. \A k \in 1 .. Len(program) : k \in PassedIn(s, Outgoing(d, g)) <=> k \in PassedIn(d, Incoming(s, g))
    BY <2>1, <2>4, PassedMessages
  <2>6. PassedIn(s, Outgoing(d, g)) = PassedIn(d, Incoming(s, g))
    BY <2>3, <2>5
  <2>7. SentBy(s, d, g) = ReceivedBy(s, d, g)
    BY <2>6 DEF SentBy, ReceivedBy
  <2>8. SentBy(s, d, g) = ReceivedBy(s, d, g) + OnWire(s, d, g)
        /\ ReceivedBy(s, d, g) \in Nat /\ OnWire(s, d, g) \in Nat
    BY FlowTypes DEF FlowInv, IInv
  <2>. QED  BY <2>7, <2>8 DEF OnWire
<1>3. \A i \in 1 .. Len(wire[<<s, d>>]) : FALSE
  <2> SUFFICES ASSUME NEW i \in 1 .. Len(wire[<<s, d>>]) PROVE FALSE
    OBVIOUS
  <2> DEFINE m == wire[<<s, d>>][i]
  <2>1. m \in Message
    BY <1>1, ElementOfSeq
  <2>2. m.tag \in Tags /\ m \in Tagged(m.tag)
    BY <2>1 DEF Message, Tagged
  <2>3. Num(wire[<<s, d>>], Tagged(m.tag)) = 0
    BY <1>2, <2>2
  <2>4. \A j \in 1 .. Len(wire[<<s, d>>]) : wire[<<s, d>>][j] \notin Tagged(m.tag)
    BY <1>1, <2>3, NumZero
  <2>. QED  BY <2>2, <2>4
<1>4. Len(wire[<<s, d>>]) = 0
  BY <1>1, <1>3
<1>. QED  BY <1>1, <1>4, EmptySeq

\* When all members have returned from all calls there is no message left, whatever
\* the programs and the clusters, provided that messaging_bcast finds every other
\* coordinator at its place: every operation has one receive for each of its sends,
\* in the same call.
THEOREM NothingLeftHolds ==
  ASSUME InOrder
  PROVE  Spec => []NothingLeft
<1>1. IInv /\ FlowInv => NothingLeft
  <2> SUFFICES ASSUME IInv, FlowInv, AllDone, NEW x \in DOMAIN wire
               PROVE  wire[x] = << >>
    BY DEF NothingLeft
  <2>1. PICK s \in Rank, d \in Rank : x = <<s, d>>
    BY DEF IInv, TypeInv
  <2>. QED  BY <2>1, BalancedHolds, AllPassed
<1>. QED  BY <1>1, FlowInvariant, PTL

\* A member receives a message of a call only after the other has sent it in the same
\* call: the calls with a message from s to d are, on both sides, an initial part of
\* those in the program.
LEMMA ReceivedSent ==
  ASSUME IInv, Balanced, FlowInv, NEW s \in Rank, NEW d \in Rank, NEW g \in Tags,
         NEW k, k \in PassedIn(d, Incoming(s, g))
  PROVE  k \in PassedIn(s, Outgoing(d, g))
<1> DEFINE S == PassedIn(s, Outgoing(d, g))
           R == PassedIn(d, Incoming(s, g))
<1>1. /\ S \in SUBSET (1 .. Len(program)) /\ IsFiniteSet(S) /\ Cardinality(S) \in Nat
      /\ R \in SUBSET (1 .. Len(program)) /\ IsFiniteSet(R) /\ Cardinality(R) \in Nat
  BY PassedFinite DEF IInv
<1>2. k \in R /\ k \in 1 .. Len(program)
  BY <1>1
<1>3. Len(program) \in Nat /\ done[s] \in Nat /\ done[d] \in Nat
  BY ProgramAssumption, LenProperties DEF IInv, TypeInv
<1>4. Cardinality(S) >= Cardinality(R)
  <2>1. Cardinality(S) = Cardinality(R) + OnWire(s, d, g) /\ OnWire(s, d, g) \in Nat
    BY FlowTypes DEF FlowInv, IInv, SentBy, ReceivedBy
  <2>. QED  BY <1>1, <2>1
<1>5. \A j \in 1 .. Len(program) :
        /\ j \in S => HasMessage(program[j], s, d, g) /\ j <= done[s] + 1
        /\ j \in R => HasMessage(program[j], s, d, g) /\ j <= done[d] + 1
        /\ HasMessage(program[j], s, d, g) /\ j <= done[s] => j \in S
        /\ HasMessage(program[j], s, d, g) /\ j <= done[d] => j \in R
  BY PassedMessages
<1> HIDE DEF S, R
<1> SUFFICES ASSUME k \notin S PROVE FALSE
  BY DEF S
<1>6. ASSUME NEW j \in S PROVE j \in R \ {k}
  <2>1. j \in 1 .. Len(program) /\ j # k
    BY <1>1
  <2>2. HasMessage(program[j], s, d, g) /\ j <= done[s] + 1
    BY <1>5, <2>1
  <2>3. ~ (j > k)
    <3>1. j > k => k <= done[s]
      BY <1>2, <1>3, <2>1, <2>2
    <3>. QED  BY <1>2, <1>5, <3>1
  <2>4. j <= done[d]
    <3>1. k <= done[d] + 1
      BY <1>2, <1>5
    <3>. QED  BY <1>2, <1>3, <2>1, <2>3, <3>1
  <2>. QED  BY <1>5, <2>1, <2>2, <2>4
<1>7. Cardinality(S) <= Cardinality(R \ {k}) /\ Cardinality(R \ {k}) = Cardinality(R) - 1
  <2>1. IsFiniteSet(R \ {k}) /\ Cardinality(R \ {k}) = Cardinality(R) - 1
    BY <1>1, <1>2, FS_RemoveElement
  <2>2. S \in SUBSET (R \ {k})
    BY <1>6
  <2>. QED  BY <2>1, <2>2, FS_Subset
<1>. QED  BY <1>1, <1>4, <1>7

-----------------------------------------------------------------------------
(* The barrier *)

\* r has passed step i of call k; of step 0: has begun it.
Past(r, k, i) == k <= done[r] \/ (k = done[r] + 1 /\ i < step[r])

\* The program's k-th call is a barrier.
IsBarrier(k) == k \in 1 .. Len(program) /\ program[k].op = "barrier"

\* What the invariant says of a call of EMPI_Barrier.
LEMMA BarrierCall ==
  ASSUME IInv, NEW k, IsBarrier(k), NEW r \in Rank
  PROVE  LET s == Steps(program[k], r) IN
         /\ program \in Seq(Call) /\ program[k] \in Call /\ k \in Nat \ {0} /\ Len(program) \in Nat
         /\ Len(s) \in Nat /\ Len(s) >= 2
         /\ s[1] \notin Talk /\ s[Len(s)] \notin Talk
         /\ \A i \in 1 .. Len(s) : i # 1 /\ i # Len(s) => s[i] \in Talk
         /\ Base(k - 1) \in Nat /\ Base(k) = Base(k - 1) + 2
         /\ LocalCount(program[k]) = 2
         /\ \A j \in 1 .. 2 : LocalOf(program[k], r, j) = LocalBarrier
<1>1. program \in Seq(Call) /\ Len(program) \in Nat /\ k \in 1 .. Len(program)
  BY ProgramAssumption, LenProperties DEF IInv, TypeInv, IsBarrier
<1>2. program[k] \in Call /\ program[k].op = "barrier"
  BY <1>1, ElementOfSeq DEF IsBarrier
<1>3. program[k].op \in Begins /\ program[k].op \in Ends
  BY <1>2 DEF Begins, Ends
<1>4. LocalCount(program[k]) = 2
  BY <1>3 DEF LocalCount
<1>5. FirstLocal(program[k], r) = LocalBarrier /\ LastLocal(program[k], r) = LocalBarrier
  BY <1>2 DEF FirstLocal, LastLocal
<1>6. LocalBarrier \notin Talk
  <2>1. LocalBarrier \in LocalCall
    BY DEF LocalCall
  <2>. QED  BY <2>1, Kinds
<1>7. Base(k) = Base(k - 1) + 2 /\ Base(k - 1) \in Nat
  <2>1. k - 1 \in 0 .. Len(program)
    BY <1>1
  <2>. QED  BY <1>1, <1>4, <2>1, BaseLemma
<1> DEFINE s == Steps(program[k], r)
<1>8. /\ Len(s) \in Nat /\ Len(s) >= 2
      /\ \A i \in 1 .. Len(s) :
           \/ i = 1 /\ s[i] = LocalBarrier
           \/ i = Len(s) /\ s[i] = LocalBarrier
           \/ ~ (i = 1) /\ ~ (i = Len(s)) /\ s[i] \in Talk
  BY <1>2, <1>3, <1>5, StepsLemma
<1>9. 1 \in 1 .. Len(s) /\ Len(s) \in 1 .. Len(s)
  BY <1>8
<1> HIDE DEF s
<1>10. s[1] = LocalBarrier /\ s[Len(s)] = LocalBarrier
  BY <1>8, <1>9
<1>11. \A j \in 1 .. 2 : LocalOf(program[k], r, j) = LocalBarrier
  BY <1>5 DEF LocalOf
<1>12. \A i \in 1 .. Len(s) : i # 1 /\ i # Len(s) => s[i] \in Talk
  BY <1>8
<1>. QED  BY <1>1, <1>2, <1>4, <1>6, <1>7, <1>8, <1>10, <1>11, <1>12 DEF s

\* The local calls a member has made are those up to the current call, at most.
LEMMA EnteredBounds ==
  ASSUME IInv, NEW r \in Rank
  PROVE  /\ Len(entered[r]) \in Nat /\ done[r] \in 0 .. Len(program)
         /\ Base(done[r]) \in Nat /\ Base(done[r]) <= Len(entered[r])
         /\ ~ InCall(r) => Len(entered[r]) = Base(done[r]) /\ ~ inside[r]
         /\ InCall(r) => /\ done[r] + 1 <= Len(program)
                         /\ Len(entered[r]) <= Base(done[r] + 1)
                         /\ inside[r] => Base(done[r]) < Len(entered[r])
<1>1. TypeInv /\ PlaceInv /\ Count(r)
  BY Parts DEF IInv
<1>2. /\ program \in Seq(Call) /\ Len(program) \in Nat /\ done[r] \in 0 .. Len(program)
      /\ Len(entered[r]) \in Nat
  BY <1>1, ProgramAssumption, LenProperties DEF TypeInv
<1>3. Base(done[r]) \in Nat
  BY <1>2, BaseLemma
<1>4. CASE ~ InCall(r)
  <2>1. ~ inside[r]
    BY <1>1, <1>4 DEF PlaceInv, IsLocalCall
  <2>2. Len(entered[r]) = Base(done[r]) + 0 + 0
    BY <1>1, <1>4, <2>1 DEF Count
  <2>. QED  BY <1>2, <1>3, <1>4, <2>1, <2>2
<1>5. CASE InCall(r)
  <2> DEFINE c == Current(r)
             b == Before(c, r, step[r])
             i == IF inside[r] THEN 1 ELSE 0
  <2>1. /\ done[r] \in 0 .. Len(program) - 1 /\ c \in Call /\ c = program[done[r] + 1]
        /\ StepsOf(r) = Steps(c, r) /\ Len(Steps(c, r)) \in Nat
        /\ step[r] \in 1 .. Len(Steps(c, r)) + 1
    BY <1>1, <1>5, NowLemma
  <2>2. Len(entered[r]) = Base(done[r]) + b + i
    BY <1>1, <1>5 DEF Count
  <2>3. b \in Nat /\ b + i <= LocalCount(c) /\ LocalCount(c) \in Nat
    <3>0. b \in Nat /\ LocalCount(c) \in Nat
      BY DEF Before, LocalCount
    <3>1. CASE inside[r]
      <4>1. IsLocalCall(r) /\ ~ AtEnd(r)
        BY <1>1, <3>1 DEF PlaceInv, IsLocalCall
      <4>2. step[r] \in 1 .. Len(Steps(c, r)) /\ Steps(c, r)[step[r]] \in LocalCall
        BY <1>1, <1>5, <2>1, <4>1, NowLemma DEF IsLocalCall
      <4>3. b + 1 \in 1 .. LocalCount(c)
        BY <2>1, <4>2, BeforeLemma
      <4>. QED  BY <3>0, <3>1, <4>3
    <3>2. CASE ~ inside[r]
      <4>1. step[r] \in 1 .. Len(Steps(c, r)) \/ step[r] = Len(Steps(c, r)) + 1
        BY <2>1
      <4>2. b \in 0 .. LocalCount(c)
        BY <2>1, <3>0, <4>1, BeforeLemma
      <4>. QED  BY <3>0, <3>2, <4>2
    <3>. QED  BY <3>1, <3>2
  <2>4. Base(done[r] + 1) = Base(done[r]) + LocalCount(c)
    <3>1. done[r] + 1 \in 1 .. Len(program) /\ (done[r] + 1) - 1 = done[r]
      BY <1>2, <2>1
    <3>. QED  BY <1>2, <2>1, <3>1, BaseLemma
  <2>5. i \in Nat /\ (inside[r] => i = 1)
    OBVIOUS
  <2> HIDE DEF b, i
  <2>6. done[r] + 1 <= Len(program)
    BY <1>2, <2>1
  <2>7. Len(entered[r]) <= Base(done[r] + 1) /\ Base(done[r]) <= Len(entered[r])
    BY <1>3, <2>2, <2>3, <2>4, <2>5
  <2>8. inside[r] => Base(done[r]) < Len(entered[r])
    BY <1>3, <2>2, <2>3, <2>5
  <2>. QED  BY <1>2, <1>3, <1>5, <2>6, <2>7, <2>8
<1>. QED  BY <1>4, <1>5

\* Who has made the first local call of the barrier has begun it; who has made the
\* second has passed its messages.
LEMMA BegunBarrier ==
  ASSUME IInv, NEW k, IsBarrier(k), NEW r \in Rank, Len(entered[r]) >= Base(k - 1) + 1
  PROVE  Past(r, k, 0)
<1>1. /\ program \in Seq(Call) /\ k \in Nat \ {0} /\ k <= Len(program) /\ Len(program) \in Nat
      /\ Base(k - 1) \in Nat
  BY BarrierCall DEF IsBarrier
<1>2. /\ Len(entered[r]) \in Nat /\ done[r] \in 0 .. Len(program) /\ Base(done[r]) \in Nat
      /\ ~ InCall(r) => Len(entered[r]) = Base(done[r])
      /\ InCall(r) => done[r] + 1 <= Len(program) /\ Len(entered[r]) <= Base(done[r] + 1)
  BY EnteredBounds
<1>3. \A i, j \in 0 .. Len(program) : i <= j => Base(i) <= Base(j) /\ Base(i) \in Nat /\ Base(j) \in Nat
  BY <1>1, BaseLemma
<1>4. step[r] \in Nat
  BY DEF IInv, TypeInv
<1> SUFFICES ASSUME ~ (k <= done[r]) PROVE k = done[r] + 1 /\ 0 < step[r]
  BY DEF Past
<1>5. k - 1 \in 0 .. Len(program) /\ done[r] <= k - 1
  BY <1>1, <1>2
<1>6. InCall(r)
  <2>1. Base(done[r]) <= Base(k - 1)
    BY <1>2, <1>3, <1>5
  <2>. QED  BY <1>1, <1>2, <2>1
<1>7. ~ (done[r] + 1 <= k - 1)
  <2>1. ASSUME done[r] + 1 <= k - 1 PROVE FALSE
    <3>1. done[r] + 1 \in 0 .. Len(program)
      BY <1>2, <1>6
    <3>2. Base(done[r] + 1) <= Base(k - 1) /\ Base(done[r] + 1) \in Nat
      BY <1>3, <1>5, <2>1, <3>1
    <3>. QED  BY <1>1, <1>2, <1>6, <3>2
  <2>. QED  BY <2>1
<1>. QED  BY <1>1, <1>2, <1>4, <1>5, <1>6, <1>7 DEF InCall

\* A member in its second local barrier has passed all steps before it.
LEMMA EndingBarrier ==
  ASSUME IInv, NEW k, IsBarrier(k), NEW r \in Rank, Len(entered[r]) >= Base(k - 1) + 2
  PROVE  \A i \in 1 .. Len(Steps(program[k], r)) - 1 : Past(r, k, i)
<1> DEFINE s == Steps(program[k], r)
<1>1. /\ program[k] \in Call /\ k \in Nat \ {0} /\ Base(k - 1) \in Nat
      /\ Len(s) \in Nat /\ Len(s) >= 2
      /\ \A i \in 1 .. Len(s) : i # 1 /\ i # Len(s) => s[i] \in Talk
  BY BarrierCall
<1>2. Len(entered[r]) \in Nat /\ done[r] \in Nat
  BY EnteredBounds
<1>3. Past(r, k, 0)
  BY <1>1, <1>2, BegunBarrier
<1>4. CASE k <= done[r]
  BY <1>4 DEF Past
<1>5. CASE ~ (k <= done[r])
  <2>1. k = done[r] + 1 /\ k - 1 = done[r] /\ InCall(r)
    BY <1>1, <1>2, <1>3, <1>5 DEF Past, InCall
  <2>2. TypeInv /\ PlaceInv /\ Count(r)
    BY Parts DEF IInv
  <2>3. /\ Current(r) = program[k] /\ StepsOf(r) = s
        /\ step[r] \in 1 .. Len(s) + 1
        /\ ~ AtEnd(r) => step[r] \in 1 .. Len(s) /\ Now(r) = s[step[r]]
    BY <2>1, <2>2, NowLemma
  <2>4. Len(entered[r]) = Base(k - 1) + Before(program[k], r, step[r]) + (IF inside[r] THEN 1 ELSE 0)
    BY <2>1, <2>2, <2>3 DEF Count
  <2>5. step[r] >= Len(s)
    <3> SUFFICES ASSUME step[r] < Len(s) PROVE FALSE
      BY <1>1, <2>3
    <3>1. Before(program[k], r, step[r]) = IF step[r] > 1 THEN 1 ELSE 0
      <4>1. ~ (step[r] > Len(s))
        BY <1>1, <2>3
      <4>2. program[k].op \in Begins
        BY DEF IsBarrier, Begins
      <4>. QED  BY <4>1, <4>2 DEF Before
    <3>2. step[r] > 1 /\ inside[r]
      BY <1>1, <1>2, <2>4, <3>1
    <3>3. IsLocalCall(r) /\ ~ AtEnd(r)
      BY <2>2, <3>2 DEF PlaceInv, IsLocalCall
    <3>4. Now(r) \in LocalCall
      BY <2>1, <2>2, <3>3, NowLemma DEF IsLocalCall
    <3>5. Now(r) \in Talk
      BY <1>1, <2>3, <3>2, <3>3
    <3>. QED  BY <3>4, <3>5, Kinds
  <2>. QED  BY <1>1, <2>1, <2>3, <2>5 DEF Past
<1>. QED  BY <1>4, <1>5

\* The local calls of the barrier that are over.
LEMMA OverBarrier ==
  ASSUME IInv, ReleaseInv, NEW k, IsBarrier(k), NEW r \in Rank, NEW q \in Peers(r)
  PROVE  /\ Past(r, k, 1) => Len(entered[q]) >= Base(k - 1) + 1
         /\ k <= done[r] => Len(entered[q]) >= Base(k - 1) + 2
<1> DEFINE b == Base(k - 1)
           n == Len(entered[r])
<1>1. /\ program \in Seq(Call) /\ k \in Nat \ {0} /\ k <= Len(program) /\ Len(program) \in Nat
      /\ b \in Nat /\ Base(k) = b + 2 /\ program[k] \in Call
      /\ Len(Steps(program[k], r)) \in Nat /\ Len(Steps(program[k], r)) >= 2
      /\ LocalCount(program[k]) = 2
      /\ \A j \in 1 .. 2 : LocalOf(program[k], r, j) = LocalBarrier
  BY BarrierCall DEF IsBarrier
<1>2. /\ n \in Nat /\ done[r] \in 0 .. Len(program) /\ Base(done[r]) \in Nat
      /\ Base(done[r]) <= n
      /\ inside[r] => Base(done[r]) < n
  BY EnteredBounds
<1>3. ASSUME NEW j \in 1 .. 2, b + j <= n, b + j < n \/ ~ inside[r]
      PROVE  Len(entered[q]) >= b + j
  <2>1. b + j \in 1 .. n
    BY <1>1, <1>2, <1>3
  <2>2. Calls(r)
    BY Parts DEF IInv
  <2> DEFINE m == b + j
  <2>3. PICK l \in 1 .. Len(program) : \E i \in 1 .. LocalCount(program[l]) :
          m = Base(l - 1) + i /\ entered[r][m].call = LocalOf(program[l], r, i)
    BY <2>1, <2>2 DEF Calls
  <2>4. PICK i \in 1 .. LocalCount(program[l]) :
          m = Base(l - 1) + i /\ entered[r][m].call = LocalOf(program[l], r, i)
    BY <2>3
  <2>5. k \in 1 .. Len(program) /\ j \in 1 .. LocalCount(program[k]) /\ Base(k - 1) + j = Base(l - 1) + i
    BY <1>1, <2>4
  <2>6. k = l /\ j = i
    BY <1>1, <2>5, SamePlace
  <2>7. entered[r][m].call = LocalBarrier
    BY <1>1, <2>4, <2>6
  <2> HIDE DEF m
  <2>8. m \in 1 .. n /\ (m < n \/ ~ inside[r])
    BY <1>3, <2>1 DEF m
  <2>9. Len(entered[q]) >= m
    BY <2>7, <2>8 DEF ReleaseInv
  <2>. QED  BY <2>9 DEF m
<1>4. ASSUME k <= done[r]
      PROVE  b + 2 <= n /\ (b + 2 < n \/ ~ inside[r])
  <2>1. Base(k) <= Base(done[r])
    <3>1. k \in 0 .. Len(program)
      BY <1>1
    <3>. QED  BY <1>1, <1>2, <1>4, <3>1, BaseLemma
  <2>. QED  BY <1>1, <1>2, <2>1
<1>5. ASSUME ~ (k <= done[r]), Past(r, k, 1)
      PROVE  b + 1 <= n /\ (b + 1 < n \/ ~ inside[r])
  <2>1. k = done[r] + 1 /\ done[r] = k - 1 /\ step[r] > 1 /\ step[r] \in Nat
    BY <1>1, <1>2, <1>5 DEF Past, IInv, TypeInv
  <2>2. InCall(r)
    BY <2>1 DEF InCall
  <2>3. Count(r)
    BY Parts DEF IInv
  <2>4. n = b + Before(program[k], r, step[r]) + (IF inside[r] THEN 1 ELSE 0)
    BY <2>1, <2>2, <2>3 DEF Count, Current
  <2>5. Before(program[k], r, step[r]) \in Nat /\ Before(program[k], r, step[r]) >= 1
    <3>1. program[k].op \in Begins
      BY DEF IsBarrier, Begins
    <3>. QED  BY <2>1, <3>1 DEF Before
  <2>. QED  BY <1>1, <1>2, <2>4, <2>5
<1>6. 1 \in 1 .. 2 /\ 2 \in 1 .. 2
  OBVIOUS
<1>7. k <= done[r] => Len(entered[q]) >= b + 2
  BY <1>3, <1>4, <1>6
<1>8. Len(entered[q]) \in Nat
  BY PeersLemma, EnteredBounds
<1>9. Past(r, k, 1) => Len(entered[q]) >= b + 1
  <2>1. CASE k <= done[r]
    BY <1>1, <1>7, <1>8, <2>1
  <2>2. CASE ~ (k <= done[r])
    BY <1>3, <1>5, <1>6, <2>2
  <2>. QED  BY <2>1, <2>2
<1>. QED  BY <1>7, <1>9

\* The lists of steps can be grouped in any way.
LEMMA StepsAssociative ==
  ASSUME NEW x \in Seq(AnyStep), NEW y \in Seq(AnyStep), NEW z \in Seq(AnyStep)
  PROVE  (x \o y) \o z = x \o (y \o z)
BY ConcatAssociative

\* The first coordinator receives before it sends.
LEMMA BarrierOrder ==
  ASSUME NEW r \in Rank, r = CoordinatorAt(0), InOrder,
         NEW i \in 1 .. Len(Barrier(r)), NEW j \in 1 .. Len(Barrier(r)),
         NEW s \in Rank, NEW d \in Rank, NEW g \in Tags, NEW h \in Tags,
         Barrier(r)[i] \in Incoming(s, g), Barrier(r)[j] \in Outgoing(d, h)
  PROVE  i < j
<1> DEFINE S == 1 .. ClusterCount - 1
           others == Ascending(S)
           gather == [l \in DOMAIN others |-> Receive(CoordinatorAt(others[l]), "barrier", "add")]
           down == WaBcast(r, {})
           one == <<LocalBarrier>>
           head == one \o gather
           tail == down \o one
<1>1. S \in SUBSET Cluster /\ 0 \in Cluster /\ 0 \notin S
  BY ClusterAssumption DEF Cluster
<1>2. others \in Seq(Cluster)
  BY <1>1, AscendingType
<1>3. gather \in Seq(AnyStep) /\ \A l \in 1 .. Len(gather) : gather[l].do = "receive"
  <2>1. Len(others) \in Nat /\ DOMAIN others = 1 .. Len(others)
    BY <1>2, LenProperties
  <2>2. \A l \in 1 .. Len(others) : Receive(CoordinatorAt(others[l]), "barrier", "add") \in Talk
    <3> HIDE DEF others
    <3>. QED  BY <1>2, ElementOfSeq, CoordinatorsLemma, ReceiveType DEF Tags
  <2>3. \A l \in 1 .. Len(others) : Receive(CoordinatorAt(others[l]), "barrier", "add").do = "receive"
    BY DEF Receive
  <2> HIDE DEF others
  <2>. QED  BY <2>1, <2>2, <2>3 DEF AnyStep
<1>4. down \in Seq(AnyStep) /\ \A l \in 1 .. Len(down) : down[l].do = "send"
  <2> DEFINE a == Ascending(Cluster \ {Home(r)})
  <2>1. a \in Seq(Cluster)
    BY AscendingType
  <2>2. down = [l \in DOMAIN a |-> Send(CoordinatorAt(a[l]), "bcast", {})]
    BY DEF WaBcast
  <2>3. down \in Seq(Talk)
    BY WaBcastType
  <2>4. Len(a) \in Nat /\ DOMAIN a = 1 .. Len(a)
    BY <2>1, LenProperties
  <2> HIDE DEF a, down
  <2>5. Len(down) = Len(a) /\ \A l \in 1 .. Len(a) : down[l] = Send(CoordinatorAt(a[l]), "bcast", {})
    BY <2>2, <2>4
  <2>6. \A q : Send(q, "bcast", {}).do = "send"
    BY DEF Send
  <2>7. \A l \in 1 .. Len(down) : down[l].do = "send"
    BY <2>5, <2>6
  <2>. QED  BY <2>3, <2>7, SeqMonotonic DEF AnyStep
<1>5. one \in Seq(AnyStep) /\ Len(one) = 1 /\ one[1].do = "barrier"
  <2>1. LocalBarrier \in AnyStep
    BY DEF AnyStep, LocalCall
  <2>. QED  BY <2>1, SingleType DEF LocalBarrier
<1>6. Barrier(r) = head \o tail
  <2>1. ~ \E l \in 1 .. ClusterCount - 1 : r = CoordinatorAt(l)
    BY <1>1, InOrderLemma
  <2>2. Barrier(r) = one \o (gather \o down) \o << >> \o one
    BY <2>1 DEF Barrier, When
  <2> HIDE DEF gather, down, one
  <2> DEFINE T == Seq(AnyStep)
  <2>8. ASSUME NEW x \in T, NEW y \in T PROVE x \o y \in T
    BY ConcatProperties
  <2>9. ASSUME NEW x \in T, NEW y \in T, NEW z \in T PROVE (x \o y) \o z = x \o (y \o z)
    BY StepsAssociative
  <2>10. gather \in T /\ down \in T /\ one \in T
    BY <1>3, <1>4, <1>5
  <2>3. /\ one \o (gather \o down) \o << >> = one \o (gather \o down)
    BY <1>3, <1>4, <1>5, ConcatProperties, ConcatEmptySeq
  <2> HIDE DEF T
  <2>4. one \o (gather \o down) = (one \o gather) \o down
    BY <2>9, <2>10
  <2>5. ((one \o gather) \o down) \o one = (one \o gather) \o (down \o one)
    <3> DEFINE x == one \o gather
    <3>1. x \in T
      BY <2>8, <2>10
    <3> HIDE DEF x
    <3>2. (x \o down) \o one = x \o (down \o one)
      BY <2>9, <2>10, <3>1
    <3>. QED  BY <3>2 DEF x
  <2>. QED  BY <2>2, <2>3, <2>4, <2>5
<1> HIDE DEF gather, down, one
<1>7. head \in Seq(AnyStep) /\ tail \in Seq(AnyStep) /\ Len(head) \in Nat /\ Len(tail) \in Nat
      /\ (\A l \in 1 .. Len(head) : head[l].do # "send")
      /\ (\A l \in 1 .. Len(tail) : tail[l].do # "receive")
  <2>1. /\ head \in Seq(AnyStep) /\ Len(head) = Len(one) + Len(gather)
        /\ \A l \in 1 .. Len(one) + Len(gather) : head[l] = IF l <= Len(one) THEN one[l] ELSE gather[l - Len(one)]
    BY <1>3, <1>5, ConcatProperties
  <2>2. /\ tail \in Seq(AnyStep) /\ Len(tail) = Len(down) + Len(one)
        /\ \A l \in 1 .. Len(down) + Len(one) : tail[l] = IF l <= Len(down) THEN down[l] ELSE one[l - Len(down)]
    BY <1>4, <1>5, ConcatProperties
  <2>3. Len(gather) \in Nat /\ Len(down) \in Nat
    BY <1>3, <1>4, LenProperties
  <2> HIDE DEF head, tail
  <2>4. \A l \in 1 .. Len(head) : head[l].do # "send"
    <3> SUFFICES ASSUME NEW l \in 1 .. Len(head) PROVE head[l].do # "send"
      OBVIOUS
    <3>1. CASE l = 1
      BY <1>5, <2>1, <2>3, <3>1
    <3>2. CASE l # 1
      <4>1. ~ (l <= Len(one)) /\ l - Len(one) \in 1 .. Len(gather) /\ l \in 1 .. Len(one) + Len(gather)
        BY <1>5, <2>1, <2>3, <3>2
      <4>2. head[l] = gather[l - Len(one)]
        BY <2>1, <4>1
      <4>. QED  BY <1>3, <4>1, <4>2
    <3>. QED  BY <3>1, <3>2
  <2>5. \A l \in 1 .. Len(tail) : tail[l].do # "receive"
    <3> SUFFICES ASSUME NEW l \in 1 .. Len(tail) PROVE tail[l].do # "receive"
      OBVIOUS
    <3>0. l \in 1 .. Len(down) + Len(one)
      BY <2>2
    <3>1. CASE l <= Len(down)
      <4>1. l \in 1 .. Len(down) /\ tail[l] = down[l]
        BY <2>2, <2>3, <3>0, <3>1
      <4>. QED  BY <1>4, <4>1
    <3>2. CASE ~ (l <= Len(down))
      <4>1. l - Len(down) = 1
        BY <1>5, <2>3, <3>0, <3>2
      <4>2. tail[l] = one[1]
        BY <2>2, <3>0, <3>2, <4>1
      <4>. QED  BY <1>5, <4>2
    <3>. QED  BY <3>1, <3>2
  <2>. QED  BY <2>1, <2>2, <2>4, <2>5, LenProperties
<1> HIDE DEF head, tail
<1>8. /\ Len(Barrier(r)) = Len(head) + Len(tail)
      /\ \A l \in 1 .. Len(head) + Len(tail) :
           Barrier(r)[l] = IF l <= Len(head) THEN head[l] ELSE tail[l - Len(head)]
  BY <1>6, <1>7, ConcatProperties
<1>9. Barrier(r)[i].do = "receive" /\ Barrier(r)[j].do = "send"
  BY DEF Incoming, Outgoing
<1>10. i <= Len(head)
  <2> SUFFICES ASSUME ~ (i <= Len(head)) PROVE FALSE
    OBVIOUS
  <2>1. i - Len(head) \in 1 .. Len(tail) /\ i \in 1 .. Len(head) + Len(tail)
    BY <1>7, <1>8
  <2>. QED  BY <1>7, <1>8, <1>9, <2>1
<1>11. j > Len(head)
  <2> SUFFICES ASSUME ~ (j > Len(head)) PROVE FALSE
    OBVIOUS
  <2>1. j <= Len(head) /\ j \in 1 .. Len(head) /\ j \in 1 .. Len(head) + Len(tail)
    BY <1>7, <1>8
  <2>. QED  BY <1>7, <1>8, <1>9, <2>1
<1>. QED  BY <1>7, <1>8, <1>10, <1>11

\* The coordinators have begun the messages of a barrier that one has passed: the
\* first has sent to it after it has received from all.
LEMMA CoordinatorsThrough ==
  ASSUME InOrder, IInv, FlowInv, NEW k, IsBarrier(k), NEW c \in Rank, IsCoordinator(c),
         \A i \in 1 .. Len(Steps(program[k], c)) - 1 : Past(c, k, i),
         NEW q \in Rank, IsCoordinator(q)
  PROVE  Past(q, k, 1)
<1> DEFINE z == CoordinatorAt(0)
           p == program[k]
<1>1. Balanced
  BY BalancedHolds
<1>2. z \in Rank /\ IsCoordinator(z)
  <2>1. 0 \in Cluster
    BY ClusterAssumption DEF Cluster
  <2>. QED  BY <2>1, InOrderLemma
<1>3. k \in 1 .. Len(program) /\ p.op = "barrier"
  BY DEF IsBarrier
<1>4. "barrier" \in Tags /\ "bcast" \in Tags
  BY DEF Tags
<1>5. p \in Call
  BY <1>2, BarrierCall
<1>6. Steps(p, z) = Barrier(z)
  BY <1>3 DEF Steps
<1> HIDE DEF z
<1>7. ASSUME NEW r \in Rank
      PROVE  /\ Len(Steps(p, r)) \in Nat /\ Len(Steps(p, r)) >= 2
             /\ \A i \in 1 .. Len(Steps(p, r)) : Steps(p, r)[i] \in Talk => i # 1 /\ i # Len(Steps(p, r))
             /\ done[r] \in Nat /\ step[r] \in Nat
  <2>1. done[r] \in Nat /\ step[r] \in Nat
    BY DEF IInv, TypeInv
  <2>. QED  BY <2>1, BarrierCall
<1>8. ASSUME NEW r \in Rank, NEW M, M \in SUBSET Talk, k \in PassedIn(r, M)
      PROVE  \E i \in 2 .. Len(Steps(p, r)) - 1 : Steps(p, r)[i] \in M /\ Past(r, k, i)
  <2>1. PICK i \in 1 .. Len(Steps(p, r)) : Steps(p, r)[i] \in M /\ Past(r, k, i)
    BY <1>8 DEF PassedIn, Past
  <2>2. Steps(p, r)[i] \in Talk
    BY <1>8, <2>1
  <2>. QED  BY <1>7, <2>1, <2>2
<1>9. \A s, d \in Rank, g \in Tags : Outgoing(d, g) \in SUBSET Talk /\ Incoming(s, g) \in SUBSET Talk
  BY DEF Outgoing, Incoming
<1>10. ASSUME NEW r \in Rank, NEW i \in 1 .. Len(Steps(p, r)), NEW j \in 1 .. i, Past(r, k, i)
       PROVE  Past(r, k, j)
  BY <1>7, <1>10 DEF Past
\* Where the first coordinator is.
<1>11. \A i \in 1 .. Len(Steps(p, z)) : (\E s \in Rank : Steps(p, z)[i] \in Incoming(s, "barrier")) => Past(z, k, i)
  <2> SUFFICES ASSUME NEW i \in 1 .. Len(Steps(p, z)), NEW s \in Rank, Steps(p, z)[i] \in Incoming(s, "barrier")
               PROVE  Past(z, k, i)
    OBVIOUS
  <2>1. CASE c = z
    <3>1. Steps(p, z)[i] \in Talk
      BY <1>2, <1>4, <1>9
    <3>2. i \in 1 .. Len(Steps(p, z)) - 1
      BY <1>2, <1>7, <3>1
    <3>. QED  BY <2>1, <3>2
  <2>2. CASE c # z
    <3>1. HasMessage(p, z, c, "bcast")
      BY <1>2, <1>3, <2>2 DEF HasMessage, z
    <3>2. PICK m \in 1 .. Len(Steps(p, c)) : Steps(p, c)[m] \in Incoming(z, "bcast")
      BY <1>1, <1>2, <1>4, <1>5, <3>1, HasStep
    <3>3. Steps(p, c)[m] \in Talk
      BY <1>2, <1>4, <1>9, <3>2
    <3>4. m \in 1 .. Len(Steps(p, c)) - 1
      BY <1>7, <3>3
    <3>5. k \in PassedIn(c, Incoming(z, "bcast"))
      BY <1>3, <3>2, <3>4 DEF PassedIn, Past
    <3>6. k \in PassedIn(z, Outgoing(c, "bcast"))
      BY <1>1, <1>2, <1>4, <3>5, ReceivedSent
    <3>7. PICK j \in 1 .. Len(Steps(p, z)) : Steps(p, z)[j] \in Outgoing(c, "bcast") /\ Past(z, k, j)
      BY <3>6 DEF PassedIn, Past
    <3>8. i < j
      BY <1>2, <1>4, <1>6, <3>7, BarrierOrder DEF z
    <3>9. i \in 1 .. j
      BY <1>2, <1>7, <3>8
    <3>. QED  BY <1>2, <1>10, <3>7, <3>9
  <2>. QED  BY <2>1, <2>2
<1>12. CASE q # z
  <2>1. HasMessage(p, q, z, "barrier")
    BY <1>2, <1>3, <1>12 DEF HasMessage, z
  <2>2. PICK i \in 1 .. Len(Steps(p, z)) : Steps(p, z)[i] \in Incoming(q, "barrier")
    BY <1>1, <1>2, <1>4, <1>5, <2>1, HasStep
  <2>3. Past(z, k, i)
    BY <1>11, <2>2
  <2>4. k \in PassedIn(z, Incoming(q, "barrier"))
    BY <1>3, <2>2, <2>3 DEF PassedIn, Past
  <2>5. k \in PassedIn(q, Outgoing(z, "barrier"))
    BY <1>1, <1>2, <1>4, <2>4, ReceivedSent
  <2>6. PICK i2 \in 2 .. Len(Steps(p, q)) - 1 : Past(q, k, i2)
    BY <1>2, <1>4, <1>8, <1>9, <2>5
  <2>7. i2 \in 1 .. Len(Steps(p, q)) /\ 1 \in 1 .. i2
    BY <1>7
  <2>. QED  BY <1>10, <2>6, <2>7
<1>13. CASE q = z
  <2>1. CASE c = z
    <3>1. 1 \in 1 .. Len(Steps(p, z)) - 1
      BY <1>2, <1>7
    <3>. QED  BY <1>13, <2>1, <3>1
  <2>2. CASE c # z
    <3>1. HasMessage(p, c, z, "barrier")
      BY <1>2, <1>3, <2>2 DEF HasMessage, z
    <3>2. PICK i \in 1 .. Len(Steps(p, z)) : Steps(p, z)[i] \in Incoming(c, "barrier")
      BY <1>1, <1>2, <1>4, <1>5, <3>1, HasStep
    <3>3. Past(z, k, i)
      BY <1>11, <3>2
    <3>4. 1 \in 1 .. i
      BY <1>2, <1>7
    <3>. QED  BY <1>2, <1>10, <1>13, <3>3, <3>4
  <2>. QED  BY <2>1, <2>2
<1>. QED  BY <1>12, <1>13

\* No member returns from EMPI_Barrier before every member has called it, whatever the
\* programs, the clusters and the pace, provided that messaging_bcast finds every other
\* coordinator at its place: the last local barrier of a cluster waits for its
\* coordinator, which has heard from the first one, which has heard from all, each of
\* them after the first local barrier of its own cluster.
THEOREM BarrierHoldsAlways ==
  ASSUME InOrder
  PROVE  Spec => []BarrierHolds
<1>1. IInv /\ FlowInv /\ ReleaseInv => BarrierHolds
  <2> SUFFICES ASSUME IInv, FlowInv, ReleaseInv, NEW k \in DOMAIN program,
                      program[k].op = "barrier", NEW r \in Rank, NEW q \in Rank, done[r] >= k
               PROVE  done[q] >= k \/ (done[q] = k - 1 /\ InCall(q))
    BY DEF BarrierHolds
  <2>1. IsBarrier(k)
    BY ProgramAssumption, LenProperties DEF IInv, TypeInv, IsBarrier
  <2>2. k \in Nat \ {0} /\ done[r] \in Nat /\ done[q] \in Nat /\ step[q] \in Nat
    BY <2>1, BarrierCall DEF IInv, TypeInv
  <2>3. ASSUME NEW p \in Rank
        PROVE  /\ MyCoordinator(p) \in Rank /\ IsCoordinator(MyCoordinator(p))
               /\ MyCoordinator(p) \in Peers(p) /\ p \in Peers(MyCoordinator(p))
    <3>1. MyCoordinator(p) \in Rank /\ IsLocal(MyCoordinator(p), p) /\ IsLocal(p, MyCoordinator(p))
          /\ p \in Peers(p)
      BY PeersLemma DEF IsLocal
    <3>2. Peers(MyCoordinator(p)) = Peers(p) /\ MyCoordinator(p) \in Peers(p)
      <4>1. Peers(MyCoordinator(p)) = Peers(p)
        BY <3>1, PeersLemma
      <4>. QED  BY <3>1, <4>1, PeersLemma
    <3>. QED  BY <3>1, <3>2 DEF IsCoordinator, MyCoordinator
  <2>4. Len(entered[MyCoordinator(r)]) >= Base(k - 1) + 2
    <3>1. k <= done[r]
      BY <2>2
    <3>. QED  BY <2>1, <2>3, <3>1, OverBarrier
  <2>5. \A i \in 1 .. Len(Steps(program[k], MyCoordinator(r))) - 1 : Past(MyCoordinator(r), k, i)
    BY <2>1, <2>3, <2>4, EndingBarrier
  <2>6. Past(MyCoordinator(q), k, 1)
    BY <2>1, <2>3, <2>5, CoordinatorsThrough
  <2>7. Len(entered[q]) >= Base(k - 1) + 1
    BY <2>1, <2>3, <2>6, OverBarrier
  <2>8. Past(q, k, 0)
    BY <2>1, <2>7, BegunBarrier
  <2>. QED  BY <2>2, <2>8 DEF Past, InCall
<1>. QED  BY <1>1, FlowInvariant, PTL
=============================================================================
