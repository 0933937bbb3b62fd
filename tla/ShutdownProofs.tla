--------------------------- MODULE ShutdownProofs ---------------------------
(***************************************************************************)
(* Proofs about Shutdown.                                                  *)
(*                                                                         *)
(* Two chains are carried by one invariant.  From a reply back to the      *)
(* requests: a reply exists only when every process has asked, and a       *)
(* process asks only when its data has arrived.  From a closed socket back *)
(* to the loops: a gateway closes after its master has read CLOSE_LINK,    *)
(* the server sends it when all masters have reported, and a master        *)
(* reports when no gateway of its cluster is in its loop.  What ties them  *)
(* is that the reply to a master is the last on its stream, so that the    *)
(* next message a master reads really is CLOSE_LINK.                       *)
(***************************************************************************)
EXTENDS Shutdown, TLAPS

-----------------------------------------------------------------------------
(* The inductive invariant *)

Elements(q) == { q[i] : i \in DOMAIN q }

\* x is at the end of q, if it is there.
OnlyLast(q, x) == \A i \in DOMAIN q : q[i] = x => i = Len(q)

\* A request is in one place only until it is in.
Requests ==
  /\ \A c \in Cluster : \A a \in toMaster[c] :
       phase[a] # "running" /\ a \notin participants /\ Home[a] = c /\ a \notin Elements(toServer[c])
  /\ \A c \in Cluster : \A a \in App :
       a \in Elements(toServer[c]) => phase[a] # "running" /\ a \notin participants /\ Home[a] = c
  /\ \A a \in participants : phase[a] # "running"

\* Who has a reply, or will have, has it because all requests are in.
Answered ==
  /\ \A c \in Cluster : unanswered[c] # {} => participants = App
  /\ \A c \in Cluster : \A p \in Reply :
       p \in Elements(toCluster[c]) \cup Elements(serverIn[c]) =>
         participants = App /\ ClusterOf(p) = c
  /\ \A p \in toProcess : participants = App
  /\ \A g \in Gateways : done[g] => participants = App
  /\ \A a \in App : phase[a] \in {"barrier", "stopped"} => participants = App
  /\ \A c, d \in Cluster : unanswered[c] # {} /\ unanswered[d] # {} => c = d

\* The reply to a master is the last for its cluster.
MasterLast ==
  \A c \in Cluster :
    /\ OnlyLast(toCluster[c], Master(c))
    /\ OnlyLast(serverIn[c], Master(c))
    /\ Master(c) \notin toProcess
    /\ Master(c) \in Elements(serverIn[c]) => toCluster[c] = << >>
    /\ done[Master(c)] => /\ serverIn[c] = << >>
                          /\ Elements(toCluster[c]) \subseteq {CloseLink}
    /\ (\/ Master(c) \in Elements(toCluster[c])
        \/ Master(c) \in Elements(serverIn[c])
        \/ done[Master(c)])
       => \A d \in Cluster : \A p \in unanswered[d] : ClusterOf(p) # c

Past == {"cleanup", "gateways", "closed"}

\* From closed sockets back to the loops.
Stages ==
  /\ \A g \in Gateways : stage[g] # "loop" => done[g]
  /\ \A g \in Gateways : stage[g] \in Past => AllInWorld(g[1])
  /\ \A c \in Cluster : CloseLink \in Elements(toServer[c]) => stage[Master(c)] \in Past
  /\ \A c \in clustersDone : stage[Master(c)] \in Past
  /\ \A c \in Cluster : CloseLink \in Elements(toCluster[c]) => c \in linksClosed
  /\ \A c \in linksClosed : clustersDone = Cluster
  /\ \A c \in Cluster : stage[Master(c)] \in {"gateways", "closed"} => clustersDone = Cluster
  /\ \A g \in Gateways : stage[g] = "closed" => AllInGateways(g[1])

\* A process that has asked has its data.
DataDone == \A m \in Data : phase[m[2]] # "running" => place[m] = "received"

IInv == TypeOK /\ Requests /\ Answered /\ MasterLast /\ Stages /\ DataDone

-----------------------------------------------------------------------------
(* Lemmas *)

\* Masters are gateways, places have a cluster.
LEMMA PlacesLemma ==
  /\ \A c \in Cluster : /\ Master(c) \in Gateways /\ Master(c) \notin App
                        /\ Master(c)[1] = c /\ ClusterOf(Master(c)) = c
                        /\ Master(c) # CloseLink
  /\ CloseLink \notin Reply
  /\ \A p \in Reply : ClusterOf(p) \in Cluster
  /\ \A g \in Gateways : g[1] \in Cluster /\ g \notin App /\ ClusterOf(g) = g[1]
  /\ \A a \in App : Home[a] \in Cluster /\ a \notin Gateways
  /\ \A m \in Data : m[1] \in App /\ m[2] \in App
BY PlacesAssumption, CloseLinkAssumption DEF Gateways, Master, ClusterOf, Reply

\* Put and Take, seen through the elements of the sequence.
LEMMA AppendLemma ==
  ASSUME NEW S, NEW q \in Seq(S), NEW x \in S
  PROVE  /\ Append(q, x) \in Seq(S)
         /\ Elements(Append(q, x)) = Elements(q) \cup {x}
         /\ Distinct(q) /\ x \notin Elements(q) => Distinct(Append(q, x))
         /\ \A y : y \notin Elements(q) => OnlyLast(Append(q, x), y)
<1>1. /\ Append(q, x) \in Seq(S)
      /\ DOMAIN Append(q, x) = 1 .. Len(q) + 1
      /\ Len(Append(q, x)) = Len(q) + 1 /\ Len(q) \in Nat
      /\ DOMAIN q = 1 .. Len(q)
      /\ Append(q, x)[Len(q) + 1] = x
      /\ \A i \in 1 .. Len(q) : Append(q, x)[i] = q[i]
  OBVIOUS
<1> DEFINE r == Append(q, x)
<1> HIDE DEF r
<1>2. Elements(r) = Elements(q) \cup {x}
  BY <1>1 DEF Elements, r
<1>3. Distinct(q) /\ x \notin Elements(q) => Distinct(r)
  BY <1>1 DEF Elements, Distinct, r
<1>4. \A y : y \notin Elements(q) => OnlyLast(r, y)
  BY <1>1 DEF Elements, OnlyLast, r
<1>. QED  BY <1>1, <1>2, <1>3, <1>4 DEF r

LEMMA TailLemma ==
  ASSUME NEW S, NEW q \in Seq(S), q # << >>
  PROVE  /\ Tail(q) \in Seq(S)
         /\ Head(q) \in S /\ Head(q) \in Elements(q)
         /\ Elements(Tail(q)) \subseteq Elements(q)
         /\ Distinct(q) => Distinct(Tail(q)) /\ Head(q) \notin Elements(Tail(q))
<1>1. /\ Tail(q) \in Seq(S) /\ Len(q) \in Nat /\ Len(q) > 0
      /\ DOMAIN q = 1 .. Len(q)
      /\ Head(q) = q[1] /\ Head(q) \in S
      /\ DOMAIN Tail(q) = 1 .. Len(q) - 1
      /\ \A i \in 1 .. Len(q) - 1 : Tail(q)[i] = q[i + 1]
  OBVIOUS
<1> DEFINE r == Tail(q)
<1> HIDE DEF r
<1>2. Head(q) \in Elements(q) /\ Elements(r) \subseteq Elements(q)
  BY <1>1 DEF Elements, r
<1>3. Distinct(q) => Distinct(r) /\ Head(q) \notin Elements(r)
  BY <1>1 DEF Elements, Distinct, r
<1>. QED  BY <1>1, <1>2, <1>3 DEF r

LEMMA TailLastLemma ==
  ASSUME NEW S, NEW q \in Seq(S), q # << >>, NEW y, OnlyLast(q, y)
  PROVE  OnlyLast(Tail(q), y) /\ (Head(q) = y => Tail(q) = << >>)
<1>1. /\ Tail(q) \in Seq(S) /\ Len(q) \in Nat /\ Len(q) > 0
      /\ DOMAIN q = 1 .. Len(q)
      /\ Head(q) = q[1]
      /\ Len(Tail(q)) = Len(q) - 1
      /\ DOMAIN Tail(q) = 1 .. Len(q) - 1
      /\ \A i \in 1 .. Len(q) - 1 : Tail(q)[i] = q[i + 1]
  OBVIOUS
<1> DEFINE r == Tail(q)
<1> HIDE DEF r
<1>2. OnlyLast(r, y)
  BY <1>1 DEF OnlyLast, r
<1>3. Head(q) = y => r = << >>
  <2> SUFFICES ASSUME q[1] = y PROVE r = << >>
    BY <1>1
  <2>1. Len(q) = 1
    BY <1>1 DEF OnlyLast
  <2>. QED  BY <1>1, <2>1 DEF r
<1>. QED  BY <1>2, <1>3 DEF r

LEMMA EmptyLemma ==
  /\ Elements(<< >>) = {} /\ Distinct(<< >>)
  /\ \A y : OnlyLast(<< >>, y)
BY DEF Elements, Distinct, OnlyLast

\* r is the family q of sequences with x put at the end of, or the head taken
\* from, the one of c.
IsPut(q, r, c, x) ==
  /\ \A d \in Cluster : d # c => r[d] = q[d]
  /\ \A d \in Cluster : \A y : y \in Elements(r[d]) => y \in Elements(q[d]) \/ (d = c /\ y = x)
  /\ \A d \in Cluster : Distinct(q[d]) /\ x \notin Elements(q[d]) => Distinct(r[d])
  /\ \A y : y \notin Elements(q[c]) => OnlyLast(r[c], y)

IsTake(q, r, c) ==
  /\ \A d \in Cluster : d # c => r[d] = q[d]
  /\ \A d \in Cluster : \A y : y \in Elements(r[d]) => y \in Elements(q[d])
  /\ \A d \in Cluster : Distinct(q[d]) => Distinct(r[d])
  /\ \A d \in Cluster : \A y : OnlyLast(q[d], y) => OnlyLast(r[d], y)
  /\ Head(q[c]) \in Elements(q[c])
  /\ Distinct(q[c]) => Head(q[c]) \notin Elements(r[c])
  /\ OnlyLast(q[c], Head(q[c])) => r[c] = << >>

LEMMA PutLemma ==
  ASSUME NEW S, NEW q \in [Cluster -> Seq(S)], NEW c \in Cluster, NEW x \in S
  PROVE  Put(q, c, x) \in [Cluster -> Seq(S)] /\ IsPut(q, Put(q, c, x), c, x)
<1>1. /\ Put(q, c, x)[c] = Append(q[c], x) /\ q[c] \in Seq(S)
      /\ \A d \in Cluster : d # c => Put(q, c, x)[d] = q[d]
  BY DEF Put
<1>2. Append(q[c], x) \in Seq(S)
  BY <1>1, AppendLemma
<1>3. Put(q, c, x) \in [Cluster -> Seq(S)]
  BY <1>2 DEF Put
<1> DEFINE r == Put(q, c, x)
           s == q[c]
<1>4. /\ \A d \in Cluster : d # c => r[d] = q[d]
      /\ r[c] = Append(s, x) /\ q[c] = s /\ s \in Seq(S)
  BY <1>1
<1> HIDE DEF r, s
<1>5. /\ Elements(r[c]) = Elements(s) \cup {x}
      /\ Distinct(s) /\ x \notin Elements(s) => Distinct(r[c])
      /\ \A y : y \notin Elements(s) => OnlyLast(r[c], y)
  BY <1>4, AppendLemma
<1>6. IsPut(q, r, c, x)
  BY <1>4, <1>5 DEF IsPut
<1>. QED  BY <1>3, <1>6 DEF r

LEMMA TakeLemma ==
  ASSUME NEW S, NEW q \in [Cluster -> Seq(S)], NEW c \in Cluster, q[c] # << >>
  PROVE  Take(q, c) \in [Cluster -> Seq(S)] /\ Head(q[c]) \in S /\ IsTake(q, Take(q, c), c)
<1> DEFINE s == q[c]
<1>1. /\ Take(q, c)[c] = Tail(s) /\ s \in Seq(S) /\ s # << >>
      /\ \A d \in Cluster : d # c => Take(q, c)[d] = q[d]
  BY DEF Take
<1>2. /\ Tail(s) \in Seq(S) /\ Head(s) \in S /\ Head(s) \in Elements(s)
      /\ Elements(Tail(s)) \subseteq Elements(s)
      /\ Distinct(s) => Distinct(Tail(s)) /\ Head(s) \notin Elements(Tail(s))
  <2> HIDE DEF s
  <2>. QED  BY <1>1, TailLemma
<1>3. \A y : OnlyLast(s, y) => OnlyLast(Tail(s), y) /\ (Head(s) = y => Tail(s) = << >>)
  <2> HIDE DEF s
  <2>. QED  BY <1>1, TailLastLemma
<1>4. Take(q, c) \in [Cluster -> Seq(S)]
  BY <1>2 DEF Take
<1> DEFINE r == Take(q, c)
<1>5. /\ \A d \in Cluster : d # c => r[d] = q[d]
      /\ r[c] = Tail(s) /\ q[c] = s
  BY <1>1
<1> HIDE DEF r, s
<1>6. IsTake(q, r, c)
  BY <1>2, <1>3, <1>5 DEF IsTake
<1>. QED  BY <1>1, <1>2, <1>4, <1>6 DEF r, s

LEMMA InitStep == Init => IInv
<1> SUFFICES ASSUME Init PROVE IInv
  OBVIOUS
<1>1. TypeOK
  BY EmptyLemma DEF Init, TypeOK
<1>2. Requests
  BY EmptyLemma DEF Init, Requests
<1>3. Answered
  BY EmptyLemma DEF Init, Answered
<1>4. MasterLast
  BY EmptyLemma, PlacesLemma DEF Init, MasterLast
<1>5. Stages
  BY EmptyLemma, PlacesLemma DEF Init, Stages, Past
<1>6. DataDone
  BY PlacesLemma DEF Init, DataDone
<1>. QED  BY <1>1, <1>2, <1>3, <1>4, <1>5, <1>6 DEF IInv

LEMMA MoveStep ==
  ASSUME IInv, NEW m \in Data, NEW from, NEW to \in {"gateway", "wire", "mpi", "received"},
         Move(m, from, to), from # "received"
  PROVE  IInv'
<1>1. TypeOK'
  BY DEF IInv, TypeOK, Move, gatewayVars, streams, serverVars
<1>2. Requests'
  BY DEF IInv, Requests, Move, streams, serverVars
<1>3. Answered'
  BY DEF IInv, Answered, Move, gatewayVars, streams, serverVars
<1>4. MasterLast'
  BY DEF IInv, MasterLast, Move, gatewayVars, streams, serverVars
<1>5. Stages'
  BY DEF IInv, Stages, AllInWorld, AllInGateways, Move, gatewayVars, streams, serverVars
<1>6. DataDone'
  BY DEF IInv, DataDone, Move
<1>. QED  BY <1>1, <1>2, <1>3, <1>4, <1>5, <1>6 DEF IInv

LEMMA FinalizeStep ==
  ASSUME IInv, NEW a \in App, Finalize(a)
  PROVE  IInv'
<1>1. TypeOK'
  BY DEF IInv, TypeOK, Finalize, gatewayVars, serverVars
<1>2. Requests'
  BY DEF IInv, Requests, Finalize, serverVars, TypeOK
<1>3. Answered'
  <2>1. (\A d \in Cluster : unanswered[d] # {} => participants = App)'
    BY DEF IInv, Answered, Finalize, serverVars
  <2>2. (\A d \in Cluster : \A x \in Reply :
         x \in Elements(toCluster[d]) \cup Elements(serverIn[d]) =>
           participants = App /\ ClusterOf(x) = d)'
    BY DEF IInv, Answered, Finalize, serverVars
  <2>3. (\A x \in toProcess : participants = App)'
    BY DEF IInv, Answered, Finalize, serverVars
  <2>4. (\A h \in Gateways : done[h] => participants = App)'
    BY DEF IInv, Answered, Finalize, gatewayVars, serverVars
  <2>5. (\A b \in App : phase[b] \in {"barrier", "stopped"} => participants = App)'
    BY DEF IInv, Answered, Finalize, serverVars
  <2>6. (\A d, e \in Cluster : unanswered[d] # {} /\ unanswered[e] # {} => d = e)'
    BY DEF IInv, Answered, Finalize, serverVars
  <2>. QED  BY <2>1, <2>2, <2>3, <2>4, <2>5, <2>6 DEF Answered
<1>4. MasterLast'
  BY DEF IInv, MasterLast, Finalize, gatewayVars, serverVars
<1>5. Stages'
  BY DEF IInv, Stages, AllInWorld, AllInGateways, Finalize, gatewayVars, serverVars
<1>6. DataDone'
  BY DEF IInv, DataDone, Finalize
<1>. QED  BY <1>1, <1>2, <1>3, <1>4, <1>5, <1>6 DEF IInv

LEMMA FinalizeReplyStep ==
  ASSUME IInv, NEW a \in App, FinalizeReply(a)
  PROVE  IInv'
<1>1. TypeOK'
  BY DEF IInv, TypeOK, FinalizeReply, gatewayVars, serverVars
<1>2. Requests'
  BY DEF IInv, Requests, FinalizeReply, serverVars
<1>3. Answered'
  BY DEF IInv, Answered, FinalizeReply, serverVars
<1>4. MasterLast'
  BY DEF IInv, MasterLast, FinalizeReply, gatewayVars, serverVars
<1>5. Stages'
  BY DEF IInv, Stages, AllInWorld, AllInGateways, FinalizeReply, gatewayVars, serverVars
<1>6. DataDone'
  BY DEF IInv, DataDone, FinalizeReply
<1>. QED  BY <1>1, <1>2, <1>3, <1>4, <1>5, <1>6 DEF IInv

LEMMA StopStep ==
  ASSUME IInv, NEW a \in App, Stop(a)
  PROVE  IInv'
<1>1. TypeOK'
  BY DEF IInv, TypeOK, Stop, gatewayVars, streams, serverVars
<1>2. Requests'
  BY DEF IInv, Requests, Stop, streams, serverVars
<1>3. Answered'
  BY DEF IInv, Answered, Stop, streams, serverVars
<1>4. MasterLast'
  BY DEF IInv, MasterLast, Stop, gatewayVars, streams, serverVars
<1>5. Stages'
  BY DEF IInv, Stages, AllInWorld, AllInGateways, Stop, gatewayVars, streams, serverVars
<1>6. DataDone'
  BY DEF IInv, DataDone, Stop
<1>. QED  BY <1>1, <1>2, <1>3, <1>4, <1>5, <1>6 DEF IInv

LEMMA ForwardRequestStep ==
  ASSUME IInv, NEW c \in Cluster, NEW a \in App, ForwardRequest(c, a)
  PROVE  IInv'
<1>1. toServer \in [Cluster -> Seq(App \cup {CloseLink})] /\ c \in Cluster /\ a \in App \cup {CloseLink}
  BY PlacesLemma DEF IInv, TypeOK
<1>2. toServer' \in [Cluster -> Seq(App \cup {CloseLink})] /\ IsPut(toServer, toServer', c, a)
  BY <1>1, PutLemma DEF ForwardRequest
<1>3. TypeOK'
  BY <1>2 DEF IInv, TypeOK, Requests, ForwardRequest, IsPut, gatewayVars, serverVars
<1>4. Requests'
  <2>1. (\A d \in Cluster : \A b \in toMaster[d] :
         phase[b] # "running" /\ b \notin participants /\ Home[b] = d /\ b \notin Elements(toServer[d]))'
    BY <1>2 DEF IInv, Requests, ForwardRequest, IsPut, serverVars, TypeOK
  <2>2. (\A d \in Cluster : \A b \in App :
         b \in Elements(toServer[d]) => phase[b] # "running" /\ b \notin participants /\ Home[b] = d)'
    <3> SUFFICES ASSUME NEW d \in Cluster, NEW b \in App, b \in Elements(toServer'[d])
                 PROVE  phase'[b] # "running" /\ b \notin participants' /\ Home[b] = d
      OBVIOUS
    <3>1. b \in Elements(toServer[d]) \/ (d = c /\ b = a)
      BY <1>2 DEF IsPut
    <3>. QED  BY <3>1 DEF IInv, Requests, ForwardRequest, serverVars
  <2>3. (\A b \in participants : phase[b] # "running")'
    BY DEF IInv, Requests, ForwardRequest, serverVars
  <2>. QED  BY <2>1, <2>2, <2>3 DEF Requests
<1>5. Answered'
  BY DEF IInv, Answered, ForwardRequest, gatewayVars, serverVars
<1>6. MasterLast'
  BY DEF IInv, MasterLast, ForwardRequest, gatewayVars, serverVars
<1>7. Stages'
  <2>1. (\A h \in Gateways : stage[h] # "loop" => done[h])'
    BY DEF IInv, Stages, ForwardRequest, gatewayVars
  <2>2. (\A h \in Gateways : stage[h] \in Past => AllInWorld(h[1]))'
    BY DEF IInv, Stages, AllInWorld, ForwardRequest, gatewayVars
  <2>3. (\A d \in Cluster : CloseLink \in Elements(toServer[d]) => stage[Master(d)] \in Past)'
    <3>1. \A d \in Cluster : CloseLink \in Elements(toServer'[d]) => CloseLink \in Elements(toServer[d])
      BY <1>2, PlacesLemma DEF IsPut, Reply
    <3>. QED  BY <3>1 DEF IInv, Stages, ForwardRequest, gatewayVars
  <2>4. (\A d \in clustersDone : stage[Master(d)] \in Past)'
    BY DEF IInv, Stages, ForwardRequest, gatewayVars, serverVars
  <2>5. (\A d \in Cluster : CloseLink \in Elements(toCluster[d]) => d \in linksClosed)'
    BY DEF IInv, Stages, ForwardRequest, serverVars
  <2>6. (\A d \in linksClosed : clustersDone = Cluster)'
    BY DEF IInv, Stages, ForwardRequest, serverVars
  <2>7. (\A d \in Cluster : stage[Master(d)] \in {"gateways", "closed"} => clustersDone = Cluster)'
    BY DEF IInv, Stages, ForwardRequest, gatewayVars, serverVars
  <2>8. (\A h \in Gateways : stage[h] = "closed" => AllInGateways(h[1]))'
    BY DEF IInv, Stages, AllInGateways, ForwardRequest, gatewayVars
  <2>. QED  BY <2>1, <2>2, <2>3, <2>4, <2>5, <2>6, <2>7, <2>8 DEF Stages
<1>8. DataDone'
  BY DEF IInv, DataDone, ForwardRequest
<1>. QED  BY <1>3, <1>4, <1>5, <1>6, <1>7, <1>8 DEF IInv

LEMMA ReadServerMessageStep ==
  ASSUME IInv, NEW c \in Cluster, ReadServerMessage(c)
  PROVE  IInv'
<1>1. toCluster \in [Cluster -> Seq(Reply \cup {CloseLink})] /\ toCluster[c] # << >>
  BY DEF IInv, TypeOK, ReadServerMessage
<1>2. toCluster' \in [Cluster -> Seq(Reply \cup {CloseLink})] /\ Head(toCluster[c]) \in Reply \cup {CloseLink} /\ IsTake(toCluster, toCluster', c)
  BY <1>1, TakeLemma DEF ReadServerMessage
<1>3. CloseLink \notin Elements(toCluster[c])
  BY DEF IInv, Stages, Past, ReadServerMessage, Serves
<1>4. serverIn \in [Cluster -> Seq(Reply)] /\ c \in Cluster /\ Head(toCluster[c]) \in Reply
  BY <1>2, <1>3, PlacesLemma DEF IInv, TypeOK, IsTake
<1>5. serverIn' \in [Cluster -> Seq(Reply)] /\ IsPut(serverIn, serverIn', c, Head(toCluster[c]))
  BY <1>4, PutLemma DEF ReadServerMessage
<1>6. TypeOK'
  BY <1>2, <1>5 DEF IInv, TypeOK, ReadServerMessage, gatewayVars, serverVars
<1>7. Requests'
  BY DEF IInv, Requests, ReadServerMessage, serverVars
<1>8. Answered'
  <2>1. (\A d \in Cluster : unanswered[d] # {} => participants = App)'
    BY DEF IInv, Answered, ReadServerMessage, serverVars
  <2>2. (\A d \in Cluster : \A x \in Reply :
         x \in Elements(toCluster[d]) \cup Elements(serverIn[d]) =>
           participants = App /\ ClusterOf(x) = d)'
    <3> SUFFICES ASSUME NEW d \in Cluster, NEW x \in Reply,
                        x \in Elements(toCluster'[d]) \cup Elements(serverIn'[d])
                 PROVE  participants' = App /\ ClusterOf(x) = d
      OBVIOUS
    <3>1. x \in Elements(toCluster[d]) \cup Elements(serverIn[d])
      BY <1>2, <1>5 DEF IsTake, IsPut
    <3>. QED  BY <3>1 DEF IInv, Answered, ReadServerMessage, serverVars
  <2>3. (\A x \in toProcess : participants = App)'
    BY DEF IInv, Answered, ReadServerMessage, serverVars
  <2>4. (\A h \in Gateways : done[h] => participants = App)'
    BY <1>2, <1>3 DEF IInv, Answered, ReadServerMessage, IsTake, serverVars
  <2>5. (\A b \in App : phase[b] \in {"barrier", "stopped"} => participants = App)'
    BY DEF IInv, Answered, ReadServerMessage, serverVars
  <2>6. (\A d, e \in Cluster : unanswered[d] # {} /\ unanswered[e] # {} => d = e)'
    BY DEF IInv, Answered, ReadServerMessage, serverVars
  <2>. QED  BY <2>1, <2>2, <2>3, <2>4, <2>5, <2>6 DEF Answered
<1>9. MasterLast'
  <2>1. (\A d \in Cluster : OnlyLast(toCluster[d], Master(d)))'
    BY <1>2 DEF IInv, MasterLast, ReadServerMessage, IsTake
  <2>2. (\A d \in Cluster : OnlyLast(serverIn[d], Master(d)))'
    BY <1>5 DEF IInv, MasterLast, ReadServerMessage, IsPut
  <2>3. (\A d \in Cluster : Master(d) \notin toProcess)'
    BY DEF IInv, MasterLast, ReadServerMessage
  <2>4. (\A d \in Cluster : Master(d) \in Elements(serverIn[d]) => toCluster[d] = << >>)'
    BY <1>2, <1>5 DEF IInv, MasterLast, Answered, ReadServerMessage, IsTake, IsPut, Serves, TypeOK
  <2>5. (\A d \in Cluster : done[Master(d)] => /\ serverIn[d] = << >>
                                              /\ Elements(toCluster[d]) \subseteq {CloseLink})'
    BY <1>2, <1>5 DEF IInv, MasterLast, ReadServerMessage, IsTake, IsPut, gatewayVars, Serves
  <2>6. (\A d \in Cluster :
         (\/ Master(d) \in Elements(toCluster[d])
          \/ Master(d) \in Elements(serverIn[d])
          \/ done[Master(d)])
         => \A e \in Cluster : \A x \in unanswered[e] : ClusterOf(x) # d)'
    <3> SUFFICES ASSUME NEW d \in Cluster, NEW e \in Cluster, NEW x \in unanswered'[e],
                        \/ Master(d) \in Elements(toCluster'[d])
                        \/ Master(d) \in Elements(serverIn'[d])
                        \/ done'[Master(d)]
                 PROVE  ClusterOf(x) # d
      OBVIOUS
    <3>1. \/ Master(d) \in Elements(toCluster[d])
          \/ Master(d) \in Elements(serverIn[d])
          \/ done[Master(d)]
      BY <1>2, <1>5 DEF IsTake, IsPut, ReadServerMessage, gatewayVars
    <3>. QED  BY <3>1 DEF IInv, MasterLast, ReadServerMessage, serverVars
  <2>. QED  BY <2>1, <2>2, <2>3, <2>4, <2>5, <2>6 DEF MasterLast
<1>10. Stages'
  <2>1. (\A h \in Gateways : stage[h] # "loop" => done[h])'
    BY DEF IInv, Stages, ReadServerMessage, gatewayVars
  <2>2. (\A h \in Gateways : stage[h] \in Past => AllInWorld(h[1]))'
    BY DEF IInv, Stages, AllInWorld, ReadServerMessage, gatewayVars
  <2>3. (\A d \in Cluster : CloseLink \in Elements(toServer[d]) => stage[Master(d)] \in Past)'
    BY DEF IInv, Stages, ReadServerMessage, gatewayVars
  <2>4. (\A d \in clustersDone : stage[Master(d)] \in Past)'
    BY DEF IInv, Stages, ReadServerMessage, gatewayVars, serverVars
  <2>5. (\A d \in Cluster : CloseLink \in Elements(toCluster[d]) => d \in linksClosed)'
    BY <1>2 DEF IInv, Stages, Past, ReadServerMessage, IsTake, Serves
  <2>6. (\A d \in linksClosed : clustersDone = Cluster)'
    BY DEF IInv, Stages, ReadServerMessage, serverVars
  <2>7. (\A d \in Cluster : stage[Master(d)] \in {"gateways", "closed"} => clustersDone = Cluster)'
    BY DEF IInv, Stages, Past, ReadServerMessage, gatewayVars, Serves
  <2>8. (\A h \in Gateways : stage[h] = "closed" => AllInGateways(h[1]))'
    BY DEF IInv, Stages, AllInGateways, ReadServerMessage, gatewayVars
  <2>. QED  BY <2>1, <2>2, <2>3, <2>4, <2>5, <2>6, <2>7, <2>8 DEF Stages
<1>11. DataDone'
  BY DEF IInv, DataDone, ReadServerMessage
<1>. QED  BY <1>6, <1>7, <1>8, <1>9, <1>10, <1>11 DEF IInv

LEMMA ForwardServerMessageStep ==
  ASSUME IInv, NEW c \in Cluster, ForwardServerMessage(c)
  PROVE  IInv'
<1>1. serverIn \in [Cluster -> Seq(Reply)] /\ serverIn[c] # << >>
  BY DEF IInv, TypeOK, ForwardServerMessage
<1>2. serverIn' \in [Cluster -> Seq(Reply)] /\ Head(serverIn[c]) \in Reply /\ IsTake(serverIn, serverIn', c)
  BY <1>1, TakeLemma DEF ForwardServerMessage
<1>3. /\ done' \in [Gateways -> BOOLEAN]
      /\ toProcess' \subseteq Reply
      /\ \A h \in Gateways : done[h] => done'[h]
      /\ \A d \in Cluster : done'[Master(d)] => done[Master(d)] \/ (d = c /\ Head(serverIn[c]) = Master(c))
  <2>1. done \in [Gateways -> BOOLEAN] /\ toProcess \subseteq Reply /\ Master(c) \in Gateways
    BY PlacesLemma DEF IInv, TypeOK
  <2>2. CASE Head(serverIn[c]) = Master(c)
    <3>1. done' = [done EXCEPT ![Master(c)] = TRUE] /\ toProcess' = toProcess
      BY <2>2 DEF ForwardServerMessage
    <3>. QED  BY <2>1, <2>2, <3>1, PlacesLemma
  <2>3. CASE Head(serverIn[c]) # Master(c)
    <3>1. done' = done /\ toProcess' = toProcess \cup {Head(serverIn[c])}
      BY <2>3 DEF ForwardServerMessage
    <3>. QED  BY <2>1, <3>1, <1>2
  <2>. QED  BY <2>2, <2>3
<1>4. TypeOK'
  BY <1>2 DEF IInv, TypeOK, ForwardServerMessage, serverVars
<1>5. Requests'
  BY DEF IInv, Requests, ForwardServerMessage, serverVars
<1>6. Answered'
  BY <1>2 DEF IInv, Answered, ForwardServerMessage, IsTake, serverVars
<1>7. MasterLast'
  <2>1. (\A d \in Cluster : OnlyLast(toCluster[d], Master(d)))'
    BY DEF IInv, MasterLast, ForwardServerMessage
  <2>2. (\A d \in Cluster : OnlyLast(serverIn[d], Master(d)))'
    BY <1>2 DEF IInv, MasterLast, ForwardServerMessage, IsTake
  <2>3. (\A d \in Cluster : Master(d) \notin toProcess)'
    BY <1>2, PlacesLemma DEF IInv, MasterLast, Answered, ForwardServerMessage, IsTake, Reply
  <2>4. (\A d \in Cluster : Master(d) \in Elements(serverIn[d]) => toCluster[d] = << >>)'
    BY <1>2 DEF IInv, MasterLast, ForwardServerMessage, IsTake
  <2>5. (\A d \in Cluster : done[Master(d)] => /\ serverIn[d] = << >>
                                              /\ Elements(toCluster[d]) \subseteq {CloseLink})'
    <3> SUFFICES ASSUME NEW d \in Cluster, done'[Master(d)]
                 PROVE  serverIn'[d] = << >> /\ Elements(toCluster'[d]) \subseteq {CloseLink}
      OBVIOUS
    <3>1. CASE done[Master(d)]
      <4>1. serverIn[d] = << >> /\ Elements(toCluster[d]) \subseteq {CloseLink}
        BY <3>1 DEF IInv, MasterLast
      <4>2. d # c
        BY <4>1 DEF ForwardServerMessage
      <4>. QED  BY <4>1, <4>2, <1>2 DEF IsTake, ForwardServerMessage
    <3>2. CASE d = c /\ Head(serverIn[c]) = Master(c)
      <4>1. serverIn'[d] = << >>
        BY <3>2, <1>2 DEF IInv, MasterLast, IsTake
      <4>2. toCluster[d] = << >>
        BY <3>2, <1>2 DEF IInv, MasterLast, IsTake
      <4>. QED  BY <4>1, <4>2, EmptyLemma DEF ForwardServerMessage
    <3>. QED  BY <3>1, <3>2, <1>3
  <2>6. (\A d \in Cluster :
         (\/ Master(d) \in Elements(toCluster[d])
          \/ Master(d) \in Elements(serverIn[d])
          \/ done[Master(d)])
         => \A e \in Cluster : \A x \in unanswered[e] : ClusterOf(x) # d)'
    <3> SUFFICES ASSUME NEW d \in Cluster, NEW e \in Cluster, NEW x \in unanswered'[e],
                        \/ Master(d) \in Elements(toCluster'[d])
                        \/ Master(d) \in Elements(serverIn'[d])
                        \/ done'[Master(d)]
                 PROVE  ClusterOf(x) # d
      OBVIOUS
    <3>1. \/ Master(d) \in Elements(toCluster[d])
          \/ Master(d) \in Elements(serverIn[d])
          \/ done[Master(d)]
      BY <1>2, <1>3 DEF IsTake, ForwardServerMessage
    <3>. QED  BY <3>1 DEF IInv, MasterLast, ForwardServerMessage, serverVars
  <2>. QED  BY <2>1, <2>2, <2>3, <2>4, <2>5, <2>6 DEF MasterLast
<1>8. Stages'
  <2>1. (\A h \in Gateways : stage[h] # "loop" => done[h])'
    BY <1>3 DEF IInv, Stages, ForwardServerMessage
  <2>2. (\A h \in Gateways : stage[h] \in Past => AllInWorld(h[1]))'
    BY DEF IInv, Stages, AllInWorld, ForwardServerMessage
  <2>3. (\A d \in Cluster : CloseLink \in Elements(toServer[d]) => stage[Master(d)] \in Past)'
    BY DEF IInv, Stages, ForwardServerMessage
  <2>4. (\A d \in clustersDone : stage[Master(d)] \in Past)'
    BY DEF IInv, Stages, ForwardServerMessage, serverVars
  <2>5. (\A d \in Cluster : CloseLink \in Elements(toCluster[d]) => d \in linksClosed)'
    BY DEF IInv, Stages, Past, ForwardServerMessage
  <2>6. (\A d \in linksClosed : clustersDone = Cluster)'
    BY DEF IInv, Stages, ForwardServerMessage, serverVars
  <2>7. (\A d \in Cluster : stage[Master(d)] \in {"gateways", "closed"} => clustersDone = Cluster)'
    BY DEF IInv, Stages, Past, ForwardServerMessage
  <2>8. (\A h \in Gateways : stage[h] = "closed" => AllInGateways(h[1]))'
    BY DEF IInv, Stages, AllInGateways, ForwardServerMessage
  <2>. QED  BY <2>1, <2>2, <2>3, <2>4, <2>5, <2>6, <2>7, <2>8 DEF Stages
<1>9. DataDone'
  BY DEF IInv, DataDone, ForwardServerMessage
<1>. QED  BY <1>4, <1>5, <1>6, <1>7, <1>8, <1>9 DEF IInv

LEMMA ReceiveServerReplyStep ==
  ASSUME IInv, NEW g \in Gateways, ReceiveServerReply(g)
  PROVE  IInv'
<1>1. TypeOK'
  BY DEF IInv, TypeOK, ReceiveServerReply, serverVars
<1>2. Requests'
  BY DEF IInv, Requests, ReceiveServerReply, serverVars
<1>3. Answered'
  BY DEF IInv, Answered, ReceiveServerReply, serverVars
<1>4. MasterLast'
  BY DEF IInv, MasterLast, Answered, ReceiveServerReply, serverVars
<1>5. Stages'
  BY DEF IInv, Stages, AllInWorld, AllInGateways, ReceiveServerReply, serverVars
<1>6. DataDone'
  BY DEF IInv, DataDone, ReceiveServerReply
<1>. QED  BY <1>1, <1>2, <1>3, <1>4, <1>5, <1>6 DEF IInv

LEMMA LeaveLoopStep ==
  ASSUME IInv, NEW g \in Gateways, LeaveLoop(g)
  PROVE  IInv'
<1>1. TypeOK'
  BY DEF IInv, TypeOK, LeaveLoop, streams, serverVars
<1>2. Requests'
  BY DEF IInv, Requests, LeaveLoop, streams, serverVars
<1>3. Answered'
  BY DEF IInv, Answered, LeaveLoop, streams, serverVars
<1>4. MasterLast'
  BY DEF IInv, MasterLast, LeaveLoop, streams, serverVars
<1>5. Stages'
  BY DEF IInv, Stages, AllInWorld, AllInGateways, Past, LeaveLoop, streams, serverVars
<1>6. DataDone'
  BY DEF IInv, DataDone, LeaveLoop
<1>. QED  BY <1>1, <1>2, <1>3, <1>4, <1>5, <1>6 DEF IInv

LEMMA CleanupStep ==
  ASSUME IInv, NEW g \in Gateways, Cleanup(g)
  PROVE  IInv'
<1>1. toServer \in [Cluster -> Seq(App \cup {CloseLink})] /\ g[1] \in Cluster /\ CloseLink \in App \cup {CloseLink}
  BY PlacesLemma DEF IInv, TypeOK
<1>2. Put(toServer, g[1], CloseLink) \in [Cluster -> Seq(App \cup {CloseLink})] /\ IsPut(toServer, Put(toServer, g[1], CloseLink), g[1], CloseLink)
  BY <1>1, PutLemma
<1>3. /\ toServer' \in [Cluster -> Seq(App \cup {CloseLink})]
      /\ \A d \in Cluster : \A y : y \in Elements(toServer'[d]) =>
           y \in Elements(toServer[d]) \/ (d = g[1] /\ y = CloseLink /\ g = Master(d))
      /\ CloseLink \notin Elements(toServer[g[1]]) \/ g # Master(g[1]) => \A d \in Cluster : Distinct(toServer'[d])
  <2>1. CASE IsMaster(g)
    <3>1. toServer' = Put(toServer, g[1], CloseLink)
      BY <2>1 DEF Cleanup
    <3>2. g[1] \in Cluster /\ g = Master(g[1])
      BY <2>1, PlacesLemma DEF IsMaster
    <3>3. \A d \in Cluster : Distinct(toServer[d])
      BY DEF IInv, TypeOK
    <3>4. CloseLink \notin Elements(toServer[g[1]]) => \A d \in Cluster : Distinct(toServer'[d])
      BY <3>1, <3>2, <3>3, <1>2 DEF IsPut
    <3>. QED  BY <3>1, <3>2, <3>4, <1>2 DEF IsPut
  <2>2. CASE ~ IsMaster(g)
    BY <2>2 DEF Cleanup, IInv, TypeOK
  <2>. QED  BY <2>1, <2>2
<1>4. CloseLink \notin Elements(toServer[g[1]]) \/ g # Master(g[1])
  BY PlacesLemma DEF IInv, Stages, Past, Cleanup
<1>5. /\ stage' \in [Gateways -> {"loop", "world", "cleanup", "gateways", "closed"}]
      /\ stage'[g] = (IF IsMaster(g) THEN "cleanup" ELSE "gateways")
      /\ \A h \in Gateways : h # g => stage'[h] = stage[h]
      /\ stage[g] = "world" /\ AllInWorld(g[1])
      /\ \A d \in Cluster : AllInWorld(d) => AllInWorld(d)' 
  <2>1. /\ stage' \in [Gateways -> {"loop", "world", "cleanup", "gateways", "closed"}]
        /\ stage'[g] = (IF IsMaster(g) THEN "cleanup" ELSE "gateways")
        /\ \A h \in Gateways : h # g => stage'[h] = stage[h]
        /\ stage[g] = "world" /\ AllInWorld(g[1]) /\ phase' = phase
    BY DEF IInv, TypeOK, Cleanup
  <2>. QED  BY <2>1 DEF AllInWorld
<1>6. TypeOK'
  BY <1>3, <1>4 DEF IInv, TypeOK, Stages, Cleanup, serverVars
<1>7. Requests'
  <2>1. (\A d \in Cluster : \A b \in toMaster[d] :
         phase[b] # "running" /\ b \notin participants /\ Home[b] = d /\ b \notin Elements(toServer[d]))'
    <3>1. \A d \in Cluster : \A b \in App : b \in Elements(toServer'[d]) => b \in Elements(toServer[d])
      BY <1>3, PlacesLemma DEF Reply
    <3>. QED  BY <3>1 DEF IInv, Requests, TypeOK, Cleanup, serverVars
  <2>2. (\A d \in Cluster : \A b \in App :
         b \in Elements(toServer[d]) => phase[b] # "running" /\ b \notin participants /\ Home[b] = d)'
    <3>1. \A d \in Cluster : \A b \in App : b \in Elements(toServer'[d]) => b \in Elements(toServer[d])
      BY <1>3, PlacesLemma DEF Reply
    <3>. QED  BY <3>1 DEF IInv, Requests, Cleanup, serverVars
  <2>3. (\A b \in participants : phase[b] # "running")'
    BY DEF IInv, Requests, Cleanup, serverVars
  <2>. QED  BY <2>1, <2>2, <2>3 DEF Requests
<1>8. Answered'
  BY DEF IInv, Answered, Cleanup, serverVars
<1>9. MasterLast'
  BY DEF IInv, MasterLast, Cleanup, serverVars
<1>10. Stages'
  <2>1. (\A h \in Gateways : stage[h] # "loop" => done[h])'
    BY <1>5 DEF IInv, Stages, Cleanup
  <2>2. (\A h \in Gateways : stage[h] \in Past => AllInWorld(h[1]))'
    BY <1>5, PlacesLemma DEF IInv, Stages
  <2>3. (\A d \in Cluster : CloseLink \in Elements(toServer[d]) => stage[Master(d)] \in Past)'
    BY <1>3, <1>5, PlacesLemma DEF IInv, Stages, Past, IsMaster
  <2>4. (\A d \in clustersDone : stage[Master(d)] \in Past)'
    BY <1>5, PlacesLemma DEF IInv, Stages, Past, IsMaster, Cleanup, serverVars, TypeOK
  <2>5. (\A d \in Cluster : CloseLink \in Elements(toCluster[d]) => d \in linksClosed)'
    BY DEF IInv, Stages, Cleanup, serverVars
  <2>6. (\A d \in linksClosed : clustersDone = Cluster)'
    BY DEF IInv, Stages, Cleanup, serverVars
  <2>7. (\A d \in Cluster : stage[Master(d)] \in {"gateways", "closed"} => clustersDone = Cluster)'
    BY <1>5, PlacesLemma DEF IInv, Stages, IsMaster, Cleanup, serverVars
  <2>8. (\A h \in Gateways : stage[h] = "closed" => AllInGateways(h[1]))'
    <3>1. \A d \in Cluster : AllInGateways(d) => AllInGateways(d)'
      BY <1>5 DEF AllInGateways
    <3>. QED  BY <1>5, <3>1, PlacesLemma DEF IInv, Stages
  <2>. QED  BY <2>1, <2>2, <2>3, <2>4, <2>5, <2>6, <2>7, <2>8 DEF Stages
<1>11. DataDone'
  BY DEF IInv, DataDone, Cleanup
<1>. QED  BY <1>6, <1>7, <1>8, <1>9, <1>10, <1>11 DEF IInv

LEMMA ReceiveCloseLinkStep ==
  ASSUME IInv, NEW c \in Cluster, ReceiveCloseLink(c)
  PROVE  IInv'
<1>1. toCluster \in [Cluster -> Seq(Reply \cup {CloseLink})] /\ toCluster[c] # << >>
  BY DEF IInv, TypeOK, ReceiveCloseLink
<1>2. toCluster' \in [Cluster -> Seq(Reply \cup {CloseLink})] /\ Head(toCluster[c]) \in Reply \cup {CloseLink} /\ IsTake(toCluster, toCluster', c)
  BY <1>1, TakeLemma DEF ReceiveCloseLink
<1>3. TypeOK'
  BY <1>2 DEF IInv, TypeOK, ReceiveCloseLink, serverVars
<1>4. Requests'
  BY DEF IInv, Requests, ReceiveCloseLink, serverVars
<1>5. Answered'
  BY <1>2 DEF IInv, Answered, ReceiveCloseLink, IsTake, serverVars
<1>6. MasterLast'
  BY <1>2 DEF IInv, MasterLast, Answered, ReceiveCloseLink, IsTake, serverVars, TypeOK
<1>7. Stages'
  <2>1. (\A h \in Gateways : stage[h] # "loop" => done[h])'
    BY DEF IInv, Stages, ReceiveCloseLink
  <2>2. (\A h \in Gateways : stage[h] \in Past => AllInWorld(h[1]))'
    BY DEF IInv, Stages, AllInWorld, Past, ReceiveCloseLink
  <2>3. (\A d \in Cluster : CloseLink \in Elements(toServer[d]) => stage[Master(d)] \in Past)'
    BY DEF IInv, Stages, Past, ReceiveCloseLink
  <2>4. (\A d \in clustersDone : stage[Master(d)] \in Past)'
    BY DEF IInv, Stages, Past, ReceiveCloseLink, serverVars
  <2>5. (\A d \in Cluster : CloseLink \in Elements(toCluster[d]) => d \in linksClosed)'
    BY <1>2 DEF IInv, Stages, ReceiveCloseLink, IsTake, serverVars
  <2>6. (\A d \in linksClosed : clustersDone = Cluster)'
    BY DEF IInv, Stages, ReceiveCloseLink, serverVars
  <2>7. (\A d \in Cluster : stage[Master(d)] \in {"gateways", "closed"} => clustersDone = Cluster)'
    <3>1. done[Master(c)]
      BY PlacesLemma DEF IInv, Stages, ReceiveCloseLink
    <3>2. Head(toCluster[c]) = CloseLink /\ CloseLink \in Elements(toCluster[c])
      BY <3>1, <1>2 DEF IInv, MasterLast, IsTake
    <3>3. clustersDone = Cluster
      BY <3>2 DEF IInv, Stages
    <3>. QED  BY <3>3 DEF ReceiveCloseLink, serverVars
  <2>8. (\A h \in Gateways : stage[h] = "closed" => AllInGateways(h[1]))'
    BY DEF IInv, Stages, AllInGateways, ReceiveCloseLink
  <2>. QED  BY <2>1, <2>2, <2>3, <2>4, <2>5, <2>6, <2>7, <2>8 DEF Stages
<1>8. DataDone'
  BY DEF IInv, DataDone, ReceiveCloseLink
<1>. QED  BY <1>3, <1>4, <1>5, <1>6, <1>7, <1>8 DEF IInv

LEMMA DisconnectStep ==
  ASSUME IInv, NEW g \in Gateways, Disconnect(g)
  PROVE  IInv'
<1>1. TypeOK'
  BY DEF IInv, TypeOK, Disconnect, streams, serverVars
<1>2. Requests'
  BY DEF IInv, Requests, Disconnect, streams, serverVars
<1>3. Answered'
  BY DEF IInv, Answered, Disconnect, streams, serverVars
<1>4. MasterLast'
  BY DEF IInv, MasterLast, Disconnect, streams, serverVars
<1>5. Stages'
  BY DEF IInv, Stages, AllInWorld, AllInGateways, Past, Disconnect, streams, serverVars
<1>6. DataDone'
  BY DEF IInv, DataDone, Disconnect
<1>. QED  BY <1>1, <1>2, <1>3, <1>4, <1>5, <1>6 DEF IInv

LEMMA DeliverRequestStep ==
  ASSUME IInv, NEW c \in Cluster, DeliverRequest(c)
  PROVE  IInv'
<1>1. toServer \in [Cluster -> Seq(App \cup {CloseLink})] /\ toServer[c] # << >>
  BY DEF IInv, TypeOK, DeliverRequest
<1>2. toServer' \in [Cluster -> Seq(App \cup {CloseLink})] /\ Head(toServer[c]) \in App \cup {CloseLink} /\ IsTake(toServer, toServer', c)
  BY <1>1, TakeLemma DEF DeliverRequest
<1>3. /\ Head(toServer[c]) \in App
      /\ Head(toServer[c]) \notin participants /\ participants # App
      /\ Home[Head(toServer[c])] = c /\ phase[Head(toServer[c])] # "running"
      /\ participants' = participants \cup {Head(toServer[c])}
  BY <1>2 DEF DeliverRequest, IInv, Requests, IsTake
<1>4. /\ \A d \in Cluster : unanswered[d] = {}
      /\ unanswered' \in [Cluster -> SUBSET Reply]
      /\ \A d \in Cluster : unanswered'[d] # {} => d = c /\ participants' = App
  BY <1>3 DEF IInv, Answered, TypeOK, DeliverRequest, AllIn, Reply
<1>5. TypeOK'
  BY <1>2, <1>4 DEF IInv, TypeOK, DeliverRequest, IsTake, gatewayVars
<1>6. Requests'
  <2>1. (\A d \in Cluster : \A b \in toMaster[d] :
         phase[b] # "running" /\ b \notin participants /\ Home[b] = d /\ b \notin Elements(toServer[d]))'
    <3> SUFFICES ASSUME NEW d \in Cluster, NEW b \in toMaster'[d]
                 PROVE  /\ phase'[b] # "running" /\ b \notin participants' /\ Home[b] = d
                        /\ b \notin Elements(toServer'[d])
      OBVIOUS
    <3>1. /\ phase[b] # "running" /\ b \notin participants /\ Home[b] = d
          /\ b \notin Elements(toServer[d])
      BY DEF IInv, Requests, DeliverRequest
    <3>2. b # Head(toServer[c])
      BY <3>1, <1>2, <1>3 DEF IsTake
    <3>. QED  BY <3>1, <3>2, <1>2, <1>3 DEF IsTake, DeliverRequest
  <2>2. (\A d \in Cluster : \A b \in App :
         b \in Elements(toServer[d]) => phase[b] # "running" /\ b \notin participants /\ Home[b] = d)'
    <3> SUFFICES ASSUME NEW d \in Cluster, NEW b \in App, b \in Elements(toServer'[d])
                 PROVE  phase'[b] # "running" /\ b \notin participants' /\ Home[b] = d
      OBVIOUS
    <3>1. phase[b] # "running" /\ b \notin participants /\ Home[b] = d
      BY <1>2 DEF IInv, Requests, IsTake
    <3>2. Distinct(toServer[c])
      BY DEF IInv, TypeOK
    <3>3. b # Head(toServer[c])
      BY <3>1, <3>2, <1>2, <1>3 DEF IsTake
    <3>. QED  BY <3>1, <3>3, <1>3 DEF DeliverRequest
  <2>3. (\A b \in participants : phase[b] # "running")'
    BY <1>3 DEF IInv, Requests, DeliverRequest
  <2>. QED  BY <2>1, <2>2, <2>3 DEF Requests
<1>7. Answered'
  <2>1. (\A d \in Cluster : unanswered[d] # {} => participants = App)'
    BY <1>4
  <2>2. (\A d \in Cluster : \A x \in Reply :
         x \in Elements(toCluster[d]) \cup Elements(serverIn[d]) =>
           participants = App /\ ClusterOf(x) = d)'
    BY <1>3 DEF IInv, Answered, DeliverRequest
  <2>3. (\A x \in toProcess : participants = App)'
    BY <1>3 DEF IInv, Answered, DeliverRequest
  <2>4. (\A h \in Gateways : done[h] => participants = App)'
    BY <1>3 DEF IInv, Answered, DeliverRequest, gatewayVars
  <2>5. (\A b \in App : phase[b] \in {"barrier", "stopped"} => participants = App)'
    BY <1>3 DEF IInv, Answered, DeliverRequest
  <2>6. (\A d, e \in Cluster : unanswered[d] # {} /\ unanswered[e] # {} => d = e)'
    BY <1>4
  <2>. QED  BY <2>1, <2>2, <2>3, <2>4, <2>5, <2>6 DEF Answered
<1>8. MasterLast'
  <2>1. (\A d \in Cluster : OnlyLast(toCluster[d], Master(d)))'
    BY DEF IInv, MasterLast, DeliverRequest
  <2>2. (\A d \in Cluster : OnlyLast(serverIn[d], Master(d)))'
    BY DEF IInv, MasterLast, DeliverRequest
  <2>3. (\A d \in Cluster : Master(d) \notin toProcess)'
    BY DEF IInv, MasterLast, DeliverRequest
  <2>4. (\A d \in Cluster : Master(d) \in Elements(serverIn[d]) => toCluster[d] = << >>)'
    BY DEF IInv, MasterLast, DeliverRequest
  <2>5. (\A d \in Cluster : done[Master(d)] => /\ serverIn[d] = << >>
                                              /\ Elements(toCluster[d]) \subseteq {CloseLink})'
    BY DEF IInv, MasterLast, DeliverRequest, gatewayVars
  <2>6. (\A d \in Cluster :
         (\/ Master(d) \in Elements(toCluster[d])
          \/ Master(d) \in Elements(serverIn[d])
          \/ done[Master(d)])
         => \A e \in Cluster : \A x \in unanswered[e] : ClusterOf(x) # d)'
    <3>1. \A d \in Cluster : /\ Master(d) \notin Elements(toCluster[d])
                             /\ Master(d) \notin Elements(serverIn[d])
                             /\ ~ done[Master(d)]
      BY <1>3, PlacesLemma DEF IInv, Answered, Reply
    <3>. QED  BY <3>1 DEF DeliverRequest, gatewayVars
  <2>. QED  BY <2>1, <2>2, <2>3, <2>4, <2>5, <2>6 DEF MasterLast
<1>9. Stages'
  <2>1. (\A h \in Gateways : stage[h] # "loop" => done[h])'
    BY DEF IInv, Stages, DeliverRequest, gatewayVars
  <2>2. (\A h \in Gateways : stage[h] \in Past => AllInWorld(h[1]))'
    BY DEF IInv, Stages, AllInWorld, DeliverRequest, gatewayVars
  <2>3. (\A d \in Cluster : CloseLink \in Elements(toServer[d]) => stage[Master(d)] \in Past)'
    BY <1>2 DEF IInv, Stages, DeliverRequest, IsTake, gatewayVars
  <2>4. (\A d \in clustersDone : stage[Master(d)] \in Past)'
    BY DEF IInv, Stages, DeliverRequest, gatewayVars
  <2>5. (\A d \in Cluster : CloseLink \in Elements(toCluster[d]) => d \in linksClosed)'
    BY DEF IInv, Stages, DeliverRequest
  <2>6. (\A d \in linksClosed : clustersDone = Cluster)'
    BY DEF IInv, Stages, DeliverRequest
  <2>7. (\A d \in Cluster : stage[Master(d)] \in {"gateways", "closed"} => clustersDone = Cluster)'
    BY DEF IInv, Stages, DeliverRequest, gatewayVars
  <2>8. (\A h \in Gateways : stage[h] = "closed" => AllInGateways(h[1]))'
    BY DEF IInv, Stages, AllInGateways, DeliverRequest, gatewayVars
  <2>. QED  BY <2>1, <2>2, <2>3, <2>4, <2>5, <2>6, <2>7, <2>8 DEF Stages
<1>10. DataDone'
  BY DEF IInv, DataDone, DeliverRequest
<1>. QED  BY <1>5, <1>6, <1>7, <1>8, <1>9, <1>10 DEF IInv

LEMMA EnqueueReplyStep ==
  ASSUME IInv, NEW c \in Cluster, NEW p \in Reply, EnqueueReply(c, p)
  PROVE  IInv'
<1>1. toCluster \in [Cluster -> Seq(Reply \cup {CloseLink})] /\ ClusterOf(p) \in Cluster /\ p \in Reply \cup {CloseLink}
  BY PlacesLemma DEF IInv, TypeOK
<1>2. toCluster' \in [Cluster -> Seq(Reply \cup {CloseLink})] /\ IsPut(toCluster, toCluster', ClusterOf(p), p)
  BY <1>1, PutLemma DEF EnqueueReply
<1>3. /\ unanswered' \in [Cluster -> SUBSET Reply]
      /\ \A d \in Cluster : unanswered'[d] \subseteq unanswered[d]
      /\ p \in unanswered[c] /\ p \notin unanswered'[c]
  BY DEF IInv, TypeOK, EnqueueReply
<1>4. TypeOK'
  BY <1>2 DEF IInv, TypeOK, EnqueueReply, gatewayVars
<1>5. Requests'
  BY DEF IInv, Requests, EnqueueReply
<1>6. Answered'
  <2>1. (\A d \in Cluster : unanswered[d] # {} => participants = App)'
    BY DEF IInv, Answered, EnqueueReply
  <2>2. (\A d \in Cluster : \A x \in Reply :
         x \in Elements(toCluster[d]) \cup Elements(serverIn[d]) =>
           participants = App /\ ClusterOf(x) = d)'
    <3> SUFFICES ASSUME NEW d \in Cluster, NEW x \in Reply,
                        x \in Elements(toCluster'[d]) \cup Elements(serverIn'[d])
                 PROVE  participants' = App /\ ClusterOf(x) = d
      OBVIOUS
    <3>1. \/ x \in Elements(toCluster[d]) \cup Elements(serverIn[d])
          \/ d = ClusterOf(p) /\ x = p
      BY <1>2 DEF IsPut, EnqueueReply
    <3>2. participants = App
      BY <1>3 DEF IInv, Answered
    <3>. QED  BY <3>1, <3>2 DEF IInv, Answered, EnqueueReply
  <2>3. (\A x \in toProcess : participants = App)'
    BY DEF IInv, Answered, EnqueueReply
  <2>4. (\A h \in Gateways : done[h] => participants = App)'
    BY DEF IInv, Answered, EnqueueReply
  <2>5. (\A b \in App : phase[b] \in {"barrier", "stopped"} => participants = App)'
    BY DEF IInv, Answered, EnqueueReply
  <2>6. (\A d, e \in Cluster : unanswered[d] # {} /\ unanswered[e] # {} => d = e)'
    BY <1>3 DEF IInv, Answered
  <2>. QED  BY <2>1, <2>2, <2>3, <2>4, <2>5, <2>6 DEF Answered
<1>7. MasterLast'
  <2>1. (\A d \in Cluster : OnlyLast(toCluster[d], Master(d)))'
    BY <1>2, PlacesLemma DEF IInv, MasterLast, EnqueueReply, IsPut, TypeOK
  <2>2. (\A d \in Cluster : OnlyLast(serverIn[d], Master(d)))'
    BY DEF IInv, MasterLast, EnqueueReply
  <2>3. (\A d \in Cluster : Master(d) \notin toProcess)'
    BY DEF IInv, MasterLast, EnqueueReply
  <2>4. (\A d \in Cluster : Master(d) \in Elements(serverIn[d]) => toCluster[d] = << >>)'
    BY <1>2 DEF IInv, MasterLast, EnqueueReply, IsPut
  <2>5. (\A d \in Cluster : done[Master(d)] => /\ serverIn[d] = << >>
                                              /\ Elements(toCluster[d]) \subseteq {CloseLink})'
    BY <1>2, PlacesLemma DEF IInv, MasterLast, EnqueueReply, IsPut, gatewayVars
  <2>6. (\A d \in Cluster :
         (\/ Master(d) \in Elements(toCluster[d])
          \/ Master(d) \in Elements(serverIn[d])
          \/ done[Master(d)])
         => \A e \in Cluster : \A x \in unanswered[e] : ClusterOf(x) # d)'
    <3> SUFFICES ASSUME NEW d \in Cluster, NEW e \in Cluster, NEW x \in unanswered'[e],
                        \/ Master(d) \in Elements(toCluster'[d])
                        \/ Master(d) \in Elements(serverIn'[d])
                        \/ done'[Master(d)]
                 PROVE  ClusterOf(x) # d
      OBVIOUS
    <3>1. x \in unanswered[e] /\ e = c /\ x # p /\ x \in Reply
      BY <1>3 DEF IInv, Answered, TypeOK
    <3>2. CASE \/ Master(d) \in Elements(toCluster[d])
               \/ Master(d) \in Elements(serverIn[d])
               \/ done[Master(d)]
      BY <3>1, <3>2 DEF IInv, MasterLast
    <3>3. CASE p = Master(d)
      <4>1. ~ Precedes(x, p)
        BY <3>1 DEF EnqueueReply
      <4>. QED  BY <4>1, <3>1, <3>3, PlacesLemma DEF Precedes, Reply
    <3>. QED  BY <3>2, <3>3, <1>2 DEF IsPut, EnqueueReply, gatewayVars
  <2>. QED  BY <2>1, <2>2, <2>3, <2>4, <2>5, <2>6 DEF MasterLast
<1>8. Stages'
  <2>1. (\A h \in Gateways : stage[h] # "loop" => done[h])'
    BY DEF IInv, Stages, EnqueueReply, gatewayVars
  <2>2. (\A h \in Gateways : stage[h] \in Past => AllInWorld(h[1]))'
    BY DEF IInv, Stages, AllInWorld, EnqueueReply, gatewayVars
  <2>3. (\A d \in Cluster : CloseLink \in Elements(toServer[d]) => stage[Master(d)] \in Past)'
    BY DEF IInv, Stages, EnqueueReply, gatewayVars
  <2>4. (\A d \in clustersDone : stage[Master(d)] \in Past)'
    BY DEF IInv, Stages, EnqueueReply, gatewayVars
  <2>5. (\A d \in Cluster : CloseLink \in Elements(toCluster[d]) => d \in linksClosed)'
    <3>1. \A d \in Cluster : CloseLink \in Elements(toCluster'[d]) => CloseLink \in Elements(toCluster[d])
      BY <1>2, PlacesLemma DEF IsPut
    <3>. QED  BY <3>1 DEF IInv, Stages, EnqueueReply
  <2>6. (\A d \in linksClosed : clustersDone = Cluster)'
    BY DEF IInv, Stages, EnqueueReply
  <2>7. (\A d \in Cluster : stage[Master(d)] \in {"gateways", "closed"} => clustersDone = Cluster)'
    BY DEF IInv, Stages, EnqueueReply, gatewayVars
  <2>8. (\A h \in Gateways : stage[h] = "closed" => AllInGateways(h[1]))'
    BY DEF IInv, Stages, AllInGateways, EnqueueReply, gatewayVars
  <2>. QED  BY <2>1, <2>2, <2>3, <2>4, <2>5, <2>6, <2>7, <2>8 DEF Stages
<1>9. DataDone'
  BY DEF IInv, DataDone, EnqueueReply
<1>. QED  BY <1>4, <1>5, <1>6, <1>7, <1>8, <1>9 DEF IInv

LEMMA ClusterDoneStep ==
  ASSUME IInv, NEW c \in Cluster, ClusterDone(c)
  PROVE  IInv'
<1>1. toServer \in [Cluster -> Seq(App \cup {CloseLink})] /\ toServer[c] # << >>
  BY DEF IInv, TypeOK, ClusterDone
<1>2. toServer' \in [Cluster -> Seq(App \cup {CloseLink})] /\ Head(toServer[c]) \in App \cup {CloseLink} /\ IsTake(toServer, toServer', c)
  BY <1>1, TakeLemma DEF ClusterDone
<1>3. TypeOK'
  BY <1>2 DEF IInv, TypeOK, ClusterDone, IsTake, gatewayVars
<1>4. Requests'
  <2>1. (\A d \in Cluster : \A b \in toMaster[d] :
         phase[b] # "running" /\ b \notin participants /\ Home[b] = d /\ b \notin Elements(toServer[d]))'
    BY <1>2 DEF IInv, Requests, ClusterDone, IsTake
  <2>2. (\A d \in Cluster : \A b \in App :
         b \in Elements(toServer[d]) => phase[b] # "running" /\ b \notin participants /\ Home[b] = d)'
    <3> SUFFICES ASSUME NEW d \in Cluster, NEW b \in App, b \in Elements(toServer'[d])
                 PROVE  phase'[b] # "running" /\ b \notin participants' /\ Home[b] = d
      OBVIOUS
    <3>1. b \in Elements(toServer[d])
      BY <1>2 DEF IsTake
    <3>. QED  BY <3>1 DEF IInv, Requests, ClusterDone
  <2>3. (\A b \in participants : phase[b] # "running")'
    BY DEF IInv, Requests, ClusterDone
  <2>. QED  BY <2>1, <2>2, <2>3 DEF Requests
<1>5. Answered'
  BY DEF IInv, Answered, ClusterDone, gatewayVars
<1>6. MasterLast'
  BY DEF IInv, MasterLast, ClusterDone, gatewayVars
<1>7. Stages'
  <2>1. (\A h \in Gateways : stage[h] # "loop" => done[h])'
    BY DEF IInv, Stages, ClusterDone, gatewayVars
  <2>2. (\A h \in Gateways : stage[h] \in Past => AllInWorld(h[1]))'
    BY DEF IInv, Stages, AllInWorld, ClusterDone, gatewayVars
  <2>3. (\A d \in Cluster : CloseLink \in Elements(toServer[d]) => stage[Master(d)] \in Past)'
    BY <1>2 DEF IInv, Stages, ClusterDone, IsTake, gatewayVars
  <2>4. (\A d \in clustersDone : stage[Master(d)] \in Past)'
    BY <1>2 DEF IInv, Stages, ClusterDone, IsTake, gatewayVars
  <2>5. (\A d \in Cluster : CloseLink \in Elements(toCluster[d]) => d \in linksClosed)'
    BY DEF IInv, Stages, ClusterDone
  <2>6. (\A d \in linksClosed : clustersDone = Cluster)'
    BY DEF IInv, Stages, ClusterDone
  <2>7. (\A d \in Cluster : stage[Master(d)] \in {"gateways", "closed"} => clustersDone = Cluster)'
    BY DEF IInv, Stages, ClusterDone, gatewayVars
  <2>8. (\A h \in Gateways : stage[h] = "closed" => AllInGateways(h[1]))'
    BY DEF IInv, Stages, AllInGateways, ClusterDone, gatewayVars
  <2>. QED  BY <2>1, <2>2, <2>3, <2>4, <2>5, <2>6, <2>7, <2>8 DEF Stages
<1>8. DataDone'
  BY DEF IInv, DataDone, ClusterDone
<1>. QED  BY <1>3, <1>4, <1>5, <1>6, <1>7, <1>8 DEF IInv

LEMMA CloseSocketStep ==
  ASSUME IInv, NEW c \in Cluster, CloseSocket(c)
  PROVE  IInv'
<1>1. toCluster \in [Cluster -> Seq(Reply \cup {CloseLink})] /\ c \in Cluster /\ CloseLink \in Reply \cup {CloseLink}
  BY PlacesLemma DEF IInv, TypeOK
<1>2. toCluster' \in [Cluster -> Seq(Reply \cup {CloseLink})] /\ IsPut(toCluster, toCluster', c, CloseLink)
  BY <1>1, PutLemma DEF CloseSocket
<1>3. done[Master(c)]
  BY PlacesLemma DEF IInv, Stages, Past, CloseSocket
<1>4. TypeOK'
  BY <1>2 DEF IInv, TypeOK, CloseSocket, gatewayVars
<1>5. Requests'
  BY DEF IInv, Requests, CloseSocket
<1>6. Answered'
  <2>1. (\A d \in Cluster : unanswered[d] # {} => participants = App)'
    BY DEF IInv, Answered, CloseSocket
  <2>2. (\A d \in Cluster : \A x \in Reply :
         x \in Elements(toCluster[d]) \cup Elements(serverIn[d]) =>
           participants = App /\ ClusterOf(x) = d)'
    <3> SUFFICES ASSUME NEW d \in Cluster, NEW x \in Reply,
                        x \in Elements(toCluster'[d]) \cup Elements(serverIn'[d])
                 PROVE  participants' = App /\ ClusterOf(x) = d
      OBVIOUS
    <3>1. x \in Elements(toCluster[d]) \cup Elements(serverIn[d])
      BY <1>2, PlacesLemma DEF IsPut, CloseSocket
    <3>. QED  BY <3>1 DEF IInv, Answered, CloseSocket
  <2>3. (\A x \in toProcess : participants = App)'
    BY DEF IInv, Answered, CloseSocket
  <2>4. (\A h \in Gateways : done[h] => participants = App)'
    BY <1>3, PlacesLemma DEF IInv, Answered, CloseSocket
  <2>5. (\A b \in App : phase[b] \in {"barrier", "stopped"} => participants = App)'
    BY DEF IInv, Answered, CloseSocket
  <2>6. (\A d, e \in Cluster : unanswered[d] # {} /\ unanswered[e] # {} => d = e)'
    BY DEF IInv, Answered, CloseSocket
  <2>. QED  BY <2>1, <2>2, <2>3, <2>4, <2>5, <2>6 DEF Answered
<1>7. MasterLast'
  <2>1. (\A d \in Cluster : OnlyLast(toCluster[d], Master(d)))'
    <3>1. Elements(toCluster[c]) \subseteq {CloseLink} /\ Master(c) # CloseLink
      BY <1>3, PlacesLemma DEF IInv, MasterLast, Reply
    <3>2. Master(c) \notin Elements(toCluster[c])
      BY <3>1
    <3>. QED  BY <3>2, <1>2 DEF IInv, MasterLast, IsPut
  <2>2. (\A d \in Cluster : OnlyLast(serverIn[d], Master(d)))'
    BY DEF IInv, MasterLast, CloseSocket
  <2>3. (\A d \in Cluster : Master(d) \notin toProcess)'
    BY DEF IInv, MasterLast, CloseSocket
  <2>4. (\A d \in Cluster : Master(d) \in Elements(serverIn[d]) => toCluster[d] = << >>)'
    <3>1. serverIn[c] = << >>
      BY <1>3 DEF IInv, MasterLast
    <3>. QED  BY <3>1, <1>2, EmptyLemma DEF IInv, MasterLast, IsPut, CloseSocket
  <2>5. (\A d \in Cluster : done[Master(d)] => /\ serverIn[d] = << >>
                                              /\ Elements(toCluster[d]) \subseteq {CloseLink})'
    BY <1>2 DEF IInv, MasterLast, CloseSocket, IsPut, gatewayVars
  <2>6. (\A d \in Cluster :
         (\/ Master(d) \in Elements(toCluster[d])
          \/ Master(d) \in Elements(serverIn[d])
          \/ done[Master(d)])
         => \A e \in Cluster : \A x \in unanswered[e] : ClusterOf(x) # d)'
    BY <1>2, <1>3 DEF IInv, MasterLast, CloseSocket, IsPut, gatewayVars
  <2>. QED  BY <2>1, <2>2, <2>3, <2>4, <2>5, <2>6 DEF MasterLast
<1>8. Stages'
  BY <1>2
  DEF IInv, Stages, AllInWorld, AllInGateways, CloseSocket, IsPut, gatewayVars, AllClustersDone
<1>9. DataDone'
  BY DEF IInv, DataDone, CloseSocket
<1>. QED  BY <1>4, <1>5, <1>6, <1>7, <1>8, <1>9 DEF IInv

LEMMA InvariantStep == IInv /\ [Next]_vars => IInv'
<1> SUFFICES ASSUME IInv, [Next]_vars PROVE IInv'
  OBVIOUS
<1>1. CASE UNCHANGED vars
  <2>1. UNCHANGED <<phase, stage, done, place, toMaster, toServer, toCluster, serverIn, toProcess,
                    participants, unanswered, clustersDone, linksClosed>>
    BY <1>1 DEF vars, gatewayVars, streams, serverVars
  <2>2. TypeOK' /\ Requests' /\ DataDone'
    BY <2>1 DEF IInv, TypeOK, Requests, DataDone
  <2>3. Answered' /\ MasterLast'
    BY <2>1 DEF IInv, Answered, MasterLast
  <2>4. Stages'
    BY <2>1 DEF IInv, Stages, AllInWorld, AllInGateways
  <2>. QED  BY <2>2, <2>3, <2>4 DEF IInv
<1>2. ASSUME NEW a \in App, ProcessStep(a) PROVE IInv'
  <2>1. ASSUME NEW m \in Data, SendData(m) \/ ReceiveData(m) PROVE IInv'
    BY <2>1, MoveStep DEF SendData, ReceiveData
  <2>. QED  BY <1>2, <2>1, FinalizeStep, FinalizeReplyStep, StopStep DEF ProcessStep
<1>3. ASSUME NEW g \in Gateways, GatewayStep(g) PROVE IInv'
  <2>1. ASSUME NEW m \in Data, CarryData(m) \/ ForwardData(m) PROVE IInv'
    BY <2>1, MoveStep DEF CarryData, ForwardData
  <2>. QED  BY <1>3, <2>1, ReceiveServerReplyStep, LeaveLoopStep, CleanupStep, DisconnectStep
            DEF GatewayStep
<1>4. ASSUME NEW c \in Cluster, MasterStep(c) PROVE IInv'
  BY <1>4, ForwardRequestStep, ReadServerMessageStep, ForwardServerMessageStep,
     ReceiveCloseLinkStep DEF MasterStep
<1>5. ASSUME NEW c \in Cluster, ReceiverThread(c) \/ CloseSocket(c) PROVE IInv'
  BY <1>5, DeliverRequestStep, EnqueueReplyStep, ClusterDoneStep, CloseSocketStep
  DEF ReceiverThread, Reply
<1>6. CASE Over
  BY <1>1, <1>6 DEF Over
<1>. QED  BY <1>1, <1>2, <1>3, <1>4, <1>5, <1>6 DEF Next

-----------------------------------------------------------------------------
(* Theorems *)

\* The variables keep their types, and no request or report is on its way to the
\* server twice.
THEOREM TypeCorrect == Spec => []TypeOK
<1>1. IInv => TypeOK
  BY DEF IInv
<1>. QED  BY <1>1, InitStep, InvariantStep, PTL DEF Spec

\* A gateway in its loop has no peer that has closed its sockets (cleanup,
\* disconnect_gateways), although a master takes whatever comes next from the
\* server for the answer to CLOSE_LINK.
THEOREM NoUnexpectedEOFHolds == Spec => []NoUnexpectedEOF
<1>1. IInv => NoUnexpectedEOF
  <2> SUFFICES ASSUME IInv, NEW g \in Gateways, NEW h \in Gateways, stage[h] = "closed"
               PROVE  stage[g] # "loop"
    BY DEF NoUnexpectedEOF
  <2>1. h[1] \in Cluster /\ Master(h[1]) \in Gateways /\ Master(h[1])[1] = h[1]
    BY PlacesLemma
  <2>2. stage[Master(h[1])] \in {"gateways", "closed"}
    BY <2>1 DEF IInv, Stages, AllInGateways
  <2>3. clustersDone = Cluster
    BY <2>1, <2>2 DEF IInv, Stages
  <2>4. g[1] \in Cluster /\ Master(g[1]) \in Gateways /\ Master(g[1])[1] = g[1]
    BY PlacesLemma
  <2>5. AllInWorld(g[1])
    BY <2>3, <2>4 DEF IInv, Stages
  <2>. QED  BY <2>5 DEF AllInWorld
<1>. QED  BY <1>1, InitStep, InvariantStep, PTL DEF Spec

\* A gateway that leaves its loop carries no data: FINALIZE is answered when all
\* processes have asked, and a process asks when its data has arrived.
THEOREM NothingLeftBehindHolds == Spec => []NothingLeftBehind
<1>1. IInv => NothingLeftBehind
  <2> SUFFICES ASSUME IInv, NEW m \in Data, NEW g \in Gateways, place[m] # "received"
               PROVE  Serves(g)
    <3>1. \A m \in Data : Sender(m) \in Gateways /\ Receiver(m) \in Gateways
      BY PlacesAssumption DEF Sender, Receiver, Gateways
    <3>. QED  BY <3>1 DEF NothingLeftBehind
  <2>1. phase[m[2]] = "running" /\ m[2] \in App
    BY PlacesLemma DEF IInv, DataDone
  <2>2. participants # App
    BY <2>1 DEF IInv, Requests
  <2>3. ~ done[g]
    BY <2>2 DEF IInv, Answered
  <2>. QED  BY <2>3 DEF IInv, Stages, Serves
<1>. QED  BY <1>1, InitStep, InvariantStep, PTL DEF Spec

\* Nobody gets past the reply to FINALIZE before everybody has sent the request
\* (deliverRequest, processFinalize).
THEOREM FinalizeIsCollectiveHolds == Spec => []FinalizeIsCollective
<1>1. IInv => FinalizeIsCollective
  BY DEF IInv, Answered, Requests, FinalizeIsCollective
<1>. QED  BY <1>1, InitStep, InvariantStep, PTL DEF Spec
=============================================================================
