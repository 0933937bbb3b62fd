----------------------------- MODULE MCGateway -----------------------------
(***************************************************************************)
(* Instances of Gateway for TLC.                                           *)
(***************************************************************************)
EXTENDS Gateway, TLC

CONSTANTS c1, c2, c3, k1, k2, a1, a2, a3

\* One process per cluster, one gateway column.
TwoHomes == a1 :> c1 @@ a2 :> c2
OneColumn == [a \in App |-> k1]
\* a1 sends, a2 only receives.
OneSender == a1 :> 3 @@ a2 :> 0
\* Both send, so that both gateways can be full.
BothSend == a1 :> 2 @@ a2 :> 1
\* One process in each of three clusters.
EachItsCluster == a1 :> c1 @@ a2 :> c2 @@ a3 :> c3
SendersOfTwoClusters == a1 :> 1 @@ a2 :> 0 @@ a3 :> 1
\* Bound: the receives of one process are explored.
OnlyA2Receives == \A a \in App \ {a2} : waiting[a] = NotWaiting
NameSymmetry == Permutations(Tag) \cup Permutations(Comm)
=============================================================================
