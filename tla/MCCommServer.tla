---------------------------- MODULE MCCommServer ----------------------------
(***************************************************************************)
(* Instances of CommServer for TLC.                                        *)
(***************************************************************************)
EXTENDS CommServer, TLC

CONSTANTS a1, a2, a3, c1, c2

\* Two processes in one cluster and one in the other.
Homes == a1 :> c1 @@ a2 :> c1 @@ a3 :> c2
WorldOrder == <<a1, a2, a3>>
On(x, y, z) == a1 :> x @@ a2 :> y @@ a3 :> z

\* In two parts that do not share a cluster, one of them in another order; in
\* two parts that do share one; and with a process that stays out.
SomeSplits ==
  { [color |-> On(0, 0, 1), key |-> On(1, 0, 0)],
    [color |-> On(0, 1, 0), key |-> On(1, 0, 0)],
    [color |-> On(-1, 1, 1), key |-> On(0, 1, 0)] }
\* One that leaves part of a cluster out, in another order than the world's.
SomeGroups == { <<a3, a1>> }
\* A part whose members alternate between the clusters.
Interleaving == { [color |-> On(0, 0, 0), key |-> On(0, 2, 1)] }
=============================================================================
