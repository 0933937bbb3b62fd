--------------------------- MODULE MCCollectives ---------------------------
EXTENDS Collectives

\* Three clusters, the first of two members; two clusters, the second one first.
ThreeOfFour == <<0, 0, 1, 2>>
Reversed    == <<1, 1, 0, 0>>

A(op, root) == [op |-> op, root |-> root]

\* Each operation once, from a member that is a coordinator and one that is not.
Singles == { <<A(op, 0)>> : op \in Op }
           \cup { <<A(op, 3)>> : op \in {"bcast", "gather", "scatter", "reduce"} }
\* Pairs of calls whose messages have the same sender, receiver and tag.
Pairs == { <<A("barrier", 0), A("bcast", 0)>>, <<A("allreduce", 0), A("barrier", 0)>>,
           <<A("allgather", 0), A("allreduce", 0)>>, <<A("bcast", 1), A("allgather", 0)>>,
           <<A("reduce", 1), A("reduce", 2)>>, <<A("gather", 0), A("gather", 3)>>,
           <<A("scatter", 3), A("scatter", 0)>>, <<A("bcast", 0), A("bcast", 2)>> }
AllPrograms == Singles \cup Pairs
BarrierOnly == { <<A("barrier", 0)>> }
=============================================================================
