------------------------------- MODULE Groups -------------------------------
(***************************************************************************)
(* The groups of one process (src/src/backend/group.c and the functions    *)
(* EMPI_Group_* of empi.c): ordered sets of processes in a table of fixed  *)
(* size, whose slots are handed out one after the other.  The calls are    *)
(* made with any handle of a group, wherever the program has it from, and  *)
(* with arguments that the library accepts: its ERROR ends the process.    *)
(*                                                                         *)
(* Ranks and handles count from 0 as in C; members is a sequence, so that  *)
(* the member with rank r is members[r + 1].                               *)
(***************************************************************************)
EXTENDS Integers, Sequences, SequencesExt, FiniteSets

CONSTANTS
  my_pid,      \* this process
  CommMembers, \* the members of the communicators of this process
  MAX_GROUPS,  \* size of the table
  Ranges       \* bound: triplets passed to EMPI_Group_range_incl

VARIABLES
  groups,      \* the table
  next_group   \* the next slot
groupVars == <<groups, next_group>>

GROUP_EMPTY == 1
NoGroup == [rank |-> -2, members |-> << >>]
EmptyGroup == [rank |-> -1, members |-> << >>]

\* init_groups.
Init ==
  /\ groups = [h \in 0 .. MAX_GROUPS - 1 |-> IF h = GROUP_EMPTY THEN EmptyGroup ELSE NoGroup]
  /\ next_group = 2

Size(g) == Len(g.members)

\* The rank of a process in a sequence of members, -1 if it is not there.
RankIn(members, pid) == SelectInSeq(members, LAMBDA m : m = pid) - 1

\* H2G: a handle of a group.
IsGroup(h) == h \in DOMAIN groups /\ groups[h] # NoGroup

\* add_group: the next slot of the table.
AddGroup(g) ==
  /\ next_group < MAX_GROUPS
  /\ groups' = [groups EXCEPT ![next_group] = g]
  /\ next_group' = next_group + 1

\* create_group: an empty group is the one that is always there.  The handle stored
\* with it, which the call returns, is never set (init_groups): what the program then
\* has is any number.
CreateGroup(g) == IF g.members = << >> THEN UNCHANGED groupVars ELSE AddGroup(g)

-----------------------------------------------------------------------------
(* What the functions compute *)

\* group_comm_group: the members of a communicator.
GroupOf(members) == [rank |-> RankIn(members, my_pid), members |-> members]

\* group_incl, for ranks that are in bounds.  my_pid is looked for in the result.
Incl(g, ranks) ==
  LET members == [i \in DOMAIN ranks |-> g.members[ranks[i] + 1]]
  IN  [rank |-> RankIn(members, my_pid), members |-> members]

InBounds(g, ranks) == \A i \in DOMAIN ranks : ranks[i] \in 0 .. Size(g) - 1

\* get_range: the loops from first to last, and the errors they can run into.
RangeRanks(g, range) ==
  LET first == range[1]  last == range[2]  stride == range[3]
  IN  IF stride > 0
      THEN SetToSortSeq({ i \in first .. last : (i - first) % stride = 0 }, <)
      ELSE SetToSortSeq({ i \in last .. first : (first - i) % (-stride) = 0 }, >)

RangeOK(g, range) ==
  LET first == range[1]  last == range[2]  stride == range[3]
  IN  /\ stride # 0
      /\ first \in 0 .. Size(g) - 1 /\ last \in 0 .. Size(g) - 1
      /\ \/ first <= last /\ stride > 0
         \/ last <= first /\ stride < 0

\* group_range_incl: the ranges are copied into an array as large as the group.
RangesOK(g, ranges) ==
  /\ \A i \in DOMAIN ranges : RangeOK(g, ranges[i])
  /\ FoldLeft(LAMBDA n, r : n + Len(RangeRanks(g, r)), 0, ranges) <= Size(g)

RangeIncl(g, ranges) ==
  LET ranks   == FoldLeft(LAMBDA s, r : s \o RangeRanks(g, r), << >>, ranges)
      members == [i \in DOMAIN ranks |-> g.members[ranks[i] + 1]]
  IN  IF g.members = << >> THEN EmptyGroup
      ELSE [rank |-> RankIn(members, my_pid), members |-> members]

\* group_union: the rank is that in the first group, or the place this process gets
\* behind it.  The variant takes the rank it has in the second group.
RankOfSecond(in1, in2, members) == IF in1.rank # -1 THEN in1.rank ELSE in2.rank
UnionRank(in1, in2, members) ==
  IF in1.rank # -1 THEN in1.rank
  ELSE IF in2.rank # -1 THEN RankIn(members, my_pid) ELSE -1

Union(in1, in2) ==
  LET others  == SelectSeq(in2.members, LAMBDA m : RankIn(in1.members, m) = -1)
      members == in1.members \o others
  IN  [rank |-> UnionRank(in1, in2, members), members |-> members]

-----------------------------------------------------------------------------
(* The calls *)

\* EMPI_Comm_group.
CommGroup(members) == CreateGroup(GroupOf(members))

\* EMPI_Group_incl.
GroupIncl(h, ranks) ==
  /\ IsGroup(h)
  /\ InBounds(groups[h], ranks)
  /\ CreateGroup(Incl(groups[h], ranks))

GroupRangeIncl(h, ranges) ==
  /\ IsGroup(h)
  /\ groups[h].members # << >> => RangesOK(groups[h], ranges)
  /\ CreateGroup(RangeIncl(groups[h], ranges))

GroupUnion(h1, h2) ==
  /\ IsGroup(h1) /\ IsGroup(h2)
  /\ CreateGroup(Union(groups[h1], groups[h2]))

\* Distinct ranks, as group.h:57 asks for, of which one may be out of bounds.
RankLists(g) == { s \in SeqOf(0 .. Size(g), Size(g)) : IsInjective(s) }
RangeLists(g) ==
  { s \in SeqOf(Ranges, 2) :
      RangesOK(g, s) => IsInjective(RangeIncl(g, s).members) }

Next ==
  \/ \E members \in CommMembers : CommGroup(members)
  \/ \E h \in DOMAIN groups :
        \/ \E ranks \in RankLists(groups[h]) : GroupIncl(h, ranks)
        \/ \E ranges \in RangeLists(groups[h]) : GroupRangeIncl(h, ranges)
        \/ \E h2 \in DOMAIN groups : GroupUnion(h, h2)

-----------------------------------------------------------------------------
(* Properties *)

\* Every group is an ordered set, and knows the place of this process in it.
RanksRight ==
  \A h \in DOMAIN groups : groups[h] # NoGroup =>
    /\ IsInjective(groups[h].members)
    /\ groups[h].rank = RankIn(groups[h].members, my_pid)

\* "The functionality of this routine is specified to be equivalent to expanding
\* the array of ranges to an array of the included ranks and passing the resulting
\* array [...] to EMPI_GROUP_INCL" (group.c:509).
Expansion(range) ==
  [k \in 1 .. ((range[2] - range[1]) \div range[3]) + 1 |-> range[1] + (k - 1) * range[3]]

RangesExpand ==
  \A h \in DOMAIN groups : \A ranges \in RangeLists(groups[h]) :
    RangesOK(groups[h], ranges) =>
      RangeIncl(groups[h], ranges)
        = Incl(groups[h], FoldLeft(LAMBDA s, r : s \o Expansion(r), << >>, ranges))

\* After any sequence of calls.
GroupsSound == RanksRight /\ RangesExpand
=============================================================================
