----------------------------- MODULE MCLibrary -----------------------------
(***************************************************************************)
(* Instances for TLC of the parts that share no state with any other:      *)
(* the framing of messages, the reduction operators, groups, the tables of *)
(* handles, the message queue and the start of a run.  A behaviour is one  *)
(* of a single part, chosen at the beginning; the variables of the others  *)
(* keep their initial values.                                              *)
(***************************************************************************)
EXTENDS StreamFraming, Startup, Tables, MessageQueue

CONSTANTS
  Width, ClusterOf, Coordinates, Locations,
  my_pid, CommMembers, MAX_GROUPS, Ranges,
  m1, m2, m3

VARIABLES
  part,
  op, type, operand, left, result,
  groups, next_group

R == INSTANCE Reductions
G == INSTANCE Groups

reductionVars == <<op, type, operand, left, result>>
groupVars     == <<groups, next_group>>
libraryVars   == <<part, vars, reductionVars, groupVars, tableVars, queueVars, startupVars>>

-----------------------------------------------------------------------------
(* Values of the constants *)

FourInThree == <<1, 1, 2, 3>>
MembersOfComms == { <<0, 1, 2>>, <<2, 1>> }
SomeRanges == { <<0, 2, 2>>, <<2, 0, -1>>, <<1, 1, 1>>, <<2, 0, -2>> }
\* More objects of MPI than slots, where the table can be full.
SomeObjects == "type" :> 1 .. 3 @@ "operation" :> {1} @@ "file" :> 1 .. 3 @@ "info" :> 1 .. 2
SomePatterns == { {m1}, {m2, m3}, {m3} }
\* One job for each cluster, configured by a file, by arguments, and by both; and one
\* whose file does not have the name of a server.
Files == 0 :> [name |-> 0, server |-> "resolved", port |-> Port] @@ 1 :> << >>
         @@ 2 :> [name |-> 0, server |-> "unknown"] @@ 3 :> [name |-> 1]
CommandLines == 0 :> << >> @@ 1 :> [name |-> 1, server |-> "resolved", port |-> Port]
                @@ 2 :> [name |-> 2, server |-> "resolved", port |-> Port] @@ 3 :> << >>

ASSUME StartupAssumption

-----------------------------------------------------------------------------
Parts == {"framing", "reductions", "groups", "tables", "queue", "startup"}

LibraryInit ==
  /\ part \in Parts
  /\ part # "reductions" =>
       op = "SUM" /\ type = "INT" /\ operand = [i \in DOMAIN ClusterOf |-> 0]
  /\ Init /\ R!Init /\ G!Init /\ TablesInit /\ QueueInit /\ StartupInit

LibraryNext ==
  /\ UNCHANGED part
  /\ IF part = "framing" THEN Next ELSE UNCHANGED vars
  /\ IF part = "reductions" THEN R!Next ELSE UNCHANGED reductionVars
  /\ IF part = "groups" THEN G!Next ELSE UNCHANGED groupVars
  /\ IF part = "tables" THEN TablesNext ELSE UNCHANGED tableVars
  /\ IF part = "queue" THEN QueueNext ELSE UNCHANGED queueVars
  /\ IF part = "startup" THEN StartupNext ELSE UNCHANGED startupVars

\* Startup's Fairness, where it is the part that runs; outside of the framing
\* nothing that StreamFraming's Fairness speaks of is enabled.
LibraryFairness == Fairness /\ WF_startupVars(part = "startup" /\ StartupNext)

LibrarySpec == LibraryInit /\ [][LibraryNext]_libraryVars /\ LibraryFairness

-----------------------------------------------------------------------------
(* The properties of the parts; each module says what they mean.  Those of *)
(* StreamFraming, Startup, Tables and MessageQueue hold as well while       *)
(* another part runs.                                                      *)

\* The value of a reduction over clusters is that of MPI.
ReductionIsStandard == part = "reductions" => R!ReductionIsStandard

\* Groups are ordered sets that know the place of this process.
GroupsSound == part = "groups" => G!GroupsSound

=============================================================================
