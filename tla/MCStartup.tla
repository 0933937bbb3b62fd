----------------------------- MODULE MCStartup -----------------------------
(***************************************************************************)
(* An instance of Startup for TLC: three clusters, and a job that has the  *)
(* name of no cluster in its configuration file.                           *)
(***************************************************************************)
EXTENDS Startup

Complete(c) == [name |-> c, server |-> "resolved", port |-> Port]
Files == [j \in Jobs |-> Complete(IF j \in Cluster THEN j ELSE Unknown)]
NoArguments == [j \in Jobs |-> << >>]
=============================================================================
