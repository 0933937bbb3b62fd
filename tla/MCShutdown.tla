----------------------------- MODULE MCShutdown -----------------------------
(***************************************************************************)
(* An instance of Shutdown for TLC.                                        *)
(***************************************************************************)
EXTENDS Shutdown, TLC

CONSTANTS a1, a2, a3, c1, c2

\* Two processes in one cluster, on different gateways, and one in the other;
\* gateway 0 is the master, and data goes both ways.
Homes == a1 :> c1 @@ a2 :> c1 @@ a3 :> c2
Vias  == a1 :> 0 @@ a2 :> 1 @@ a3 :> 1
Program == { <<a1, a3>>, <<a3, a2>> }
=============================================================================
