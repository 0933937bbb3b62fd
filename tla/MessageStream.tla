---------------------------- MODULE MessageStream ----------------------------
(***************************************************************************)
(* What a TCP stream between two gateways, or between a master gateway and *)
(* the server, promises: whole messages, each once, in the order in which  *)
(* they were handed to it.                                                 *)
(***************************************************************************)
EXTENDS Naturals, Sequences

VARIABLES
  accepted,   \* the messages handed to the stream
  delivered   \* the messages that came out of it

Init == accepted = << >> /\ delivered = << >>

\* One more message, whatever it is.
Accept ==
  /\ Len(accepted') = Len(accepted) + 1
  /\ \A i \in DOMAIN accepted : accepted'[i] = accepted[i]
  /\ UNCHANGED delivered

Deliver ==
  /\ Len(delivered) < Len(accepted)
  /\ delivered' = Append(delivered, accepted[Len(delivered) + 1])
  /\ UNCHANGED accepted

Spec == Init /\ [][Accept \/ Deliver]_<<accepted, delivered>>
=============================================================================
