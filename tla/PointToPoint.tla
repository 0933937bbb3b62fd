---------------------------- MODULE PointToPoint ----------------------------
(***************************************************************************)
(* What wide-area point-to-point messaging promises to the application:    *)
(* the data messages one process sends to another are received without     *)
(* loss, without duplication, and without overtaking.  A receive names a   *)
(* communicator, a source (or any) and a tag (or any); from a given        *)
(* sender it always takes the first message, in the order of sending, that *)
(* it could take, and it ends without a message only if it is a probe.     *)
(* How messages travel is left to the implementation.                      *)
(***************************************************************************)
EXTENDS Naturals, Sequences

CONSTANTS
  App,        \* application processes, of all clusters
  Comm,       \* communicators
  Tag,        \* message tags
  AnySource,  \* the wildcard EMPI_ANY_SOURCE
  AnyTag      \* the wildcard EMPI_ANY_TAG

VARIABLES
  sent,       \* sent[a]    : the messages a has sent, oldest first
  waiting,    \* waiting[b] : the receive b is in, if any
  got         \* got[b]     : the messages b has received

vars == <<sent, waiting, got>>

\* A receive of (comm, source, tag).  One that is blocking ends with a message,
\* one that is not may end without.
Request == [comm : Comm, source : App \cup {AnySource}, tag : Tag \cup {AnyTag},
            blocking : BOOLEAN]
NotWaiting == [waiting |-> FALSE]

\* What the receive r may take.
Accepts(r, m) ==
  /\ m.comm = r.comm
  /\ r.source \in {AnySource, m.src}
  /\ r.tag \in {AnyTag, m.tag}

\* Positions of sent[a] holding a message for b that r could still take.
Candidates(a, b, r) ==
  { i \in DOMAIN sent[a] : /\ sent[a][i].dst = b
                           /\ Accepts(r, sent[a][i])
                           /\ sent[a][i] \notin got[b] }

Init ==
  /\ sent    = [a \in App |-> << >>]
  /\ waiting = [b \in App |-> NotWaiting]
  /\ got     = [b \in App |-> {}]

Send(a, b, c, t) ==
  /\ waiting[a] = NotWaiting
  /\ sent' = [sent EXCEPT ![a] =
                Append(@, [src |-> a, dst |-> b, comm |-> c, tag |-> t,
                           n |-> Len(@) + 1])]
  /\ UNCHANGED <<waiting, got>>

Ask(b, r) ==
  /\ waiting[b] = NotWaiting
  /\ waiting' = [waiting EXCEPT ![b] = r]
  /\ UNCHANGED <<sent, got>>

Receive(b) ==
  /\ waiting[b] # NotWaiting
  /\ \E a \in App : \E i \in Candidates(a, b, waiting[b]) :
        /\ \A j \in Candidates(a, b, waiting[b]) : i <= j
        /\ got' = [got EXCEPT ![b] = @ \cup {sent[a][i]}]
  /\ waiting' = [waiting EXCEPT ![b] = NotWaiting]
  /\ UNCHANGED sent

GiveUp(b) ==
  /\ waiting[b] # NotWaiting
  /\ ~ waiting[b].blocking
  /\ waiting' = [waiting EXCEPT ![b] = NotWaiting]
  /\ UNCHANGED <<sent, got>>

Next ==
  \/ \E a, b \in App, c \in Comm, t \in Tag : Send(a, b, c, t)
  \/ \E b \in App : Receive(b) \/ GiveUp(b) \/ \E r \in Request : Ask(b, r)

Spec == Init /\ [][Next]_vars
=============================================================================
