---------------------------- MODULE MatchingQueue ----------------------------
(***************************************************************************)
(* What a queue of messages promises, and what the modules about the       *)
(* gateways and the requests take a queue to be: a sequence, and receives  *)
(* take the first message that matches.                                    *)
(***************************************************************************)
EXTENDS Naturals, Sequences, SequencesExt

CONSTANTS Messages, Patterns
VARIABLES
  queue,
  last    \* the last call

Init == queue = << >> /\ last = << >>

Put(m) == queue' = Append(queue, m) /\ last' = <<"put", m>>

\* The first one that matches, if there is one.
Take(pattern) ==
  LET k == SelectInSeq(queue, LAMBDA m : m \in pattern)
  IN  IF k = 0 THEN last' = << >> /\ UNCHANGED queue
      ELSE last' = <<"taken", queue[k]>> /\ queue' = RemoveAt(queue, k)

Next == \/ \E m \in Messages : Put(m)
        \/ \E pattern \in Patterns \cup {Messages} : Take(pattern)

Spec == Init /\ [][Next]_<<queue, last>>
=============================================================================
