---------------------------- MODULE MessageQueue ----------------------------
(***************************************************************************)
(* The queues of messages (src/src/backend/message_queue.c): linked lists  *)
(* with a pointer to the last element, from whose middle a receive takes   *)
(* the first message it matches.  Nodes are addresses, which free gives    *)
(* back to malloc.                                                         *)
(***************************************************************************)
EXTENDS Naturals, Sequences, SequencesExt

CONSTANTS
  Nodes,     \* bound: addresses of message_info
  Messages,  \* kinds of messages: a communicator, a source and a tag
  Patterns   \* what receives ask for: sets of kinds that match

NULL == 0

\* NULL is the address of no node, and no message.
ASSUME QueueAssumption == IsFiniteSet(Nodes) /\ NULL \notin Nodes /\ NULL \notin Messages

VARIABLES
  heap,   \* node -> its message and the next node; FREE when it is not allocated
  head, tail,
  last    \* the last call: what was put or taken, << >> when nothing was found
queueVars == <<heap, head, tail, last>>

FREE == [message |-> NULL, next |-> NULL]

\* message_queue_init.
QueueInit ==
  /\ heap = [n \in Nodes |-> FREE]
  /\ head = NULL /\ tail = NULL /\ last = << >>

\* message_enqueue.
MessageEnqueue(n, m) ==
  /\ heap[n] = FREE
  /\ IF head = NULL
     THEN /\ head' = n
          /\ heap' = [heap EXCEPT ![n] = [message |-> m, next |-> NULL]]
     ELSE /\ heap' = [heap EXCEPT ![n] = [message |-> m, next |-> NULL], ![tail].next = n]
          /\ UNCHANGED head
  /\ tail' = n
  /\ last' = <<"put", m>>

\* The head leaves the list.
UnlinkHead ==
  /\ head' = IF head = tail THEN NULL ELSE heap[head].next
  /\ tail' = IF head = tail THEN NULL ELSE tail

\* message_dequeue.
MessageDequeue ==
  IF head = NULL THEN last' = << >> /\ UNCHANGED <<heap, head, tail>>
  ELSE /\ UnlinkHead
       /\ last' = <<"taken", heap[head].message>>
       /\ heap' = [heap EXCEPT ![head] = FREE]

-----------------------------------------------------------------------------
(* data_message_dequeue_matching *)

\* The nodes that curr runs through.
Chain ==
  LET curr[i \in 1 .. Cardinality(Nodes)] ==
        IF i = 1 THEN head ELSE IF curr[i - 1] = NULL THEN NULL ELSE heap[curr[i - 1]].next
  IN  [i \in { j \in DOMAIN curr : curr[j] # NULL } |-> curr[i]]

\* Where the loop stops, 0 if nothing matches.
FirstMatching(pattern) == SelectInSeq(Chain, LAMBDA n : heap[n].message \in pattern)

\* The three ways to take a node out of the list: as the head, as the tail, and from
\* the middle.  The variant forgets that the last one is the tail.
UnlinkMiddle(k) ==
  /\ heap' = [heap EXCEPT ![Chain[k - 1]].next = heap[Chain[k]].next, ![Chain[k]] = FREE]
  /\ UNCHANGED <<head, tail>>

UnlinkAnywhere(k) ==
  IF k = 1 THEN UnlinkHead /\ heap' = [heap EXCEPT ![head] = FREE] ELSE UnlinkMiddle(k)

Unlink(k) ==
  LET curr == Chain[k]
  IN  IF curr = head THEN UnlinkHead /\ heap' = [heap EXCEPT ![curr] = FREE]
      ELSE IF curr = tail
      THEN /\ tail' = Chain[k - 1]
           /\ heap' = [heap EXCEPT ![Chain[k - 1]].next = NULL, ![curr] = FREE]
           /\ UNCHANGED head
      ELSE UnlinkMiddle(k)

DequeueMatching(pattern) ==
  LET k == FirstMatching(pattern)
  IN  IF k = 0 THEN last' = << >> /\ UNCHANGED <<heap, head, tail>>
      ELSE last' = <<"taken", heap[Chain[k]].message>> /\ Unlink(k)

QueueNext ==
  \/ \E n \in Nodes, m \in Messages : MessageEnqueue(n, m)
  \/ MessageDequeue
  \/ \E pattern \in Patterns : DequeueMatching(pattern)

QueueSpec == QueueInit /\ [][QueueNext]_queueVars

-----------------------------------------------------------------------------
(* Properties *)

\* The messages of the list, from its head.
Contents == [i \in DOMAIN Chain |-> heap[Chain[i]].message]

Sequence == INSTANCE MatchingQueue WITH queue <- Contents

\* Whatever is taken from it, and from where, the list is a queue: what comes in is
\* last, and what goes out is the first that matches.
QueueIsSequence == Sequence!Spec
=============================================================================
