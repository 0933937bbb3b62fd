---------------------------- MODULE StreamFraming ----------------------------
(***************************************************************************)
(* Messages on a TCP stream (src/src/backend/gateway.c): a gateway writes  *)
(* its messages with a non-blocking socket, as many bytes at a time as the *)
(* kernel takes, and its peer reads as many as there are.  A message is a  *)
(* header that contains its length, and the rest.                          *)
(*                                                                         *)
(* A read or a write of n bytes is n steps of one byte, so that it may     *)
(* stop anywhere.  Byte k of message n is <<n, k>>.                        *)
(***************************************************************************)
EXTENDS Integers, Sequences, FiniteSetsExt

CONSTANTS
  Header,          \* sizeof(generic_message)
  Lengths,         \* bound: the lengths of messages
  Capacity,        \* bound: bytes in the kernel buffers of the stream
  MaxMessages,     \* bound: messages
  MaxPendingMsg,   \* MAX_PENDING_DATA_MSG
  MaxPendingSize   \* MAX_PENDING_DATA_SIZE

ASSUME HeaderAssumption == Header \in Nat \ {0}
ASSUME LengthsAssumption == Lengths \subseteq { l \in Nat : l >= Header }

VARIABLES
  \* the writer
  length,      \* length[n] : header.length of message n, in the order of queueing
  outQueue,    \* info->out_queue: messages
  out,         \* info->out: the message that is being written, 0 if none
  outpos,      \* info->outpos
  state,       \* info->state: whether epoll waits for room as well
  writing,     \* nonblock_write_messages is in its loop
  pending,     \* pending_data_messages
  pendingSize, \* pending_data_size
  \* the stream
  wire,        \* bytes on their way
  \* the reader
  in,          \* the bytes of info->in up to inpos
  incount,     \* info->incount, 0 when info->in is NULL
  inQueue      \* log of the messages put into info->in_queue
outVars == <<length, outQueue, out, outpos, state, writing, pending, pendingSize>>
inVars  == <<in, incount, inQueue>>
vars    == <<outVars, wire, inVars>>

Init ==
  /\ length = << >> /\ outQueue = << >> /\ out = 0 /\ outpos = 0
  /\ state = "RO" /\ writing = FALSE /\ pending = 0 /\ pendingSize = 0
  /\ wire = << >>
  /\ in = << >> /\ incount = 0 /\ inQueue = << >>

-----------------------------------------------------------------------------
(* The writer *)

\* enqueue_data_message, when process_mpi_messages has room for a message.
EnqueueDataMessage(l) ==
  /\ ~writing
  /\ Len(length) < MaxMessages
  /\ pending < MaxPendingMsg /\ pendingSize < MaxPendingSize
  /\ length' = Append(length, l)
  /\ outQueue' = Append(outQueue, Len(length) + 1)
  /\ pending' = pending + 1
  /\ pendingSize' = pendingSize + l
  /\ UNCHANGED <<out, outpos, state, writing, wire>>
  /\ UNCHANGED inVars

\* prepare_message: the next message of the queue, unless one is in progress.
\* The variant takes the next one all the same.
TakeAnyway ==
  IF outQueue = << >>
  THEN UNCHANGED <<out, outpos, outQueue>>
  ELSE out' = Head(outQueue) /\ outpos' = 0 /\ outQueue' = Tail(outQueue)

PrepareMessage ==
  IF out # 0 \/ outQueue = << >>
  THEN UNCHANGED <<out, outpos, outQueue>>
  ELSE out' = Head(outQueue) /\ outpos' = 0 /\ outQueue' = Tail(outQueue)

\* ensure_state_ro and ensure_state_rw.  The variant never goes back to writing.
StayReadOnly == state' = "RO"
EnsureState == state' = IF out' = 0 THEN "RO" ELSE "RW"

\* prepare_messages, before every epoll_wait.
PrepareMessages ==
  /\ ~writing
  /\ PrepareMessage
  /\ EnsureState
  /\ UNCHANGED <<length, writing, pending, pendingSize, wire>>
  /\ UNCHANGED inVars

\* EPOLLOUT: there is room, and epoll was asked to report it.
SocketWritable ==
  /\ ~writing
  /\ state = "RW" /\ Len(wire) < Capacity
  /\ writing' = TRUE
  /\ UNCHANGED <<length, outQueue, out, outpos, state, pending, pendingSize, wire>>
  /\ UNCHANGED inVars

\* The last byte is written: the message no longer counts.  The variant counts
\* the bytes of the last write.
CountLast == pending' = pending - 1 /\ pendingSize' = pendingSize - 1
CountWritten == pending' = pending - 1 /\ pendingSize' = pendingSize - length[out]

\* A byte of the message in progress.
WriteByte ==
  /\ writing /\ out # 0
  /\ Len(wire) < Capacity
  /\ wire' = Append(wire, <<out, outpos>>)
  /\ IF outpos + 1 = length[out]
     THEN out' = 0 /\ outpos' = 0 /\ CountWritten
     ELSE outpos' = outpos + 1 /\ UNCHANGED <<out, pending, pendingSize>>
  /\ UNCHANGED <<length, outQueue, state, writing>>
  /\ UNCHANGED inVars

\* The message is written, and there may be another; if not, the loop ends.
WriteNext ==
  /\ writing /\ out = 0
  /\ PrepareMessage
  /\ EnsureState
  /\ writing' = (out' # 0)
  /\ UNCHANGED <<length, pending, pendingSize, wire>>
  /\ UNCHANGED inVars

\* EAGAIN: the loop ends in the middle of a message.
WouldBlock ==
  /\ writing /\ out # 0
  /\ Len(wire) = Capacity
  /\ writing' = FALSE
  /\ UNCHANGED <<length, outQueue, out, outpos, state, pending, pendingSize, wire>>
  /\ UNCHANGED inVars

-----------------------------------------------------------------------------
(* The reader *)

\* info->in->header.length, which is at the end of the header.
HeaderLength(buffer) == length[buffer[Header][1]]

Enqueue(buffer) ==
  /\ inQueue' = Append(inQueue, buffer)
  /\ in' = << >> /\ incount' = 0

\* What is read into a new message first: the header.
Wanted == IF in = << >> THEN Header ELSE incount

\* nonblock_read_message: the header, then the rest if there is more.
ReadByte ==
  LET buffer == Append(in, Head(wire))
      full   == Len(buffer) = Wanted
  IN  /\ wire # << >>
      /\ wire' = Tail(wire)
      /\ \/ /\ ~full
            /\ in' = buffer /\ incount' = Wanted
            /\ UNCHANGED inQueue
         \/ /\ full /\ Wanted > Header
            /\ Enqueue(buffer)
         \/ /\ full /\ Wanted = Header
            /\ IF HeaderLength(buffer) = Header
               THEN Enqueue(buffer)
               ELSE /\ in' = buffer /\ incount' = HeaderLength(buffer)
                    /\ UNCHANGED inQueue
      /\ UNCHANGED outVars

-----------------------------------------------------------------------------
Write == PrepareMessages \/ SocketWritable \/ WriteByte \/ WriteNext \/ WouldBlock

Next == (\E l \in Lengths : EnqueueDataMessage(l)) \/ Write \/ ReadByte

Spec == Init /\ [][Next]_vars

\* Both gateways keep running their loops.
Fairness == WF_vars(Write) /\ WF_vars(ReadByte)

FairSpec == Spec /\ Fairness

-----------------------------------------------------------------------------
(* Properties *)

\* The bytes of message n.
Bytes(n) == [k \in 1 .. length[n] |-> <<n, k - 1>>]

Stream == INSTANCE MessageStream
            WITH accepted <- [n \in 1 .. Len(length) |-> Bytes(n)], delivered <- inQueue

\* Wherever reads and writes break off, the reader puts together the messages
\* that were written, byte by byte, each once and in order: partial reads and
\* writes implement a stream of messages.
StreamOfMessages == Stream!Spec

\* The counters that stop a gateway from taking messages of MPI count what is
\* queued and what is being written, so that a partial write releases nothing.
PendingSizeExact ==
  LET held == { outQueue[i] : i \in DOMAIN outQueue } \cup ({out} \ {0})
  IN  pending = Cardinality(held) /\ pendingSize = MapThenSumSet(LAMBDA n : length[n], held)

\* Every message that is queued is read in the end: a socket that was set to
\* reading only because its queue was empty is set to writing again.
AllDelivered == <>[](Len(inQueue) = Len(length))
=============================================================================
