------------------------- MODULE StreamFramingProofs -------------------------
(***************************************************************************)
(* Proofs that the framing of messages implements a stream of messages,    *)
(* and that the counters of what is held back are right.                   *)
(*                                                                         *)
(* The invariant says where everybody is: the writer and the reader each   *)
(* have a position, a message and a byte of it, and the bytes on the wire  *)
(* lead from the position of the reader to that of the writer, one after   *)
(* the other.                                                              *)
(***************************************************************************)
EXTENDS StreamFraming, FiniteSetTheorems, TLAPS

N == Len(length)

\* The byte after b.
Following(b) == IF b[2] + 1 < length[b[1]] THEN <<b[1], b[2] + 1>> ELSE <<b[1] + 1, 0>>

WriterAt == IF out # 0 THEN <<out, outpos>> ELSE <<N - Len(outQueue) + 1, 0>>
ReaderAt == <<Len(inQueue) + 1, Len(in)>>

TypeInv ==
  /\ length \in Seq(Lengths)
  /\ outQueue \in Seq(Nat)
  /\ out \in Nat /\ outpos \in Nat
  /\ writing \in BOOLEAN
  /\ wire \in Seq(Nat \X Nat)
  /\ in \in Seq(Nat \X Nat)
  /\ incount \in Nat
  /\ inQueue \in Seq(Seq(Nat \X Nat))

\* The queue holds the last messages; the one before them may be in progress.
WriterInv ==
  /\ Len(outQueue) <= N
  /\ \A i \in 1 .. Len(outQueue) : outQueue[i] = N - Len(outQueue) + i
  /\ out # 0 => /\ out = N - Len(outQueue)
                /\ outpos < length[out]

WireInv ==
  /\ \A i \in 1 .. Len(wire) : /\ wire[i][1] \in 1 .. N
                               /\ wire[i][2] < length[wire[i][1]]
  /\ \A i \in 1 .. Len(wire) - 1 : wire[i + 1] = Following(wire[i])
  /\ IF wire = << >> THEN ReaderAt = WriterAt
     ELSE wire[1] = ReaderAt /\ Following(wire[Len(wire)]) = WriterAt

\* What the reader has of the message it is reading, and what it waits for.
ReaderInv ==
  /\ \A k \in 1 .. Len(in) : in[k] = <<Len(inQueue) + 1, k - 1>>
  /\ in # << >> =>
       /\ Len(inQueue) + 1 <= N
       /\ Len(in) < incount
       /\ IF Len(in) < Header THEN incount = Header
          ELSE incount = length[Len(inQueue) + 1]

QueueInv ==
  /\ Len(inQueue) <= N
  /\ \A n \in 1 .. Len(inQueue) : inQueue[n] = Bytes(n)

IInv == TypeInv /\ WriterInv /\ WireInv /\ ReaderInv /\ QueueInv

-----------------------------------------------------------------------------
(* Facts about the pieces *)

\* A message has at least a header, so that it has bytes.
LEMMA LengthAtLeast ==
  ASSUME TypeInv, NEW n \in 1 .. N
  PROVE  length[n] \in Nat /\ length[n] >= Header /\ length[n] > 0
  <1>1. length[n] \in Lengths
    BY DEF TypeInv, N
  <1>2. length[n] \in Nat /\ length[n] >= Header
    BY <1>1, LengthsAssumption
  <1> QED
    BY <1>2, HeaderAssumption

\* Taking the next message of the queue moves the writer nowhere.
LEMMA PrepareKeepsPlace ==
  ASSUME TypeInv, WriterInv, PrepareMessage, UNCHANGED length
  PROVE  /\ outQueue' \in Seq(Nat) /\ out' \in Nat /\ outpos' \in Nat
         /\ WriterInv' /\ WriterAt' = WriterAt
  <1>1. CASE out # 0 \/ outQueue = << >>
    BY <1>1 DEF TypeInv, WriterInv, PrepareMessage, WriterAt, N
  <1>2. CASE out = 0 /\ outQueue # << >>
    <2>1. /\ out' = outQueue[1] /\ outpos' = 0 /\ outQueue' = Tail(outQueue)
          /\ Len(outQueue) > 0 /\ Len(outQueue) \in Nat /\ N \in Nat /\ N' = N
      BY <1>2 DEF PrepareMessage, TypeInv, N
    <2>2. out' = N - Len(outQueue) + 1 /\ out' \in 1 .. N
      BY <2>1 DEF WriterInv
    <2>3. /\ outQueue' \in Seq(Nat) /\ Len(outQueue') = Len(outQueue) - 1
          /\ \A i \in 1 .. Len(outQueue') : outQueue'[i] = outQueue[i + 1]
      BY <2>1 DEF TypeInv
    <2>4. length[out'] > 0
      BY <2>2, LengthAtLeast
    <2>5. Len(outQueue') <= N' /\ out' = N' - Len(outQueue') /\ out' # 0 /\ out' \in Nat
      <3>1. Len(outQueue) <= N
        BY DEF WriterInv
      <3>2. out' \in Nat /\ out' # 0
        BY <2>1, <2>2
      <3>3. Len(outQueue') <= N'
        BY <2>1, <2>3, <3>1
      <3>4. out' = N' - Len(outQueue')
        <4>1. out' = N - Len(outQueue) + 1
          BY <2>2
        <4> QED
          BY <2>1, <2>3, <4>1
      <3> QED
        BY <3>2, <3>3, <3>4
    <2>6. \A i \in 1 .. Len(outQueue') : outQueue'[i] = N' - Len(outQueue') + i
      <3> SUFFICES ASSUME NEW i \in 1 .. Len(outQueue')
                   PROVE  outQueue'[i] = N' - Len(outQueue') + i
        OBVIOUS
      <3>1. i \in Nat /\ i + 1 \in 1 .. Len(outQueue)
        BY <2>1, <2>3
      <3>2. outQueue[i + 1] = N - Len(outQueue) + (i + 1)
        BY <3>1 DEF WriterInv
      <3> QED
        BY <2>1, <2>3, <3>1, <3>2
    <2>7. outpos' < length'[out']
      BY <2>1, <2>4
    <2>8. WriterInv'
      BY <2>5, <2>6, <2>7 DEF WriterInv
    <2>9. WriterAt' = WriterAt
      BY <1>2, <2>1, <2>2, <2>5 DEF WriterAt
    <2> QED
      BY <2>1, <2>3, <2>5, <2>8, <2>9
  <1> QED
    BY <1>1, <1>2

\* What a step that moves neither the writer nor the reader leaves alone.
LEMMA StandingStill ==
  ASSUME TypeInv, WireInv, ReaderInv, QueueInv, WriterAt' = WriterAt,
         UNCHANGED <<length, wire, in, incount, inQueue>>
  PROVE  WireInv' /\ ReaderInv' /\ QueueInv'
  <1>1. ReaderAt' = ReaderAt /\ N' = N
    BY DEF ReaderAt, N
  <1>2. WireInv'
    BY <1>1 DEF WireInv, Following, N
  <1>3. ReaderInv' /\ QueueInv'
    BY <1>1 DEF ReaderInv, QueueInv, Bytes, N
  <1> QED
    BY <1>2, <1>3

-----------------------------------------------------------------------------
(* The invariant *)

LEMMA InitIInv == Init => IInv
  <1> SUFFICES ASSUME Init PROVE IInv
    OBVIOUS
  <1>1. TypeInv
    <2>1. << >> \in Seq(Lengths) /\ << >> \in Seq(Nat) /\ << >> \in Seq(Nat \X Nat)
      OBVIOUS
    <2>2. << >> \in Seq(Seq(Nat \X Nat))
      OBVIOUS
    <2> QED
      BY <2>1, <2>2 DEF Init, TypeInv
  <1>2. WriterInv /\ ReaderInv /\ QueueInv
    BY DEF Init, WriterInv, ReaderInv, QueueInv, N
  <1>3. WireInv
    BY DEF Init, WireInv, ReaderAt, WriterAt, N
  <1> QED
    BY <1>1, <1>2, <1>3 DEF IInv

\* Queueing a message: it is behind everything else.
LEMMA EnqueueKeepsIInv ==
  ASSUME IInv, NEW l \in Lengths, EnqueueDataMessage(l)
  PROVE  IInv'
  <1> USE DEF IInv
  <1>1. /\ length' = Append(length, l) /\ outQueue' = Append(outQueue, N + 1)
        /\ UNCHANGED <<out, outpos, state, writing, wire, in, incount, inQueue>>
    BY DEF EnqueueDataMessage, inVars, N
  <1>2. /\ N \in Nat /\ N' = N + 1 /\ Len(outQueue) \in Nat
        /\ Len(outQueue') = Len(outQueue) + 1
        /\ \A n \in 1 .. N : length'[n] = length[n]
    BY <1>1 DEF TypeInv, N
  <1>3. TypeInv'
    BY <1>1, <1>2 DEF TypeInv
  <1>4. WriterInv'
    <2>1. \A i \in 1 .. Len(outQueue') : outQueue'[i] = N' - Len(outQueue') + i
      <3> SUFFICES ASSUME NEW i \in 1 .. Len(outQueue')
                   PROVE  outQueue'[i] = N' - Len(outQueue') + i
        OBVIOUS
      <3>1. CASE i = Len(outQueue) + 1
        BY <1>1, <1>2, <3>1 DEF TypeInv
      <3>2. CASE i # Len(outQueue) + 1
        <4>1. i \in 1 .. Len(outQueue)
          BY <1>2, <3>2
        <4>2. outQueue'[i] = outQueue[i]
          BY <1>1, <4>1 DEF TypeInv
        <4> QED
          BY <1>2, <4>1, <4>2 DEF WriterInv
      <3> QED
        BY <3>1, <3>2
    <2>2. out' # 0 => out' = N' - Len(outQueue') /\ outpos' < length'[out']
      <3> SUFFICES ASSUME out' # 0 PROVE out' = N' - Len(outQueue') /\ outpos' < length'[out']
        OBVIOUS
      <3>1. out' = out /\ outpos' = outpos /\ out = N - Len(outQueue) /\ outpos < length[out]
        BY <1>1 DEF WriterInv
      <3>2. out \in 1 .. N
        BY <1>2, <3>1 DEF WriterInv, TypeInv
      <3> QED
        BY <1>2, <3>1, <3>2
    <2> QED
      BY <1>2, <2>1, <2>2 DEF WriterInv
  <1>5. WriterAt' = WriterAt /\ ReaderAt' = ReaderAt
    BY <1>1, <1>2 DEF WriterAt, ReaderAt
  <1>6. \A i \in 1 .. Len(wire) : Following(wire[i])' = Following(wire[i])
    BY <1>1, <1>2 DEF Following, WireInv
  <1>7. WireInv'
    <2>1. \A i \in 1 .. Len(wire) : wire'[i][1] \in 1 .. N' /\ wire'[i][2] < length'[wire'[i][1]]
      <3> SUFFICES ASSUME NEW i \in 1 .. Len(wire)
                   PROVE  wire[i][1] \in 1 .. N' /\ wire[i][2] < length'[wire[i][1]]
        BY <1>1
      <3>1. wire[i][1] \in 1 .. N /\ wire[i][2] < length[wire[i][1]]
        BY DEF WireInv
      <3> QED
        BY <1>2, <3>1
    <2>2. \A i \in 1 .. Len(wire) - 1 : wire'[i + 1] = Following(wire[i])'
      BY <1>1, <1>6 DEF WireInv, TypeInv
    <2>3. wire # << >> => Len(wire) \in 1 .. Len(wire)
      BY DEF TypeInv
    <2> QED
      BY <1>1, <1>5, <1>6, <2>1, <2>2, <2>3 DEF WireInv
  <1>8. ReaderInv'
    <2>1. in # << >> => Len(inQueue) + 1 \in 1 .. N
      BY <1>2 DEF ReaderInv, TypeInv
    <2>2. in # << >> => length'[Len(inQueue) + 1] = length[Len(inQueue) + 1]
      BY <1>2, <2>1
    <2>3. in # << >> => Len(inQueue) + 1 <= N'
      BY <1>2, <2>1
    <2> QED
      BY <1>1, <2>2, <2>3 DEF ReaderInv
  <1>9. QueueInv'
    <2>1. Len(inQueue) <= N'
      BY <1>2 DEF QueueInv, TypeInv
    <2>2. ASSUME NEW n \in 1 .. Len(inQueue) PROVE Bytes(n)' = Bytes(n)
      <3>1. n \in 1 .. N
        BY <1>2 DEF QueueInv, TypeInv
      <3>2. length'[n] = length[n]
        BY <1>2, <3>1
      <3> QED
        BY <3>2 DEF Bytes
    <2> QED
      BY <1>1, <2>1, <2>2 DEF QueueInv
  <1> QED
    BY <1>3, <1>4, <1>7, <1>8, <1>9

\* The steps of the writer that take the next message.
LEMMA PrepareKeepsIInv ==
  ASSUME IInv, PrepareMessages \/ WriteNext
  PROVE  IInv'
  <1> USE DEF IInv
  <1>1. PrepareMessage /\ UNCHANGED <<length, wire, in, incount, inQueue>> /\ writing' \in BOOLEAN
    BY DEF PrepareMessages, WriteNext, inVars, TypeInv
  <1>2. TypeInv' /\ WriterInv' /\ WriterAt' = WriterAt
    BY <1>1, PrepareKeepsPlace DEF TypeInv
  <1> QED
    BY <1>1, <1>2, StandingStill

\* The beginning and the end of the loop of the writer.
LEMMA LoopKeepsIInv ==
  ASSUME IInv, SocketWritable \/ WouldBlock \/ UNCHANGED vars
  PROVE  IInv'
  <1> USE DEF IInv
  <1>1. UNCHANGED <<length, outQueue, out, outpos, wire, in, incount, inQueue>> /\ writing' \in BOOLEAN
    BY DEF SocketWritable, WouldBlock, vars, outVars, inVars, TypeInv
  <1>2. TypeInv' /\ WriterInv' /\ WriterAt' = WriterAt
    BY <1>1 DEF TypeInv, WriterInv, WriterAt, N
  <1> QED
    BY <1>1, <1>2, StandingStill

\* A byte is written: the end of the wire and the writer move on together.
LEMMA WriteKeepsIInv ==
  ASSUME IInv, WriteByte
  PROVE  IInv'
  <1> USE DEF IInv
  <1>1. /\ out # 0 /\ wire' = Append(wire, <<out, outpos>>)
        /\ UNCHANGED <<length, outQueue, writing, in, incount, inQueue>>
        /\ IF outpos + 1 = length[out] THEN out' = 0 /\ outpos' = 0
                                       ELSE outpos' = outpos + 1 /\ out' = out
    BY DEF WriteByte, inVars, CountWritten
  <1>2. /\ N \in Nat /\ N' = N /\ out = N - Len(outQueue) /\ outpos < length[out]
        /\ out \in 1 .. N /\ WriterAt = <<out, outpos>> /\ Len(outQueue) \in Nat
    BY <1>1 DEF WriterInv, WriterAt, TypeInv, N
  <1>3. length[out] \in Nat
    BY <1>2, LengthAtLeast
  <1>4. TypeInv'
    <2>1. out' \in Nat /\ outpos' \in Nat
      BY <1>1 DEF TypeInv
    <2>2. wire' \in Seq(Nat \X Nat)
      BY <1>1 DEF TypeInv
    <2>3. writing' \in BOOLEAN
      BY <1>1 DEF TypeInv
    <2> QED
      BY <1>1, <2>1, <2>2, <2>3 DEF TypeInv
  <1>5. WriterInv'
    BY <1>1, <1>2, <1>3 DEF WriterInv, TypeInv
  <1>6. WriterAt' = Following(<<out, outpos>>)
    <2>1. outpos \in Nat
      BY DEF TypeInv
    <2>2. CASE outpos + 1 = length[out]
      BY <1>1, <1>2, <1>3, <2>1, <2>2 DEF WriterAt, Following
    <2>3. CASE outpos + 1 # length[out]
      BY <1>1, <1>2, <1>3, <2>1, <2>3 DEF WriterAt, Following
    <2> QED
      BY <2>2, <2>3
  <1>7. ReaderAt' = ReaderAt /\ Following(wire[Len(wire)])' = Following(wire'[Len(wire')])
    BY <1>1 DEF ReaderAt, Following
  <1>8. WireInv'
    <2> DEFINE b == <<out, outpos>>
    <2>0. wire \in Seq(Nat \X Nat) /\ b \in Nat \X Nat /\ wire' = Append(wire, b)
      BY <1>1 DEF TypeInv
    <2>1. /\ Len(wire) \in Nat /\ Len(wire') = Len(wire) + 1 /\ wire' # << >>
          /\ wire'[Len(wire')] = b
          /\ \A i \in 1 .. Len(wire) : wire'[i] = wire[i]
      <3> HIDE DEF b
      <3>1. Len(wire) \in Nat /\ Len(wire') = Len(wire) + 1
        BY <2>0
      <3>2. \A i \in 1 .. Len(wire) : wire'[i] = wire[i]
        BY <2>0
      <3>3. wire'[Len(wire) + 1] = b
        BY <2>0
      <3>4. wire' # << >>
        BY <3>1
      <3> QED
        BY <3>1, <3>2, <3>3, <3>4
    <2>2. \A i \in 1 .. Len(wire') : wire'[i][1] \in 1 .. N' /\ wire'[i][2] < length'[wire'[i][1]]
      BY <1>1, <1>2, <2>1 DEF WireInv
    <2>3. ASSUME NEW i \in 1 .. Len(wire') - 1
          PROVE  wire'[i + 1] = Following(wire[i])
      <3>0. i \in 1 .. Len(wire)
        BY <2>1
      <3>1. CASE i = Len(wire)
        <4>1. wire # << >>
          BY <2>1, <3>0
        <4>2. Following(wire[i]) = b
          BY <1>2, <3>1, <4>1 DEF WireInv
        <4>3. wire'[i + 1] = b
          BY <2>1, <3>1
        <4> QED
          BY <4>2, <4>3
      <3>2. CASE i # Len(wire)
        BY <2>1, <3>0, <3>2 DEF WireInv
      <3> QED
        BY <3>1, <3>2
    <2>4. wire'[1] = ReaderAt'
      <3>1. CASE wire = << >>
        BY <1>2, <1>7, <2>1, <3>1 DEF WireInv
      <3>2. CASE wire # << >>
        <4>1. 1 \in 1 .. Len(wire)
          BY <2>0, <3>2
        <4> QED
          BY <1>7, <2>1, <3>2, <4>1 DEF WireInv
      <3> QED
        BY <3>1, <3>2
    <2>5. Following(wire[Len(wire)])' = WriterAt'
      BY <1>6, <1>7, <2>1
    <2>6. \A i \in 1 .. Len(wire') - 1 : wire'[i + 1] = Following(wire[i])'
      <3> SUFFICES ASSUME NEW i \in 1 .. Len(wire') - 1
                   PROVE  wire'[i + 1] = Following(wire[i])'
        OBVIOUS
      <3>1. Following(wire[i])' = Following(wire'[i])
        BY <1>1 DEF Following
      <3>2. wire'[i] = wire[i]
        BY <2>1
      <3> QED
        BY <2>3, <3>1, <3>2
    <2> QED
      BY <2>1, <2>2, <2>4, <2>5, <2>6 DEF WireInv
  <1>9. ReaderInv' /\ QueueInv'
    BY <1>1, <1>2 DEF ReaderInv, QueueInv, Bytes
  <1> QED
    BY <1>4, <1>5, <1>8, <1>9

\* A byte is read: the reader and the head of the wire move on together.
LEMMA ReadKeepsIInv ==
  ASSUME IInv, ReadByte
  PROVE  IInv'
  <1> USE DEF IInv
  <1> DEFINE r == Len(inQueue) + 1
             buffer == Append(in, Head(wire))
  <1>1. /\ wire # << >> /\ wire' = Tail(wire)
        /\ UNCHANGED <<length, outQueue, out, outpos, writing>>
    BY DEF ReadByte, outVars
  <1>2. wire[1] = <<r, Len(in)>> /\ 1 \in 1 .. Len(wire) /\ Len(wire) \in Nat /\ Head(wire) = wire[1]
    BY <1>1 DEF WireInv, ReaderAt, TypeInv
  <1>3. r \in 1 .. N /\ Len(in) < length[r]
    BY <1>2 DEF WireInv
  <1>4. /\ N \in Nat /\ N' = N /\ Len(in) \in Nat /\ Len(inQueue) \in Nat
        /\ length[r] \in Nat /\ length[r] >= Header /\ Header \in Nat /\ Header > 0
    BY <1>1, <1>3, LengthAtLeast, HeaderAssumption DEF TypeInv, N
  <1>5. /\ buffer \in Seq(Nat \X Nat) /\ Len(buffer) = Len(in) + 1
        /\ \A k \in 1 .. Len(buffer) : buffer[k] = <<r, k - 1>>
    <2>1. wire[1] \in Nat \X Nat /\ in \in Seq(Nat \X Nat) /\ buffer = Append(in, wire[1])
      BY <1>2 DEF TypeInv
    <2>2. buffer \in Seq(Nat \X Nat)
      BY <2>1
    <2>3. Len(buffer) = Len(in) + 1
      BY <2>1
    <2>4. ASSUME NEW k \in 1 .. Len(buffer) PROVE buffer[k] = <<r, k - 1>>
      <3> HIDE DEF r, buffer
      <3>1. CASE k = Len(in) + 1
        BY <1>2, <1>4, <2>1, <3>1
      <3>2. CASE k # Len(in) + 1
        <4>1. k \in 1 .. Len(in)
          BY <1>4, <2>3, <3>2
        <4>2. buffer[k] = in[k]
          BY <2>1, <4>1
        <4>3. in[k] = <<r, k - 1>>
          BY <4>1 DEF ReaderInv, r
        <4> QED
          BY <4>2, <4>3
      <3> QED
        BY <3>1, <3>2
    <2> QED
      BY <2>2, <2>3, <2>4
  <1>6. WriterInv' /\ WriterAt' = WriterAt
    BY <1>1 DEF WriterInv, WriterAt, N
  <1>7. Following(<<r, Len(in)>>) = ReaderAt' => WireInv'
    <2> SUFFICES ASSUME Following(<<r, Len(in)>>) = ReaderAt' PROVE WireInv'
      OBVIOUS
    <2>1. /\ Len(wire') = Len(wire) - 1
          /\ \A i \in 1 .. Len(wire') : wire'[i] = wire[i + 1]
      BY <1>1 DEF TypeInv
    <2>2. ASSUME NEW i \in 1 .. Len(wire')
          PROVE  wire'[i][1] \in 1 .. N' /\ wire'[i][2] < length'[wire'[i][1]]
      <3>1. i + 1 \in 1 .. Len(wire)
        BY <1>2, <2>1
      <3> QED
        BY <1>1, <1>4, <2>1, <3>1 DEF WireInv
    <2>3. ASSUME NEW i \in 1 .. Len(wire') - 1
          PROVE  wire'[i + 1] = Following(wire'[i])
      <3>1. /\ i \in 1 .. Len(wire') /\ i + 1 \in 1 .. Len(wire')
            /\ i + 1 \in 1 .. Len(wire) - 1
        BY <1>2, <2>1
      <3>2. wire[(i + 1) + 1] = Following(wire[i + 1])
        BY <3>1 DEF WireInv
      <3> QED
        BY <2>1, <3>1, <3>2
    <2>5. CASE wire' = << >>
      <3>1. Len(wire) = 1
        BY <1>2, <2>1, <2>5
      <3>2. ReaderAt' = WriterAt'
        BY <1>1, <1>2, <1>6, <3>1 DEF WireInv
      <3> QED
        BY <2>2, <2>3, <2>5, <3>2, <1>1 DEF WireInv
    <2>6. CASE wire' # << >>
      <3>1. Len(wire') \in Nat /\ Len(wire') > 0 /\ wire' \in Seq(Nat \X Nat)
        <4>1. wire' \in Seq(Nat \X Nat)
          BY <1>1 DEF TypeInv
        <4> QED
          BY <2>6, <4>1
      <3>2. 1 \in 1 .. Len(wire') /\ 1 \in 1 .. Len(wire) - 1 /\ wire'[1] = wire[2]
        BY <1>2, <2>1, <3>1
      <3>3. wire'[1] = ReaderAt'
        <4>1. wire[1 + 1] = Following(wire[1])
          BY <3>2 DEF WireInv
        <4> QED
          BY <1>2, <3>2, <4>1
      <3>4. Len(wire') \in 1 .. Len(wire') /\ wire'[Len(wire')] = wire[Len(wire)]
        BY <1>2, <2>1, <3>1
      <3>5. Following(wire'[Len(wire')]) = WriterAt'
        BY <1>1, <1>6, <3>4 DEF WireInv
      <3> QED
        BY <1>1, <2>2, <2>3, <2>6, <3>3, <3>5 DEF WireInv, Following
    <2> QED
      BY <2>5, <2>6
  <1> HIDE DEF buffer
  <1>8. CASE in' = buffer /\ UNCHANGED inQueue /\ Len(buffer) < length[r]
             /\ incount' = (IF Len(buffer) < Header THEN Header ELSE length[r])
    <2>1. TypeInv'
      BY <1>1, <1>4, <1>5, <1>8 DEF TypeInv
    <2>2. ReaderAt' = Following(<<r, Len(in)>>)
      BY <1>3, <1>4, <1>5, <1>8 DEF ReaderAt, Following
    <2>3. ReaderInv'
      <3>1. \A k \in 1 .. Len(in') : in'[k] = <<Len(inQueue') + 1, k - 1>>
        BY <1>5, <1>8
      <3>2. Len(inQueue') + 1 <= N' /\ Len(in') < incount'
        BY <1>3, <1>4, <1>5, <1>8
      <3>3. IF Len(in') < Header THEN incount' = Header ELSE incount' = length'[Len(inQueue') + 1]
        BY <1>1, <1>8
      <3> QED
        BY <3>1, <3>2, <3>3 DEF ReaderInv
    <2>4. QueueInv'
      BY <1>1, <1>4, <1>8 DEF QueueInv, Bytes
    <2> QED
      BY <1>6, <1>7, <2>1, <2>2, <2>3, <2>4
  <1>9. CASE Enqueue(buffer) /\ Len(buffer) = length[r]
    <2>1. inQueue' = Append(inQueue, buffer) /\ in' = << >> /\ incount' = 0
      BY <1>9 DEF Enqueue
    <2>2. Len(inQueue') = r /\ \A n \in 1 .. Len(inQueue) : inQueue'[n] = inQueue[n]
      BY <2>1 DEF TypeInv
    <2>3. inQueue'[r] = buffer
      BY <2>1 DEF TypeInv
    <2>4. TypeInv'
      <3>1. inQueue' \in Seq(Seq(Nat \X Nat))
        BY <1>5, <2>1 DEF TypeInv
      <3> QED
        BY <1>1, <2>1, <3>1 DEF TypeInv
    <2>5. ReaderAt' = Following(<<r, Len(in)>>)
      <3>1. ReaderAt' = <<r + 1, 0>>
        BY <2>1, <2>2 DEF ReaderAt
      <3>2. Len(in) + 1 = length[r]
        BY <1>4, <1>5, <1>9
      <3>3. Following(<<r, Len(in)>>) = <<r + 1, 0>>
        BY <3>2 DEF Following
      <3> QED
        BY <3>1, <3>3
    <2>6. ReaderInv'
      BY <2>1 DEF ReaderInv
    <2>7. buffer = Bytes(r)
      <3>1. DOMAIN buffer = 1 .. length[r] /\ buffer = [k \in DOMAIN buffer |-> buffer[k]]
        BY <1>5, <1>9
      <3>2. \A k \in 1 .. length[r] : buffer[k] = <<r, k - 1>>
        BY <1>5, <1>9
      <3> QED
        BY <3>1, <3>2 DEF Bytes
    <2>8. ASSUME NEW n \in 1 .. Len(inQueue') PROVE inQueue'[n] = Bytes(n)'
      <3>1. Bytes(n)' = Bytes(n)
        BY <1>1 DEF Bytes
      <3>2. CASE n = r
        BY <2>3, <2>7, <3>1, <3>2
      <3>3. CASE n # r
        <4>1. n \in 1 .. Len(inQueue)
          BY <1>4, <2>2, <3>3
        <4> QED
          BY <2>2, <3>1, <4>1 DEF QueueInv
      <3> QED
        BY <3>2, <3>3
    <2>9. QueueInv'
      BY <1>3, <1>4, <2>2, <2>8 DEF QueueInv
    <2> QED
      BY <1>6, <1>7, <2>4, <2>5, <2>6, <2>9
  <1>10. /\ Wanted = IF Len(in) < Header THEN Header ELSE length[r]
         /\ Len(in) < Wanted
    <2>1. CASE in = << >>
      BY <1>4, <2>1 DEF Wanted
    <2>2. CASE in # << >>
      BY <1>4, <2>2 DEF Wanted, ReaderInv
    <2> QED
      BY <2>1, <2>2
  <1>11. CASE in' = buffer /\ incount' = Wanted /\ UNCHANGED inQueue /\ Len(buffer) # Wanted
    <2>1. Len(buffer) < Wanted
      <3>1. Wanted \in Nat
        BY <1>4, <1>10
      <3>2. Len(buffer) = Len(in) + 1 /\ Len(buffer) # Wanted /\ Len(in) < Wanted /\ Len(in) \in Nat
        BY <1>4, <1>5, <1>10, <1>11
      <3> QED
        BY <3>1, <3>2
    <2>2. CASE Len(in) < Header
      BY <1>4, <1>5, <1>8, <1>10, <1>11, <2>1, <2>2
    <2>3. CASE ~(Len(in) < Header)
      BY <1>4, <1>5, <1>8, <1>10, <1>11, <2>1, <2>3
    <2> QED
      BY <2>2, <2>3
  <1>12. CASE Enqueue(buffer) /\ Len(buffer) = Wanted /\ Wanted > Header
    BY <1>4, <1>9, <1>10, <1>12
  <1>13. CASE Len(buffer) = Wanted /\ Wanted = Header
              /\ IF HeaderLength(buffer) = Header
                 THEN Enqueue(buffer)
                 ELSE in' = buffer /\ incount' = HeaderLength(buffer) /\ UNCHANGED inQueue
    <2>1. HeaderLength(buffer) = length[r]
      <3>1. Header \in 1 .. Len(buffer)
        BY <1>4, <1>13
      <3>2. buffer[Header] = <<r, Header - 1>>
        BY <1>5, <3>1
      <3> QED
        BY <3>2 DEF HeaderLength
    <2>2. CASE length[r] = Header
      BY <1>9, <1>13, <2>1, <2>2
    <2>3. CASE length[r] # Header
      BY <1>4, <1>8, <1>13, <2>1, <2>3
    <2> QED
      BY <2>2, <2>3
  <1> QED
    BY <1>11, <1>12, <1>13 DEF ReadByte, buffer

LEMMA NextKeepsIInv == IInv /\ [Next]_vars => IInv'
  <1> SUFFICES ASSUME IInv, [Next]_vars PROVE IInv'
    OBVIOUS
  <1>1. CASE \E l \in Lengths : EnqueueDataMessage(l)
    BY <1>1, EnqueueKeepsIInv
  <1>2. CASE PrepareMessages \/ WriteNext
    BY <1>2, PrepareKeepsIInv
  <1>3. CASE SocketWritable \/ WouldBlock \/ UNCHANGED vars
    BY <1>3, LoopKeepsIInv
  <1>4. CASE WriteByte
    BY <1>4, WriteKeepsIInv
  <1>5. CASE ReadByte
    BY <1>5, ReadKeepsIInv
  <1> QED
    BY <1>1, <1>2, <1>3, <1>4, <1>5 DEF Next, Write

\* Wherever reads and writes break off, the bytes on the wire are those between
\* the place of the reader and the place of the writer.
THEOREM InvHolds == Spec => []IInv
  <1> QED
    BY InitIInv, NextKeepsIInv, PTL DEF Spec

-----------------------------------------------------------------------------
(* The refinement *)

\* What was accepted, as in the refinement mapping of Stream.
Accepted == [n \in 1 .. Len(length) |-> Bytes(n)]

LEMMA InitRefines == Init => Stream!Init
  <1> SUFFICES ASSUME Init PROVE Stream!Init
    OBVIOUS
  <1>1. length = << >> /\ inQueue = << >>
    BY DEF Init
  <1>2. Accepted = << >>
    BY <1>1 DEF Accepted
  <1> QED
    BY <1>1, <1>2 DEF Stream!Init, Accepted

LEMMA StepRefines ==
  ASSUME IInv, [Next]_vars
  PROVE  Stream!Accept \/ Stream!Deliver \/ UNCHANGED <<Accepted, inQueue>>
  <1>1. CASE \E l \in Lengths : EnqueueDataMessage(l)
    <2>1. PICK l \in Lengths : length' = Append(length, l) /\ UNCHANGED inQueue
      BY <1>1 DEF EnqueueDataMessage, inVars
    <2>2. /\ N \in Nat /\ Len(length') = N + 1
          /\ \A n \in 1 .. N : length'[n] = length[n]
      BY <2>1 DEF IInv, TypeInv, N
    <2>3. Len(Accepted') = Len(Accepted) + 1 /\ DOMAIN Accepted = 1 .. N
      BY <2>2 DEF Accepted, N
    <2>4. ASSUME NEW n \in 1 .. N PROVE Accepted'[n] = Accepted[n]
      <3>1. n \in 1 .. Len(length')
        BY <2>2
      <3>2. Accepted'[n] = Bytes(n)'
        BY <3>1 DEF Accepted
      <3>3. Bytes(n)' = Bytes(n)
        BY <2>2 DEF Bytes
      <3> QED
        BY <3>2, <3>3 DEF Accepted, N
    <2> QED
      BY <2>1, <2>3, <2>4 DEF Stream!Accept, Accepted
  <1>2. CASE Write \/ UNCHANGED vars
    <2>1. UNCHANGED <<length, inQueue>>
      BY <1>2 DEF Write, PrepareMessages, SocketWritable, WriteByte, WriteNext, WouldBlock,
                  vars, outVars, inVars
    <2>2. UNCHANGED Accepted
      BY <2>1 DEF Accepted, Bytes
    <2> QED
      BY <2>1, <2>2
  <1>3. CASE ReadByte
    <2>1. IInv'
      BY <1>3, ReadKeepsIInv
    <2>2. UNCHANGED length
      BY <1>3 DEF ReadByte, outVars
    <2>3. UNCHANGED Accepted
      BY <2>2 DEF Accepted, Bytes
    <2>4. CASE UNCHANGED inQueue
      BY <2>3, <2>4
    <2>5. CASE \E b : inQueue' = Append(inQueue, b)
      <3>1. PICK b : inQueue' = Append(inQueue, b)
        BY <2>5
      <3>2. /\ Len(inQueue) \in Nat /\ Len(inQueue') = Len(inQueue) + 1
            /\ inQueue'[Len(inQueue) + 1] = b
        BY <3>1 DEF IInv, TypeInv
      <3>3. Len(inQueue) + 1 \in 1 .. N
        BY <2>1, <2>2, <3>2 DEF IInv, QueueInv, TypeInv, N
      <3>4. b = Bytes(Len(inQueue) + 1)
        <4>1. ASSUME NEW n, n = Len(inQueue) + 1 PROVE b = Bytes(n)
          <5>1. n \in 1 .. Len(inQueue') /\ inQueue'[n] = b
            BY <3>2, <4>1
          <5>2. inQueue'[n] = Bytes(n)'
            BY <2>1, <5>1 DEF IInv, QueueInv
          <5>3. Bytes(n)' = Bytes(n)
            BY <2>2 DEF Bytes
          <5> QED
            BY <5>1, <5>2, <5>3
        <4> QED
          BY <4>1
      <3>5. b = Accepted[Len(inQueue) + 1] /\ Len(Accepted) = N
        BY <3>3, <3>4 DEF Accepted, N
      <3>6. Len(inQueue) < Len(Accepted)
        BY <3>2, <3>3, <3>5 DEF N
      <3> QED
        BY <2>3, <3>1, <3>5, <3>6 DEF Stream!Deliver, Accepted
    <2> QED
      BY <1>3, <2>4, <2>5 DEF ReadByte, Enqueue
  <1> QED
    BY <1>1, <1>2, <1>3 DEF Next

\* Partial reads and writes implement a stream of messages, whatever the sizes of
\* messages, headers and buffers.
THEOREM Refines == Spec => StreamOfMessages
  <1>1. IInv /\ [Next]_vars => [Stream!Accept \/ Stream!Deliver]_<<Accepted, inQueue>>
    BY StepRefines
  <1> QED
    BY <1>1, InitRefines, InvHolds, PTL DEF Spec, StreamOfMessages, Stream!Spec, Accepted

-----------------------------------------------------------------------------
(* Sums over finite sets *)

Sum(f, S) == MapThenSumSet(LAMBDA x : f[x], S)

\* What the library computes: g is the sum for every subset of S.
Sums(f, S, g) ==
  g = [s \in SUBSET S |-> IF s = {} THEN 0
                          ELSE LET x == CHOOSE y \in s : TRUE IN f[x] + g[s \ {x}]]

\* A sum counts the units of its terms.
Units(f, S) == UNION { {x} \X (1 .. f[x]) : x \in S }

\* Without its first element, a set has that many units less.
LEMMA UnitsLemma ==
  ASSUME NEW f, NEW S, NEW x \in S, f[x] \in Nat, IsFiniteSet(Units(f, S \ {x}))
  PROVE  /\ IsFiniteSet(Units(f, S))
         /\ Cardinality(Units(f, S)) = f[x] + Cardinality(Units(f, S \ {x}))
  <1> DEFINE T == {x} \X (1 .. f[x])
  <1>1. /\ IsFiniteSet({x}) /\ Cardinality({x}) = 1
        /\ IsFiniteSet(1 .. f[x]) /\ Cardinality(1 .. f[x]) = f[x]
    <2>1. ASSUME NEW n \in Nat PROVE IsFiniteSet(1 .. n) /\ Cardinality(1 .. n) = n
      <3>1. /\ IsFiniteSet(1 .. n)
            /\ Cardinality(1 .. n) = IF 1 > n THEN 0 ELSE n - 1 + 1
        BY FS_Interval
      <3> QED  BY <3>1
    <2> QED  BY <2>1, FS_Singleton
  <1>2. IsFiniteSet(T) /\ Cardinality(T) = 1 * f[x]
    BY <1>1, FS_Product
  <1>3. Units(f, S) = Units(f, S \ {x}) \cup T
    <2>1. S = (S \ {x}) \cup {x}
      OBVIOUS
    <2> QED  BY <2>1 DEF Units
  <1>4. Units(f, S \ {x}) \cap T = {}
    BY DEF Units
  <1>5. Cardinality(Units(f, S \ {x}) \cap T) = 0
    BY <1>4, FS_EmptySet
  <1> HIDE DEF T
  <1>6. /\ IsFiniteSet(Units(f, S))
        /\ Cardinality(Units(f, S)) = Cardinality(Units(f, S \ {x})) + Cardinality(T) - 0
    BY <1>2, <1>3, <1>5, FS_Union
  <1>7. Cardinality(Units(f, S \ {x})) \in Nat
    BY FS_CardinalityType
  <1> QED  BY <1>2, <1>6, <1>7

LEMMA UnitsFinite ==
  ASSUME NEW f, NEW S, IsFiniteSet(S), \A x \in S : f[x] \in Nat
  PROVE  \A s \in SUBSET S : IsFiniteSet(Units(f, s))
  <1> DEFINE Bad == { s \in FiniteSubsetsOf(S) : ~ IsFiniteSet(Units(f, s)) }
  <1>1. SUFFICES ASSUME Bad # {} PROVE FALSE
    <2>1. \A s \in SUBSET S : s \in FiniteSubsetsOf(S)
      BY FS_Subset DEF FiniteSubsetsOf
    <2> QED  BY <2>1
  <1>2. Bad \subseteq FiniteSubsetsOf(S)
    OBVIOUS
  <1> HIDE DEF Bad
  <1>3. PICK s \in Bad : \A t \in Bad : ~ (<<t, s>> \in StrictSubsetOrdering(S))
    BY <1>1, <1>2, FS_StrictSubsetOrderingWellFounded, WFMin, Zenon
  <1>4. s \in SUBSET S /\ IsFiniteSet(s) /\ ~ IsFiniteSet(Units(f, s))
    BY DEF Bad, FiniteSubsetsOf
  <1>5. s # {}
    <2>1. Units(f, {}) = {}
      BY Zenon DEF Units
    <2> QED  BY <1>4, <2>1, FS_EmptySet
  <1>6. PICK x : x \in s
    BY <1>5
  <1>7. s \ {x} \notin Bad
    BY <1>3, <1>4, <1>6 DEF StrictSubsetOrdering
  <1>8. IsFiniteSet(Units(f, s \ {x}))
    <2>1. IsFiniteSet(s \ {x}) /\ s \ {x} \in SUBSET S
      BY <1>4, FS_RemoveElement
    <2> QED  BY <1>7, <2>1 DEF Bad, FiniteSubsetsOf
  <1> QED  BY <1>4, <1>6, <1>8, UnitsLemma

LEMMA SumIsCount ==
  ASSUME NEW f, NEW S, IsFiniteSet(S), \A x \in S : f[x] \in Nat
  PROVE  Sum(f, S) = Cardinality(Units(f, S))
  <1>1. Sum(f, S) = (CHOOSE g : Sums(f, S, g))[S]
    BY DEF Sum, MapThenSumSet, MapThenFoldSet, Sums
  <1> DEFINE g == [s \in SUBSET S |-> Cardinality(Units(f, s))]
  <1>2. Sums(f, S, g)
    <2>1. ASSUME NEW s \in SUBSET S
          PROVE  g[s] = IF s = {} THEN 0
                        ELSE LET x == CHOOSE y \in s : TRUE IN f[x] + g[s \ {x}]
      <3>1. CASE s = {}
        <4>1. Units(f, s) = {}
          BY <3>1, Zenon DEF Units
        <4> QED  BY <3>1, <4>1, FS_EmptySet
      <3>2. CASE s # {}
        <4>1. PICK x : x = CHOOSE y \in s : TRUE
          OBVIOUS
        <4>2. x \in s /\ s \ {x} \in SUBSET S /\ f[x] \in Nat
          BY <3>2, <4>1
        <4>3. IsFiniteSet(Units(f, s \ {x}))
          BY <4>2, UnitsFinite
        <4>4. Cardinality(Units(f, s)) = f[x] + Cardinality(Units(f, s \ {x}))
          BY <4>2, <4>3, UnitsLemma
        <4>5. g[s] = f[x] + g[s \ {x}]
          BY <4>2, <4>4
        <4> HIDE DEF g
        <4> QED  BY <3>2, <4>1, <4>5
      <3> QED  BY <3>1, <3>2
    <2> QED  BY <2>1 DEF Sums
  <1>3. PICK h : h = (CHOOSE k : Sums(f, S, k)) /\ Sums(f, S, h)
    BY <1>2
  <1>4. Sum(f, S) = h[S]
    BY <1>1, <1>3
  <1> HIDE DEF g
  <1> DEFINE Bad == { s \in FiniteSubsetsOf(S) : h[s] # Cardinality(Units(f, s)) }
  <1>5. CASE Bad # {}
    <2>1. Bad \subseteq FiniteSubsetsOf(S)
      OBVIOUS
    <2> HIDE DEF Bad
    <2>2. PICK s \in Bad : \A t \in Bad : ~ (<<t, s>> \in StrictSubsetOrdering(S))
      BY <1>5, <2>1, FS_StrictSubsetOrderingWellFounded, WFMin, Zenon
    <2>3. s \in SUBSET S /\ IsFiniteSet(s) /\ h[s] # Cardinality(Units(f, s))
      BY DEF Bad, FiniteSubsetsOf
    <2>4. h[s] = IF s = {} THEN 0
                 ELSE LET x == CHOOSE y \in s : TRUE IN f[x] + h[s \ {x}]
      BY <1>3, <2>3 DEF Sums
    <2>5. s # {}
      <3>1. Units(f, {}) = {}
        BY Zenon DEF Units
      <3> QED  BY <2>3, <2>4, <3>1, FS_EmptySet
    <2>6. PICK x : x = CHOOSE y \in s : TRUE
      OBVIOUS
    <2>7. x \in s /\ s \ {x} \in SUBSET S /\ f[x] \in Nat
      BY <2>3, <2>5, <2>6
    <2>8. h[s] = f[x] + h[s \ {x}]
      BY <2>4, <2>5, <2>6
    <2>9. s \ {x} \notin Bad
      <3>1. <<s \ {x}, s>> \in StrictSubsetOrdering(S)
        BY <2>3, <2>7 DEF StrictSubsetOrdering
      <3> QED  BY <2>2, <3>1
    <2>10. h[s \ {x}] = Cardinality(Units(f, s \ {x}))
      <3>1. IsFiniteSet(s \ {x})
        BY <2>3, FS_RemoveElement
      <3> QED  BY <2>7, <2>9, <3>1 DEF Bad, FiniteSubsetsOf
    <2>11. Cardinality(Units(f, s)) = f[x] + Cardinality(Units(f, s \ {x}))
      <3>1. IsFiniteSet(Units(f, s \ {x}))
        BY <2>7, UnitsFinite
      <3> QED  BY <2>7, <3>1, UnitsLemma
    <2> QED  BY <2>3, <2>8, <2>10, <2>11
  <1>6. CASE Bad = {}
    <2>1. S \in FiniteSubsetsOf(S)
      BY DEF FiniteSubsetsOf
    <2> QED  BY <1>4, <1>6, <2>1
  <1> QED  BY <1>5, <1>6

\* A term more, and other terms elsewhere.
LEMMA SumAdd ==
  ASSUME NEW f, NEW g, NEW S, NEW x, x \notin S, IsFiniteSet(S),
         \A y \in S : f[y] \in Nat /\ g[y] = f[y], g[x] \in Nat
  PROVE  Sum(g, S \cup {x}) = Sum(f, S) + g[x]
  <1> DEFINE T == S \cup {x}
  <1>1. IsFiniteSet(T) /\ T \ {x} = S /\ x \in T /\ (\A y \in T : g[y] \in Nat)
    BY FS_AddElement
  <1>2. Units(g, S) = Units(f, S)
    BY Zenon DEF Units
  <1> HIDE DEF T
  <1>3. Sum(g, T) = Cardinality(Units(g, T)) /\ Sum(f, S) = Cardinality(Units(f, S))
    BY <1>1, SumIsCount
  <1>4. IsFiniteSet(Units(g, S)) /\ Cardinality(Units(g, S)) \in Nat
    BY <1>1, UnitsFinite, FS_CardinalityType
  <1>5. Cardinality(Units(g, T)) = g[x] + Cardinality(Units(g, S))
    BY <1>1, <1>4, UnitsLemma
  <1>6. Sum(g, T) = Sum(f, S) + g[x]
    BY <1>2, <1>3, <1>4, <1>5
  <1> QED  BY <1>6 DEF T

-----------------------------------------------------------------------------
(* The counters *)

\* The messages a gateway holds for the stream.
Queued == { outQueue[i] : i \in DOMAIN outQueue }
Held   == Queued \cup ({out} \ {0})

\* They are messages, each is held once, and there are finitely many.
LEMMA HeldLemma ==
  ASSUME IInv
  PROVE  /\ N \in Nat /\ Queued \subseteq 1 .. N /\ Held \subseteq 1 .. N
         /\ out \notin Queued
         /\ IsFiniteSet(Held) /\ Cardinality(Held) \in Nat
         /\ \A n \in Held : length[n] \in Nat
  <1>1. /\ N \in Nat /\ Len(outQueue) \in Nat /\ Len(outQueue) <= N
        /\ DOMAIN outQueue = 1 .. Len(outQueue)
    BY DEF IInv, TypeInv, WriterInv, N
  <1>2. \A i \in 1 .. Len(outQueue) : outQueue[i] = N - Len(outQueue) + i
    BY DEF IInv, WriterInv
  <1>3. Queued \subseteq 1 .. N
    BY <1>1, <1>2 DEF Queued
  <1>4. out # 0 => out \in 1 .. N
    <2>1. out # 0 => out = N - Len(outQueue) /\ out \in Nat
      BY DEF IInv, WriterInv, TypeInv
    <2>2. PICK n, l : n = N /\ l = Len(outQueue)
      OBVIOUS
    <2>3. out # 0 => out = n - l /\ out \in Nat
      BY <2>1, <2>2
    <2>4. n \in Nat /\ l \in Nat /\ l <= n
      BY <1>1, <2>2
    <2>5. out # 0 => out \in 1 .. n
      BY <2>3, <2>4
    <2> QED  BY <2>2, <2>5
  <1>5. out \notin Queued
    <2>1. out # 0 => out = N - Len(outQueue)
      BY DEF IInv, WriterInv
    <2> QED  BY <1>1, <1>2, <2>1 DEF Queued
  <1>6. Held \subseteq 1 .. N
    BY <1>3, <1>4 DEF Held
  <1>7. IsFiniteSet(Held) /\ Cardinality(Held) \in Nat
    <2>1. IsFiniteSet(1 .. N)
      BY <1>1, FS_Interval
    <2>2. IsFiniteSet(Held)
      BY <1>6, <2>1, FS_Subset
    <2> QED  BY <2>2, FS_CardinalityType
  <1>8. \A n \in Held : length[n] \in Nat
    BY <1>6, LengthAtLeast DEF IInv
  <1> QED  BY <1>1, <1>3, <1>5, <1>6, <1>7, <1>8

\* The counters are right.
Counted == pending = Cardinality(Held) /\ pendingSize = Sum(length, Held)

LEMMA CountedLemma == PendingSizeExact <=> Counted
  BY DEF PendingSizeExact, Counted, Held, Queued, Sum

LEMMA CountedInit == Init => Counted
  <1> SUFFICES ASSUME Init PROVE Counted
    OBVIOUS
  <1>1. Held = {}
    BY DEF Init, Held, Queued
  <1>2. Sum(length, {}) = Cardinality(Units(length, {}))
    BY FS_EmptySet, SumIsCount
  <1>3. Units(length, {}) = {}
    BY Zenon DEF Units
  <1> QED  BY <1>1, <1>2, <1>3, FS_EmptySet DEF Init, Counted

LEMMA CountedEnqueue ==
  ASSUME IInv, Counted, NEW l \in Lengths, EnqueueDataMessage(l)
  PROVE  Counted'
  <1>1. /\ length' = Append(length, l) /\ outQueue' = Append(outQueue, N + 1) /\ out' = out
        /\ pending' = pending + 1 /\ pendingSize' = pendingSize + l
    BY DEF EnqueueDataMessage, N
  <1>2. /\ N \in Nat /\ length'[N + 1] = l /\ l \in Nat
        /\ \A n \in 1 .. N : length'[n] = length[n]
    BY <1>1, LengthsAssumption DEF IInv, TypeInv, N
  <1>3. Queued' = Queued \cup {N + 1}
    <2>1. outQueue \in Seq(Nat) /\ N + 1 \in Nat
      BY <1>2 DEF IInv, TypeInv
    <2>2. /\ DOMAIN outQueue' = DOMAIN outQueue \cup {Len(outQueue) + 1}
          /\ outQueue'[Len(outQueue) + 1] = N + 1
          /\ \A i \in DOMAIN outQueue : outQueue'[i] = outQueue[i]
      BY <1>1, <2>1
    <2> QED  BY <2>2 DEF Queued
  <1>4. Held' = Held \cup {N + 1}
    BY <1>1, <1>3 DEF Held
  <1>5. N + 1 \notin Held
    BY <1>2, HeldLemma
  <1>6. Cardinality(Held') = Cardinality(Held) + 1
    BY <1>4, <1>5, HeldLemma, FS_AddElement
  <1>7. \A n \in Held : length[n] \in Nat /\ length'[n] = length[n]
    BY <1>2, HeldLemma
  <1>8. Sum(length', Held \cup {N + 1}) = Sum(length, Held) + l
    <2>1. PICK f : f = length'
      OBVIOUS
    <2>2. Sum(f, Held \cup {N + 1}) = Sum(length, Held) + f[N + 1]
      BY <1>2, <1>5, <1>7, <2>1, HeldLemma, SumAdd
    <2> QED  BY <1>2, <2>1, <2>2
  <1> QED  BY <1>1, <1>4, <1>6, <1>8 DEF Counted

\* The message goes from the queue into the socket, which the gateway holds as well.
LEMMA CountedPrepare ==
  ASSUME IInv, Counted, PrepareMessages \/ WriteNext
  PROVE  Counted'
  <1>1. PrepareMessage /\ UNCHANGED <<length, pending, pendingSize>>
    BY DEF PrepareMessages, WriteNext
  <1>2. Held' = Held
    <2>1. CASE out # 0 \/ outQueue = << >>
      BY <1>1, <2>1 DEF PrepareMessage, Held, Queued
    <2>2. CASE out = 0 /\ outQueue # << >>
      <3>1. outQueue \in Seq(Nat) /\ out' = outQueue[1] /\ outQueue' = Tail(outQueue)
        BY <1>1, <2>2 DEF PrepareMessage, IInv, TypeInv
      <3>2. /\ Len(outQueue) \in Nat \ {0} /\ DOMAIN outQueue = 1 .. Len(outQueue)
            /\ DOMAIN outQueue' = 1 .. Len(outQueue) - 1
            /\ \A i \in 1 .. Len(outQueue) - 1 : outQueue'[i] = outQueue[i + 1]
        BY <2>2, <3>1
      <3>3. Queued = Queued' \cup {out'}
        <4>1. \A i \in 1 .. Len(outQueue) : i = 1 \/ (i - 1 \in 1 .. Len(outQueue) - 1 /\ i = (i - 1) + 1)
          BY <3>2
        <4>2. ASSUME NEW i \in 1 .. Len(outQueue) PROVE outQueue[i] \in Queued' \cup {out'}
          <5>1. CASE i = 1
            BY <3>1, <5>1
          <5>2. CASE i # 1
            <6>1. PICK j : j = i - 1
              OBVIOUS
            <6>2. j \in DOMAIN outQueue' /\ outQueue'[j] = outQueue[i]
              BY <3>2, <5>2, <6>1
            <6> QED  BY <6>2 DEF Queued
          <5> QED  BY <5>1, <5>2
        <4>3. \A i \in 1 .. Len(outQueue) - 1 : outQueue'[i] \in Queued
          BY <3>2 DEF Queued
        <4>4. out' \in Queued
          BY <3>1, <3>2 DEF Queued
        <4> QED  BY <3>2, <4>2, <4>3, <4>4 DEF Queued
      <3>4. out' # 0
        BY <3>3, HeldLemma
      <3> QED  BY <2>2, <3>3, <3>4 DEF Held
    <2> QED  BY <2>1, <2>2
  <1> QED  BY <1>1, <1>2 DEF Counted

LEMMA CountedWrite ==
  ASSUME IInv, Counted, WriteByte
  PROVE  Counted'
  <1>1. UNCHANGED <<length, outQueue>> /\ out # 0
    BY DEF WriteByte
  <1>2. CASE out' = 0 /\ pending' = pending - 1 /\ pendingSize' = pendingSize - length[out]
    <2>1. /\ Held' = Queued /\ Held = Queued \cup {out} /\ out \notin Queued
          /\ Queued = Held \ {out} /\ out \in Held
      BY <1>1, <1>2, HeldLemma DEF Held, Queued
    <2>2. IsFiniteSet(Queued) /\ Cardinality(Queued) = Cardinality(Held) - 1
      BY <2>1, HeldLemma, FS_RemoveElement
    <2>3. /\ length[out] \in Nat /\ \A n \in Queued : length[n] \in Nat
          /\ Sum(length, Queued) \in Nat
      <3>1. length[out] \in Nat /\ \A n \in Queued : length[n] \in Nat
        BY <2>1, HeldLemma
      <3>2. Sum(length, Queued) = Cardinality(Units(length, Queued)) /\ IsFiniteSet(Units(length, Queued))
        BY <2>2, <3>1, SumIsCount, UnitsFinite
      <3> QED  BY <3>1, <3>2, FS_CardinalityType
    <2>4. Sum(length, Queued \cup {out}) = Sum(length, Queued) + length[out]
      <3>1. PICK f : f = length
        OBVIOUS
      <3>2. Sum(f, Queued \cup {out}) = Sum(f, Queued) + f[out]
        BY <2>1, <2>2, <2>3, <3>1, SumAdd
      <3> QED  BY <3>1, <3>2
    <2>5. Sum(length, Queued) = pendingSize - length[out]
      BY <2>1, <2>3, <2>4 DEF Counted
    <2>6. Sum(length', Held') = Sum(length, Queued)
      BY <1>1, <2>1
    <2> QED  BY <1>2, <2>1, <2>2, <2>5, <2>6 DEF Counted
  <1>3. CASE UNCHANGED <<out, pending, pendingSize>>
    BY <1>1, <1>3 DEF Counted, Held, Queued
  <1> QED  BY <1>2, <1>3 DEF WriteByte, CountWritten

LEMMA CountedStep == IInv /\ Counted /\ [Next]_vars => Counted'
  <1> SUFFICES ASSUME IInv, Counted, [Next]_vars PROVE Counted'
    OBVIOUS
  <1>1. CASE \E l \in Lengths : EnqueueDataMessage(l)
    BY <1>1, CountedEnqueue
  <1>2. CASE PrepareMessages \/ WriteNext
    BY <1>2, CountedPrepare
  <1>3. CASE SocketWritable \/ WouldBlock \/ ReadByte \/ UNCHANGED vars
    <2>1. UNCHANGED <<length, outQueue, out, pending, pendingSize>>
      BY <1>3 DEF SocketWritable, WouldBlock, ReadByte, vars, outVars
    <2> QED  BY <2>1 DEF Counted, Held, Queued
  <1>4. CASE WriteByte
    BY <1>4, CountedWrite
  <1> QED  BY <1>1, <1>2, <1>3, <1>4 DEF Next, Write

\* The counters that stop a gateway from taking messages count what it holds, and
\* the bytes of it, for messages of any lengths.
THEOREM PendingSizeIsExact == Spec => []PendingSizeExact
  <1> QED  BY CountedInit, CountedStep, CountedLemma, InvHolds, PTL DEF Spec
=============================================================================
