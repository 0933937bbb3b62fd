--------------------------- MODULE RequestsProofs ---------------------------
(***************************************************************************)
(* Theorems about Requests, for any number of slots, variables, members    *)
(* and messages.                                                           *)
(***************************************************************************)
EXTENDS Requests, SequenceTheorems, FiniteSetTheorems, WellFoundedInduction, TLAPS

-----------------------------------------------------------------------------
(* The operators on sets and sequences *)

\* A set of natural numbers has a least element, and Min is it.
LEMMA MinLemma ==
  ASSUME NEW S \in SUBSET Nat, S # {}
  PROVE  Min(S) \in S /\ \A y \in S : Min(S) <= y
<1>1. PICK x \in S : \A y \in S : ~(<<y, x>> \in OpToRel(<, Nat))
  BY NatLessThanWellFounded, WFMin, Zenon
<1>2. \A y \in S : ~(y < x)
  BY <1>1 DEF OpToRel
<1>3. \A y \in S : x <= y
  BY <1>2
<1>. QED  BY <1>3 DEF Min

\* The first message that matches, if there is one.
LEMMA FirstMatchLemma ==
  ASSUME NEW s \in Seq(Message), NEW source, NEW tag, FirstMatch(s, source, tag) # 0
  PROVE  /\ FirstMatch(s, source, tag) \in 1 .. Len(s)
         /\ Matches(s[FirstMatch(s, source, tag)], source, tag)
<1> DEFINE I == { i \in 1 .. Len(s) : Matches(s[i], source, tag) }
<1>1. FirstMatch(s, source, tag) = IF I # {} THEN Min(I) ELSE 0
  BY DEF FirstMatch, SelectInSeq
<1>2. I \in SUBSET Nat
  BY LenProperties
<1>3. I # {}
  BY <1>1
<1>4. Min(I) \in I
  BY <1>2, <1>3, MinLemma
<1>. QED  BY <1>1, <1>3, <1>4

\* RemoveAt leaves the other elements, in order.
LEMMA RemoveAtLemma ==
  ASSUME NEW S, NEW s \in Seq(S), NEW i \in 1 .. Len(s)
  PROVE  /\ RemoveAt(s, i) \in Seq(S)
         /\ Len(RemoveAt(s, i)) = Len(s) - 1
         /\ \A j \in 1 .. Len(s) - 1 : RemoveAt(s, i)[j] = IF j < i THEN s[j] ELSE s[j + 1]
<1> DEFINE a == SubSeq(s, 1, i - 1)
           b == SubSeq(s, i + 1, Len(s))
<1>1. Len(s) \in Nat /\ \A k \in 1 .. Len(s) : s[k] \in S
  BY LenProperties, ElementOfSeq
<1>2. a \in Seq(S) /\ Len(a) = i - 1 /\ \A j \in 1 .. i - 1 : a[j] = s[j]
  <2>1. \A k \in 1 .. i - 1 : s[k] \in S
    BY <1>1
  <2>. QED  BY <1>1, <2>1, SubSeqProperties
<1>3. b \in Seq(S) /\ Len(b) = Len(s) - i /\ \A j \in 1 .. Len(s) - i : b[j] = s[i + j]
  <2>1. \A k \in i + 1 .. Len(s) : s[k] \in S
    BY <1>1
  <2>. QED  BY <1>1, <2>1, SubSeqProperties
<1>4. RemoveAt(s, i) = a \o b
  BY DEF RemoveAt
<1> HIDE DEF a, b
<1>5. /\ a \o b \in Seq(S)
      /\ Len(a \o b) = Len(a) + Len(b)
      /\ \A j \in 1 .. Len(a) + Len(b) : (a \o b)[j] = IF j <= Len(a) THEN a[j] ELSE b[j - Len(a)]
  BY <1>2, <1>3, ConcatProperties
<1>. QED  BY <1>1, <1>2, <1>3, <1>4, <1>5

\* The head and the tail of a queue.
LEMMA HeadTailLemma ==
  ASSUME NEW S, NEW s \in Seq(S), s # << >>
  PROVE  /\ Head(s) = s[1] /\ Head(s) \in S /\ 1 \in 1 .. Len(s)
         /\ Tail(s) \in Seq(S) /\ Len(Tail(s)) = Len(s) - 1
         /\ \A j \in 1 .. Len(s) - 1 : Tail(s)[j] = s[j + 1]
BY HeadTailProperties, LenProperties, EmptySeq, ElementOfSeq

\* A new element at the end.
LEMMA AppendLemma ==
  ASSUME NEW S, NEW s \in Seq(S), NEW x \in S
  PROVE  /\ Append(s, x) \in Seq(S) /\ Len(Append(s, x)) = Len(s) + 1
         /\ \A j \in 1 .. Len(s) : Append(s, x)[j] = s[j]
         /\ Append(s, x)[Len(s) + 1] = x
BY AppendProperties, LenProperties

\* A line of one message.
LEMMA SingleLemma ==
  ASSUME NEW S, NEW x \in S
  PROVE  <<x>> \in Seq(S) /\ Len(<<x>>) = 1 /\ <<x>>[1] = x /\ <<x>> # << >>
OBVIOUS

\* Nothing, or what is there, put behind an empty or a full line.
LEMMA BehindEmpty ==
  ASSUME NEW S, NEW s \in Seq(S)
  PROVE  << >> \o s = s /\ s \o << >> = s
BY EmptySeq, ConcatEmptySeq

\* The first free slot.
LEMMA AddRequestLemma ==
  ASSUME table \in [Slot -> Request]
  PROVE  /\ AddRequest(table) \in Slot \cup {NULL}
         /\ AddRequest(table) # NULL => table[AddRequest(table)] = Free
<1> DEFINE free == { i \in Slot : table[i] = Free }
<1>1. AddRequest(table) = IF free = {} THEN NULL ELSE Min(free)
  BY DEF AddRequest
<1>2. free \in SUBSET Nat
  BY BoundAssumption DEF Slot
<1>3. free # {} => Min(free) \in free
  BY <1>2, MinLemma
<1>. QED  BY <1>1, <1>3

\* The empty entries of the table and of the call.
LEMMA FreeFacts ==
  /\ Free \in Request /\ Idle \in Call
  /\ Free.kind = "free" /\ Free.n = 0 /\ Free.message = << >>
  /\ Idle.op = "idle" /\ Idle.at = "look" /\ Idle.flag = 0
<1>1. << >> \in Messages /\ << >> \in Seq(Var)
  BY EmptySeq DEF Messages
<1>. QED  BY <1>1 DEF Free, Idle, Request, Call, Nothing

LEMMA MessageLemma ==
  ASSUME TypeOK, NEW q \in Member, NEW t \in Tag, sent[q] < MaxSent
  PROVE  [src |-> q, tag |-> t, n |-> sent[q] + 1] \in Message
BY BoundAssumption DEF TypeOK, Message

\* What looking for a message of the wide area comes to.
Found(r, m) == [r EXCEPT !.completed = TRUE, !.message = <<m>>]

LEMMA ProbeCases ==
  ASSUME TypeOK, NEW r \in Request, ProbeTakes(r)
  PROVE  \/ /\ r.completed /\ ProbeReceive(r) = r
            /\ queue' = queue /\ forwarded' = forwarded
         \/ \E k \in 1 .. Len(queue) :
              /\ ~r.completed /\ ProbeReceive(r) = Found(r, queue[k])
              /\ Matches(queue[k], r.source, r.tag)
              /\ queue' = RemoveAt(queue, k) /\ forwarded' = forwarded
         \/ /\ ~r.completed /\ forwarded # << >> /\ ProbeReceive(r) = Found(r, forwarded[1])
            /\ Matches(forwarded[1], r.source, r.tag)
            /\ queue' = queue /\ forwarded' = Tail(forwarded)
         \/ /\ ~r.completed /\ forwarded # << >> /\ ProbeReceive(r) = r
            /\ queue' = Append(queue, forwarded[1]) /\ forwarded' = Tail(forwarded)
         \/ /\ ~r.completed /\ ProbeReceive(r) = r
            /\ queue' = queue /\ forwarded' = forwarded
<1> DEFINE k == FirstMatch(queue, r.source, r.tag)
<1>1. k # 0 => k \in 1 .. Len(queue) /\ Matches(queue[k], r.source, r.tag)
  BY FirstMatchLemma DEF TypeOK, Messages
<1>2. forwarded # << >> => Head(forwarded) = forwarded[1]
  BY HeadTailLemma DEF TypeOK, Messages
<1> HIDE DEF k
<1>3. CASE r.completed
  BY <1>3 DEF ProbeReceive, ProbeTakes
<1>4. CASE ~r.completed /\ k # 0
  BY <1>1, <1>4 DEF ProbeReceive, ProbeTakes, Found, k
<1>5. CASE ~r.completed /\ k = 0 /\ forwarded = << >>
  BY <1>5 DEF ProbeReceive, ProbeTakes, Found, k
<1>6. CASE ~r.completed /\ k = 0 /\ forwarded # << >>
  BY <1>2, <1>6 DEF ProbeReceive, ProbeTakes, Found, Store, k
<1>. QED  BY <1>3, <1>4, <1>5, <1>6

\* In every case the request stays one, and the messages stay messages.
LEMMA ProbeTypes ==
  ASSUME TypeOK, NEW r \in Request, ProbeTakes(r)
  PROVE  /\ ProbeReceive(r) \in Request
         /\ queue' \in Messages /\ forwarded' \in Messages
<1>1. /\ queue \in Seq(Message) /\ forwarded \in Seq(Message)
      /\ \A k \in 1 .. Len(queue) : queue[k] \in Message /\ RemoveAt(queue, k) \in Seq(Message)
      /\ forwarded # << >> => forwarded[1] \in Message /\ Tail(forwarded) \in Seq(Message)
  BY ElementOfSeq, RemoveAtLemma, HeadTailLemma DEF TypeOK, Messages
<1>2. \A m \in Message : Found(r, m) \in Request
  BY SingleLemma DEF Found, Request, Messages
<1>3. \A m \in Message : Append(queue, m) \in Seq(Message)
  BY <1>1, AppendLemma
<1>. QED  BY <1>1, <1>2, <1>3, ProbeCases DEF Messages

-----------------------------------------------------------------------------
(* The inductive invariant *)

\* The receive n has a request; the blocking receive n is under way.
Busy(n)   == \E i \in Slot : table[i].n = n
InRecv(n) == call.op = "recv" /\ n = Len(receives)
IsIn(s, n) == \E k \in 1 .. Len(s) : s[k] = n
Waits(n)  == IsIn(posted, n)

\* At most one message, one that was asked for.
OneFor(s, source, tag) == Len(s) <= 1 /\ (s # << >> => Matches(s[1], source, tag))
AllFrom(s, S)  == \A k \in 1 .. Len(s) : s[k].src \in S
SomeFrom(s, S) == \E k \in 1 .. Len(s) : s[k].src \in S

\* What was written into the buffer of receive n: what it asked for, and two
\* messages only if they came both ways.
HasLocal(n) == SomeFrom(buffer[n], Local)
HasWide(n)  == SomeFrom(buffer[n], Remote)
Mixed(n)    == Kind(FALSE, receives[n].source) = "mixed receive"
Wide(n)     == Kind(FALSE, receives[n].source) = "wide receive"
Holds(n) ==
  /\ \A k \in 1 .. Len(buffer[n]) : Matches(buffer[n][k], receives[n].source, receives[n].tag)
  /\ Len(buffer[n]) <= 1 \/ BothWays(n)

\* A request is of one of the kinds.
SendShape(r) ==
  /\ r.n = 0 /\ ~r.completed /\ ~r.unpacked /\ r.message = << >>
  /\ r.mpi = "null" => r.kind = "wide send"
ReceiveShape(r) ==
  /\ r.n \in DOMAIN receives /\ receives[r.n] = [source |-> r.source, tag |-> r.tag]
  /\ r.kind = Kind(FALSE, r.source)
  /\ (r.mpi = "null") = (r.kind = "wide receive")
  /\ r.completed = (r.message # << >>)
  /\ OneFor(r.message, r.source, r.tag) /\ AllFrom(r.message, Remote)
  /\ r.unpacked => r.completed
  /\ r.kind = "local receive" => ~r.completed
  /\ r.kind = "mixed receive" => r.unpacked = r.completed

\* What goes with a request for receive n: its buffer, MPI, the application.
Carries(r) ==
  /\ HasLocal(r.n) = (r.mpi = "done")
  /\ HasWide(r.n) = r.unpacked
  /\ (r.mpi = "active") = Waits(r.n)
  /\ ~InRecv(r.n)

SlotOK(i) ==
  \/ table[i] = Free
  \/ table[i].kind \in {"local send", "wide send"} /\ SendShape(table[i])
  \/ /\ table[i].kind \in {"local receive", "wide receive", "mixed receive"}
     /\ ReceiveShape(table[i]) /\ Carries(table[i])

\* A receive, with or without a request.  One that EMPI_Test reported because of
\* the flag has no request any more, and nothing is written into its buffer.
ReceiveOK(n) ==
  /\ n \notin DOMAIN receives => buffer[n] = << >> /\ ~Waits(n)
  /\ n \in DOMAIN receives => Holds(n)
  /\ InRecv(n) => buffer[n] = << >> /\ ~Waits(n)
  /\ Waits(n) => Busy(n) \/ (Mixed(n) /\ ~HasLocal(n))
  /\ n \in reported => n \in stale \/ buffer[n] # << >>
  /\ n \in stale => buffer[n] = << >> /\ Wide(n) /\ ~Busy(n) /\ ~InRecv(n)

\* Every receive has one request at most, and waits once at most.
OneRequest == \A i, j \in Slot : table[i].n = table[j].n /\ table[i].n # 0 => i = j
Distinct(s) == \A k, l \in 1 .. Len(s) : s[k] = s[l] => k = l
WaitsOnce  == Distinct(posted)

\* Where messages come from.
Origins == AllFrom(queue, Remote) /\ AllFrom(forwarded, Remote) /\ AllFrom(unexpected, Local)

\* The variables and the slots.
Handles ==
  /\ \A i \in Slot : (table[i] # Free) = (\E v \in Var : variable[v] = i)
  /\ \A v, w \in Var : variable[v] = variable[w] /\ variable[v] # NULL => v = w

\* The call under way.
Calls ==
  /\ call.op = "idle" => call = Idle
  /\ call.op = "recv" => /\ Len(receives) > 0 /\ call.at = "look"
                         /\ receives[Len(receives)] = [source |-> call.source, tag |-> call.tag]
                         /\ Kind(FALSE, call.source) # "mixed receive"
  /\ call.op = "crashed" => call.at = "look"
  /\ call.op \in Waiting => call.i \in DOMAIN call.of /\ variable[Current] # NULL
  /\ call.at # "look" => Asked.kind = "mixed receive" /\ Asked.completed = (call.at = "cancel")

Slots    == \A i \in Slot : SlotOK(i)
Receives == \A n \in Receive : ReceiveOK(n)

Inv == /\ Slots /\ Receives /\ OneRequest /\ WaitsOnce /\ Origins
       /\ Handles /\ Calls

-----------------------------------------------------------------------------
(* Types *)

\* The kinds of a new request.
LEMMA KindLemma ==
  /\ \A q : Kind(TRUE, q) \in {"local send", "wide send"}
  /\ \A s : Kind(FALSE, s) \in {"local receive", "wide receive", "mixed receive"}
BY DEF Kind

\* The next variable of the call that holds a request.
LEMMA NextIndexLemma ==
  ASSUME call.of \in Seq(Var), NEW var,
         \E j \in DOMAIN call.of : var[call.of[j]] # NULL
  PROVE  NextIndex(var) \in DOMAIN call.of /\ var[call.of[NextIndex(var)]] # NULL
<1> DEFINE holds == { j \in DOMAIN call.of : var[call.of[j]] # NULL }
           later == { j \in holds : j > call.i }
<1>1. holds \in SUBSET Nat /\ holds # {}
  BY LenProperties
<1>2. Min(holds) \in holds /\ (later # {} => Min(later) \in later)
  BY <1>1, MinLemma
<1>3. NextIndex(var) = IF later = {} THEN Min(holds) ELSE Min(later)
  BY DEF NextIndex
<1>. QED  BY <1>2, <1>3

\* Beginning with the first of them.
LEMMA FirstIndexLemma ==
  ASSUME NEW of \in Seq(Var), \E j \in DOMAIN of : variable[of[j]] # NULL
  PROVE  /\ Min({ j \in DOMAIN of : variable[of[j]] # NULL }) \in DOMAIN of
         /\ Min({ j \in DOMAIN of : variable[of[j]] # NULL }) \in Nat
         /\ variable[of[Min({ j \in DOMAIN of : variable[of[j]] # NULL })]] # NULL
<1> DEFINE holds == { j \in DOMAIN of : variable[of[j]] # NULL }
<1>1. holds \in SUBSET Nat /\ holds # {}
  BY LenProperties
<1>2. Min(holds) \in holds
  BY <1>1, MinLemma
<1>. QED  BY <1>1, <1>2

\* The request the call looks at.
LEMMA AskedLemma ==
  ASSUME TypeOK, Inv, call.op \in Waiting
  PROVE  /\ Current \in Var /\ Handle \in Slot /\ Asked \in Request /\ Asked # Free
         /\ variable[Current] = Handle /\ SlotOK(Handle)
         /\ call.i \in DOMAIN call.of
<1>1. call.of \in Seq(Var) /\ call.i \in DOMAIN call.of
  BY DEF TypeOK, Call, Inv, Calls
<1>2. Current \in Var
  BY <1>1, ElementOfSeq, LenProperties DEF Current
<1>3. Handle \in Slot
  BY <1>2 DEF TypeOK, Inv, Calls, Handle
<1>. QED  BY <1>1, <1>2, <1>3 DEF TypeOK, Inv, Slots, Handles, Handle, Asked

\* The bounds are numbers.
LEMMA BoundFacts ==
  /\ MaxReceives \in Nat /\ MaxSent \in Nat
  /\ \A n : n \in Receive <=> n \in Nat /\ 1 <= n /\ n <= MaxReceives
  /\ \A i \in Slot : i \in Nat /\ i # NULL
<1>1. MaxReceives \in Nat /\ MaxSent \in Nat /\ MaxRequests \in Nat
  BY BoundAssumption
<1>. QED  BY <1>1 DEF Receive, Slot, NULL

LEMMA CountLemma ==
  /\ \A l \in Nat : l < MaxReceives => l + 1 \in Receive
  /\ \A l \in Nat : l < MaxSent => l + 1 \in 0 .. MaxSent /\ l + 1 \in 1 .. MaxSent
<1>1. MaxReceives \in Nat /\ MaxSent \in Nat
  BY BoundAssumption
<1>. QED  BY <1>1 DEF Receive

\* The receives that were started.
LEMMA ReceivesLemma ==
  ASSUME TypeOK
  PROVE  /\ DOMAIN receives = 1 .. Len(receives) /\ Len(receives) \in Nat
         /\ \A n \in DOMAIN receives : n \in Receive /\ n # 0 /\ receives[n] \in Ask
<1> DEFINE L == Len(receives)
<1>1. DOMAIN receives = 1 .. L /\ L \in Nat /\ L <= MaxReceives
      /\ \A n \in 1 .. L : receives[n] \in Ask
  BY LenProperties, ElementOfSeq DEF TypeOK
<1> HIDE DEF L
<1>2. \A n \in 1 .. L : n \in Receive /\ n # 0
  BY <1>1, BoundFacts
<1>. QED  BY <1>1, <1>2 DEF L

\* The request of a receive.
LEMMA ReceiveLemma ==
  ASSUME TypeOK, Inv, NEW i \in Slot,
         table[i].kind \in {"local receive", "wide receive", "mixed receive"} \/ table[i].n # 0
  PROVE  /\ ReceiveShape(table[i]) /\ Carries(table[i])
         /\ table[i].kind \in {"local receive", "wide receive", "mixed receive"}
         /\ table[i].n \in Receive /\ table[i].n \in DOMAIN receives /\ table[i].n # 0
<1>1. SlotOK(i)
  BY DEF Inv, Slots
<1>2. ReceiveShape(table[i]) /\ Carries(table[i])
      /\ table[i].kind \in {"local receive", "wide receive", "mixed receive"}
  BY <1>1, FreeFacts DEF SlotOK, SendShape
<1>3. table[i].n \in DOMAIN receives
  BY <1>2 DEF ReceiveShape
<1>4. \A n \in DOMAIN receives : n \in Receive /\ n # 0
  BY ReceivesLemma
<1>. QED  BY <1>2, <1>3, <1>4

LEMMA FieldsLemma ==
  ASSUME NEW r, ReceiveShape(r)
  PROVE  receives[r.n].source = r.source /\ receives[r.n].tag = r.tag
<1>1. receives[r.n] = [source |-> r.source, tag |-> r.tag]
  BY DEF ReceiveShape
<1>. QED  BY <1>1

\* A message of this process's lines.
LEMMA LineElements ==
  ASSUME TypeOK
  PROVE  /\ \A k \in 1 .. Len(queue) : queue[k] \in Message
         /\ \A k \in 1 .. Len(unexpected) : unexpected[k] \in Message
         /\ \A k \in 1 .. Len(forwarded) : forwarded[k] \in Message
         /\ \A k \in 1 .. Len(posted) : posted[k] \in Receive
BY ElementOfSeq DEF TypeOK, Messages

\* Putting messages into a buffer.
LEMMA PutLemma ==
  ASSUME NEW f \in [Receive -> Messages], NEW n \in Receive, NEW m \in Message
  PROVE  [f EXCEPT ![n] = Append(@, m)] \in [Receive -> Messages]
<1>1. Append(f[n], m) \in Messages
  BY AppendLemma DEF Messages
<1>. QED  BY <1>1

LEMMA UnpackTypes ==
  ASSUME NEW f \in [Receive -> Messages], NEW n \in Receive, NEW s \in Messages
  PROVE  [f EXCEPT ![n] = @ \o s] \in [Receive -> Messages]
<1>1. f[n] \o s \in Messages
  BY ConcatProperties DEF Messages
<1>. QED  BY <1>1

\* A call looks at a request.
LEMMA LookingLemma ==
  ASSUME TypeOK, Inv, NEW kinds, IsLooking(kinds) \/ (InCall /\ call.at # "look")
  PROVE  call.op \in Waiting
BY FreeFacts DEF IsLooking, InCall, Inv, Calls, TypeOK, Call

\* A blocking receive returns.
LEMMA ReceivedTypes ==
  ASSUME TypeOK, Inv, call.op = "recv", NEW m \in Message, Received(m)
  PROVE  /\ buffer' \in [Receive -> Messages] /\ call' \in Call
         /\ reported' \subseteq DOMAIN receives /\ stale \subseteq reported'
<1> DEFINE L == Len(receives)
<1>0. L \in Nat /\ L > 0 /\ DOMAIN receives = 1 .. L
  BY ReceivesLemma DEF Inv, Calls
<1> HIDE DEF L
<1>1. L \in DOMAIN receives
  BY <1>0
<1> USE DEF L
<1>2. Len(receives) \in Receive
  BY <1>1, ReceivesLemma
<1>3. buffer' \in [Receive -> Messages]
  BY <1>2, PutLemma DEF TypeOK, Received
<1>. QED  BY <1>1, <1>3, FreeFacts DEF TypeOK, Received

\* A request ends: what Complete changes keeps its type.
LEMMA CompleteTypes ==
  ASSUME TypeOK, Inv, call.op \in Waiting, Complete
  PROVE  /\ variable' \in [Var -> Slot \cup {NULL}] /\ table' \in [Slot -> Request]
         /\ call' \in Call /\ reported' \subseteq DOMAIN receives /\ stale \subseteq reported'
<1>1. /\ Current \in Var /\ Handle \in Slot /\ SlotOK(Handle) /\ Asked = table[Handle]
  BY AskedLemma DEF Asked
<1>2. variable' \in [Var -> Slot \cup {NULL}] /\ table' \in [Slot -> Request]
  BY <1>1, FreeFacts DEF TypeOK, Complete, FreeRequest
<1>3. reported' \subseteq DOMAIN receives /\ stale \subseteq reported'
  BY <1>1, ReceiveLemma DEF TypeOK, Complete
<1>4. call' \in Call
  <2>1. CASE \E j \in DOMAIN call.of : variable'[call.of[j]] # NULL
    <3> DEFINE k == NextIndex(variable')
    <3>1. call.of \in Seq(Var)
      BY DEF TypeOK, Call
    <3>2. k \in Nat
      BY <2>1, <3>1, NextIndexLemma, LenProperties
    <3> HIDE DEF k
    <3>3. [call EXCEPT !.i = k, !.at = "look", !.flag = 0] \in Call
      BY <3>2 DEF TypeOK, Call
    <3>. QED  BY <3>3, FreeFacts DEF Complete, k
  <2>. QED  BY <2>1, FreeFacts DEF Complete
<1>. QED  BY <1>2, <1>3, <1>4

\* The call goes on, or returns without a request.
LEMMA NotCompleteTypes ==
  ASSUME TypeOK, Inv, call.op \in {"test", "waitany", "waitall"}, NotComplete(0)
  PROVE  call' \in Call
<1>1. /\ call.of \in Seq(Var) /\ call.i \in DOMAIN call.of /\ variable[call.of[call.i]] # NULL
  BY DEF TypeOK, Call, Inv, Calls, Current
<1> DEFINE k == NextIndex(variable)
<1>2. k \in Nat
  BY <1>1, NextIndexLemma, LenProperties
<1> HIDE DEF k
<1>3. [call EXCEPT !.i = k, !.at = "look", !.flag = 0] \in Call
  BY <1>2 DEF TypeOK, Call
<1>. QED  BY <1>3, FreeFacts DEF NotComplete, k

\* A call begins.
LEMMA BeginTypes ==
  ASSUME TypeOK, NEW op \in {"test", "wait", "waitany", "waitall"}, NEW of \in Seq(Var),
         NEW f \in {0, 1}, Begin(op, of, f)
  PROVE  TypeOK'
<1> DEFINE j == Min({ k \in DOMAIN of : variable[of[k]] # NULL })
<1>1. j \in Nat
  BY FirstIndexLemma DEF Begin
<1> HIDE DEF j
<1>2. call' = [Idle EXCEPT !.op = op, !.of = of, !.flag = f, !.i = j]
  BY DEF Begin, j
<1>3. call' \in Call
  BY <1>1, <1>2, FreeFacts DEF Call, Waiting
<1>. QED  BY <1>3 DEF Begin, TypeOK, logVars

\* MPI completes a request.
LEMMA DoneLemma ==
  ASSUME TypeOK, NEW i \in Slot
  PROVE  /\ [table EXCEPT ![i].mpi = "done"] = [table EXCEPT ![i] = [table[i] EXCEPT !.mpi = "done"]]
         /\ [table[i] EXCEPT !.mpi = "done"] \in Request
<1>1. table[i] \in Request
  BY DEF TypeOK
<1>2. [table[i] EXCEPT !.mpi = "done"] \in Request
  BY <1>1 DEF Request
<1>. QED  BY <1>1, <1>2 DEF TypeOK, Request

\* The first posted receive that matches a message.
FirstWaiting(m) == SelectInSeq(posted, LAMBDA n : Matches(m, receives[n].source, receives[n].tag))

LEMMA FirstWaitingLemma ==
  ASSUME TypeOK, NEW m, FirstWaiting(m) # 0
  PROVE  /\ FirstWaiting(m) \in 1 .. Len(posted)
         /\ Matches(m, receives[posted[FirstWaiting(m)]].source, receives[posted[FirstWaiting(m)]].tag)
<1> DEFINE I == { i \in 1 .. Len(posted) : Matches(m, receives[posted[i]].source, receives[posted[i]].tag) }
<1>1. FirstWaiting(m) = IF I # {} THEN Min(I) ELSE 0
  BY DEF FirstWaiting, SelectInSeq
<1>2. I \in SUBSET Nat
  BY LenProperties DEF TypeOK
<1>3. I # {}
  BY <1>1
<1>4. Min(I) \in I
  BY <1>2, <1>3, MinLemma
<1>. QED  BY <1>1, <1>3, <1>4

\* Taking a receive back.
LEMMA RemoveFirstLemma ==
  ASSUME NEW S, NEW s \in Seq(S), NEW e
  PROVE  \/ RemoveFirst(s, e) = s /\ \A i \in 1 .. Len(s) : s[i] # e
         \/ \E k \in 1 .. Len(s) : s[k] = e /\ RemoveFirst(s, e) = RemoveAt(s, k)
<1> DEFINE I == { i \in 1 .. Len(s) : s[i] = e }
           k == SelectInSeq(s, LAMBDA v : v = e)
<1>1. k = IF I # {} THEN Min(I) ELSE 0
  BY DEF SelectInSeq
<1>2. RemoveFirst(s, e) = IF I # {} THEN RemoveAt(s, k) ELSE s
  BY DEF RemoveFirst
<1>3. I \in SUBSET Nat
  BY LenProperties
<1>4. I # {} => Min(I) \in I
  BY <1>3, MinLemma
<1> HIDE DEF k
<1>. QED  BY <1>1, <1>2, <1>4

\* Removing an element leaves a sequence of the same set.
LEMMA RemoveFirstTypes ==
  ASSUME NEW S, NEW s \in Seq(S), NEW e
  PROVE  RemoveFirst(s, e) \in Seq(S)
<1>1. CASE RemoveFirst(s, e) = s
  BY <1>1
<1>2. ASSUME NEW k \in 1 .. Len(s), RemoveFirst(s, e) = RemoveAt(s, k)
      PROVE  RemoveFirst(s, e) \in Seq(S)
  BY <1>2, RemoveAtLemma
<1>. QED  BY <1>1, <1>2, RemoveFirstLemma

\* Posting a receive with MPI.
LEMMA PostTypes ==
  ASSUME TypeOK, NEW r \in Request, r.n \in Receive, NEW i \in Slot, Post(r, i)
  PROVE  /\ table' \in [Slot -> Request] /\ posted' \in Seq(Receive) /\ unexpected' \in Messages
         /\ buffer' \in [Receive -> Messages]
<1> DEFINE k == FirstMatch(unexpected, r.source, r.tag)
<1>1. unexpected \in Seq(Message) /\ posted \in Seq(Receive) /\ table \in [Slot -> Request]
  BY DEF TypeOK, Messages
<1>2. k # 0 => k \in 1 .. Len(unexpected)
  BY <1>1, FirstMatchLemma
<1> HIDE DEF k
<1>3. CASE k = 0
  <2>1. [r EXCEPT !.mpi = "active"] \in Request
    BY DEF Request
  <2>2. /\ table' = [table EXCEPT ![i] = [r EXCEPT !.mpi = "active"]]
        /\ posted' = Append(posted, r.n) /\ unexpected' = unexpected
        /\ buffer' = buffer
    BY <1>3 DEF Post, k
  <2>3. posted' \in Seq(Receive)
    BY <1>1, <2>2, AppendLemma
  <2>. QED  BY <1>1, <2>1, <2>2, <2>3 DEF Messages, TypeOK
<1>4. CASE k # 0
  <2>1. unexpected[k] \in Message /\ RemoveAt(unexpected, k) \in Seq(Message)
    BY <1>1, <1>2, <1>4, RemoveAtLemma, ElementOfSeq
  <2>2. [buffer EXCEPT ![r.n] = Append(@, unexpected[k])] \in [Receive -> Messages]
    BY <2>1, PutLemma DEF TypeOK
  <2>3. [r EXCEPT !.mpi = "done"] \in Request
    BY DEF Request
  <2>. QED  BY <1>1, <1>4, <2>1, <2>2, <2>3 DEF Post, k, Messages
<1>. QED  BY <1>3, <1>4

\* The process ends.
LEMMA CrashTypes ==
  ASSUME Crash
  PROVE  call' \in Call /\ call'.op = "crashed" /\ call'.at = "look"
<1>1. call' = [Idle EXCEPT !.op = "crashed"]
  BY DEF Crash
<1>. QED  BY <1>1, FreeFacts DEF Call, Idle

LEMMA TypeStep ==
  ASSUME TypeOK, Inv, [Next]_vars
  PROVE  TypeOK'
<1> USE DEF TypeOK
<1>1. ASSUME NEW v \in Var, NEW q \in Member, Isend(v, q)
      PROVE  TypeOK'
  <2> DEFINE i == AddRequest(table)
             r == CreateRequest(Kind(TRUE, q), q, AnyTag, 0)
             e == IF Kind(TRUE, q) = "local send" THEN [r EXCEPT !.mpi = "active"] ELSE r
  <2>1. r \in Request
    BY FreeFacts, KindLemma DEF CreateRequest, Request, Kinds
  <2>2. e \in Request
    BY <2>1 DEF Request
  <2>3. i = NULL \/ i \in Slot
    BY AddRequestLemma
  <2> HIDE DEF i, e
  <2>4. table' = table \/ (i \in Slot /\ table' = [table EXCEPT ![i] = e])
    BY <1>1, <2>3 DEF Isend, i, e
  <2>5. variable' = variable \/ (i \in Slot /\ variable' = [variable EXCEPT ![v] = i])
    BY <1>1, <2>3 DEF Isend, i
  <2>6. started' \in Nat
    <3>1. started' = started \/ started' = started + 1
      BY <1>1 DEF Isend
    <3>. QED  BY <3>1
  <2>7. table' \in [Slot -> Request]
    BY <2>2, <2>4
  <2>8. variable' \in [Var -> Slot \cup {NULL}]
    BY <2>5
  <2>9. UNCHANGED <<queue, posted, unexpected, forwarded, receives, buffer, reported, stale, sent>>
    BY <1>1 DEF Isend
  <2>10. call' \in Call
    BY <1>1, CrashTypes DEF Isend
  <2>. QED  BY <2>6, <2>7, <2>8, <2>9, <2>10
<1>2. ASSUME NEW v \in Var, NEW a \in Asks, Irecv(v, a.source, a.tag)
      PROVE  TypeOK'
  <2> DEFINE i == AddRequest(table)
             n == Len(receives) + 1
             a2 == [source |-> a.source, tag |-> a.tag]
             r == CreateRequest(Kind(FALSE, a.source), a.source, a.tag, n)
  <2>1. a.source \in Member \cup {AnySource} /\ a.tag \in Tag \cup {AnyTag} /\ a2 \in Ask
    BY BoundAssumption DEF Ask
  <2>2. Len(receives) \in Nat /\ n \in Receive
    <3>1. Len(receives) \in Nat /\ Len(receives) < MaxReceives
      BY <1>2, ReceivesLemma DEF Irecv
    <3>. QED  BY <3>1, CountLemma
  <2>3. r \in Request /\ r.n = n /\ r.source = a.source /\ r.tag = a.tag
    BY <2>1, <2>2, FreeFacts, KindLemma DEF CreateRequest, Request, Kinds
  <2>4. i = NULL \/ i \in Slot
    BY AddRequestLemma
  <2> HIDE DEF i, r, a2, n
  <2>5. CASE i = NULL
    BY <1>2, <2>5, CrashTypes DEF Irecv, i
  <2>6. CASE i # NULL
    <3>1. variable' = [variable EXCEPT ![v] = i] /\ receives' = Append(receives, a2)
      BY <1>2, <2>6 DEF Irecv, i, a2
    <3>2. /\ receives' \in Seq(Ask) /\ Len(receives') = n /\ n <= MaxReceives
          /\ reported' \subseteq DOMAIN receives' /\ stale' \subseteq reported'
      <4>1. /\ Append(receives, a2) \in Seq(Ask) /\ Len(Append(receives, a2)) = n
        BY <2>1, AppendLemma DEF n
      <4>2. reported' = reported /\ stale' = stale
        BY <1>2 DEF Irecv
      <4>3. DOMAIN receives' = 1 .. n
        BY <3>1, <4>1, LenProperties
      <4>4. DOMAIN receives = 1 .. Len(receives)
        BY ReceivesLemma
      <4>. QED  BY <3>1, <4>1, <4>2, <4>3, <4>4, <2>2, BoundFacts DEF n
    <3>3. CASE Kind(FALSE, a.source) = "wide receive"
      <4>1. table' = [table EXCEPT ![i] = ProbeReceive(r)] /\ ProbeTakes(r)
            /\ posted' = posted /\ unexpected' = unexpected /\ buffer' = buffer
        BY <1>2, <2>6, <3>3 DEF Irecv, i, r, n
      <4>2. ProbeReceive(r) \in Request /\ queue' \in Messages /\ forwarded' \in Messages
        BY <2>3, <4>1, ProbeTypes
      <4>. QED  BY <1>2, <2>4, <2>6, <3>1, <3>2, <4>1, <4>2 DEF Irecv
    <3>4. CASE Kind(FALSE, a.source) # "wide receive"
      <4>1. Post(r, i) /\ queue' = queue /\ forwarded' = forwarded
        BY <1>2, <2>6, <3>4 DEF Irecv, i, r, n
      <4>2. table' \in [Slot -> Request] /\ posted' \in Seq(Receive) /\ unexpected' \in Messages
            /\ buffer' \in [Receive -> Messages]
        BY <2>2, <2>3, <2>4, <2>6, <4>1, PostTypes
      <4>. QED  BY <1>2, <2>4, <2>6, <3>1, <3>2, <4>1, <4>2 DEF Irecv
    <3>. QED  BY <3>3, <3>4
  <2>. QED  BY <2>5, <2>6
<1>3. ASSUME NEW v \in Var, Test(v) \/ Wait(v)
      PROVE  TypeOK'
  <2>1. PICK op \in {"test", "wait"}, f \in {0, 1} : Begin(op, <<v>>, f)
    BY <1>3, BoundAssumption DEF Test, Wait
  <2>2. <<v>> \in Seq(Var)
    BY SingleLemma
  <2>. QED  BY <2>1, <2>2, BeginTypes
<1>4. ASSUME NEW of \in Lists, Waitany(of) \/ Waitall(of)
      PROVE  TypeOK'
  <2>1. PICK op \in {"waitany", "waitall"} : Begin(op, of, 0)
    BY <1>4 DEF Waitany, Waitall
  <2>2. of \in Seq(Var)
    BY BoundAssumption
  <2>. QED  BY <2>1, <2>2, BeginTypes
<1>5. ASSUME NEW v \in Var, RequestGetStatus(v)
      PROVE  TypeOK'
  <2> DEFINE i == variable[v]
             r == ProbeReceive(table[i])
  <2>1. i \in Slot /\ table[i] \in Request /\ table[i].n \in Receive /\ table[i].n \in DOMAIN receives
    BY <1>5, ReceiveLemma DEF RequestGetStatus
  <2>2. r \in Request /\ queue' \in Messages /\ forwarded' \in Messages
    BY <1>5, <2>1, ProbeTypes DEF RequestGetStatus
  <2>3. r.n = table[i].n
    BY <2>1 DEF ProbeReceive, Request
  <2> HIDE DEF r
  <2>4. [r EXCEPT !.unpacked = TRUE] \in Request /\ r.message \in Messages
    BY <2>2 DEF Request
  <2>5. Unpack(r) \in [Receive -> Messages]
    BY <2>1, <2>3, <2>4, UnpackTypes DEF Unpack
  <2>. QED  BY <1>5, <2>1, <2>2, <2>3, <2>4, <2>5 DEF RequestGetStatus, r
<1>6. ASSUME NEW v \in Var, RequestFree(v)
      PROVE  TypeOK'
  BY <1>6, FreeFacts DEF RequestFree, FreeRequest, logVars
<1>7. ASSUME NEW a \in Asks, Recv(a.source, a.tag)
      PROVE  TypeOK'
  <2> DEFINE n == Len(receives) + 1
             a2 == [source |-> a.source, tag |-> a.tag]
  <2>1. a.source \in Member \cup {AnySource} /\ a.tag \in Tag \cup {AnyTag} /\ a2 \in Ask
    BY BoundAssumption DEF Ask
  <2>2. Len(receives) \in Nat /\ n \in Receive
    <3>1. Len(receives) \in Nat /\ Len(receives) < MaxReceives
      BY <1>7, ReceivesLemma DEF Recv
    <3>. QED  BY <3>1, CountLemma
  <2>3. call' \in Call
    BY <1>7, <2>1, FreeFacts, CrashTypes DEF Recv, Call
  <2> HIDE DEF n, a2
  <2>4. CASE Kind(FALSE, a.source) = "mixed receive"
    BY <1>7, <2>3, <2>4 DEF Recv
  <2>5. CASE Kind(FALSE, a.source) # "mixed receive"
    <3>1. receives' = Append(receives, a2) /\ reported' = reported /\ stale' = stale
      BY <1>7, <2>5 DEF Recv, a2
    <3>2. /\ Append(receives, a2) \in Seq(Ask) /\ Len(Append(receives, a2)) = n
      BY <2>1, AppendLemma DEF n
    <3>3. DOMAIN receives' = 1 .. n
      BY <3>1, <3>2, LenProperties
    <3>4. reported' \subseteq DOMAIN receives' /\ n <= MaxReceives
      BY <2>2, <3>1, <3>3, ReceivesLemma, BoundFacts DEF n
    <3>. QED  BY <1>7, <2>3, <3>1, <3>2, <3>4 DEF Recv
  <2>. QED  BY <2>4, <2>5
<1>8. CASE LocalRecv
  <2> DEFINE k == FirstMatch(unexpected, call.source, call.tag)
  <2>1. k \in 1 .. Len(unexpected)
    BY <1>8, FirstMatchLemma DEF LocalRecv, Messages
  <2>2. unexpected[k] \in Message /\ RemoveAt(unexpected, k) \in Messages
    BY <2>1, LineElements, RemoveAtLemma DEF Messages
  <2>3. Received(unexpected[k]) /\ unexpected' = RemoveAt(unexpected, k) /\ call.op = "recv"
    BY <1>8 DEF LocalRecv
  <2> HIDE DEF k
  <2>. QED  BY <1>8, <2>2, <2>3, ReceivedTypes DEF LocalRecv
<1>9. CASE WideRecv
  <2> DEFINE k == FirstMatch(queue, call.source, call.tag)
  <2>1. k # 0 => k \in 1 .. Len(queue)
    BY FirstMatchLemma DEF Messages
  <2>2. k # 0 => queue[k] \in Message /\ RemoveAt(queue, k) \in Messages
    BY <2>1, LineElements, RemoveAtLemma DEF Messages
  <2>3. forwarded # << >> => Head(forwarded) \in Message /\ Tail(forwarded) \in Messages
                             /\ Append(queue, Head(forwarded)) \in Messages
    BY HeadTailLemma, AppendLemma DEF Messages
  <2>4. call.op = "recv" /\
        \/ k # 0 /\ Received(queue[k]) /\ queue' = RemoveAt(queue, k) /\ forwarded' = forwarded
        \/ forwarded # << >> /\ forwarded' = Tail(forwarded) /\
            \/ Received(Head(forwarded)) /\ queue' = queue
            \/ queue' = Append(queue, Head(forwarded)) /\ buffer' = buffer /\ reported' = reported /\ call' = call
    BY <1>9 DEF WideRecv, Store
  <2> HIDE DEF k
  <2>. QED  BY <1>9, <2>2, <2>3, <2>4, ReceivedTypes DEF WideRecv
<1>10. CASE LookLocal
  <2>1. /\ Handle \in Slot /\ Asked \in Request /\ Asked = table[Handle]
        /\ call.op \in Waiting
    BY <1>10, LookingLemma, AskedLemma DEF LookLocal, Asked
  <2>2. UNCHANGED <<queue, posted, unexpected, forwarded, receives, buffer, stale, started, sent>>
    BY <1>10 DEF LookLocal
  <2>3. CASE Complete
    BY <2>1, <2>2, <2>3, CompleteTypes
  <2>4. CASE ~Complete
    <3>1. /\ call.op \in {"test", "waitany", "waitall"} /\ NotComplete(0)
          /\ UNCHANGED <<variable, table, reported>>
      BY <1>10, <2>1, <2>4 DEF LookLocal, Waiting
    <3>. QED  BY <2>2, <3>1, NotCompleteTypes
  <2>. QED  BY <2>3, <2>4
<1>11. CASE LookWideSend
  <2>1. UNCHANGED <<queue, posted, unexpected, forwarded, receives, buffer, stale, started, sent>>
        /\ Complete /\ call.op \in Waiting
    BY <1>11, LookingLemma DEF LookWideSend
  <2>. QED  BY <2>1, CompleteTypes
<1>12. CASE LookWide
  <2> DEFINE r == ProbeReceive(Asked)
  <2>1. /\ Handle \in Slot /\ Asked \in Request /\ Asked = table[Handle]
        /\ call.op \in Waiting /\ Asked.kind = "wide receive"
    BY <1>12, LookingLemma, AskedLemma DEF LookWide, IsLooking, Asked
  <2>2. Asked.n \in Receive
    BY <2>1, ReceiveLemma
  <2>3. r \in Request /\ queue' \in Messages /\ forwarded' \in Messages /\ r.n = Asked.n
    <3>1. ProbeTakes(Asked)
      BY <1>12 DEF LookWide
    <3>2. r.n = Asked.n
      BY <2>1 DEF ProbeReceive, Request
    <3>. QED  BY <2>1, <3>1, <3>2, ProbeTypes
  <2>4. Unpack(r) \in [Receive -> Messages]
    BY <2>2, <2>3, UnpackTypes DEF Unpack, Request
  <2> HIDE DEF r
  <2>5. \/ buffer' = Unpack(r) /\ Complete /\ stale' = stale
        \/ buffer' = buffer /\ Complete /\ stale' = stale \cup {Asked.n}
        \/ call.op # "wait" /\ NotComplete(0) /\ UNCHANGED <<variable, table, reported, stale, buffer>>
        \/ UNCHANGED <<variable, table, reported, stale, buffer, call>>
    BY <1>12 DEF LookWide, r
  <2>6. call.op # "wait" => call.op \in {"test", "waitany", "waitall"}
    BY <2>1 DEF Waiting
  <2>7. Complete => reported' = reported \cup {Asked.n}
    BY <2>2, BoundFacts DEF Complete
  <2>. QED  BY <1>12, <2>1, <2>3, <2>4, <2>5, <2>6, <2>7, CompleteTypes, NotCompleteTypes DEF LookWide
<1>13. CASE LookMixed
  <2>1. /\ Handle \in Slot /\ Asked \in Request /\ Asked = table[Handle]
        /\ call.op \in Waiting /\ Asked.kind = "mixed receive"
    BY <1>13, LookingLemma, AskedLemma DEF LookMixed, IsLooking, Asked
  <2>2. [call EXCEPT !.at = "probe", !.flag = 0] \in Call
    BY DEF Call
  <2>. QED  BY <1>13, <2>1, <2>2, CompleteTypes DEF LookMixed
<1>14. CASE ProbeMixed
  <2> DEFINE r == ProbeReceive(Asked)
  <2>1. /\ Handle \in Slot /\ Asked \in Request /\ Asked = table[Handle]
        /\ call.op \in Waiting /\ Asked.kind = "mixed receive"
    BY <1>14, LookingLemma, AskedLemma DEF ProbeMixed, Asked, Inv, Calls
  <2>2. Asked.n \in Receive
    BY <2>1, ReceiveLemma
  <2>3. r \in Request /\ queue' \in Messages /\ forwarded' \in Messages /\ r.n = Asked.n
    <3>1. ProbeTakes(Asked)
      BY <1>14 DEF ProbeMixed
    <3>2. r.n = Asked.n
      BY <2>1 DEF ProbeReceive, Request
    <3>. QED  BY <2>1, <3>1, <3>2, ProbeTypes
  <2>4. Unpack(r) \in [Receive -> Messages]
    BY <2>2, <2>3, UnpackTypes DEF Unpack, Request
  <2>5. [r EXCEPT !.unpacked = TRUE] \in Request
    BY <2>3 DEF Request
  <2> HIDE DEF r
  <2>6. \/ /\ buffer' = Unpack(r) /\ table' = [table EXCEPT ![Handle] = [r EXCEPT !.unpacked = TRUE]]
           /\ call' = [call EXCEPT !.at = "cancel"]
        \/ UNCHANGED <<table, buffer>> /\ call' = [call EXCEPT !.at = "look"]
        \/ UNCHANGED <<table, buffer>> /\ call.op # "wait" /\ NotComplete(0)
    BY <1>14 DEF ProbeMixed, r
  <2>7. call.op # "wait" => call.op \in {"test", "waitany", "waitall"}
    BY <2>1 DEF Waiting
  <2>8. [call EXCEPT !.at = "cancel"] \in Call /\ [call EXCEPT !.at = "look"] \in Call
    BY DEF Call
  <2>. QED  BY <1>14, <2>1, <2>3, <2>4, <2>5, <2>6, <2>7, <2>8, NotCompleteTypes DEF ProbeMixed
<1>15. CASE CancelLocal
  <2>1. /\ Handle \in Slot /\ Asked \in Request /\ Asked = table[Handle]
        /\ call.op \in Waiting /\ Asked.kind = "mixed receive"
    BY <1>15, LookingLemma, AskedLemma DEF CancelLocal, Asked, Inv, Calls
  <2>2. RemoveFirst(posted, Asked.n) \in Seq(Receive)
    <3>1. posted \in Seq(Receive)
      OBVIOUS
    <3>. QED  BY <3>1, RemoveFirstTypes
  <2>. QED  BY <1>15, <2>1, <2>2, CompleteTypes DEF CancelLocal
<1>16. ASSUME NEW q \in Member, NEW t \in Tag, LocalArrival(q, t)
       PROVE  TypeOK'
  <2> DEFINE m == [src |-> q, tag |-> t, n |-> sent[q] + 1]
             k == FirstWaiting(m)
             owner == { i \in Slot : table[i].n = posted[k] }
  <2>1. m \in Message
    BY <1>16, MessageLemma DEF LocalArrival
  <2>2. k # 0 => k \in 1 .. Len(posted)
    BY FirstWaitingLemma
  <2>3. k # 0 => posted[k] \in Receive /\ RemoveAt(posted, k) \in Seq(Receive)
    BY <2>2, RemoveAtLemma, LineElements
  <2>4. sent' \in [Member -> 0 .. MaxSent]
    <3>1. sent[q] < MaxSent /\ sent' = [sent EXCEPT ![q] = @ + 1]
      BY <1>16, Zenon DEF LocalArrival
    <3>2. sent[q] \in Nat
      OBVIOUS
    <3>3. sent[q] + 1 \in 0 .. MaxSent
      BY <3>1, <3>2, CountLemma
    <3>. QED  BY <3>1, <3>3
  <2> HIDE DEF m, k
  <2>5. \/ unexpected' = Append(unexpected, m) /\ UNCHANGED <<posted, table, buffer>>
        \/ /\ k # 0 /\ posted' = RemoveAt(posted, k) /\ unexpected' = unexpected
           /\ buffer' = [buffer EXCEPT ![posted[k]] = Append(@, m)]
           /\ \/ table' = table
              \/ \E i \in Slot : table' = [table EXCEPT ![i].mpi = "done"]
    BY <1>16 DEF LocalArrival, FirstWaiting, m, k
  <2>6. Append(unexpected, m) \in Messages
    BY <2>1, AppendLemma DEF Messages
  <2>7. k # 0 => [buffer EXCEPT ![posted[k]] = Append(@, m)] \in [Receive -> Messages]
    BY <2>1, <2>3, PutLemma
  <2>8. \A i \in Slot : [table EXCEPT ![i].mpi = "done"] \in [Slot -> Request]
    BY DoneLemma
  <2>9. posted' \in Seq(Receive) /\ unexpected' \in Messages
    <3>1. \/ unexpected' = Append(unexpected, m) /\ posted' = posted
          \/ k # 0 /\ posted' = RemoveAt(posted, k) /\ unexpected' = unexpected
      BY <2>5, Zenon
    <3>. QED  BY <2>3, <2>6, <3>1
  <2>10. buffer' \in [Receive -> Messages]
    <3>1. buffer' = buffer \/ (k # 0 /\ buffer' = [buffer EXCEPT ![posted[k]] = Append(@, m)])
      BY <2>5, Zenon
    <3>. QED  BY <2>7, <3>1
  <2>11. table' \in [Slot -> Request]
    <3>1. table' = table \/ \E i \in Slot : table' = [table EXCEPT ![i].mpi = "done"]
      BY <2>5, Zenon
    <3>. QED  BY <2>8, <3>1, Zenon
  <2>12. UNCHANGED <<variable, queue, forwarded, call, receives, reported, stale, started>>
    BY <1>16 DEF LocalArrival
  <2>. QED  BY <2>4, <2>9, <2>10, <2>11, <2>12
<1>17. ASSUME NEW q \in Member, NEW t \in Tag, WideArrival(q, t)
       PROVE  TypeOK'
  <2> DEFINE m == [src |-> q, tag |-> t, n |-> sent[q] + 1]
  <2>1. m \in Message
    BY <1>17, MessageLemma DEF WideArrival
  <2>2. Append(forwarded, m) \in Messages
    BY <2>1, AppendLemma DEF Messages
  <2>3. sent' \in [Member -> 0 .. MaxSent]
    <3>1. sent[q] \in Nat /\ sent[q] < MaxSent /\ sent' = [sent EXCEPT ![q] = @ + 1]
      BY <1>17 DEF WideArrival
    <3>2. sent[q] + 1 \in 0 .. MaxSent
      BY <3>1, CountLemma
    <3>. QED  BY <3>1, <3>2
  <2>. QED  BY <1>17, <2>2, <2>3 DEF WideArrival
<1>18. ASSUME NEW i \in Slot, SendCompletes(i)
       PROVE  TypeOK'
  <2>1. UNCHANGED <<variable, queue, posted, unexpected, forwarded, call>> /\ UNCHANGED logVars
    BY <1>18 DEF SendCompletes
  <2>2. [table[i] EXCEPT !.mpi = "done"] \in Request
    <3>1. table[i] \in Request
      OBVIOUS
    <3>. QED  BY <3>1 DEF Request
  <2>3. table' = [table EXCEPT ![i] = [table[i] EXCEPT !.mpi = "done"]]
    BY <1>18 DEF SendCompletes
  <2>4. table' \in [Slot -> Request]
    BY <2>2, <2>3
  <2>. QED  BY <2>1, <2>4 DEF logVars
<1>19. CASE UNCHANGED vars
  BY <1>19 DEF vars
<1>. QED
  <2>1. \A m \in Traffic : m.src \in Member /\ m.tag \in Tag
    BY BoundAssumption
  <2>. QED  BY <1>1, <1>2, <1>3, <1>4, <1>5, <1>6, <1>7, <1>8, <1>9, <1>10, <1>11, <1>12, <1>13, <1>14,
               <1>15, <1>16, <1>17, <1>18, <1>19, <2>1 DEF Next, Application, Proceed, Environment

-----------------------------------------------------------------------------
(* What a step leaves alone *)

\* The posted receives after one is added, and after one is taken.
LEMMA InAppend ==
  ASSUME NEW s \in Seq(Receive), Distinct(s), NEW n \in Receive, ~IsIn(s, n)
  PROVE  /\ Distinct(Append(s, n))
         /\ \A m : IsIn(Append(s, n), m) = (IsIn(s, m) \/ m = n)
<1> DEFINE t == Append(s, n)
           L == Len(s)
<1>1. L \in Nat /\ Len(t) = L + 1 /\ (\A j \in 1 .. L : t[j] = s[j]) /\ t[L + 1] = n
  BY AppendLemma, LenProperties
<1>2. \A j \in 1 .. L : s[j] # n
  BY DEF IsIn
<1>3. \A k, l \in 1 .. L : s[k] = s[l] => k = l
  BY DEF Distinct
<1> HIDE DEF t, L
<1>4. Distinct(t)
  BY <1>1, <1>2, <1>3 DEF Distinct
<1>5. ASSUME NEW m
      PROVE  (\E k \in 1 .. L + 1 : t[k] = m) = ((\E k \in 1 .. L : s[k] = m) \/ m = n)
  <2>1. \A k \in 1 .. L + 1 : k \in 1 .. L \/ k = L + 1
    BY <1>1
  <2>2. \A k \in 1 .. L : k \in 1 .. L + 1
    BY <1>1
  <2>3. L + 1 \in 1 .. L + 1
    BY <1>1
  <2>. QED  BY <1>1, <2>1, <2>2, <2>3
<1>. QED  BY <1>1, <1>4, <1>5 DEF IsIn, t, L

LEMMA InRemoveAt ==
  ASSUME NEW s \in Seq(Receive), Distinct(s), NEW k \in 1 .. Len(s)
  PROVE  /\ Distinct(RemoveAt(s, k))
         /\ \A m : IsIn(RemoveAt(s, k), m) = (IsIn(s, m) /\ m # s[k])
<1> DEFINE t == RemoveAt(s, k)
           L == Len(s)
<1>1. L \in Nat /\ k \in 1 .. L /\ Len(t) = L - 1
      /\ \A j \in 1 .. L - 1 : t[j] = IF j < k THEN s[j] ELSE s[j + 1]
  BY RemoveAtLemma, LenProperties
<1>2. \A i, j \in 1 .. L : s[i] = s[j] => i = j
  BY DEF Distinct
<1> HIDE DEF t, L
<1>3. Distinct(t)
  BY <1>1, <1>2 DEF Distinct
<1>4. ASSUME NEW m, NEW j \in 1 .. L - 1, t[j] = m
      PROVE  (\E i \in 1 .. L : s[i] = m) /\ m # s[k]
  <2>1. CASE j < k
    <3>1. j \in 1 .. L /\ j # k /\ s[j] = m
      BY <1>1, <1>4, <2>1
    <3>. QED  BY <1>1, <1>2, <3>1
  <2>2. CASE ~(j < k)
    <3>1. j + 1 \in 1 .. L /\ j + 1 # k /\ s[j + 1] = m
      BY <1>1, <1>4, <2>2
    <3>. QED  BY <1>1, <1>2, <3>1
  <2>. QED  BY <2>1, <2>2
<1>5. ASSUME NEW m, NEW i \in 1 .. L, s[i] = m, m # s[k]
      PROVE  \E j \in 1 .. L - 1 : t[j] = m
  <2>1. CASE i < k
    BY <1>1, <1>5, <2>1
  <2>2. CASE i > k
    <3>1. i - 1 \in 1 .. L - 1 /\ ~(i - 1 < k) /\ (i - 1) + 1 = i
      BY <1>1, <2>2
    <3>. QED  BY <1>1, <1>5, <3>1
  <2>3. i # k
    BY <1>5
  <2>. QED  BY <1>1, <2>1, <2>2, <2>3
<1>6. \A m : (\E j \in 1 .. L - 1 : t[j] = m) = ((\E i \in 1 .. L : s[i] = m) /\ m # s[k])
  BY <1>4, <1>5
<1>. QED  BY <1>1, <1>3, <1>6 DEF IsIn, t, L

\* Where the messages of a line come from, when it grows and when it shrinks.
LEMMA FromLemma ==
  ASSUME NEW s \in Seq(Message), NEW S, AllFrom(s, S)
  PROVE  /\ \A m \in Message : m.src \in S => AllFrom(Append(s, m), S)
         /\ \A k \in 1 .. Len(s) : AllFrom(RemoveAt(s, k), S) /\ s[k].src \in S
         /\ s # << >> => AllFrom(Tail(s), S) /\ s[1].src \in S
<1>0. Len(s) \in Nat
  BY LenProperties
<1>1. ASSUME NEW m \in Message, m.src \in S
      PROVE  AllFrom(Append(s, m), S)
  BY <1>0, <1>1, AppendLemma DEF AllFrom
<1>2. ASSUME NEW k \in 1 .. Len(s)
      PROVE  AllFrom(RemoveAt(s, k), S) /\ s[k].src \in S
  <2> DEFINE t == RemoveAt(s, k)
             L == Len(s)
  <2>1. L \in Nat /\ k \in 1 .. L /\ Len(t) = L - 1
        /\ \A j \in 1 .. L - 1 : t[j] = IF j < k THEN s[j] ELSE s[j + 1]
    BY <1>0, <1>2, RemoveAtLemma
  <2>2. \A j \in 1 .. L : s[j].src \in S
    BY DEF AllFrom
  <2> HIDE DEF t, L
  <2>3. ASSUME NEW j \in 1 .. L - 1
        PROVE  t[j].src \in S
    <3>1. j \in 1 .. L /\ j + 1 \in 1 .. L
      BY <2>1
    <3>2. t[j] = s[j] \/ t[j] = s[j + 1]
      BY <2>1
    <3>. QED  BY <2>2, <3>1, <3>2
  <2>. QED  BY <2>1, <2>2, <2>3 DEF AllFrom, t, L
<1>3. ASSUME s # << >>
      PROVE  AllFrom(Tail(s), S) /\ s[1].src \in S
  BY <1>0, <1>3, HeadTailLemma DEF AllFrom
<1>. QED  BY <1>1, <1>2, <1>3

LEMMA ProbeOrigins ==
  ASSUME TypeOK, Origins, NEW r \in Request, ProbeTakes(r), unexpected' = unexpected
  PROVE  Origins'
<1>1. queue \in Seq(Message) /\ forwarded \in Seq(Message)
  BY DEF TypeOK, Messages
<1>2. AllFrom(queue, Remote) /\ AllFrom(forwarded, Remote)
  BY DEF Origins
<1>3. forwarded # << >> => forwarded[1] \in Message /\ forwarded[1].src \in Remote
                           /\ AllFrom(Tail(forwarded), Remote)
  BY <1>1, <1>2, HeadTailLemma, FromLemma
<1>4. \A k \in 1 .. Len(queue) : AllFrom(RemoveAt(queue, k), Remote)
  BY <1>1, <1>2, FromLemma
<1>5. forwarded # << >> => AllFrom(Append(queue, forwarded[1]), Remote)
  BY <1>1, <1>2, <1>3, FromLemma
<1>6. AllFrom(queue', Remote) /\ AllFrom(forwarded', Remote)
  BY <1>2, <1>3, <1>4, <1>5, ProbeCases
<1>. QED  BY <1>6 DEF Origins

\* A step touches, of the slots and the receives, i and n only.
Touches(i, n) ==
  /\ \A j \in Slot : j # i => table'[j] = table[j] /\ (table[j].n # n \/ n = 0)
  /\ i \in Slot => table[i].n \in {0, n} /\ table'[i].n \in {0, n}
  /\ \A m \in Receive : m # n => /\ buffer'[m] = buffer[m] /\ Waits(m)' = Waits(m)
                                 /\ (m \in reported') = (m \in reported)
                                 /\ (m \in stale') = (m \in stale)
  /\ \A m \in DOMAIN receives : m \in DOMAIN receives' /\ receives'[m] = receives[m]
  /\ \A m \in DOMAIN receives' : m \in DOMAIN receives \/ m = n
  /\ \A m \in Receive : m # n => (InRecv(m)' => InRecv(m))
OthersKept(i, n) ==
  /\ \A j \in Slot : j # i => SlotOK(j)'
  /\ \A m \in Receive : m # n => ReceiveOK(m)'
  /\ OneRequest'

\* It leaves the others as they are.
LEMMA SameReceive ==
  ASSUME NEW m, buffer'[m] = buffer[m], receives'[m] = receives[m]
  PROVE  /\ Holds(m)' = Holds(m) /\ HasLocal(m)' = HasLocal(m) /\ HasWide(m)' = HasWide(m)
         /\ Mixed(m)' = Mixed(m) /\ Wide(m)' = Wide(m)
<1>1. BothWays(m)' = BothWays(m)
  BY DEF BothWays
<1>2. (\A k \in 1 .. Len(buffer'[m]) : Matches(buffer'[m][k], receives'[m].source, receives'[m].tag))
      = (\A k \in 1 .. Len(buffer[m]) : Matches(buffer[m][k], receives[m].source, receives[m].tag))
  OBVIOUS
<1>3. Holds(m)' = Holds(m)
  BY <1>1, <1>2 DEF Holds
<1>4. HasLocal(m)' = HasLocal(m) /\ HasWide(m)' = HasWide(m)
  BY DEF HasLocal, HasWide
<1>. QED  BY <1>3, <1>4 DEF Mixed, Wide

LEMMA Others ==
  ASSUME TypeOK, TypeOK', Inv, NEW i, NEW n, Touches(i, n)
  PROVE  OthersKept(i, n)
<1> USE DEF Touches
<1>2. ASSUME NEW j \in Slot, j # i
      PROVE  SlotOK(j)'
  <2>1. SlotOK(j) /\ table'[j] = table[j]
    BY <1>2 DEF Inv, Slots, Touches
  <2>2. CASE table[j] = Free
    BY <2>1, <2>2 DEF SlotOK
  <2>3. CASE table[j].kind \in {"local send", "wide send"} /\ SendShape(table[j])
    BY <2>1, <2>3 DEF SlotOK, SendShape
  <2>4. CASE table[j].n # 0
    <3>1. /\ ReceiveShape(table[j]) /\ Carries(table[j])
          /\ table[j].kind \in {"local receive", "wide receive", "mixed receive"}
          /\ table[j].n \in Receive /\ table[j].n \in DOMAIN receives /\ table[j].n # n
      BY <1>2, <2>4, ReceiveLemma
    <3>3. ReceiveShape(table[j])'
      BY <2>1, <3>1 DEF ReceiveShape
    <3>4. Carries(table[j])'
      <4>1. PICK l \in Receive : l = table[j].n
        BY <3>1
      <4>2. /\ buffer'[l] = buffer[l] /\ receives'[l] = receives[l]
            /\ Waits(l)' = Waits(l) /\ (InRecv(l)' => InRecv(l))
        BY <3>1, <4>1
      <4>3. HasLocal(l)' = HasLocal(l) /\ HasWide(l)' = HasWide(l)
        BY <4>2, SameReceive
      <4>. QED  BY <2>1, <3>1, <4>1, <4>2, <4>3 DEF Carries
    <3>. QED  BY <2>1, <3>1, <3>3, <3>4 DEF SlotOK
  <2>. QED  BY <2>1, <2>2, <2>3, <2>4, ReceiveLemma DEF SlotOK
<1>3. ASSUME NEW m \in Receive, m # n
      PROVE  ReceiveOK(m)'
  <2>1. ReceiveOK(m) /\ m # 0
    BY BoundFacts DEF Inv, Receives
  <2>2. (m \in DOMAIN receives') = (m \in DOMAIN receives)
        /\ (m \in DOMAIN receives => receives'[m] = receives[m])
    BY <1>3
  <2>3. Busy(m)' = Busy(m)
    <3>1. \A j \in Slot : (table'[j].n = m) = (table[j].n = m)
      BY <1>3, <2>1
    <3>. QED  BY <3>1 DEF Busy
  <2>4. /\ buffer'[m] = buffer[m] /\ Waits(m)' = Waits(m)
        /\ (m \in reported') = (m \in reported) /\ (m \in stale') = (m \in stale)
        /\ InRecv(m)' => InRecv(m)
    BY <1>3
  <2>5. m \in stale => m \in DOMAIN receives
    BY DEF TypeOK
  <2>6. CASE m \in DOMAIN receives
    <3>1. /\ Holds(m)' = Holds(m) /\ HasLocal(m)' = HasLocal(m)
          /\ Mixed(m)' = Mixed(m) /\ Wide(m)' = Wide(m)
      BY <2>2, <2>4, <2>6, SameReceive
    <3>. QED  BY <2>1, <2>2, <2>3, <2>4, <2>6, <3>1 DEF ReceiveOK
  <2>7. CASE m \notin DOMAIN receives
    BY <2>1, <2>2, <2>4, <2>5, <2>7 DEF ReceiveOK, TypeOK
  <2>. QED  BY <2>6, <2>7
<1>4. OneRequest'
  BY DEF Inv, OneRequest
<1>. QED  BY <1>2, <1>3, <1>4 DEF OthersKept

LEMMA KeptLemma ==
  ASSUME Inv, NEW i, NEW n, OthersKept(i, n), i \in Slot => SlotOK(i)', n \in Receive => ReceiveOK(n)'
  PROVE  Slots' /\ Receives' /\ OneRequest'
BY DEF OthersKept, Slots, Receives

\* From where the messages of a line come.
LEMMA SomeLemma ==
  /\ \A S : ~SomeFrom(<< >>, S)
  /\ \A s \in Seq(Message) : s # << >> => SomeFrom(s, Local) \/ SomeFrom(s, Remote)
<1>1. \A S : ~SomeFrom(<< >>, S)
  BY EmptySeq DEF SomeFrom
<1>2. ASSUME NEW s \in Seq(Message), s # << >>
      PROVE  SomeFrom(s, Local) \/ SomeFrom(s, Remote)
  <2>1. 1 \in 1 .. Len(s) /\ s[1] \in Message
    BY <1>2, HeadTailLemma
  <2>2. s[1].src \in Local \/ s[1].src \in Remote
    BY <2>1 DEF Message, Member
  <2>. QED  BY <2>1, <2>2 DEF SomeFrom
<1>. QED  BY <1>1, <1>2

LEMMA SomeAppend ==
  ASSUME NEW s \in Seq(Message), NEW m \in Message, NEW S
  PROVE  SomeFrom(Append(s, m), S) = (SomeFrom(s, S) \/ m.src \in S)
<1> DEFINE t == Append(s, m)
           L == Len(s)
<1>1. L \in Nat /\ Len(t) = L + 1 /\ (\A j \in 1 .. L : t[j] = s[j]) /\ t[L + 1] = m
  BY AppendLemma, LenProperties
<1> HIDE DEF t, L
<1>2. (\E k \in 1 .. L + 1 : t[k].src \in S) = ((\E k \in 1 .. L : s[k].src \in S) \/ m.src \in S)
  <2>1. \A k \in 1 .. L + 1 : k \in 1 .. L \/ k = L + 1
    BY <1>1
  <2>2. L + 1 \in 1 .. L + 1 /\ \A k \in 1 .. L : k \in 1 .. L + 1
    BY <1>1
  <2>. QED  BY <1>1, <2>1, <2>2
<1>. QED  BY <1>1, <1>2 DEF SomeFrom, t, L

\* A message is written into the buffer of a receive that asked for it: it is the
\* first one, or the other of the two that come both ways.
Writes(n, m) ==
  /\ m \in Message /\ Matches(m, receives'[n].source, receives'[n].tag)
  /\ \/ buffer[n] = << >>
     \/ /\ Holds(n) /\ Mixed(n) /\ receives'[n] = receives[n]
        /\ m.src \in Local => ~HasLocal(n)
        /\ m.src \in Remote => ~HasWide(n)
  /\ buffer' = [buffer EXCEPT ![n] = Append(@, m)]
Written(n, m) ==
  /\ Holds(n)' /\ buffer'[n] # << >>
  /\ HasLocal(n)' = (HasLocal(n) \/ m.src \in Local)
  /\ HasWide(n)' = (HasWide(n) \/ m.src \in Remote)
  /\ \A l \in Receive : l # n => buffer'[l] = buffer[l]

LEMMA OneOrNone == \A l \in Nat : l <= 1 => l = 0 \/ l = 1
OBVIOUS

\* The sequences of it.
LEMMA TwoLemma ==
  ASSUME NEW s \in Seq(Message), NEW m \in Message, NEW t, t = Append(s, m), Len(s) <= 1,
         m.src \in Local => ~SomeFrom(s, Local),
         m.src \in Remote => ~SomeFrom(s, Remote)
  PROVE  \/ Len(t) = 1
         \/ Len(t) = 2 /\ \E k, l \in 1 .. 2 : t[k].src \in Local /\ t[l].src \in Remote
<1>1. Len(s) \in Nat /\ Len(t) = Len(s) + 1 /\ (\A j \in 1 .. Len(s) : t[j] = s[j]) /\ t[Len(s) + 1] = m
  BY AppendLemma, LenProperties
<1>2. CASE Len(s) = 0
  BY <1>1, <1>2
<1>3. CASE Len(s) = 1
  <2>1. Len(t) = 2 /\ t[1] = s[1] /\ t[2] = m /\ s[1] \in Message /\ 1 \in 1 .. Len(s)
    BY <1>1, <1>3, ElementOfSeq
  <2>2. s[1].src \in Local \cup Remote /\ m.src \in Local \cup Remote
    BY <2>1 DEF Message, Member
  <2>3. (m.src \in Local /\ s[1].src \in Remote) \/ (m.src \in Remote /\ s[1].src \in Local)
    BY <2>1, <2>2 DEF SomeFrom
  <2>4. (t[2].src \in Local /\ t[1].src \in Remote) \/ (t[2].src \in Remote /\ t[1].src \in Local)
    BY <2>1, <2>3
  <2>5. 1 \in 1 .. 2 /\ 2 \in 1 .. 2
    OBVIOUS
  <2>6. \E k, l \in 1 .. 2 : t[k].src \in Local /\ t[l].src \in Remote
    <3> DEFINE L(k) == t[k].src \in Local
               W(k) == t[k].src \in Remote
    <3>1. (L(2) /\ W(1)) \/ (W(2) /\ L(1))
      BY <2>4
    <3> HIDE DEF L, W
    <3>2. \E k, l \in 1 .. 2 : L(k) /\ W(l)
      BY <2>5, <3>1
    <3>. QED  BY <3>2 DEF L, W
  <2>. QED  BY <2>1, <2>6
<1>4. Len(s) \in Nat
  BY LenProperties
<1>5. Len(s) = 0 \/ Len(s) = 1
  BY <1>4, OneOrNone
<1>. QED  BY <1>2, <1>3, <1>5

LEMMA WriteLemma ==
  ASSUME TypeOK, NEW n \in Receive, NEW m, Writes(n, m)
  PROVE  Written(n, m)
<1> DEFINE s == buffer[n]
           t == Append(buffer[n], m)
<1>1. m \in Message /\ s \in Seq(Message)
  BY DEF Writes, TypeOK, Messages
<1>2. buffer'[n] = t /\ \A l \in Receive : l # n => buffer'[l] = buffer[l]
  BY DEF Writes, TypeOK
<1>3. /\ Len(s) \in Nat /\ Len(t) = Len(s) + 1
      /\ \A j \in 1 .. Len(s) : t[j] = s[j]
      /\ t[Len(s) + 1] = m
  BY <1>1, AppendLemma, LenProperties
<1>4. \A S : SomeFrom(t, S) = (SomeFrom(s, S) \/ m.src \in S)
  BY <1>1, SomeAppend
<1>5. s = << >> => Len(s) = 0
  BY EmptySeq
<1>6. t # << >>
  BY <1>3, EmptySeq
<1>7. Len(s) <= 1 /\ \/ Len(s) = 0
                     \/ /\ Mixed(n) /\ receives'[n] = receives[n]
                        /\ m.src \in Local => ~SomeFrom(s, Local)
                        /\ m.src \in Remote => ~SomeFrom(s, Remote)
  <2>1. CASE s = << >>
    BY <1>5, <2>1
  <2>2. CASE s # << >>
    <3>1. /\ Holds(n) /\ Mixed(n) /\ receives'[n] = receives[n]
          /\ m.src \in Local => ~SomeFrom(s, Local)
          /\ m.src \in Remote => ~SomeFrom(s, Remote)
      BY <2>2 DEF Writes, HasLocal, HasWide
    <3>2. m.src \in Local \/ m.src \in Remote
      BY <1>1 DEF Message, Member
    <3>3. ~BothWays(n)
      <4>1. BothWays(n) => SomeFrom(s, Local) /\ SomeFrom(s, Remote)
        BY DEF BothWays, SomeFrom
      <4>. QED  BY <3>1, <3>2, <4>1
    <3>. QED  BY <3>1, <3>3 DEF Holds
  <2>. QED  BY <2>1, <2>2
<1>8. \A k \in 1 .. Len(t) : Matches(t[k], receives'[n].source, receives'[n].tag)
  <2>1. Matches(m, receives'[n].source, receives'[n].tag)
    BY DEF Writes
  <2>2. \A k \in 1 .. Len(s) : Matches(s[k], receives'[n].source, receives'[n].tag)
    <3>1. CASE s = << >>
      BY <1>5, <3>1
    <3>2. CASE s # << >>
      BY <3>2 DEF Writes, Holds
    <3>. QED  BY <3>1, <3>2
  <2>3. \A k \in 1 .. Len(t) : k \in 1 .. Len(s) \/ k = Len(s) + 1
    BY <1>3
  <2>. QED  BY <1>3, <2>1, <2>2, <2>3
<1> HIDE DEF s, t
<1>9. \/ Len(t) = 1
      \/ /\ Mixed(n) /\ receives'[n] = receives[n]
         /\ Len(t) = 2 /\ \E k, l \in 1 .. 2 : t[k].src \in Local /\ t[l].src \in Remote
  <2>1. t = Append(s, m)
    BY DEF s, t
  <2>. QED  BY <1>1, <1>3, <1>7, <2>1, TwoLemma
<1>10. Holds(n)'
  <2>1. Len(buffer'[n]) <= 1 \/ BothWays(n)'
    <3>1. CASE Len(t) = 1
      BY <1>2, <3>1
    <3>2. CASE /\ Mixed(n) /\ receives'[n] = receives[n]
               /\ Len(t) = 2 /\ \E k, l \in 1 .. 2 : t[k].src \in Local /\ t[l].src \in Remote
      <4>1. Kind(FALSE, receives'[n].source) = "mixed receive"
        BY <3>2 DEF Mixed
      <4>. QED  BY <1>2, <3>2, <4>1 DEF BothWays
    <3>. QED  BY <1>9, <3>1, <3>2
  <2>. QED  BY <1>2, <1>8, <2>1 DEF Holds
<1>11. HasLocal(n)' = (HasLocal(n) \/ m.src \in Local) /\ HasWide(n)' = (HasWide(n) \/ m.src \in Remote)
  BY <1>2, <1>4 DEF HasLocal, HasWide, s
<1>. QED  BY <1>2, <1>6, <1>10, <1>11 DEF Written

\* A call that goes on with another request.
LEMMA NotCompleteCalls ==
  ASSUME TypeOK, Inv, call.op \in {"test", "waitany", "waitall"}, NotComplete(0),
         variable' = variable
  PROVE  Calls' /\ call'.op # "recv"
<1> DEFINE k == NextIndex(variable)
<1>1. /\ call.of \in Seq(Var) /\ call.i \in DOMAIN call.of /\ variable[call.of[call.i]] # NULL
  BY DEF TypeOK, Call, Inv, Calls, Current
<1>2. k \in DOMAIN call.of /\ variable[call.of[k]] # NULL
  BY <1>1, NextIndexLemma
<1> HIDE DEF k
<1>3. CASE call.op = "test"
  <2>1. call' = Idle
    BY <1>3 DEF NotComplete
  <2>. QED  BY <2>1, FreeFacts DEF Calls, Waiting
<1>4. CASE call.op # "test"
  <2>1. call' = [call EXCEPT !.i = k, !.at = "look", !.flag = 0]
    BY <1>4 DEF NotComplete, k
  <2>2. /\ call'.op = call.op /\ call'.of = call.of /\ call'.i = k /\ call'.at = "look"
    BY <2>1 DEF TypeOK, Call
  <2>. QED  BY <1>2, <1>4, <2>2 DEF Calls, Current
<1>. QED  BY <1>3, <1>4

\* A step that only moves messages that no receive has, or the call.
LEMMA CallOnly ==
  ASSUME TypeOK, TypeOK', Inv, Calls', Origins', call'.op # "recv",
         UNCHANGED <<variable, table, posted, receives, buffer, reported, stale>>
  PROVE  Inv'
<1>1. Slots' /\ Receives' /\ OneRequest'
  <2>1. 0 \notin Slot /\ 0 \notin Receive
    BY BoundFacts DEF NULL
  <2>2. Touches(0, 0)
    BY <2>1 DEF Touches, InRecv, Waits
  <2>. QED  BY <2>1, <2>2, Others, KeptLemma
<1>2. WaitsOnce' /\ Handles'
  BY DEF Inv, WaitsOnce, Handles
<1>. QED  BY <1>1, <1>2 DEF Inv

\* A slot is freed with the variable that holds it.
LEMMA FreesHandles ==
  ASSUME TypeOK, Inv, NEW u \in Var, NEW h \in Slot, variable[u] = h,
         variable' = [variable EXCEPT ![u] = NULL], table' = [table EXCEPT ![h] = Free]
  PROVE  Handles'
<1>1. /\ \A i \in Slot : (table[i] # Free) = (\E v \in Var : variable[v] = i)
      /\ \A v, w \in Var : variable[v] = variable[w] /\ variable[v] # NULL => v = w
  BY DEF Inv, Handles
<1>2. /\ \A v \in Var : variable'[v] = IF v = u THEN NULL ELSE variable[v]
      /\ \A i \in Slot : table'[i] = IF i = h THEN Free ELSE table[i]
  BY DEF TypeOK
<1>3. \A v, w \in Var : variable'[v] = variable'[w] /\ variable'[v] # NULL => v = w
  BY <1>1, <1>2
<1>4. ASSUME NEW i \in Slot
      PROVE  (table'[i] # Free) = (\E v \in Var : variable'[v] = i)
  <2>1. i # NULL
    BY BoundFacts
  <2>2. CASE i = h
    <3>1. \A v \in Var : variable'[v] # i
      BY <1>1, <1>2, <2>1, <2>2
    <3>. QED  BY <1>2, <2>2, <3>1
  <2>3. CASE i # h
    <3>1. \A v \in Var : (variable'[v] = i) = (variable[v] = i)
      BY <1>1, <1>2, <2>1, <2>3
    <3>2. table'[i] = table[i]
      BY <1>2, <2>3
    <3>3. (table[i] # Free) = (\E v \in Var : variable[v] = i)
      BY <1>1
    <3>4. (\E v \in Var : variable'[v] = i) = (\E v \in Var : variable[v] = i)
      BY <3>1
    <3>. QED  BY <3>2, <3>3, <3>4
  <2>. QED  BY <2>2, <2>3
<1>. QED  BY <1>3, <1>4 DEF Handles

\* A blocking receive goes on, with another message stored.
LEMMA QueuesInv ==
  ASSUME TypeOK, TypeOK', Inv, Origins',
         UNCHANGED <<variable, table, posted, call, receives, buffer, reported, stale>>
  PROVE  Inv'
<1>1. Slots' /\ Receives' /\ OneRequest'
  <2>1. 0 \notin Slot /\ 0 \notin Receive
    BY BoundFacts DEF NULL
  <2>2. Touches(0, 0)
    BY <2>1 DEF Touches, InRecv, Waits
  <2>. QED  BY <2>1, <2>2, Others, KeptLemma
<1>2. WaitsOnce' /\ Handles'
  BY DEF Inv, WaitsOnce, Handles
<1>3. Calls'
  BY DEF Inv, Calls, Current, Asked, Handle
<1>. QED  BY <1>1, <1>2, <1>3 DEF Inv

\* The call after a request ended.
LEMMA CompleteCall ==
  ASSUME TypeOK, call.op \in Waiting, Complete
  PROVE  call'.op # "recv"
<1>1. PICK k : k = NextIndex(variable')
  OBVIOUS
<1>2. call' = Idle \/ call' = [call EXCEPT !.i = k, !.at = "look", !.flag = 0]
  BY <1>1 DEF Complete
<1>. QED  BY <1>2, FreeFacts DEF TypeOK, Call, Waiting

\* A request ends.
LEMMA CompleteInv ==
  ASSUME TypeOK, TypeOK', Inv, call.op \in Waiting, Complete,
         NEW n, n = Asked.n,
         \A m \in Receive : m # n => /\ buffer'[m] = buffer[m] /\ Waits(m)' = Waits(m)
                                     /\ (m \in stale') = (m \in stale),
         receives' = receives, WaitsOnce', Origins',
         n # 0 => ReceiveOK(n)'
  PROVE  Inv'
<1>1. /\ Current \in Var /\ Handle \in Slot /\ Asked = table[Handle] /\ Handle # NULL
      /\ variable[Current] = Handle
  BY AskedLemma, BoundFacts DEF Asked
<1>2. /\ table' = [table EXCEPT ![Handle] = Free] /\ variable' = [variable EXCEPT ![Current] = NULL]
      /\ reported' = reported \cup ({n} \ {0})
  BY DEF Complete, FreeRequest
<1>3. table'[Handle] = Free /\ \A j \in Slot : j # Handle => table'[j] = table[j]
  BY <1>1, <1>2 DEF TypeOK
<1>4. call' = Idle \/ (call'.op = "waitall" /\ call'.at = "look" /\ Calls')
  <2>1. CASE call.op = "waitall" /\ \E j \in DOMAIN call.of : variable'[call.of[j]] # NULL
    <3> DEFINE k == NextIndex(variable')
    <3>1. k \in DOMAIN call.of /\ variable'[call.of[k]] # NULL
      BY <2>1, NextIndexLemma DEF TypeOK, Call
    <3> HIDE DEF k
    <3>2. call' = [call EXCEPT !.i = k, !.at = "look", !.flag = 0]
      BY <2>1 DEF Complete, k
    <3>3. /\ call'.op = "waitall" /\ call'.of = call.of /\ call'.i = k /\ call'.at = "look"
      BY <2>1, <3>2 DEF TypeOK, Call
    <3>. QED  BY <3>1, <3>3 DEF Calls, Current
  <2>. QED  BY <2>1 DEF Complete
<1>5. Calls'
  BY <1>4, FreeFacts DEF Calls, Waiting
<1>6. PICK h \in Slot : h = Handle
  BY <1>1
<1>7. SlotOK(h)'
  BY <1>3, <1>6 DEF SlotOK
<1>8. Slots' /\ Receives' /\ OneRequest'
  <2>1. \A j \in Slot : j # h => (table[j].n # n \/ n = 0)
    BY <1>1, <1>6 DEF Inv, OneRequest
  <2>2. \A m \in Receive : InRecv(m)' => InRecv(m)
    BY <1>4, FreeFacts DEF InRecv
  <2>3. table[h].n \in {0, n} /\ table'[h].n \in {0, n}
    BY <1>1, <1>3, <1>6, FreeFacts
  <2>r. \A m \in Receive : m # n => (m \in reported') = (m \in reported)
    BY <1>2
  <2>4. Touches(h, n)
    BY <1>3, <1>6, <2>1, <2>2, <2>3, <2>r DEF Touches
  <2>5. n \in Receive => ReceiveOK(n)'
    BY BoundFacts
  <2>. QED  BY <1>7, <2>4, <2>5, Others, KeptLemma
<1>9. Handles'
  BY <1>1, <1>2, FreesHandles
<1>. QED  BY <1>5, <1>8, <1>9 DEF Inv

\* It has no request any more, and was reported.
LEMMA EndedLemma ==
  ASSUME TypeOK, Inv, call.op \in Waiting, Complete, NEW n, n = Asked.n, n # 0
  PROVE  ~Busy(n)' /\ n \in reported' /\ call'.op # "recv" /\ ~InRecv(n)'
<1>1. /\ Handle \in Slot /\ Asked = table[Handle]
  BY AskedLemma DEF Asked
<1>2. table' = [table EXCEPT ![Handle] = Free] /\ reported' = reported \cup ({n} \ {0})
  BY DEF Complete, FreeRequest
<1>3. \A j \in Slot : table[j].n = n => j = Handle
  BY <1>1 DEF Inv, OneRequest
<1>4. ~Busy(n)'
  <2>1. PICK h \in Slot : h = Handle
    BY <1>1
  <2>2. table'[h] = Free /\ \A j \in Slot : j # h => table'[j] = table[j]
    BY <1>2, <2>1 DEF TypeOK
  <2>3. \A j \in Slot : table'[j].n # n
    BY <1>3, <2>1, <2>2, FreeFacts
  <2>. QED  BY <2>3 DEF Busy
<1>. QED  BY <1>2, <1>4, CompleteCall DEF InRecv

\* The empty line.
LEMMA EmptyFor == \A source, tag : OneFor(<< >>, source, tag)
<1>1. Len(<< >>) = 0
  BY EmptySeq
<1>. QED  BY <1>1 DEF OneFor

\* A line of one message.
LEMMA OneMessage ==
  ASSUME NEW m \in Message, NEW S, m.src \in S
  PROVE  /\ <<m>> \in Messages /\ <<m>> # << >> /\ Len(<<m>>) = 1 /\ <<m>>[1] = m
         /\ AllFrom(<<m>>, S)
         /\ \A source, tag : Matches(m, source, tag) => OneFor(<<m>>, source, tag)
<1> DEFINE t == <<m>>
<1>1. t \in Seq(Message) /\ Len(t) = 1 /\ t[1] = m /\ t # << >>
  BY SingleLemma
<1> HIDE DEF t
<1>2. AllFrom(t, S)
  BY <1>1 DEF AllFrom
<1>3. \A source, tag : Matches(m, source, tag) => OneFor(t, source, tag)
  BY <1>1 DEF OneFor
<1>. QED  BY <1>1, <1>2, <1>3 DEF Messages, t

\* The message of the receive in slot i is found and unpacked.
Takes(i, r) ==
  /\ r = ProbeReceive(table[i]) /\ ProbeTakes(table[i]) /\ r.completed
  /\ table[i].kind \in {"wide receive", "mixed receive"}
  /\ buffer' = Unpack(r) /\ receives' = receives
\* What the request q, and the buffer of its receive n, are then.
Taken(q, n, r, s) ==
  /\ s # << >> /\ OneFor(s, q.source, q.tag) /\ AllFrom(s, Remote)
  /\ r = [q EXCEPT !.completed = TRUE, !.message = s]
  /\ r.message = s /\ r.n = n /\ r.unpacked = q.unpacked
  /\ Holds(n)' /\ buffer'[n] # << >> /\ HasLocal(n)' = HasLocal(n) /\ HasWide(n)'
  /\ \A m \in Receive : m # n => buffer'[m] = buffer[m]

\* A line with one message in it.
LEMMA OneLine ==
  ASSUME NEW s \in Seq(Message), NEW source, NEW tag, NEW S, OneFor(s, source, tag), AllFrom(s, S), s # << >>
  PROVE  s[1] \in Message /\ s = <<s[1]>> /\ Matches(s[1], source, tag) /\ s[1].src \in S
<1>1. Len(s) \in Nat /\ Len(s) <= 1 /\ 1 \in 1 .. Len(s) /\ s[1] \in Message
  BY HeadTailLemma, LenProperties DEF OneFor
<1>2. PICK L : L = Len(s)
  OBVIOUS
<1>3. L \in Nat /\ L <= 1 /\ 1 \in 1 .. L
  BY <1>1, <1>2
<1>4. L = 0 \/ L = 1
  BY <1>3, OneOrNone
<1>5. L = 1
  BY <1>3, <1>4
<1>6. PICK t : t = <<s[1]>>
  OBVIOUS
<1>7. t \in Seq(Message) /\ Len(t) = 1 /\ t[1] = s[1]
  BY <1>1, <1>6, SingleLemma
<1>8. \A k \in 1 .. 1 : s[k] = t[k]
  BY <1>7
<1>9. s = t
  BY <1>2, <1>5, <1>7, <1>8, SeqEqual
<1>. QED  BY <1>1, <1>6, <1>9 DEF OneFor, AllFrom

LEMMA TakesLemma ==
  ASSUME TypeOK, Inv, NEW i \in Slot, NEW r, Takes(i, r), NEW q, q = table[i], NEW n, n = q.n
  PROVE  \E s \in Messages : Taken(q, n, r, s)
<1>1. /\ ReceiveShape(q) /\ Carries(q) /\ n \in Receive /\ n \in DOMAIN receives /\ n # 0
      /\ q \in Request /\ q # Free /\ q = table[i] /\ q.n = n
  BY ReceiveLemma, FreeFacts DEF TypeOK, Takes
<1>2. PICK s \in Messages : /\ r.message = s /\ s # << >> /\ OneFor(s, q.source, q.tag) /\ AllFrom(s, Remote)
                            /\ q.completed => s = q.message
                            /\ r = [q EXCEPT !.completed = TRUE, !.message = s]
  <2>1. CASE q.completed
    <3>1. r = q
      BY <1>1, <2>1, ProbeCases DEF Takes
    <3>2. q = [q EXCEPT !.completed = TRUE, !.message = q.message] /\ q.message \in Messages
      BY <1>1, <2>1 DEF Request
    <3>. QED  BY <1>1, <2>1, <3>1, <3>2 DEF ReceiveShape
  <2>2. CASE ~q.completed
    <3>1. \E m : /\ r = Found(q, m) /\ Matches(m, q.source, q.tag)
                 /\ \/ \E k \in 1 .. Len(queue) : m = queue[k]
                    \/ forwarded # << >> /\ m = forwarded[1]
      BY <1>1, <2>2, ProbeCases DEF Takes
    <3>2. PICK m : /\ r = Found(q, m) /\ Matches(m, q.source, q.tag)
                   /\ \/ \E k \in 1 .. Len(queue) : m = queue[k]
                      \/ forwarded # << >> /\ m = forwarded[1]
      BY <3>1
    <3>3. forwarded # << >> => 1 \in 1 .. Len(forwarded)
      BY HeadTailLemma DEF TypeOK, Messages
    <3>4. m \in Message /\ m.src \in Remote
      BY <3>2, <3>3, LineElements DEF Inv, Origins, AllFrom
    <3>5. /\ <<m>> \in Messages /\ <<m>> # << >> /\ OneFor(<<m>>, q.source, q.tag) /\ AllFrom(<<m>>, Remote)
      BY <3>2, <3>4, OneMessage
    <3>6. r.message = <<m>>
      BY <1>1, <3>2 DEF Found, Request
    <3>. QED  BY <2>2, <3>2, <3>5, <3>6 DEF Found
  <2>. QED  BY <2>1, <2>2
<1>3. r.n = n /\ r.unpacked = q.unpacked /\ q.n = n
  BY <1>1, <1>2 DEF Request
<1>4. /\ Holds(n)' /\ buffer'[n] # << >> /\ HasLocal(n)' = HasLocal(n) /\ HasWide(n)'
      /\ \A m \in Receive : m # n => buffer'[m] = buffer[m]
  <2>0. receives' = receives /\ Holds(n)
    BY <1>1 DEF Takes, Inv, Receives, ReceiveOK
  <2>1. CASE q.unpacked
    <3>1. buffer' = buffer /\ HasWide(n)
      BY <1>1, <1>3, <2>1 DEF Takes, Unpack, Carries
    <3>2. Holds(n)' = Holds(n) /\ HasLocal(n)' = HasLocal(n) /\ HasWide(n)' = HasWide(n)
      BY <2>0, <3>1, SameReceive
    <3>3. buffer[n] # << >>
      BY <3>1, SomeLemma DEF HasWide
    <3>. QED  BY <2>0, <3>1, <3>2, <3>3
  <2>2. CASE ~q.unpacked
    <3>1. ~HasWide(n)
      BY <1>1, <1>3, <2>2 DEF Carries
    <3>2. PICK x \in Message : s = <<x>> /\ Matches(x, q.source, q.tag) /\ x.src \in Remote
      BY <1>2, OneLine DEF Messages
    <3>3. buffer' = [buffer EXCEPT ![n] = @ \o <<x>>]
      BY <1>1, <1>2, <1>3, <2>2, <3>2 DEF Takes, Unpack
    <3>4. buffer[n] \in Seq(Message)
      BY <1>1 DEF TypeOK, Messages
    <3>5. buffer[n] \o <<x>> = Append(buffer[n], x)
      BY <3>2, <3>4, AppendIsConcat
    <3>6. buffer' = [buffer EXCEPT ![n] = Append(@, x)]
      BY <3>3, <3>5, <1>1 DEF TypeOK
    <3>7. receives[n].source = q.source /\ receives[n].tag = q.tag
      BY <1>1, FieldsLemma
    <3>8. buffer[n] = << >> \/ Mixed(n)
      <4>1. CASE q.kind = "wide receive"
        <5>1. ~HasLocal(n)
          BY <1>1, <4>1 DEF ReceiveShape, Carries
        <5>. QED  BY <3>1, <3>4, <5>1, SomeLemma DEF HasLocal, HasWide
      <4>2. CASE q.kind = "mixed receive"
        BY <1>1, <3>7, <4>2 DEF ReceiveShape, Mixed
      <4>. QED  BY <1>1, <4>1, <4>2 DEF Takes
    <3>9. x.src \notin Local
      BY <3>2, MemberAssumption
    <3>10. Writes(n, x)
      <4>1. Matches(x, receives'[n].source, receives'[n].tag) /\ receives'[n] = receives[n]
        BY <2>0, <3>2, <3>7
      <4>. QED  BY <2>0, <3>1, <3>2, <3>6, <3>8, <3>9, <4>1, Zenon DEF Writes
    <3>11. Written(n, x)
      BY <1>1, <3>10, WriteLemma
    <3>12. HasLocal(n)' = HasLocal(n)
      <4>1. HasLocal(n)' = (HasLocal(n) \/ x.src \in Local) /\ HasLocal(n) \in BOOLEAN
        BY <3>11 DEF Written, HasLocal, SomeFrom
      <4>. QED  BY <3>9, <4>1
    <3>13. HasWide(n)' /\ Holds(n)' /\ buffer'[n] # << >>
           /\ \A m \in Receive : m # n => buffer'[m] = buffer[m]
      BY <3>2, <3>11 DEF Written
    <3>. QED  BY <3>12, <3>13
  <2>. QED  BY <2>1, <2>2
<1>. QED  BY <1>2, <1>3, <1>4 DEF Taken

\* It is, and the request stays.
Unpacks(i, r) ==
  /\ Takes(i, r) /\ table' = [table EXCEPT ![i] = [r EXCEPT !.unpacked = TRUE]]
  /\ reported' \subseteq reported \cup {r.n} /\ reported \subseteq reported'
  /\ UNCHANGED <<variable, posted, unexpected, receives, stale>>

LEMMA UnpackInv ==
  ASSUME TypeOK, TypeOK', Inv, NEW i \in Slot, NEW r, Unpacks(i, r), Calls', call'.op # "recv"
  PROVE  Inv'
<1>0. PICK q : q = table[i]
  OBVIOUS
<1>q. PICK n : n = q.n
  OBVIOUS
<1>1. /\ ReceiveShape(q) /\ Carries(q) /\ n \in Receive /\ n \in DOMAIN receives /\ n # 0
      /\ q \in Request /\ q # Free /\ q = table[i] /\ q.n = n
  BY <1>0, <1>q, ReceiveLemma, FreeFacts DEF TypeOK, Unpacks, Takes
<1>t. PICK s \in Messages : Taken(q, n, r, s)
  <2>1. Takes(i, r)
    BY DEF Unpacks
  <2>. QED  BY <1>0, <1>q, <2>1, TakesLemma
<1>2. /\ s # << >> /\ OneFor(s, q.source, q.tag) /\ AllFrom(s, Remote)
      /\ r = [q EXCEPT !.completed = TRUE, !.message = s]
  BY <1>t DEF Taken
<1>3. r.n = n /\ r.unpacked = q.unpacked /\ q.n = n
  BY <1>1, <1>t DEF Taken
<1>4. /\ Holds(n)' /\ buffer'[n] # << >> /\ HasLocal(n)' = HasLocal(n) /\ HasWide(n)'
      /\ \A m \in Receive : m # n => buffer'[m] = buffer[m]
  BY <1>t DEF Taken
<1>e. PICK e : e = [r EXCEPT !.unpacked = TRUE]
  OBVIOUS
<1>5. /\ e.kind = q.kind /\ e.source = q.source /\ e.tag = q.tag /\ e.n = n /\ e.mpi = q.mpi
      /\ e.completed = TRUE /\ e.unpacked = TRUE /\ e.message = s
  BY <1>1, <1>2, <1>3, <1>e DEF Request
<1>6. table'[i] = e /\ \A j \in Slot : j # i => table'[j] = table[j]
  BY <1>e DEF TypeOK, Unpacks
<1>7. OthersKept(i, n)
  <2>1. \A j \in Slot : j # i => (table[j].n # n \/ n = 0)
    BY <1>1, <1>3 DEF Inv, OneRequest
  <2>2. \A m \in Receive : (InRecv(m)' => InRecv(m)) /\ Waits(m)' = Waits(m)
    BY DEF InRecv, Waits, Unpacks
  <2>3. Touches(i, n)
    <3>1. \A m \in Receive : m # n => (m \in reported') = (m \in reported)
      BY <1>3 DEF Unpacks
    <3>. QED  BY <1>1, <1>3, <1>4, <1>5, <1>6, <2>1, <2>2, <3>1 DEF Touches, Unpacks
  <2>. QED  BY <2>3, Others
<1>8. SlotOK(i)'
  <2>1. q.kind # "local receive"
    BY <1>1 DEF Unpacks, Takes
  <2>2. ReceiveShape(e)'
    <3>1. /\ n \in DOMAIN receives' /\ receives'[n] = [source |-> q.source, tag |-> q.tag]
          /\ q.kind = Kind(FALSE, q.source)
      BY <1>1 DEF ReceiveShape, Unpacks
    <3>2. (q.mpi = "null") = (q.kind = "wide receive")
      BY <1>1 DEF ReceiveShape
    <3>. QED BY <1>2, <1>5, <2>1, <3>1, <3>2 DEF ReceiveShape
  <2>3. Carries(e)'
    <3>1. Waits(n)' = Waits(n) /\ ~InRecv(n)'
      BY DEF InRecv, Waits, Unpacks
    <3>. QED  BY <1>1, <1>4, <1>5, <3>1 DEF Carries
  <2>4. e.kind \in {"local receive", "wide receive", "mixed receive"}
    BY <1>1, <1>5 DEF Unpacks, Takes
  <2>. QED  BY <1>6, <2>2, <2>3, <2>4 DEF SlotOK
<1>9. ReceiveOK(n)'
  <2>1. n \in DOMAIN receives' /\ n \notin stale'
    <3>1. Busy(n)
      BY <1>1 DEF Busy
    <3>. QED  BY <1>1, <3>1 DEF Unpacks, Inv, Receives, ReceiveOK
  <2>2. Busy(n)' /\ ~InRecv(n)'
    BY <1>5, <1>6 DEF Busy, InRecv
  <2>. QED  BY <1>4, <2>1, <2>2 DEF ReceiveOK
<1>10. Handles'
  <2>1. e # Free
    BY <1>1, <1>5, FreeFacts
  <2>2. \A j \in Slot : (table'[j] = Free) = (table[j] = Free)
    BY <1>1, <1>6, <2>1
  <2>3. variable' = variable
    BY DEF Unpacks
  <2>. QED  BY <2>2, <2>3 DEF Inv, Handles
<1>12. Origins'
  BY <1>1, ProbeOrigins DEF Inv, Unpacks, Takes
<1>13. Slots' /\ Receives' /\ OneRequest' /\ WaitsOnce'
  BY <1>7, <1>8, <1>9, KeptLemma DEF Inv, WaitsOnce, Unpacks
<1>. QED  BY <1>10, <1>12, <1>13 DEF Inv

\* A blocking receive gets its message.
LEMMA ReceivedInv ==
  ASSUME TypeOK, TypeOK', Inv, call.op = "recv", NEW m \in Message, Received(m),
         Matches(m, call.source, call.tag), Origins',
         UNCHANGED <<variable, table, posted, receives, stale>>
  PROVE  Inv'
<1>0. PICK n : n = Len(receives)
  OBVIOUS
<1>1. n \in DOMAIN receives /\ n \in Receive /\ n # 0
  <2>1. n \in Nat /\ n > 0 /\ DOMAIN receives = 1 .. n
    BY <1>0, ReceivesLemma DEF Inv, Calls
  <2>2. n \in DOMAIN receives
    BY <2>1
  <2>. QED  BY <2>1, <2>2, ReceivesLemma
<1>2. receives[n] = [source |-> call.source, tag |-> call.tag]
  BY <1>0 DEF Inv, Calls
<1>3. InRecv(n)
  BY <1>0 DEF InRecv
<1>4. buffer[n] = << >> /\ ~Waits(n) /\ n \notin stale
  BY <1>1, <1>3 DEF Inv, Receives, ReceiveOK
<1>5. /\ buffer' = [buffer EXCEPT ![n] = Append(@, m)] /\ reported' = reported \cup {n} /\ call' = Idle
  BY <1>0 DEF Received
<1>6. Written(n, m)
  <2>1. receives'[n].source = call.source /\ receives'[n].tag = call.tag
    BY <1>2
  <2>2. Writes(n, m)
    BY <1>4, <1>5, <2>1 DEF Writes
  <2>. QED  BY <1>1, <2>2, WriteLemma
<1>7. \A j \in Slot : table[j].n # n
  BY <1>1, <1>3, ReceiveLemma DEF Carries
<1>8. OthersKept(0, n)
  <2>1. \A k \in Receive : ~InRecv(k)' /\ Waits(k)' = Waits(k)
    BY <1>5, FreeFacts DEF InRecv, Waits
  <2>2. /\ \A k \in Receive : k # n => buffer'[k] = buffer[k]
        /\ \A k \in Receive : k # n => (k \in reported') = (k \in reported)
    BY <1>5, <1>6 DEF Written
  <2>3. Touches(0, n)
    BY <1>7, <2>1, <2>2, BoundFacts DEF Touches, NULL
  <2>. QED  BY <2>3, Others
<1>9. ReceiveOK(n)'
  <2>1. ~Waits(n)' /\ ~InRecv(n)' /\ n \in DOMAIN receives' /\ n \notin stale'
    BY <1>1, <1>4, <1>5, FreeFacts DEF InRecv, Waits
  <2>. QED  BY <1>6, <2>1 DEF ReceiveOK, Written
<1>10. Calls' /\ Handles' /\ WaitsOnce'
  BY <1>5, FreeFacts DEF Inv, Calls, Handles, WaitsOnce, Waiting
<1>12. Slots' /\ Receives' /\ OneRequest'
  BY <1>8, <1>9, KeptLemma, BoundFacts DEF NULL
<1>. QED  BY <1>10, <1>12 DEF Inv

-----------------------------------------------------------------------------
(* One lemma per action: it preserves the invariant *)

LEMMA NothingInv ==
  ASSUME TypeOK, TypeOK', Inv,
         UNCHANGED <<variable, table, queue, posted, unexpected, forwarded, call,
                     receives, buffer, reported, stale>>
  PROVE  Inv'
<1>1. Origins'
  BY DEF Inv, Origins
<1>. QED  BY <1>1, QueuesInv

\* The process ends.
LEMMA CrashInv ==
  ASSUME TypeOK, TypeOK', Inv, Crash,
         UNCHANGED <<variable, table, queue, posted, unexpected, forwarded,
                     receives, buffer, reported, stale>>
  PROVE  Inv'
<1>1. Origins'
  BY DEF Inv, Origins
<1>2. call'.op = "crashed" /\ call'.at = "look"
  BY DEF Crash, Idle
<1>3. Calls' /\ call'.op # "recv"
  BY <1>2 DEF Calls, Waiting
<1>. QED  BY <1>1, <1>3, CallOnly

\* Between two calls.
LEMMA IdleLemma ==
  ASSUME Inv, ~InCall
  PROVE  call = Idle /\ call.op = "idle" /\ call.at = "look" /\ \A n : ~InRecv(n)
BY FreeFacts DEF InCall, InRecv

\* A new request gets a free slot.
Adds(v, i, e) ==
  /\ table[i] = Free /\ variable[v] = NULL /\ e # Free
  /\ variable' = [variable EXCEPT ![v] = i] /\ table' = [table EXCEPT ![i] = e]

LEMMA AddsHandles ==
  ASSUME TypeOK, Inv, NEW v \in Var, NEW i \in Slot, NEW e, Adds(v, i, e)
  PROVE  Handles'
<1>1. /\ \A j \in Slot : (table[j] # Free) = (\E w \in Var : variable[w] = j)
      /\ \A u, w \in Var : variable[u] = variable[w] /\ variable[u] # NULL => u = w
  BY DEF Inv, Handles
<1>2. /\ variable[v] = NULL /\ table[i] = Free /\ e # Free /\ i # NULL
      /\ \A w \in Var : variable'[w] = IF w = v THEN i ELSE variable[w]
      /\ \A j \in Slot : table'[j] = IF j = i THEN e ELSE table[j]
  BY BoundFacts DEF Adds, TypeOK
<1>3. \A w \in Var : variable[w] # i
  BY <1>1, <1>2
<1>4. \A u, w \in Var : variable'[u] = variable'[w] /\ variable'[u] # NULL => u = w
  BY <1>1, <1>2, <1>3
<1>5. ASSUME NEW j \in Slot
      PROVE  (table'[j] # Free) = (\E w \in Var : variable'[w] = j)
  <2>1. CASE j = i
    BY <1>2, <2>1
  <2>2. CASE j # i
    <3>1. j # NULL
      BY BoundFacts
    <3>2. \A w \in Var : (variable'[w] = j) = (variable[w] = j)
      BY <1>2, <2>2, <3>1
    <3>3. table'[j] = table[j]
      BY <1>2, <2>2
    <3>4. (table[j] # Free) = (\E w \in Var : variable[w] = j)
      BY <1>1
    <3>5. (\E w \in Var : variable'[w] = j) = (\E w \in Var : variable[w] = j)
      BY <3>2
    <3>. QED  BY <3>3, <3>4, <3>5
  <2>. QED  BY <2>1, <2>2
<1>. QED  BY <1>4, <1>5 DEF Handles

LEMMA IsendInv ==
  ASSUME TypeOK, TypeOK', Inv, NEW v \in Var, NEW q \in Member, Isend(v, q)
  PROVE  Inv'
<1>1. PICK r : r = CreateRequest(Kind(TRUE, q), q, AnyTag, 0)
  OBVIOUS
<1>2. PICK e : e = IF Kind(TRUE, q) = "local send" THEN [r EXCEPT !.mpi = "active"] ELSE r
  OBVIOUS
<1>3. PICK i : i = AddRequest(table)
  OBVIOUS
<1>4. /\ e.kind \in {"local send", "wide send"} /\ e.n = 0 /\ e.completed = FALSE /\ e.unpacked = FALSE
      /\ e.message = << >> /\ (e.mpi = "null" => e.kind = "wide send")
  BY <1>1, <1>2, KindLemma DEF CreateRequest, Free, Nothing
<1>5. CASE i = NULL
  BY <1>3, <1>5, CrashInv DEF Isend
<1>6. CASE i # NULL
  <2>1. i \in Slot /\ table[i] = Free
    BY <1>3, <1>6, AddRequestLemma DEF TypeOK
  <2>2. /\ ~InCall /\ variable[v] = NULL /\ variable' = [variable EXCEPT ![v] = i]
        /\ table' = [table EXCEPT ![i] = e]
        /\ UNCHANGED <<queue, posted, unexpected, forwarded, call, receives, buffer, reported, stale>>
    BY <1>1, <1>2, <1>3, <1>6 DEF Isend
  <2>3. e # Free
    BY <1>4, FreeFacts
  <2>4. Handles'
    BY <2>1, <2>2, <2>3, AddsHandles DEF Adds
  <2>5. table'[i] = e /\ \A j \in Slot : j # i => table'[j] = table[j]
    BY <2>1, <2>2 DEF TypeOK
  <2>6. Touches(i, 0)
    BY <1>4, <2>1, <2>2, <2>5, FreeFacts DEF Touches, Waits, InRecv
  <2>7. SlotOK(i)'
    BY <1>4, <2>5 DEF SlotOK, SendShape
  <2>8. Slots' /\ Receives' /\ OneRequest'
    BY <2>6, <2>7, Others, KeptLemma, BoundFacts
  <2>9. Calls'
    BY <2>2, IdleLemma, FreeFacts DEF Calls, Waiting
  <2>10. WaitsOnce' /\ Origins'
    BY <2>2 DEF Inv, WaitsOnce, Origins
  <2>. QED  BY <2>4, <2>8, <2>9, <2>10 DEF Inv
<1>. QED  BY <1>5, <1>6

\* Receive number n is new.
LEMMA FreshLemma ==
  ASSUME TypeOK, Inv, NEW n, n = Len(receives) + 1, Len(receives) < MaxReceives,
         NEW a \in Ask
  PROVE  /\ n \in Receive /\ n # 0 /\ n \notin DOMAIN receives /\ \A j \in Slot : table[j].n # n
         /\ buffer[n] = << >> /\ ~Waits(n) /\ n \notin reported /\ n \notin stale
         /\ Append(receives, a)[n] = a /\ n \in DOMAIN Append(receives, a)
         /\ Len(Append(receives, a)) = n
         /\ \A m \in DOMAIN receives : m \in DOMAIN Append(receives, a) /\ Append(receives, a)[m] = receives[m]
         /\ \A m \in DOMAIN Append(receives, a) : m \in DOMAIN receives \/ m = n
<1>1. PICK L : L = Len(receives)
  OBVIOUS
<1>2. L \in Nat /\ DOMAIN receives = 1 .. L /\ n = L + 1 /\ L < MaxReceives
  BY <1>1, ReceivesLemma
<1>3. n \in Receive /\ n # 0 /\ n \notin DOMAIN receives
  BY <1>2, CountLemma, BoundFacts
<1>4. buffer[n] = << >> /\ ~Waits(n) /\ n \notin reported /\ n \notin stale
  BY <1>3 DEF Inv, Receives, ReceiveOK, TypeOK
<1>5. \A j \in Slot : table[j].n # n
  BY <1>3, ReceiveLemma
<1>6. /\ Append(receives, a) \in Seq(Ask) /\ Len(Append(receives, a)) = L + 1
      /\ \A j \in 1 .. L : Append(receives, a)[j] = receives[j]
      /\ Append(receives, a)[L + 1] = a
  BY <1>1, AppendLemma DEF TypeOK
<1>7. DOMAIN Append(receives, a) = 1 .. L + 1
  BY <1>6, LenProperties
<1>8. n \in 1 .. L + 1 /\ (\A m \in 1 .. L : m \in 1 .. L + 1) /\ (\A m \in 1 .. L + 1 : m \in 1 .. L \/ m = n)
  BY <1>2
<1>. QED  BY <1>2, <1>3, <1>4, <1>5, <1>6, <1>7, <1>8

LEMMA RecvInv ==
  ASSUME TypeOK, TypeOK', Inv, NEW a \in Asks, Recv(a.source, a.tag)
  PROVE  Inv'
<1>1. PICK n : n = Len(receives) + 1
  OBVIOUS
<1>2. PICK b \in Ask : b = [source |-> a.source, tag |-> a.tag]
  BY BoundAssumption DEF Ask
<1>m. CASE Kind(FALSE, a.source) = "mixed receive"
  BY <1>m, CrashInv DEF Recv
<1>k. CASE Kind(FALSE, a.source) # "mixed receive"
  <2>3. /\ ~InCall /\ Len(receives) < MaxReceives
        /\ call' = [Idle EXCEPT !.op = "recv", !.source = a.source, !.tag = a.tag]
        /\ receives' = Append(receives, b)
        /\ UNCHANGED <<variable, table, queue, posted, unexpected, forwarded, buffer, reported, stale>>
    BY <1>2, <1>k DEF Recv
  <2>4. /\ n \in Receive /\ n # 0 /\ n \notin DOMAIN receives /\ \A j \in Slot : table[j].n # n
        /\ buffer[n] = << >> /\ ~Waits(n) /\ n \notin reported /\ n \notin stale
        /\ receives'[n] = b /\ n \in DOMAIN receives' /\ Len(receives') = n
        /\ \A m \in DOMAIN receives : m \in DOMAIN receives' /\ receives'[m] = receives[m]
        /\ \A m \in DOMAIN receives' : m \in DOMAIN receives \/ m = n
    BY <1>1, <2>3, FreshLemma
  <2>5. call'.op = "recv" /\ call'.at = "look" /\ call'.source = a.source /\ call'.tag = a.tag
    BY <2>3 DEF Idle
  <2>6. Touches(0, n)
    BY <2>3, <2>4, BoundFacts DEF Touches, Waits, InRecv, NULL
  <2>7. ReceiveOK(n)'
    <3>1. ~Waits(n)' /\ buffer'[n] = << >> /\ n \in DOMAIN receives' /\ n \notin reported' /\ n \notin stale'
      BY <2>3, <2>4 DEF Waits
    <3>2. Holds(n)'
      BY <3>1, EmptySeq DEF Holds
    <3>. QED  BY <3>1, <3>2 DEF ReceiveOK
  <2>8. Slots' /\ Receives' /\ OneRequest'
    BY <2>6, <2>7, Others, KeptLemma, BoundFacts DEF NULL
  <2>9. Calls'
    <3>1. Len(receives') > 0
      BY <2>4, BoundFacts
    <3>. QED  BY <1>2, <1>k, <2>3, <2>4, <2>5, <3>1 DEF Calls, Waiting
  <2>10. WaitsOnce' /\ Origins' /\ Handles'
    BY <2>3 DEF Inv, WaitsOnce, Origins, Handles
  <2>. QED  BY <2>8, <2>9, <2>10 DEF Inv
<1>. QED  BY <1>m, <1>k

\* A receive that was just started.
NewShape(e) ==
  /\ e.kind = Kind(FALSE, e.source)
  /\ (e.mpi = "null") = (e.kind = "wide receive")
  /\ e.completed = (e.message # << >>)
  /\ OneFor(e.message, e.source, e.tag) /\ AllFrom(e.message, Remote)
  /\ e.unpacked = FALSE
  /\ e.kind # "wide receive" => ~e.completed

LEMMA NewReceiveInv ==
  ASSUME TypeOK, TypeOK', Inv, NEW v \in Var, NEW i \in Slot, NEW e, NEW n, NEW b \in Ask,
         ~InCall, Adds(v, i, e), n = Len(receives) + 1, Len(receives) < MaxReceives,
         receives' = Append(receives, b), e.n = n, b = [source |-> e.source, tag |-> e.tag],
         NewShape(e), Origins',
         \/ posted' = posted /\ e.mpi # "active"
         \/ posted' = Append(posted, n) /\ e.mpi = "active",
         \/ buffer' = buffer /\ e.mpi # "done"
         \/ /\ e.mpi = "done"
            /\ \E m \in Message : /\ m.src \in Local /\ Matches(m, e.source, e.tag)
                                /\ buffer' = [buffer EXCEPT ![n] = Append(@, m)],
         UNCHANGED <<call, reported, stale>>
  PROVE  Inv'
<1>1. /\ n \in Receive /\ n # 0 /\ n \notin DOMAIN receives /\ \A j \in Slot : table[j].n # n
      /\ buffer[n] = << >> /\ ~Waits(n) /\ n \notin reported /\ n \notin stale
      /\ receives'[n] = b /\ n \in DOMAIN receives'
      /\ \A m \in DOMAIN receives : m \in DOMAIN receives' /\ receives'[m] = receives[m]
      /\ \A m \in DOMAIN receives' : m \in DOMAIN receives \/ m = n
  BY FreshLemma
<1>2. table'[i] = e /\ table[i] = Free /\ \A j \in Slot : j # i => table'[j] = table[j]
  BY DEF Adds, TypeOK
<1>3. WaitsOnce' /\ Waits(n)' = (e.mpi = "active")
      /\ \A m \in Receive : m # n => Waits(m)' = Waits(m)
  <2>1. posted \in Seq(Receive) /\ Distinct(posted) /\ ~IsIn(posted, n)
    BY <1>1 DEF TypeOK, Inv, WaitsOnce, Waits
  <2>2. CASE posted' = posted /\ e.mpi # "active"
    BY <2>1, <2>2 DEF WaitsOnce, Waits, IsIn
  <2>3. CASE posted' = Append(posted, n) /\ e.mpi = "active"
    <3>1. /\ Distinct(posted') /\ \A m : IsIn(posted', m) = (IsIn(posted, m) \/ m = n)
      BY <1>1, <2>1, <2>3, InAppend
    <3>. QED  BY <2>3, <3>1 DEF WaitsOnce, Waits, IsIn
  <2>. QED  BY <2>2, <2>3
<1>4. \A m \in Receive : ~InRecv(m)'
  <2>1. call' = Idle
    BY IdleLemma
  <2>. QED  BY <2>1, FreeFacts DEF InRecv
<1>b. /\ Holds(n)' /\ HasLocal(n)' = (e.mpi = "done") /\ ~HasWide(n)'
      /\ \A m \in Receive : m # n => buffer'[m] = buffer[m]
  <2>1. CASE buffer' = buffer /\ e.mpi # "done"
    <3>1. buffer'[n] = << >>
      BY <1>1, <2>1
    <3>2. Holds(n)'
      BY <3>1, EmptySeq DEF Holds
    <3>3. ~HasLocal(n)' /\ ~HasWide(n)'
      BY <3>1, SomeLemma DEF HasLocal, HasWide
    <3>4. HasLocal(n)' \in BOOLEAN
      BY DEF HasLocal, SomeFrom
    <3>. QED  BY <2>1, <3>2, <3>3, <3>4
  <2>2. ASSUME e.mpi = "done", NEW m \in Message, m.src \in Local, Matches(m, e.source, e.tag),
               buffer' = [buffer EXCEPT ![n] = Append(@, m)]
        PROVE  /\ Holds(n)' /\ HasLocal(n)' = (e.mpi = "done") /\ ~HasWide(n)'
               /\ \A l \in Receive : l # n => buffer'[l] = buffer[l]
    <3>1. receives'[n].source = e.source /\ receives'[n].tag = e.tag
      BY <1>1
    <3>2. Writes(n, m)
      BY <1>1, <2>2, <3>1 DEF Writes
    <3>3. Written(n, m)
      BY <1>1, <3>2, WriteLemma
    <3>4. m.src \notin Remote /\ ~HasWide(n)
      BY <1>1, <2>2, MemberAssumption, SomeLemma DEF HasWide
    <3>5. HasLocal(n)' \in BOOLEAN
      BY DEF HasLocal, SomeFrom
    <3>. QED  BY <2>2, <3>3, <3>4, <3>5 DEF Written
  <2>. QED  BY <2>1, <2>2
<1>5. Touches(i, n)
  BY <1>1, <1>2, <1>3, <1>4, <1>b, FreeFacts DEF Touches
<1>6. SlotOK(i)'
  <2>1. e.kind \in {"local receive", "wide receive", "mixed receive"} /\ (e.kind = "local receive" => ~e.completed)
        /\ (e.kind = "mixed receive" => e.unpacked = e.completed)
    BY KindLemma DEF NewShape
  <2>2. ReceiveShape(e)'
    BY <1>1, <2>1 DEF ReceiveShape, NewShape
  <2>3. Carries(e)'
    <3>1. HasWide(n)' = e.unpacked
      BY <1>b DEF NewShape, HasWide, SomeFrom
    <3>. QED  BY <1>1, <1>3, <1>4, <1>b, <3>1 DEF Carries
  <2>. QED  BY <1>2, <2>1, <2>2, <2>3 DEF SlotOK
<1>7. ReceiveOK(n)'
  <2>1. ~InRecv(n)' /\ n \in DOMAIN receives' /\ n \notin reported' /\ n \notin stale'
    BY <1>1, <1>4
  <2>2. Busy(n)'
    BY <1>2 DEF Busy
  <2>. QED  BY <1>b, <2>1, <2>2 DEF ReceiveOK
<1>8. Slots' /\ Receives' /\ OneRequest'
  BY <1>5, <1>6, <1>7, Others, KeptLemma
<1>9. Calls'
  <2>1. call' = Idle
    BY IdleLemma
  <2>. QED  BY <2>1, FreeFacts DEF Calls, Waiting
<1>10. Handles'
  BY AddsHandles
<1>. QED  BY <1>3, <1>8, <1>9, <1>10 DEF Inv

LEMMA IrecvInv ==
  ASSUME TypeOK, TypeOK', Inv, NEW v \in Var, NEW a \in Asks, Irecv(v, a.source, a.tag)
  PROVE  Inv'
<1>1. PICK n : n = Len(receives) + 1
  OBVIOUS
<1>2. PICK b \in Ask : b = [source |-> a.source, tag |-> a.tag]
  BY BoundAssumption DEF Ask
<1>3. PICK r : r = CreateRequest(Kind(FALSE, a.source), a.source, a.tag, n)
  OBVIOUS
<1>4. PICK i : i = AddRequest(table)
  OBVIOUS
<1>5. /\ r.kind = Kind(FALSE, a.source) /\ r.source = a.source /\ r.tag = a.tag /\ r.n = n
      /\ r.completed = FALSE /\ r.unpacked = FALSE /\ r.message = << >> /\ r.mpi = "null"
  BY <1>3 DEF CreateRequest, Free, Nothing
<1>6. ~InCall /\ Len(receives) < MaxReceives /\ variable[v] = NULL
      /\ UNCHANGED <<reported, stale>>
  BY DEF Irecv
<1>7. n \in Receive /\ n # 0
  BY <1>1, <1>2, <1>6, FreshLemma
<1>8. r \in Request
  BY <1>2, <1>3, <1>7, FreeFacts, KindLemma DEF CreateRequest, Request, Kinds, Ask
<1>9. << >> \in Messages /\ AllFrom(<< >>, Local) /\ AllFrom(<< >>, Remote)
  BY EmptySeq DEF Messages, AllFrom
<1>10. CASE i = NULL
  BY <1>4, <1>10, CrashInv DEF Irecv
<1>11. CASE i # NULL
  <2>1. i \in Slot /\ table[i] = Free
    BY <1>4, <1>11, AddRequestLemma DEF TypeOK
  <2>2. variable' = [variable EXCEPT ![v] = i] /\ receives' = Append(receives, b) /\ call' = call
    BY <1>2, <1>4, <1>11 DEF Irecv
  <2>3. CASE r.kind = "wide receive"
    <3>1. PICK e : e = ProbeReceive(r)
      OBVIOUS
    <3>2. /\ table' = [table EXCEPT ![i] = e] /\ ProbeTakes(r)
          /\ UNCHANGED <<posted, unexpected, buffer>>
      BY <1>1, <1>3, <1>4, <1>5, <1>11, <2>3, <3>1 DEF Irecv
    <3>3. Origins'
      BY <1>8, <3>2, ProbeOrigins DEF Inv
    <3>4. e = r \/ \E m \in Message : e = Found(r, m) /\ m.src \in Remote /\ Matches(m, r.source, r.tag)
      <4>1. \/ e = r
            \/ \E k \in 1 .. Len(queue) : e = Found(r, queue[k]) /\ Matches(queue[k], r.source, r.tag)
            \/ forwarded # << >> /\ e = Found(r, forwarded[1]) /\ Matches(forwarded[1], r.source, r.tag)
        BY <1>8, <3>1, <3>2, ProbeCases
      <4>2. forwarded # << >> => 1 \in 1 .. Len(forwarded)
        BY HeadTailLemma DEF TypeOK, Messages
      <4>. QED  BY <4>1, <4>2, LineElements DEF Inv, Origins, AllFrom
    <3>5. e.n = n /\ e.source = a.source /\ e.tag = a.tag /\ e.mpi = "null" /\ NewShape(e) /\ e # Free
      <4>1. CASE e = r
        BY <1>5, <1>7, <1>9, <2>3, <4>1, EmptyFor, FreeFacts DEF NewShape
      <4>2. ASSUME NEW m \in Message, e = Found(r, m), m.src \in Remote, Matches(m, r.source, r.tag)
            PROVE  e.n = n /\ e.source = a.source /\ e.tag = a.tag /\ e.mpi = "null" /\ NewShape(e) /\ e # Free
        <5>1. PICK t : t = <<m>>
          OBVIOUS
        <5>2. /\ t # << >> /\ AllFrom(t, Remote) /\ OneFor(t, r.source, r.tag)
          BY <4>2, <5>1, OneMessage
        <5>3. /\ e.kind = r.kind /\ e.source = r.source /\ e.tag = r.tag /\ e.n = n /\ e.unpacked = FALSE
              /\ e.completed = TRUE /\ e.message = t /\ e.mpi = "null"
          BY <1>5, <1>8, <4>2, <5>1 DEF Found, Request
        <5>. QED  BY <1>5, <1>7, <1>9, <2>3, <5>2, <5>3, EmptyFor, FreeFacts DEF NewShape
      <4>. QED  BY <3>4, <4>1, <4>2
    <3>6. Adds(v, i, e)
      BY <1>6, <2>1, <2>2, <3>2, <3>5 DEF Adds
    <3>. QED  BY <1>1, <1>2, <1>6, <2>1, <2>2, <3>2, <3>3, <3>5, <3>6, NewReceiveInv
  <2>4. CASE r.kind # "wide receive"
    <3>1. Post(r, i) /\ queue' = queue /\ forwarded' = forwarded
      BY <1>1, <1>3, <1>4, <1>5, <1>11, <2>4 DEF Irecv
    <3>2. PICK k : k = FirstMatch(unexpected, r.source, r.tag)
      OBVIOUS
    <3>3. CASE k = 0
      <4>1. PICK e : e = [r EXCEPT !.mpi = "active"]
        OBVIOUS
      <4>2. table' = [table EXCEPT ![i] = e] /\ posted' = Append(posted, n)
            /\ unexpected' = unexpected /\ buffer' = buffer
        BY <1>5, <3>1, <3>2, <3>3, <4>1 DEF Post
      <4>3. Origins'
        BY <3>1, <4>2 DEF Inv, Origins
      <4>4. /\ e.kind = r.kind /\ e.source = r.source /\ e.tag = r.tag /\ e.n = n /\ e.unpacked = FALSE
            /\ e.completed = FALSE /\ e.message = << >> /\ e.mpi = "active"
        BY <1>5, <1>8, <4>1 DEF Request
      <4>5. NewShape(e) /\ e # Free
        BY <1>5, <1>7, <1>9, <2>4, <4>4, EmptyFor, FreeFacts DEF NewShape
      <4>6. Adds(v, i, e)
        BY <1>6, <2>1, <2>2, <4>2, <4>5 DEF Adds
      <4>. QED  BY <1>1, <1>2, <1>5, <1>6, <2>1, <2>2, <4>2, <4>3, <4>4, <4>5, <4>6, NewReceiveInv
    <3>4. CASE k # 0
      <4>1. k \in 1 .. Len(unexpected) /\ Matches(unexpected[k], r.source, r.tag)
        BY <3>2, <3>4, FirstMatchLemma DEF TypeOK, Messages
      <4>2. PICK m \in Message : m = unexpected[k]
        BY <4>1, LineElements
      <4>3. PICK e : e = [r EXCEPT !.mpi = "done"]
        OBVIOUS
      <4>4. table' = [table EXCEPT ![i] = e] /\ posted' = posted /\ unexpected' = RemoveAt(unexpected, k)
            /\ buffer' = [buffer EXCEPT ![n] = Append(@, m)]
        BY <1>5, <3>1, <3>2, <3>4, <4>2, <4>3 DEF Post
      <4>5. Origins' /\ m.src \in Local
        <5>1. unexpected \in Seq(Message) /\ AllFrom(unexpected, Local)
          BY DEF TypeOK, Messages, Inv, Origins
        <5>2. AllFrom(unexpected', Local) /\ m.src \in Local
          BY <4>1, <4>2, <4>4, <5>1, FromLemma
        <5>. QED  BY <3>1, <5>2 DEF Inv, Origins
      <4>8. /\ e.kind = r.kind /\ e.source = r.source /\ e.tag = r.tag /\ e.n = n /\ e.unpacked = FALSE
            /\ e.completed = FALSE /\ e.message = << >> /\ e.mpi = "done"
        BY <1>5, <1>8, <4>3 DEF Request
      <4>9. NewShape(e) /\ e # Free
        BY <1>5, <1>7, <1>9, <2>4, <4>8, EmptyFor, FreeFacts DEF NewShape
      <4>10. Adds(v, i, e)
        BY <1>6, <2>1, <2>2, <4>4, <4>9 DEF Adds
      <4>11. Matches(m, e.source, e.tag)
        BY <4>1, <4>2, <4>8
      <4>. QED  BY <1>1, <1>2, <1>5, <1>6, <2>1, <2>2, <4>4, <4>5, <4>8, <4>9, <4>10, <4>11, NewReceiveInv
    <3>. QED  BY <3>3, <3>4
  <2>. QED  BY <2>3, <2>4
<1>. QED  BY <1>10, <1>11

LEMMA BeginInv ==
  ASSUME TypeOK, TypeOK', Inv, NEW op \in {"test", "wait", "waitany", "waitall"}, NEW of \in Seq(Var),
         NEW f, Begin(op, of, f)
  PROVE  Inv'
<1>1. PICK j : j = Min({ k \in DOMAIN of : variable[of[k]] # NULL })
  OBVIOUS
<1>2. j \in DOMAIN of /\ variable[of[j]] # NULL
  BY <1>1, FirstIndexLemma DEF Begin
<1>3. call' = [Idle EXCEPT !.op = op, !.of = of, !.flag = f, !.i = j]
      /\ UNCHANGED <<variable, table, queue, posted, unexpected, forwarded, receives, buffer, reported, stale>>
  BY <1>1 DEF Begin, logVars
<1>4. call'.op = op /\ call'.of = of /\ call'.flag = f /\ call'.i = j /\ call'.at = "look"
  BY <1>3 DEF Idle
<1>5. Calls'
  BY <1>2, <1>3, <1>4 DEF Calls, Current
<1>6. Origins'
  BY <1>3 DEF Inv, Origins
<1>7. call'.op # "recv"
  BY <1>4
<1>. QED  BY <1>3, <1>5, <1>6, <1>7, CallOnly

LEMMA RequestGetStatusInv ==
  ASSUME TypeOK, TypeOK', Inv, NEW v \in Var, RequestGetStatus(v)
  PROVE  Inv'
<1>1. PICK i : i = variable[v]
  OBVIOUS
<1>2. PICK r : r = ProbeReceive(table[i])
  OBVIOUS
<1>3. /\ i \in Slot /\ ~InCall /\ table[i].kind \in {"wide receive", "mixed receive"}
      /\ ProbeTakes(table[i])
      /\ UNCHANGED <<variable, posted, unexpected, call, receives, stale>>
  BY <1>1 DEF RequestGetStatus, TypeOK
<1>4. call' = Idle
  BY <1>3, IdleLemma
<1>5. Calls' /\ call'.op # "recv"
  BY <1>4, FreeFacts DEF Calls, Waiting
<1>6. CASE r.completed
  <2>1. Unpacks(i, r)
    BY <1>1, <1>2, <1>3, <1>6 DEF RequestGetStatus, Unpacks, Takes
  <2>. QED  BY <1>3, <1>5, <2>1, UnpackInv
<1>7. CASE ~r.completed
  <2>1. UNCHANGED <<table, buffer, reported>>
    BY <1>1, <1>2, <1>7 DEF RequestGetStatus
  <2>2. Origins'
    BY <1>3, ProbeOrigins DEF Inv, TypeOK
  <2>. QED  BY <1>3, <1>5, <2>1, <2>2, CallOnly
<1>. QED  BY <1>6, <1>7

LEMMA RequestFreeInv ==
  ASSUME TypeOK, TypeOK', Inv, NEW v \in Var, RequestFree(v)
  PROVE  Inv'
<1>1. PICK i : i = variable[v]
  OBVIOUS
<1>2. /\ i \in Slot /\ ~InCall /\ table[i].kind \in {"local send", "wide send"}
      /\ table' = [table EXCEPT ![i] = Free] /\ variable' = [variable EXCEPT ![v] = NULL]
      /\ UNCHANGED <<queue, posted, unexpected, forwarded, call, receives, buffer, reported, stale>>
  BY <1>1 DEF RequestFree, FreeRequest, TypeOK, logVars
<1>3. table[i].n = 0
  BY <1>2, ReceiveLemma
<1>4. table'[i] = Free /\ \A j \in Slot : j # i => table'[j] = table[j]
  BY <1>2 DEF TypeOK
<1>5. Touches(i, 0)
  BY <1>2, <1>3, <1>4, FreeFacts DEF Touches, Waits, InRecv
<1>6. SlotOK(i)'
  BY <1>4 DEF SlotOK
<1>7. Slots' /\ Receives' /\ OneRequest'
  BY <1>5, <1>6, Others, KeptLemma, BoundFacts
<1>8. Handles'
  BY <1>1, <1>2, FreesHandles
<1>9. call' = Idle
  BY <1>2, IdleLemma
<1>10. Calls'
  BY <1>9, FreeFacts DEF Calls, Waiting
<1>11. WaitsOnce' /\ Origins'
  BY <1>2 DEF Inv, WaitsOnce, Origins
<1>. QED  BY <1>7, <1>8, <1>10, <1>11 DEF Inv

LEMMA LocalRecvInv ==
  ASSUME TypeOK, TypeOK', Inv, LocalRecv
  PROVE  Inv'
<1>1. PICK k : k = FirstMatch(unexpected, call.source, call.tag)
  OBVIOUS
<1>2. unexpected \in Seq(Message) /\ AllFrom(unexpected, Local)
  BY DEF TypeOK, Messages, Inv, Origins
<1>3. k \in 1 .. Len(unexpected) /\ Matches(unexpected[k], call.source, call.tag)
  BY <1>1, <1>2, FirstMatchLemma DEF LocalRecv
<1>4. PICK m \in Message : m = unexpected[k]
  BY <1>3, LineElements
<1>5. /\ call.op = "recv" /\ Received(m) /\ unexpected' = RemoveAt(unexpected, k)
      /\ UNCHANGED <<variable, table, queue, posted, forwarded, receives, stale>>
  BY <1>1, <1>4 DEF LocalRecv
<1>6. Origins'
  <2>1. AllFrom(unexpected', Local)
    BY <1>2, <1>3, <1>5, FromLemma
  <2>. QED  BY <1>5, <2>1 DEF Inv, Origins
<1>. QED  BY <1>3, <1>4, <1>5, <1>6, ReceivedInv

LEMMA WideRecvInv ==
  ASSUME TypeOK, TypeOK', Inv, WideRecv
  PROVE  Inv'
<1>1. PICK k : k = FirstMatch(queue, call.source, call.tag)
  OBVIOUS
<1>2. /\ queue \in Seq(Message) /\ AllFrom(queue, Remote)
      /\ forwarded \in Seq(Message) /\ AllFrom(forwarded, Remote) /\ AllFrom(unexpected, Local)
  BY DEF TypeOK, Messages, Inv, Origins
<1>3. /\ call.op = "recv"
      /\ UNCHANGED <<variable, table, posted, unexpected, receives, stale>>
  BY DEF WideRecv
<1>4. CASE k # 0
  <2>1. k \in 1 .. Len(queue) /\ Matches(queue[k], call.source, call.tag)
    BY <1>1, <1>2, <1>4, FirstMatchLemma
  <2>2. PICK m \in Message : m = queue[k]
    BY <2>1, LineElements
  <2>3. Received(m) /\ queue' = RemoveAt(queue, k) /\ forwarded' = forwarded
    BY <1>1, <1>4, <2>2 DEF WideRecv
  <2>4. Origins'
    <3>1. AllFrom(queue', Remote)
      BY <1>2, <2>1, <2>3, FromLemma
    <3>. QED  BY <1>2, <1>3, <2>3, <3>1 DEF Origins
  <2>. QED  BY <1>3, <2>1, <2>2, <2>3, <2>4, ReceivedInv
<1>5. CASE k = 0
  <2>1. forwarded # << >> /\ forwarded' = Tail(forwarded)
    BY <1>1, <1>5 DEF WideRecv
  <2>2. PICK m \in Message : m = Head(forwarded)
    BY <1>2, <2>1, HeadTailLemma
  <2>3. m.src \in Remote /\ AllFrom(forwarded', Remote)
    BY <1>2, <2>1, <2>2, FromLemma, HeadTailLemma
  <2>4. CASE Matches(m, call.source, call.tag)
    <3>1. Received(m) /\ queue' = queue
      BY <1>1, <1>5, <2>2, <2>4 DEF WideRecv
    <3>2. Origins'
      BY <1>2, <1>3, <2>3, <3>1 DEF Origins
    <3>. QED  BY <1>3, <2>4, <3>1, <3>2, ReceivedInv
  <2>5. CASE ~Matches(m, call.source, call.tag)
    <3>1. queue' = Append(queue, m) /\ UNCHANGED <<buffer, reported, call>>
      BY <1>1, <1>5, <2>2, <2>5 DEF WideRecv, Store
    <3>2. AllFrom(queue', Remote)
      BY <1>2, <2>3, <3>1, FromLemma
    <3>3. Origins'
      BY <1>2, <1>3, <2>3, <3>2 DEF Origins
    <3>. QED  BY <1>3, <3>1, <3>3, QueuesInv
  <2>. QED  BY <2>4, <2>5
<1>. QED  BY <1>4, <1>5

LEMMA LookLocalInv ==
  ASSUME TypeOK, TypeOK', Inv, LookLocal
  PROVE  Inv'
<1>1. call.op \in Waiting
  BY LookingLemma DEF LookLocal
<1>2. PICK h \in Slot : h = Handle
  BY <1>1, AskedLemma
<1>3. PICK q : q = table[h]
  OBVIOUS
<1>4. /\ q = Asked /\ q.kind \in {"local send", "local receive"}
      /\ UNCHANGED <<queue, posted, unexpected, forwarded, receives, buffer, stale>>
  BY <1>2, <1>3 DEF LookLocal, IsLooking, Asked
<1>5. Origins' /\ WaitsOnce' /\ \A m : Waits(m)' = Waits(m)
  BY <1>4 DEF Inv, Origins, WaitsOnce, Waits
<1>6. CASE q.mpi = "done"
  <2>1. Complete
    BY <1>4, <1>6 DEF LookLocal
  <2>2. PICK n : n = q.n
    OBVIOUS
  <2>3. CASE n = 0
    BY <1>1, <1>4, <1>5, <2>1, <2>2, <2>3, CompleteInv
  <2>4. CASE n # 0
    <3>1. Carries(q) /\ n \in Receive /\ n \in DOMAIN receives
      BY <1>3, <1>4, <2>2, <2>4, ReceiveLemma DEF TypeOK
    <3>2. HasLocal(n) /\ ~Waits(n)
      BY <1>6, <2>2, <3>1 DEF Carries
    <3>3. buffer[n] # << >> /\ Holds(n) /\ n \notin stale
      BY <3>1, <3>2, SomeLemma DEF Inv, Receives, ReceiveOK, HasLocal
    <3>4. ReceiveOK(n)'
      <4>1. Holds(n)'
        BY <1>4, <3>3, SameReceive
      <4>2. ~InRecv(n)'
        BY <1>1, <1>4, <2>1, <2>2, <2>4, EndedLemma
      <4>. QED  BY <1>4, <1>5, <3>1, <3>2, <3>3, <4>1, <4>2 DEF ReceiveOK
    <3>. QED  BY <1>1, <1>4, <1>5, <2>1, <2>2, <3>4, CompleteInv
  <2>. QED  BY <2>3, <2>4
<1>7. CASE q.mpi # "done"
  <2>1. /\ call.op # "wait" /\ NotComplete(0) /\ UNCHANGED <<variable, table, reported>>
    BY <1>4, <1>7 DEF LookLocal
  <2>2. call.op \in {"test", "waitany", "waitall"}
    BY <1>1, <2>1 DEF Waiting
  <2>. QED  BY <1>4, <1>5, <2>1, <2>2, NotCompleteCalls, CallOnly
<1>. QED  BY <1>6, <1>7

LEMMA LookWideSendInv ==
  ASSUME TypeOK, TypeOK', Inv, LookWideSend
  PROVE  Inv'
<1>1. call.op \in Waiting
  BY LookingLemma DEF LookWideSend
<1>2. PICK h \in Slot : h = Handle
  BY <1>1, AskedLemma
<1>3. Asked.n = 0
  BY <1>2, ReceiveLemma DEF LookWideSend, IsLooking, Asked
<1>4. Complete /\ UNCHANGED <<queue, posted, unexpected, forwarded, receives, buffer, stale>>
  BY DEF LookWideSend
<1>5. Origins' /\ WaitsOnce' /\ \A m : Waits(m)' = Waits(m)
  BY <1>4 DEF Inv, Origins, WaitsOnce, Waits
<1>. QED  BY <1>1, <1>3, <1>4, <1>5, CompleteInv

\* A receive with a request was not reported without a message.
LEMMA BusyFacts ==
  ASSUME TypeOK, Inv, NEW i \in Slot, NEW n, table[i].n = n, n # 0
  PROVE  n \in Receive /\ n \in DOMAIN receives /\ n \notin stale /\ Holds(n) /\ ~InRecv(n)
<1>1. n \in Receive /\ n \in DOMAIN receives /\ Carries(table[i])
  BY ReceiveLemma
<1>2. Busy(n)
  BY DEF Busy
<1>. QED  BY <1>1, <1>2 DEF Inv, Receives, ReceiveOK, Carries

LEMMA LookWideInv ==
  ASSUME TypeOK, TypeOK', Inv, LookWide
  PROVE  Inv'
<1>1. call.op \in Waiting
  BY LookingLemma DEF LookWide
<1>2. PICK h \in Slot : h = Handle
  BY <1>1, AskedLemma
<1>3. PICK q : q = table[h]
  OBVIOUS
<1>4. PICK r : r = ProbeReceive(q)
  OBVIOUS
<1>5. PICK n : n = q.n
  OBVIOUS
<1>6. /\ q = Asked /\ q.kind = "wide receive" /\ ProbeTakes(q)
      /\ UNCHANGED <<posted, unexpected, receives>>
  BY <1>2, <1>3 DEF LookWide, IsLooking, Asked
<1>7. /\ ReceiveShape(q) /\ Carries(q) /\ n \in Receive /\ n \in DOMAIN receives /\ n # 0 /\ q \in Request
      /\ n \notin stale /\ Holds(n)
  BY <1>3, <1>5, <1>6, ReceiveLemma, BusyFacts DEF TypeOK
<1>8. /\ receives[n].source = q.source /\ receives[n].tag = q.tag
      /\ ~HasLocal(n) /\ ~Waits(n)
  BY <1>5, <1>6, <1>7, FieldsLemma DEF Carries, ReceiveShape
<1>9. Origins' /\ WaitsOnce' /\ \A m : Waits(m)' = Waits(m)
  <2>1. Origins'
    BY <1>6, <1>7, ProbeOrigins DEF Inv
  <2>. QED  BY <1>6, <2>1 DEF Inv, WaitsOnce, Waits
<1>10. \/ r.completed /\ buffer' = Unpack(r) /\ Complete /\ stale' = stale
       \/ ~r.completed /\ Complete /\ buffer' = buffer /\ stale' = stale \cup {n}
       \/ /\ ~r.completed /\ call.op # "wait" /\ NotComplete(0)
          /\ UNCHANGED <<variable, table, reported, stale, buffer>>
       \/ ~r.completed /\ UNCHANGED <<variable, table, reported, stale, buffer, call>>
  BY <1>4, <1>5, <1>6 DEF LookWide
<1>11. CASE r.completed /\ buffer' = Unpack(r) /\ Complete /\ stale' = stale
  <2>2. Takes(h, r)
    BY <1>3, <1>4, <1>6, <1>11 DEF Takes
  <2>3. PICK s \in Messages : Taken(q, n, r, s)
    BY <1>3, <1>5, <2>2, TakesLemma
  <2>4. Holds(n)' /\ buffer'[n] # << >> /\ \A m \in Receive : m # n => buffer'[m] = buffer[m]
    BY <2>3 DEF Taken
  <2>5. ~InRecv(n)'
    BY <1>1, <1>5, <1>6, <1>7, <1>11, EndedLemma
  <2>6. ReceiveOK(n)'
    BY <1>6, <1>7, <1>8, <1>9, <1>11, <2>4, <2>5 DEF ReceiveOK
  <2>. QED  BY <1>1, <1>5, <1>6, <1>9, <1>11, <2>4, <2>6, CompleteInv
<1>12. CASE ~r.completed /\ Complete /\ buffer' = buffer /\ stale' = stale \cup {n}
  <2>2. ~q.unpacked
    <3>1. q.completed => r.completed
      BY <1>4 DEF ProbeReceive
    <3>. QED  BY <1>7, <1>12, <3>1 DEF ReceiveShape
  <2>3. buffer[n] = << >>
    <3>1. ~HasWide(n) /\ buffer[n] \in Seq(Message)
      BY <1>5, <1>7, <2>2 DEF Carries, TypeOK, Messages
    <3>. QED  BY <1>8, <3>1, SomeLemma DEF HasLocal, HasWide
  <2>4. ~InRecv(n)' /\ ~Busy(n)'
    BY <1>1, <1>5, <1>6, <1>7, <1>12, EndedLemma
  <2>5. Holds(n)' /\ Wide(n)'
    <3>1. Holds(n)' = Holds(n) /\ Wide(n)' = Wide(n)
      BY <1>6, <1>12, SameReceive
    <3>2. Wide(n)
      BY <1>6, <1>7, <1>8 DEF Wide, ReceiveShape
    <3>. QED  BY <1>7, <3>1, <3>2
  <2>6. ReceiveOK(n)'
    BY <1>6, <1>7, <1>8, <1>9, <1>12, <2>3, <2>4, <2>5 DEF ReceiveOK
  <2>7. \A m \in Receive : m # n => (m \in stale') = (m \in stale)
    BY <1>12
  <2>. QED  BY <1>1, <1>5, <1>6, <1>9, <1>12, <2>6, <2>7, CompleteInv
<1>13. CASE /\ call.op # "wait" /\ NotComplete(0)
            /\ UNCHANGED <<variable, table, reported, stale, buffer>>
  <2>1. call.op \in {"test", "waitany", "waitall"}
    BY <1>1, <1>13 DEF Waiting
  <2>. QED  BY <1>6, <1>9, <1>13, <2>1, NotCompleteCalls, CallOnly
<1>14. CASE UNCHANGED <<variable, table, reported, stale, buffer, call>>
  BY <1>6, <1>9, <1>14, QueuesInv
<1>. QED  BY <1>10, <1>11, <1>12, <1>13, <1>14

\* A mixed receive ends that MPI or the gateway had a message for.  MPI may still
\* wait for one.
Ends(n) ==
  /\ Asked.kind = "mixed receive" /\ (Asked.completed \/ Asked.mpi = "done")
  /\ WaitsOnce' /\ (\A m \in Receive : m # n => Waits(m)' = Waits(m)) /\ (Waits(n)' => Waits(n))
  /\ UNCHANGED <<queue, unexpected, forwarded, receives, buffer, stale>>

LEMMA MixedEnds ==
  ASSUME TypeOK, TypeOK', Inv, call.op \in Waiting, Complete, NEW n, n = Asked.n, Ends(n)
  PROVE  Inv'
<1>1. PICK h \in Slot : h = Handle
  BY AskedLemma
<1>2. PICK q : q = table[h]
  OBVIOUS
<1>3. /\ q = Asked /\ ReceiveShape(q) /\ Carries(q) /\ n \in Receive /\ n \in DOMAIN receives /\ n # 0
      /\ q.n = n /\ q.kind = "mixed receive" /\ (q.completed \/ q.mpi = "done")
      /\ n \notin stale /\ Holds(n)
  BY <1>1, <1>2, ReceiveLemma, BusyFacts DEF Asked, Ends
<1>4. Mixed(n)
  BY <1>3, FieldsLemma DEF ReceiveShape, Mixed
<1>5. buffer[n] # << >>
  <2>1. HasLocal(n) \/ HasWide(n)
    BY <1>3 DEF ReceiveShape, Carries
  <2>. QED  BY <2>1, SomeLemma DEF HasLocal, HasWide
<1>6. Waits(n) => ~HasLocal(n)
  BY <1>3 DEF Carries
<1>7. receives' = receives /\ buffer' = buffer /\ stale' = stale /\ (Waits(n)' => Waits(n))
      /\ WaitsOnce' /\ \A m \in Receive : m # n => Waits(m)' = Waits(m)
  BY DEF Ends
<1>8. ReceiveOK(n)'
  <2>1. Holds(n)' = Holds(n) /\ HasLocal(n)' = HasLocal(n) /\ Mixed(n)' = Mixed(n)
    BY <1>7, SameReceive
  <2>2. ~InRecv(n)'
    BY <1>3, EndedLemma
  <2>. QED  BY <1>3, <1>4, <1>5, <1>6, <1>7, <2>1, <2>2 DEF ReceiveOK
<1>9. Origins'
  BY DEF Inv, Origins, Ends
<1>. QED  BY <1>7, <1>8, <1>9, CompleteInv

LEMMA LookMixedInv ==
  ASSUME TypeOK, TypeOK', Inv, LookMixed
  PROVE  Inv'
<1>1. call.op \in Waiting
  BY LookingLemma DEF LookMixed
<1>2. PICK h \in Slot : h = Handle
  BY <1>1, AskedLemma
<1>3. PICK q : q = table[h]
  OBVIOUS
<1>4. PICK n : n = q.n
  OBVIOUS
<1>5. /\ q = Asked /\ q.kind = "mixed receive" /\ call.at = "look"
      /\ UNCHANGED <<queue, posted, unexpected, forwarded, receives, buffer, stale>>
  BY <1>2, <1>3 DEF LookMixed, IsLooking, Asked
<1>7. Origins' /\ WaitsOnce' /\ \A m : Waits(m)' = Waits(m)
  BY <1>5 DEF Inv, Origins, WaitsOnce, Waits
<1>8. CASE q.completed \/ q.mpi = "done"
  <2>1. Complete
    BY <1>5, <1>8 DEF LookMixed
  <2>2. Ends(n)
    BY <1>5, <1>7, <1>8 DEF Ends
  <2>. QED  BY <1>1, <1>4, <1>5, <2>1, <2>2, MixedEnds
<1>9. CASE ~(q.completed \/ q.mpi = "done")
  <2>1. /\ call' = [call EXCEPT !.at = "probe", !.flag = 0]
        /\ UNCHANGED <<variable, table, reported>>
    BY <1>5, <1>9 DEF LookMixed
  <2>2. call'.at = "probe" /\ call'.op = call.op /\ call'.i = call.i /\ call'.of = call.of
    BY <2>1 DEF TypeOK, Call
  <2>3. Asked' = q /\ Current' = Current /\ variable' = variable
    BY <1>5, <2>1, <2>2 DEF Asked, Handle, Current
  <2>4. call.i \in DOMAIN call.of /\ variable[Current] # NULL
    BY <1>1 DEF Inv, Calls
  <2>5. q.completed = FALSE
    BY <1>2, <1>3, <1>9 DEF TypeOK, Request
  <2>6. Calls' /\ call'.op # "recv"
    BY <1>1, <1>5, <2>2, <2>3, <2>4, <2>5 DEF Calls, Waiting
  <2>. QED  BY <1>5, <1>7, <2>1, <2>6, CallOnly
<1>. QED  BY <1>8, <1>9

LEMMA ProbeMixedInv ==
  ASSUME TypeOK, TypeOK', Inv, ProbeMixed
  PROVE  Inv'
<1>1. call.op \in Waiting /\ call.at = "probe"
  BY LookingLemma DEF ProbeMixed
<1>2. PICK h \in Slot : h = Handle
  BY <1>1, AskedLemma
<1>3. PICK q : q = table[h]
  OBVIOUS
<1>4. PICK r : r = ProbeReceive(q)
  OBVIOUS
<1>5. q = Asked /\ q.kind = "mixed receive" /\ q \in Request
  BY <1>1, <1>2, <1>3 DEF Asked, Inv, Calls, TypeOK
<1>6. /\ ProbeTakes(q) /\ UNCHANGED <<variable, posted, unexpected, receives, reported, stale>>
      /\ \/ /\ r.completed /\ buffer' = Unpack(r)
            /\ table' = [table EXCEPT ![h] = [r EXCEPT !.unpacked = TRUE]]
            /\ call' = [call EXCEPT !.at = "cancel"]
         \/ table' = table /\ buffer' = buffer /\ call' = [call EXCEPT !.at = "look"]
         \/ table' = table /\ buffer' = buffer /\ call.op # "wait" /\ NotComplete(0)
  BY <1>2, <1>4, <1>5 DEF ProbeMixed
<1>7. call.i \in DOMAIN call.of /\ variable[Current] # NULL
  BY <1>1 DEF Inv, Calls
<1>9. CASE /\ r.completed /\ buffer' = Unpack(r)
           /\ table' = [table EXCEPT ![h] = [r EXCEPT !.unpacked = TRUE]]
           /\ call' = [call EXCEPT !.at = "cancel"]
  <2>1. Unpacks(h, r)
    BY <1>3, <1>4, <1>5, <1>6, <1>9 DEF Unpacks, Takes
  <2>2. call'.at = "cancel" /\ call'.op = call.op /\ call'.i = call.i /\ call'.of = call.of
    BY <1>9 DEF TypeOK, Call
  <2>3. Current' = Current /\ Handle' = h /\ variable' = variable
    BY <1>2, <1>6, <2>2 DEF Current, Handle
  <2>4. PICK s : Taken(q, q.n, r, s)
    BY <1>3, <2>1, TakesLemma DEF Unpacks
  <2>5. r.kind = "mixed receive" /\ r.completed = TRUE /\ r \in Request
    BY <1>4, <1>5, <1>6, <2>4, ProbeTypes DEF Taken, Request
  <2>6. table'[h].kind = "mixed receive" /\ table'[h].completed = TRUE
    BY <1>9, <2>5 DEF TypeOK, Request
  <2>7. Asked' = table'[h]
    BY <2>3 DEF Asked
  <2>8. Calls' /\ call'.op # "recv"
    BY <1>1, <1>7, <2>2, <2>3, <2>6, <2>7 DEF Calls, Waiting
  <2>. QED  BY <2>1, <2>8, UnpackInv
<1>10. Origins'
  BY <1>5, <1>6, ProbeOrigins DEF Inv
<1>11. CASE table' = table /\ buffer' = buffer /\ call' = [call EXCEPT !.at = "look"]
  <2>2. call'.at = "look" /\ call'.op = call.op /\ call'.i = call.i /\ call'.of = call.of
    BY <1>11 DEF TypeOK, Call
  <2>3. Current' = Current /\ variable' = variable
    BY <1>6, <2>2 DEF Current
  <2>4. Calls' /\ call'.op # "recv"
    BY <1>1, <1>7, <2>2, <2>3 DEF Calls, Waiting
  <2>. QED  BY <1>6, <1>10, <1>11, <2>4, CallOnly
<1>12. CASE table' = table /\ buffer' = buffer /\ call.op # "wait" /\ NotComplete(0)
  <2>1. call.op \in {"test", "waitany", "waitall"}
    BY <1>1, <1>12 DEF Waiting
  <2>. QED  BY <1>6, <1>10, <1>12, <2>1, NotCompleteCalls, CallOnly
<1>. QED  BY <1>6, <1>9, <1>11, <1>12

LEMMA CancelLocalInv ==
  ASSUME TypeOK, TypeOK', Inv, CancelLocal
  PROVE  Inv'
<1>1. call.op \in Waiting /\ call.at = "cancel"
  BY LookingLemma DEF CancelLocal
<1>2. PICK n : n = Asked.n
  OBVIOUS
<1>3. Asked.kind = "mixed receive" /\ Asked.completed
  BY <1>1 DEF Inv, Calls
<1>4. posted' = RemoveFirst(posted, n) /\ Complete
      /\ UNCHANGED <<queue, unexpected, forwarded, receives, buffer, stale>>
  BY <1>2 DEF CancelLocal
<1>5. posted \in Seq(Receive) /\ Distinct(posted)
  BY DEF TypeOK, Inv, WaitsOnce
<1>6. Distinct(posted') /\ (\A m : m # n => IsIn(posted', m) = IsIn(posted, m)) /\ (IsIn(posted', n) => IsIn(posted, n))
  <2>1. CASE posted' = posted
    BY <1>5, <2>1
  <2>2. ASSUME NEW k \in 1 .. Len(posted), posted[k] = n, posted' = RemoveAt(posted, k)
        PROVE  Distinct(posted') /\ (\A m : m # n => IsIn(posted', m) = IsIn(posted, m))
               /\ (IsIn(posted', n) => IsIn(posted, n))
    <3>1. Distinct(posted') /\ \A m : IsIn(posted', m) = (IsIn(posted, m) /\ m # n)
      BY <1>5, <2>2, InRemoveAt
    <3>. QED  BY <3>1 DEF IsIn
  <2>. QED  BY <1>4, <1>5, <2>1, <2>2, RemoveFirstLemma
<1>7. Ends(n)
  BY <1>3, <1>4, <1>6 DEF Ends, WaitsOnce, Waits
<1>. QED  BY <1>1, <1>2, <1>4, <1>7, MixedEnds

\* A step of MPI leaves the call alone.
LEMMA CallsKept ==
  ASSUME TypeOK, Inv, UNCHANGED <<variable, call, receives>>,
         \A j \in Slot : table'[j].kind = table[j].kind /\ table'[j].completed = table[j].completed
  PROVE  Calls'
<1>1. Calls
  BY DEF Inv
<1>2. Current' = Current /\ Handle' = Handle
  BY DEF Current, Handle
<1>3. CASE call.at = "look"
  BY <1>1, <1>2, <1>3 DEF Calls
<1>4. CASE call.at # "look"
  <2>1. call.op \in Waiting
    BY <1>1, <1>4, FreeFacts DEF Calls, TypeOK, Call
  <2>2. PICK h \in Slot : h = Handle
    BY <2>1, AskedLemma
  <2>3. Asked = table[h] /\ Asked' = table'[h]
    BY <1>2, <2>2 DEF Asked
  <2>4. Asked'.kind = Asked.kind /\ Asked'.completed = Asked.completed
    BY <2>3
  <2>. QED  BY <1>1, <1>2, <1>4, <2>1, <2>4 DEF Calls
<1>. QED  BY <1>3, <1>4

LEMMA SendCompletesInv ==
  ASSUME TypeOK, TypeOK', Inv, NEW i \in Slot, SendCompletes(i)
  PROVE  Inv'
<1>1. PICK q \in Request : q = table[i]
  BY DEF TypeOK
<1>2. PICK e : e = [q EXCEPT !.mpi = "done"]
  OBVIOUS
<1>3. /\ q.kind = "local send" /\ table' = [table EXCEPT ![i] = e]
      /\ UNCHANGED <<variable, queue, posted, unexpected, forwarded, call, receives, buffer, reported, stale>>
  BY <1>1, <1>2 DEF SendCompletes, logVars, TypeOK
<1>4. q.n = 0 /\ SendShape(q)
  <2>1. SlotOK(i)
    BY DEF Inv, Slots
  <2>. QED  BY <1>1, <1>3, <2>1, FreeFacts DEF SlotOK, SendShape
<1>5. /\ e.kind = "local send" /\ e.n = 0 /\ e.completed = q.completed /\ e.unpacked = q.unpacked
      /\ e.message = q.message /\ e.mpi = "done"
  BY <1>2, <1>3, <1>4 DEF Request
<1>6. table'[i] = e /\ \A j \in Slot : j # i => table'[j] = table[j]
  BY <1>3 DEF TypeOK
<1>7. Touches(i, 0)
  BY <1>1, <1>3, <1>4, <1>5, <1>6 DEF Touches, Waits, InRecv
<1>8. SlotOK(i)'
  BY <1>4, <1>5, <1>6 DEF SlotOK, SendShape
<1>9. Slots' /\ Receives' /\ OneRequest'
  BY <1>7, <1>8, Others, KeptLemma, BoundFacts
<1>10. Handles'
  <2>1. e # Free /\ q # Free
    BY <1>3, <1>5, FreeFacts
  <2>2. \A j \in Slot : (table'[j] = Free) = (table[j] = Free)
    BY <1>1, <1>6, <2>1
  <2>3. Handles /\ variable' = variable
    BY <1>3 DEF Inv
  <2>. QED  BY <2>2, <2>3 DEF Handles
<1>11. Calls'
  BY <1>1, <1>3, <1>5, <1>6, CallsKept
<1>12. WaitsOnce' /\ Origins'
  BY <1>3 DEF Inv, WaitsOnce, Origins
<1>. QED  BY <1>9, <1>10, <1>11, <1>12 DEF Inv

LEMMA WideArrivalInv ==
  ASSUME TypeOK, TypeOK', Inv, NEW q \in Member, NEW t \in Tag, WideArrival(q, t)
  PROVE  Inv'
<1>1. PICK m \in Message : m = [src |-> q, tag |-> t, n |-> sent[q] + 1]
  BY MessageLemma DEF WideArrival
<1>2. /\ m.src \in Remote /\ forwarded' = Append(forwarded, m)
      /\ UNCHANGED <<variable, table, queue, posted, unexpected, call, receives, buffer, reported, stale>>
  BY <1>1 DEF WideArrival
<1>3. forwarded \in Seq(Message)
  BY DEF TypeOK, Messages
<1>4. AllFrom(forwarded', Remote)
  BY <1>2, <1>3, FromLemma DEF Inv, Origins
<1>5. Origins'
  BY <1>2, <1>4 DEF Inv, Origins
<1>. QED  BY <1>2, <1>5, QueuesInv

\* MPI takes the receive n from those that wait, and writes m into its buffer.
Answers(n, m) ==
  /\ Distinct(posted') /\ \A k : IsIn(posted', k) <=> (IsIn(posted, k) /\ k # n)
  /\ m \in Message /\ m.src \in Local /\ Matches(m, receives[n].source, receives[n].tag)
  /\ buffer' = [buffer EXCEPT ![n] = Append(@, m)]
  /\ UNCHANGED <<variable, queue, unexpected, forwarded, call, receives, reported, stale>>

\* Its request was freed: the message comes after that of another cluster.
LEMMA OrphanInv ==
  ASSUME TypeOK, TypeOK', Inv, NEW n \in Receive, Waits(n), ~Busy(n), NEW m,
         Answers(n, m), table' = table
  PROVE  Inv'
<1>1. Mixed(n) /\ ~HasLocal(n) /\ Holds(n) /\ n \in DOMAIN receives /\ ~InRecv(n) /\ ~Wide(n)
  BY DEF Inv, Receives, ReceiveOK, Mixed, Wide
<1>2. n \notin stale
  BY <1>1 DEF Inv, Receives, ReceiveOK
<1>3. /\ UNCHANGED <<variable, queue, unexpected, forwarded, call, receives, reported, stale>>
      /\ m \in Message /\ m.src \in Local /\ Matches(m, receives[n].source, receives[n].tag)
      /\ buffer' = [buffer EXCEPT ![n] = Append(@, m)]
  BY DEF Answers
<1>4. ~Waits(n)' /\ WaitsOnce' /\ \A k \in Receive : k # n => Waits(k)' = Waits(k)
  BY DEF Answers, Waits, WaitsOnce, IsIn
<1>5. \A j \in Slot : table[j].n # n
  BY DEF Busy
<1>w. Written(n, m)
  <2>1. m.src \notin Remote
    BY <1>3, MemberAssumption
  <2>2. Matches(m, receives'[n].source, receives'[n].tag) /\ receives'[n] = receives[n]
    BY <1>3
  <2>3. Writes(n, m)
    BY <1>1, <1>3, <2>1, <2>2, Zenon DEF Writes
  <2>. QED  BY <2>3, WriteLemma
<1>6. Touches(0, n)
  <2>1. \A k \in Receive : k # n => buffer'[k] = buffer[k]
    BY <1>w DEF Written
  <2>. QED  BY <1>3, <1>4, <1>5, <2>1, BoundFacts DEF Touches, InRecv, NULL
<1>7. ReceiveOK(n)'
  <2>1. ~InRecv(n)' /\ n \in DOMAIN receives' /\ n \notin stale'
    BY <1>1, <1>2, <1>3 DEF InRecv
  <2>. QED  BY <1>4, <1>w, <2>1 DEF ReceiveOK, Written
<1>8. Slots' /\ Receives' /\ OneRequest'
  BY <1>6, <1>7, Others, KeptLemma, BoundFacts DEF NULL
<1>9. Calls'
  BY <1>3, CallsKept
<1>10. Handles' /\ Origins'
  BY <1>3 DEF Inv, Handles, Origins
<1>. QED  BY <1>4, <1>8, <1>9, <1>10 DEF Inv

\* It is that of the request in slot i.
LEMMA AnswerInv ==
  ASSUME TypeOK, TypeOK', Inv, NEW n \in Receive, Waits(n), NEW m,
         NEW i \in Slot, table[i].n = n, Answers(n, m),
         table' = [table EXCEPT ![i] = [table[i] EXCEPT !.mpi = "done"]]
  PROVE  Inv'
<1>1. PICK q \in Request : q = table[i]
  BY DEF TypeOK
<1>3. PICK e : e = [q EXCEPT !.mpi = "done"]
  OBVIOUS
<1>4. table'[i] = e /\ \A j \in Slot : j # i => table'[j] = table[j]
  BY <1>1, <1>3 DEF TypeOK
<1>0. n # 0 /\ q.n = n
  BY <1>1, BoundFacts
<1>5. /\ ReceiveShape(q) /\ Carries(q) /\ n \in DOMAIN receives /\ n # 0 /\ q.n = n
      /\ q.kind \in {"local receive", "wide receive", "mixed receive"}
      /\ n \notin stale /\ Holds(n)
  BY <1>0, <1>1, ReceiveLemma, BusyFacts
<1>6. receives[n].source = q.source /\ receives[n].tag = q.tag
  BY <1>5, FieldsLemma
<1>7. q.mpi = "active" /\ ~HasLocal(n)
  BY <1>5 DEF Carries
<1>8. /\ e.kind = q.kind /\ e.source = q.source /\ e.tag = q.tag /\ e.n = n /\ e.mpi = "done"
      /\ e.completed = q.completed /\ e.unpacked = q.unpacked /\ e.message = q.message
  BY <1>3, <1>5 DEF Request
<1>10. /\ UNCHANGED <<variable, queue, unexpected, forwarded, call, receives, reported, stale>>
       /\ m \in Message /\ m.src \in Local /\ Matches(m, receives[n].source, receives[n].tag)
       /\ buffer' = [buffer EXCEPT ![n] = Append(@, m)]
  BY DEF Answers
<1>11. ~Waits(n)' /\ WaitsOnce' /\ \A k \in Receive : k # n => Waits(k)' = Waits(k)
  BY DEF Answers, Waits, WaitsOnce, IsIn
<1>w. Written(n, m)
  <2>1. m.src \notin Remote
    BY <1>10, MemberAssumption
  <2>2. Matches(m, receives'[n].source, receives'[n].tag) /\ receives'[n] = receives[n]
    BY <1>10
  <2>3. buffer[n] = << >> \/ Mixed(n)
    <3>1. CASE q.kind = "local receive"
      <4>1. ~HasWide(n) /\ buffer[n] \in Seq(Message)
        BY <1>5, <3>1 DEF ReceiveShape, Carries, TypeOK, Messages
      <4>. QED  BY <1>7, <4>1, SomeLemma DEF HasLocal, HasWide
    <3>2. CASE q.kind = "mixed receive"
      BY <1>5, <1>6, <3>2 DEF ReceiveShape, Mixed
    <3>3. q.kind # "wide receive"
      BY <1>5, <1>7 DEF ReceiveShape
    <3>. QED  BY <1>5, <3>1, <3>2, <3>3
  <2>4. Writes(n, m)
    BY <1>5, <1>7, <1>10, <2>1, <2>2, <2>3, Zenon DEF Writes
  <2>. QED  BY <2>4, WriteLemma
<1>12. Touches(i, n)
  <2>1. \A j \in Slot : j # i => table[j].n # n
    BY <1>1, <1>5 DEF Inv, OneRequest
  <2>2. \A k \in Receive : k # n => buffer'[k] = buffer[k]
    BY <1>w DEF Written
  <2>. QED  BY <1>1, <1>4, <1>5, <1>8, <1>10, <1>11, <2>1, <2>2 DEF Touches, InRecv
<1>13. SlotOK(i)'
  <2>1. ReceiveShape(e)'
    BY <1>5, <1>7, <1>8, <1>10 DEF ReceiveShape
  <2>2. Carries(e)'
    <3>1. ~InRecv(n)' /\ e.mpi = "done" /\ ~Waits(n)'
      BY <1>5, <1>8, <1>10, <1>11 DEF InRecv, Carries
    <3>2. HasLocal(n)' = TRUE
      BY <1>10, <1>w DEF Written, HasLocal, SomeFrom
    <3>3. HasWide(n)' = q.unpacked
      <4>1. m.src \notin Remote
        BY <1>10, MemberAssumption
      <4>2. HasWide(n) = q.unpacked /\ q.unpacked \in BOOLEAN
        BY <1>5 DEF Carries, Request
      <4>3. HasWide(n)' = (HasWide(n) \/ m.src \in Remote)
        BY <1>w DEF Written
      <4>. QED  BY <4>1, <4>2, <4>3
    <3>4. Waits(n)' \in BOOLEAN
      BY DEF Waits, IsIn
    <3>. QED  BY <1>8, <3>1, <3>2, <3>3, <3>4 DEF Carries
  <2>. QED  BY <1>4, <1>5, <1>8, <2>1, <2>2 DEF SlotOK
<1>14. ReceiveOK(n)'
  <2>1. ~InRecv(n)' /\ n \in DOMAIN receives' /\ n \notin stale'
    BY <1>5, <1>10 DEF InRecv, Carries
  <2>. QED  BY <1>11, <1>w, <2>1 DEF ReceiveOK, Written
<1>15. Slots' /\ Receives' /\ OneRequest'
  BY <1>12, <1>13, <1>14, Others, KeptLemma
<1>16. Handles'
  <2>1. e # Free /\ q # Free
    BY <1>5, <1>8, FreeFacts
  <2>2. \A j \in Slot : (table'[j] = Free) = (table[j] = Free)
    <3>1. table'[i] = e /\ table[i] = q /\ \A j \in Slot : j # i => table'[j] = table[j]
      BY <1>1, <1>4
    <3>. QED  BY <2>1, <3>1
  <2>3. variable' = variable /\ Handles
    BY <1>10 DEF Inv
  <2>. QED  BY <2>2, <2>3 DEF Handles
<1>17. Calls'
  BY <1>1, <1>4, <1>8, <1>10, CallsKept
<1>18. Origins'
  BY <1>10 DEF Inv, Origins
<1>. QED  BY <1>11, <1>15, <1>16, <1>17, <1>18 DEF Inv

LEMMA LocalArrivalInv ==
  ASSUME TypeOK, TypeOK', Inv, NEW q \in Member, NEW t \in Tag, LocalArrival(q, t)
  PROVE  Inv'
<1> DEFINE new == [src |-> q, tag |-> t, n |-> sent[q] + 1]
           first == FirstWaiting(new)
<1>1. new \in Message /\ new.src = q
  BY MessageLemma DEF LocalArrival
<1>2. /\ q \in Local
      /\ UNCHANGED <<variable, queue, forwarded, call, receives, reported, stale>>
  BY DEF LocalArrival
<1>a. \/ first = 0 /\ unexpected' = Append(unexpected, new) /\ UNCHANGED <<posted, table, buffer>>
      \/ /\ first # 0 /\ posted' = RemoveAt(posted, first) /\ unexpected' = unexpected
         /\ buffer' = [buffer EXCEPT ![posted[first]] = Append(@, new)]
         /\ \/ (\A i \in Slot : table[i].n # posted[first]) /\ table' = table
            \/ \E i \in Slot : table[i].n = posted[first] /\ table' = [table EXCEPT ![i].mpi = "done"]
  BY DEF LocalArrival, FirstWaiting
<1> HIDE DEF new, first
<1>m. PICK m \in Message : m = new
  BY <1>1
<1>k. PICK k : k = FirstWaiting(m)
  OBVIOUS
<1>3. /\ m.src \in Local
      /\ \/ k = 0 /\ unexpected' = Append(unexpected, m) /\ UNCHANGED <<posted, table, buffer>>
         \/ /\ k # 0 /\ posted' = RemoveAt(posted, k) /\ unexpected' = unexpected
            /\ buffer' = [buffer EXCEPT ![posted[k]] = Append(@, m)]
            /\ \/ (\A i \in Slot : table[i].n # posted[k]) /\ table' = table
               \/ \E i \in Slot : table[i].n = posted[k] /\ table' = [table EXCEPT ![i].mpi = "done"]
  <2>1. k = first
    BY <1>m, <1>k DEF first
  <2>. QED  BY <1>1, <1>2, <1>a, <1>m, <2>1
<1>4. CASE unexpected' = Append(unexpected, m) /\ UNCHANGED <<posted, table, buffer>>
  <2>1. unexpected \in Seq(Message)
    BY DEF TypeOK, Messages
  <2>2. AllFrom(unexpected', Local)
    BY <1>3, <1>4, <2>1, FromLemma DEF Inv, Origins
  <2>3. Origins'
    BY <1>2, <2>2 DEF Inv, Origins
  <2>. QED  BY <1>2, <1>4, <2>3, QueuesInv
<1>5. CASE k # 0 /\ posted' = RemoveAt(posted, k) /\ unexpected' = unexpected
  <2>1. k \in 1 .. Len(posted)
    BY <1>k, <1>5, FirstWaitingLemma
  <2>2. PICK n \in Receive : n = posted[k]
    BY <2>1, LineElements
  <2>3. Matches(m, receives[n].source, receives[n].tag)
    BY <1>k, <1>5, <2>2, FirstWaitingLemma
  <2>4. Waits(n)
    BY <2>1, <2>2 DEF Waits, IsIn
  <2>5. posted \in Seq(Receive) /\ Distinct(posted)
    BY DEF TypeOK, Inv, WaitsOnce
  <2>6. Distinct(posted') /\ \A j : IsIn(posted', j) = (IsIn(posted, j) /\ j # n)
    BY <1>5, <2>1, <2>2, <2>5, InRemoveAt
  <2>7. /\ Answers(n, m)
        /\ \/ (\A i \in Slot : table[i].n # n) /\ table' = table
           \/ \E i \in Slot : table[i].n = n /\ table' = [table EXCEPT ![i].mpi = "done"]
    <3>1. buffer' = [buffer EXCEPT ![n] = Append(@, m)]
          /\ \/ (\A i \in Slot : table[i].n # n) /\ table' = table
             \/ \E i \in Slot : table[i].n = n /\ table' = [table EXCEPT ![i].mpi = "done"]
      BY <1>3, <1>5, <2>2
    <3>. QED  BY <1>2, <1>3, <1>5, <2>3, <2>6, <3>1 DEF Answers, IsIn
  <2>8. CASE (\A i \in Slot : table[i].n # n) /\ table' = table
    BY <2>4, <2>7, <2>8, OrphanInv DEF Busy
  <2>9. ASSUME NEW i \in Slot, table[i].n = n, table' = [table EXCEPT ![i].mpi = "done"]
        PROVE  Inv'
    <3>1. table' = [table EXCEPT ![i] = [table[i] EXCEPT !.mpi = "done"]]
      BY <2>9, DoneLemma
    <3>2. Answers(n, m)
      BY <2>7
    <3>. QED  BY <2>4, <2>9, <3>1, <3>2, AnswerInv
  <2>. QED  BY <2>7, <2>8, <2>9
<1>. QED  BY <1>3, <1>4, <1>5

LEMMA InvStep ==
  ASSUME TypeOK, TypeOK', Inv, [Next]_vars
  PROVE  Inv'
<1>1. ASSUME NEW m \in Traffic, LocalArrival(m.src, m.tag) \/ WideArrival(m.src, m.tag)
      PROVE  Inv'
  <2>1. m.src \in Member /\ m.tag \in Tag
    BY BoundAssumption
  <2>. QED  BY <1>1, <2>1, LocalArrivalInv, WideArrivalInv
<1>2. ASSUME NEW v \in Var, Test(v) \/ Wait(v)
      PROVE  Inv'
  <2>1. PICK f \in {0, 1} : (Begin("test", <<v>>, f) /\ f \in FlagPassed) \/ (Begin("wait", <<v>>, f) /\ f = 0)
    BY <1>2, BoundAssumption DEF Test, Wait
  <2>2. <<v>> \in Seq(Var)
    OBVIOUS
  <2>. QED  BY <2>1, <2>2, BeginInv
<1>3. ASSUME NEW of \in Lists, Waitany(of) \/ Waitall(of)
      PROVE  Inv'
  <2>1. of \in Seq(Var)
    BY BoundAssumption
  <2>. QED  BY <1>3, <2>1, BeginInv DEF Waitany, Waitall
<1>4. CASE UNCHANGED vars
  BY <1>4, NothingInv DEF vars
<1>. QED
  BY <1>1, <1>2, <1>3, <1>4, IsendInv, IrecvInv, RecvInv, RequestGetStatusInv, RequestFreeInv, LocalRecvInv,
     WideRecvInv, LookLocalInv, LookWideSendInv, LookWideInv, LookMixedInv, ProbeMixedInv, CancelLocalInv,
     SendCompletesInv DEF Next, Application, Proceed, Environment

LEMMA InitInv == Init => TypeOK /\ Inv
<1>1. SUFFICES ASSUME Init
               PROVE  TypeOK /\ Inv
  OBVIOUS
<1>2. << >> \in Messages /\ << >> \in Seq(Receive) /\ << >> \in Seq(Ask) /\ Len(<< >>) = 0
  BY EmptySeq DEF Messages
<1>3. MaxReceives \in Nat /\ MaxSent \in Nat
  BY BoundAssumption
<1>4. /\ queue = << >> /\ posted = << >> /\ unexpected = << >> /\ forwarded = << >> /\ receives = << >>
      /\ call = Idle /\ reported = {} /\ stale = {} /\ started = 0
      /\ \A n \in Receive : buffer[n] = << >>
      /\ \A i \in Slot : table[i] = Free
      /\ \A v \in Var : variable[v] = NULL
  BY <1>1 DEF Init
<1>5. variable \in [Var -> Slot \cup {NULL}]
  BY <1>1 DEF Init
<1>6. table \in [Slot -> Request] /\ call \in Call
  BY <1>1, FreeFacts DEF Init
<1>7. buffer \in [Receive -> Messages]
  BY <1>1, <1>2 DEF Init
<1>8. sent \in [Member -> 0 .. MaxSent]
  BY <1>1, <1>3 DEF Init
<1>9. TypeOK
  BY <1>2, <1>3, <1>4, <1>5, <1>6, <1>7, <1>8 DEF TypeOK
<1>10. DOMAIN receives = {} /\ \A n : ~Waits(n) /\ ~InRecv(n)
  BY <1>2, <1>4, FreeFacts DEF Waits, IsIn, InRecv
<1>11. Receives
  BY <1>4, <1>10 DEF Receives, ReceiveOK
<1>12. Slots /\ OneRequest
  BY <1>4, FreeFacts DEF Slots, SlotOK, OneRequest
<1>13. WaitsOnce /\ Origins
  BY <1>2, <1>4 DEF WaitsOnce, Distinct, Origins, AllFrom
<1>14. Handles
  BY <1>4, BoundFacts DEF Handles
<1>15. Calls
  BY <1>4, FreeFacts DEF Calls, Waiting
<1>. QED  BY <1>9, <1>11, <1>12, <1>13, <1>14, <1>15 DEF Inv

LEMMA Invariant == Spec => [](TypeOK /\ Inv)
<1>1. TypeOK /\ Inv /\ [Next]_vars => (TypeOK /\ Inv)'
  BY TypeStep, InvStep
<1>. QED  BY <1>1, InitInv, PTL DEF Spec

-----------------------------------------------------------------------------
(* The lines of messages *)

\* In the lines A, with c[q] messages sent by member q: every message is in one
\* line, once; all that were sent are there; and no others.
Once(A) ==
  \A p, q \in Place : \A k \in 1 .. Len(A[p]) : \A l \in 1 .. Len(A[q]) :
    A[p][k].src = A[q][l].src /\ A[p][k].n = A[q][l].n => p = q /\ k = l
AllThere(A, c) ==
  \A q \in Member : \A n \in 1 .. c[q] :
    \E p \in Place : \E k \in 1 .. Len(A[p]) : A[p][k].src = q /\ A[p][k].n = n
Numbered(A, c) == \A p \in Place : \A k \in 1 .. Len(A[p]) : A[p][k].n <= c[A[p][k].src]
LinesOK(A, c)  == Once(A) /\ AllThere(A, c) /\ Numbered(A, c)

\* The lines, and what a step does to them: the k-th message of p goes to the
\* end of q.
Lines == [p \in Place |-> Line(p)]
Shift(A, B, p, k, q) ==
  /\ p # q /\ k \in 1 .. Len(A[p])
  /\ B[p] = RemoveAt(A[p], k) /\ B[q] = Append(A[q], A[p][k])
  /\ \A r \in Place : r # p /\ r # q => B[r] = A[r]

LEMMA OnceLemma ==
  ASSUME NEW A, Once(A), NEW p \in Place, NEW q \in Place, NEW k \in 1 .. Len(A[p]), NEW l \in 1 .. Len(A[q]),
         A[p][k].src = A[q][l].src, A[p][k].n = A[q][l].n
  PROVE  p = q /\ k = l
BY DEF Once

LEMMA ShiftFrom ==
  ASSUME NEW A \in [Place -> Seq(Message)], NEW B, NEW p \in Place, NEW q \in Place, NEW k, Shift(A, B, p, k, q)
  PROVE  /\ A[p][k] \in Message /\ k \in 1 .. Len(A[p]) /\ p # q
         /\ Len(B[p]) = Len(A[p]) - 1
         /\ \A j \in 1 .. Len(A[p]) - 1 : B[p][j] = IF j < k THEN A[p][j] ELSE A[p][j + 1]
<1>1. PICK s \in Seq(Message) : s = A[p]
  OBVIOUS
<1>2. p # q /\ k \in 1 .. Len(s) /\ B[p] = RemoveAt(s, k)
  BY <1>1 DEF Shift
<1>3. s[k] \in Message
  BY <1>2, ElementOfSeq
<1>4. /\ Len(RemoveAt(s, k)) = Len(s) - 1
      /\ \A j \in 1 .. Len(s) - 1 : RemoveAt(s, k)[j] = IF j < k THEN s[j] ELSE s[j + 1]
  BY <1>2, RemoveAtLemma
<1>. QED  BY <1>1, <1>2, <1>3, <1>4

LEMMA ShiftTo ==
  ASSUME NEW A \in [Place -> Seq(Message)], NEW B, NEW p \in Place, NEW q \in Place, NEW k, Shift(A, B, p, k, q)
  PROVE  /\ Len(B[q]) = Len(A[q]) + 1 /\ B[q][Len(A[q]) + 1] = A[p][k]
         /\ \A j \in 1 .. Len(A[q]) : B[q][j] = A[q][j]
<1>1. PICK x \in Message, t \in Seq(Message) : x = A[p][k] /\ t = A[q]
  BY ShiftFrom
<1>2. B[q] = Append(t, x)
  BY <1>1 DEF Shift
<1>3. /\ Len(Append(t, x)) = Len(t) + 1 /\ Append(t, x)[Len(t) + 1] = x
      /\ \A j \in 1 .. Len(t) : Append(t, x)[j] = t[j]
  BY AppendLemma
<1>. QED  BY <1>1, <1>2, <1>3

LEMMA ShiftKeeps ==
  ASSUME NEW A \in [Place -> Seq(Message)], NEW B, NEW c, LinesOK(A, c),
         NEW p \in Place, NEW q \in Place, NEW k, Shift(A, B, p, k, q)
  PROVE  LinesOK(B, c)
<1>1. PICK a \in Nat : a = Len(A[p])
  BY LenProperties
<1>2. PICK b \in Nat : b = Len(A[q])
  BY LenProperties
<1>3. A[p][k] \in Message /\ k \in 1 .. a /\ p # q
  BY <1>1, ShiftFrom
<1>4. /\ Len(B[p]) = a - 1
      /\ \A j \in 1 .. a - 1 : B[p][j] = IF j < k THEN A[p][j] ELSE A[p][j + 1]
  BY <1>1, ShiftFrom
<1>5. /\ Len(B[q]) = b + 1 /\ B[q][b + 1] = A[p][k]
      /\ \A j \in 1 .. b : B[q][j] = A[q][j]
  BY <1>2, ShiftTo
<1>6. \A r \in Place : r # p /\ r # q => B[r] = A[r]
  BY DEF Shift
<1> DEFINE P(r, j) == IF r = q /\ j = b + 1 THEN p ELSE r
           K(r, j) == IF r = q /\ j = b + 1 THEN k ELSE IF r = p /\ ~(j < k) THEN j + 1 ELSE j
<1>7. ASSUME NEW r \in Place, NEW j \in 1 .. Len(B[r])
      PROVE  P(r, j) \in Place /\ K(r, j) \in 1 .. Len(A[P(r, j)]) /\ B[r][j] = A[P(r, j)][K(r, j)]
  <2>1. CASE r = q
    <3>1. CASE j = b + 1
      BY <1>1, <1>3, <1>5, <2>1, <3>1
    <3>2. CASE j # b + 1
      <4>1. j \in 1 .. b
        BY <1>5, <1>7, <2>1, <3>2
      <4>. QED  BY <1>2, <1>3, <1>5, <2>1, <3>2, <4>1
    <3>. QED  BY <3>1, <3>2
  <2>2. CASE r = p
    <3>1. j \in 1 .. a - 1
      BY <1>4, <1>7, <2>2
    <3>2. CASE j < k
      <4>1. P(r, j) = p /\ K(r, j) = j /\ j \in 1 .. a
        BY <1>3, <2>2, <3>1, <3>2
      <4>. QED  BY <1>1, <1>4, <2>2, <3>1, <3>2, <4>1
    <3>3. CASE ~(j < k)
      <4>1. P(r, j) = p /\ K(r, j) = j + 1 /\ j + 1 \in 1 .. a
        BY <1>3, <2>2, <3>1, <3>3
      <4>. QED  BY <1>1, <1>4, <2>2, <3>1, <3>3, <4>1
    <3>. QED  BY <3>2, <3>3
  <2>3. CASE r # q /\ r # p
    BY <1>6, <1>7, <2>3
  <2>. QED  BY <2>1, <2>2, <2>3
<1>8. ASSUME NEW r \in Place, NEW s \in Place, NEW j \in 1 .. Len(B[r]), NEW l \in 1 .. Len(B[s]),
             P(r, j) = P(s, l), K(r, j) = K(s, l)
      PROVE  r = s /\ j = l
  <2>1. (r = p => j \in 1 .. a - 1) /\ (s = p => l \in 1 .. a - 1)
    BY <1>4, <1>8
  <2>. QED  BY <1>3, <1>8, <2>1
<1>9. ASSUME NEW r \in Place, NEW i \in 1 .. Len(A[r])
      PROVE  \E s \in Place : \E j \in 1 .. Len(B[s]) : P(s, j) = r /\ K(s, j) = i
  <2>1. CASE r = p /\ i = k
    <3>1. b + 1 \in 1 .. Len(B[q]) /\ P(q, b + 1) = r /\ K(q, b + 1) = i
      BY <1>5, <2>1
    <3>. QED  BY <3>1
  <2>2. CASE r = p /\ i < k
    <3>1. i \in 1 .. Len(B[p]) /\ P(p, i) = r /\ K(p, i) = i
      BY <1>1, <1>3, <1>4, <1>9, <2>2
    <3>. QED  BY <3>1
  <2>3. CASE r = p /\ i > k
    <3>1. i - 1 \in 1 .. Len(B[p]) /\ P(p, i - 1) = r /\ K(p, i - 1) = i
      BY <1>1, <1>3, <1>4, <1>9, <2>3
    <3>. QED  BY <3>1
  <2>4. CASE r = q
    <3>1. i \in 1 .. Len(B[q]) /\ P(q, i) = r /\ K(q, i) = i
      BY <1>2, <1>3, <1>5, <1>9, <2>4
    <3>. QED  BY <2>4, <3>1
  <2>5. CASE r # p /\ r # q
    <3>1. i \in 1 .. Len(B[r]) /\ P(r, i) = r /\ K(r, i) = i
      BY <1>6, <1>9, <2>5
    <3>. QED  BY <3>1
  <2>6. r = p => i \in 1 .. a
    BY <1>1, <1>9
  <2>. QED  BY <1>3, <2>1, <2>2, <2>3, <2>4, <2>5, <2>6
<1> HIDE DEF P, K
<1>10. Once(B)
  <2>1. ASSUME NEW r \in Place, NEW s \in Place, NEW j \in 1 .. Len(B[r]), NEW l \in 1 .. Len(B[s]),
               B[r][j].src = B[s][l].src, B[r][j].n = B[s][l].n
        PROVE  r = s /\ j = l
    <3>1. PICK u, x : u = P(r, j) /\ x = K(r, j)
      OBVIOUS
    <3>2. PICK v, y : v = P(s, l) /\ y = K(s, l)
      OBVIOUS
    <3>3. u \in Place /\ x \in 1 .. Len(A[u]) /\ B[r][j] = A[u][x]
      BY <1>7, <3>1
    <3>4. v \in Place /\ y \in 1 .. Len(A[v]) /\ B[s][l] = A[v][y]
      BY <1>7, <3>2
    <3>5. A[u][x].src = A[v][y].src /\ A[u][x].n = A[v][y].n
      BY <2>1, <3>3, <3>4
    <3>6. Once(A)
      BY DEF LinesOK
    <3>7. u = v /\ x = y
      <4>1. \A i \in 1 .. Len(A[u]) : \A m \in 1 .. Len(A[v]) :
              A[u][i].src = A[v][m].src /\ A[u][i].n = A[v][m].n => u = v /\ i = m
        BY <3>3, <3>4, <3>6 DEF Once
      <4>. QED  BY <3>3, <3>4, <3>5, <4>1
    <3>8. P(r, j) = P(s, l) /\ K(r, j) = K(s, l)
      BY <3>1, <3>2, <3>7
    <3>. QED  BY <1>8, <3>8
  <2>. QED  BY <2>1 DEF Once
<1>11. AllThere(B, c)
  <2>1. ASSUME NEW m \in Member, NEW n \in 1 .. c[m]
        PROVE  \E s \in Place : \E j \in 1 .. Len(B[s]) : B[s][j].src = m /\ B[s][j].n = n
    <3>1. PICK r \in Place : \E i \in 1 .. Len(A[r]) : A[r][i].src = m /\ A[r][i].n = n
      BY DEF LinesOK, AllThere
    <3>2. PICK i \in 1 .. Len(A[r]) : A[r][i].src = m /\ A[r][i].n = n
      BY <3>1
    <3>3. PICK s \in Place : \E j \in 1 .. Len(B[s]) : P(s, j) = r /\ K(s, j) = i
      BY <1>9
    <3>4. PICK j \in 1 .. Len(B[s]) : P(s, j) = r /\ K(s, j) = i
      BY <3>3
    <3>5. B[s][j] = A[r][i]
      BY <1>7, <3>4
    <3>. QED  BY <3>2, <3>5
  <2>. QED  BY <2>1 DEF AllThere
<1>12. Numbered(B, c)
  BY <1>7 DEF LinesOK, Numbered
<1>. QED  BY <1>10, <1>11, <1>12 DEF LinesOK

\* A new message comes to the end of p.
Arrives(A, B, p, m, c, d) ==
  /\ d = [c EXCEPT ![m.src] = @ + 1] /\ m.n = c[m.src] + 1
  /\ B[p] = Append(A[p], m) /\ \A r \in Place : r # p => B[r] = A[r]

LEMMA ArrivesKeeps ==
  ASSUME NEW A \in [Place -> Seq(Message)], NEW B, NEW c \in [Member -> Nat], NEW d, LinesOK(A, c),
         NEW p \in Place, NEW m \in Message, Arrives(A, B, p, m, c, d)
  PROVE  LinesOK(B, d)
<1>1. PICK a \in Nat : a = Len(A[p])
  BY LenProperties
<1>2. /\ Len(B[p]) = a + 1 /\ B[p][a + 1] = m
      /\ \A j \in 1 .. a : B[p][j] = A[p][j]
  BY <1>1, AppendLemma DEF Arrives
<1>3. /\ \A r \in Place : r # p => B[r] = A[r]
      /\ m.src \in Member /\ m.n = c[m.src] + 1 /\ c[m.src] \in Nat
      /\ \A q \in Member : d[q] = IF q = m.src THEN c[q] + 1 ELSE c[q]
  BY DEF Arrives, Message
<1>4. ASSUME NEW r \in Place, NEW j \in 1 .. Len(B[r])
      PROVE  \/ r = p /\ j = a + 1 /\ B[r][j] = m
             \/ j \in 1 .. Len(A[r]) /\ B[r][j] = A[r][j]
  <2>1. CASE r = p
    <3>1. j \in 1 .. a \/ j = a + 1
      BY <1>2, <1>4, <2>1
    <3>. QED  BY <1>1, <1>2, <2>1, <3>1
  <2>2. CASE r # p
    BY <1>3, <1>4, <2>2
  <2>. QED  BY <2>1, <2>2
<1>5. ASSUME NEW r \in Place, NEW j \in 1 .. Len(A[r])
      PROVE  j \in 1 .. Len(B[r]) /\ B[r][j] = A[r][j] /\ A[r][j] \in Message
  <2>1. A[r][j] \in Message
    BY ElementOfSeq
  <2>2. CASE r = p
    <3>1. j \in 1 .. a /\ j \in 1 .. a + 1
      BY <1>1, <1>5, <2>2
    <3>. QED  BY <1>2, <2>1, <2>2, <3>1
  <2>3. CASE r # p
    BY <1>3, <1>5, <2>1, <2>3
  <2>. QED  BY <2>2, <2>3
<1>6. \A r \in Place : \A j \in 1 .. Len(A[r]) : ~(A[r][j].src = m.src /\ A[r][j].n = m.n)
  <2>1. ASSUME NEW r \in Place, NEW j \in 1 .. Len(A[r]), A[r][j].src = m.src, A[r][j].n = m.n
        PROVE  FALSE
    <3>1. A[r][j].n <= c[A[r][j].src]
      BY DEF LinesOK, Numbered
    <3>2. c[m.src] + 1 <= c[m.src]
      BY <1>3, <2>1, <3>1
    <3>. QED  BY <1>3, <3>2
  <2>. QED  BY <2>1
<1>7. Once(B)
  <2>1. ASSUME NEW r \in Place, NEW s \in Place, NEW j \in 1 .. Len(B[r]), NEW l \in 1 .. Len(B[s]),
               B[r][j].src = B[s][l].src, B[r][j].n = B[s][l].n
        PROVE  r = s /\ j = l
    <3>1. j \in 1 .. Len(A[r]) /\ l \in 1 .. Len(A[s]) /\ A[r][j].src = A[s][l].src /\ A[r][j].n = A[s][l].n
            => r = s /\ j = l
      BY DEF LinesOK, Once
    <3>2. \/ r = p /\ j = a + 1 /\ B[r][j] = m
          \/ j \in 1 .. Len(A[r]) /\ B[r][j] = A[r][j]
      BY <1>4
    <3>3. \/ s = p /\ l = a + 1 /\ B[s][l] = m
          \/ l \in 1 .. Len(A[s]) /\ B[s][l] = A[s][l]
      BY <1>4
    <3>. QED  BY <1>6, <2>1, <3>1, <3>2, <3>3
  <2>. QED  BY <2>1 DEF Once
<1>8. AllThere(B, d)
  <2>1. ASSUME NEW q \in Member, NEW n \in 1 .. d[q]
        PROVE  \E s \in Place : \E j \in 1 .. Len(B[s]) : B[s][j].src = q /\ B[s][j].n = n
    <3>1. CASE q = m.src /\ n = m.n
      <4>1. a + 1 \in 1 .. Len(B[p])
        BY <1>2
      <4>. QED  BY <1>2, <3>1, <4>1
    <3>2. CASE ~(q = m.src /\ n = m.n)
      <4>1. n \in 1 .. c[q]
        BY <1>3, <2>1, <3>2
      <4>2. PICK r \in Place : \E i \in 1 .. Len(A[r]) : A[r][i].src = q /\ A[r][i].n = n
        BY <4>1 DEF LinesOK, AllThere
      <4>3. PICK i \in 1 .. Len(A[r]) : A[r][i].src = q /\ A[r][i].n = n
        BY <4>2
      <4>. QED  BY <1>5, <4>3
    <3>. QED  BY <3>1, <3>2
  <2>. QED  BY <2>1 DEF AllThere
<1>9. Numbered(B, d)
  <2>1. ASSUME NEW r \in Place, NEW j \in 1 .. Len(B[r])
        PROVE  B[r][j].n <= d[B[r][j].src]
    <3>1. CASE r = p /\ j = a + 1 /\ B[r][j] = m
      BY <1>3, <3>1
    <3>2. CASE j \in 1 .. Len(A[r]) /\ B[r][j] = A[r][j]
      <4>1. A[r][j].n <= c[A[r][j].src] /\ A[r][j] \in Message
        BY <1>5, <3>2 DEF LinesOK, Numbered
      <4>2. A[r][j].src \in Member /\ A[r][j].n \in Nat
        BY <4>1, BoundFacts DEF Message
      <4>3. d[A[r][j].src] \in {c[A[r][j].src], c[A[r][j].src] + 1} /\ c[A[r][j].src] \in Nat
        BY <1>3, <4>2
      <4>. QED  BY <3>2, <4>1, <4>2, <4>3
    <3>. QED  BY <1>4, <3>1, <3>2
  <2>. QED  BY <2>1 DEF Numbered
<1>. QED  BY <1>7, <1>8, <1>9 DEF LinesOK

\* The places.
AtQueue      == <<"queue", 0>>
AtUnexpected == <<"unexpected", 0>>
AtForwarded  == <<"forwarded", 0>>
AtMessage(i) == <<"message", i>>
AtBuffer(n)  == <<"buffer", n>>
Pending(r)   == IF r.unpacked THEN << >> ELSE r.message

LEMMA PlaceLemma ==
  /\ AtQueue \in Place /\ AtUnexpected \in Place /\ AtForwarded \in Place
  /\ \A i \in Slot : AtMessage(i) \in Place
  /\ \A n \in Receive : AtBuffer(n) \in Place
  /\ \A p \in Place : \/ p \in {AtQueue, AtUnexpected, AtForwarded}
                      \/ \E i \in Slot : p = AtMessage(i)
                      \/ \E n \in Receive : p = AtBuffer(n)
BY DEF Place, AtQueue, AtUnexpected, AtForwarded, AtMessage, AtBuffer

LEMMA PlacesDiffer ==
  /\ AtQueue # AtUnexpected /\ AtQueue # AtForwarded /\ AtUnexpected # AtForwarded
  /\ \A i : AtMessage(i) \notin {AtQueue, AtUnexpected, AtForwarded}
  /\ \A n : AtBuffer(n) \notin {AtQueue, AtUnexpected, AtForwarded}
  /\ \A i, n : AtMessage(i) # AtBuffer(n)
BY DEF AtQueue, AtUnexpected, AtForwarded, AtMessage, AtBuffer

LEMMA LineFacts ==
  /\ Line(AtQueue) = queue /\ Line(AtUnexpected) = unexpected /\ Line(AtForwarded) = forwarded
  /\ \A i : Line(AtMessage(i)) = Pending(table[i])
  /\ \A n : Line(AtBuffer(n)) = buffer[n]
BY DEF Line, Pending, AtQueue, AtUnexpected, AtForwarded, AtMessage, AtBuffer

LEMMA LineFactsNext ==
  /\ Line(AtQueue)' = queue' /\ Line(AtUnexpected)' = unexpected' /\ Line(AtForwarded)' = forwarded'
  /\ \A i : Line(AtMessage(i))' = Pending(table'[i])
  /\ \A n : Line(AtBuffer(n))' = buffer'[n]
BY DEF Line, Pending, AtQueue, AtUnexpected, AtForwarded, AtMessage, AtBuffer

\* The lines are sequences of messages.
LEMMA LinesType ==
  ASSUME TypeOK
  PROVE  Lines \in [Place -> Seq(Message)] /\ \A p \in Place : Line(p) \in Seq(Message) /\ Lines[p] = Line(p)
<1>1. << >> \in Seq(Message)
  BY EmptySeq
<1>2. \A i \in Slot : Pending(table[i]) \in Seq(Message)
  BY <1>1 DEF TypeOK, Request, Messages, Pending
<1>3. \A p \in {AtQueue, AtUnexpected, AtForwarded} : Line(p) \in Seq(Message)
  BY LineFacts DEF TypeOK, Messages
<1>4. \A i \in Slot : Line(AtMessage(i)) \in Seq(Message)
  BY <1>2, LineFacts
<1>5. \A n \in Receive : Line(AtBuffer(n)) \in Seq(Message)
  BY LineFacts DEF TypeOK, Messages
<1>6. \A p \in Place : Line(p) \in Seq(Message)
  BY <1>3, <1>4, <1>5, PlaceLemma
<1>. QED  BY <1>6 DEF Lines

\* A step leaves the lines outside S alone.
Rest(S) == \A p \in Place : p \notin S => Line(p)' = Line(p)
Keeps(i, n, S) ==
  /\ \A j \in Slot : j # i => table'[j] = table[j]
  /\ \A m \in Receive : m # n => buffer'[m] = buffer[m]
  /\ AtQueue \in S \/ queue' = queue
  /\ AtUnexpected \in S \/ unexpected' = unexpected
  /\ AtForwarded \in S \/ forwarded' = forwarded
  /\ i \in Slot => AtMessage(i) \in S \/ Pending(table'[i]) = Pending(table[i])
  /\ n \in Receive => AtBuffer(n) \in S \/ buffer'[n] = buffer[n]

LEMMA RestLemma ==
  ASSUME NEW i, NEW n, NEW S, Keeps(i, n, S)
  PROVE  Rest(S)
<1>1. \A p \in {AtQueue, AtUnexpected, AtForwarded} : p \notin S => Line(p)' = Line(p)
  BY LineFacts, LineFactsNext DEF Keeps
<1>2. \A j \in Slot : AtMessage(j) \notin S => Line(AtMessage(j))' = Line(AtMessage(j))
  <2>1. ASSUME NEW j \in Slot
        PROVE  AtMessage(j) \notin S => Pending(table'[j]) = Pending(table[j])
    BY DEF Keeps
  <2>. QED  BY <2>1, LineFacts, LineFactsNext
<1>3. \A m \in Receive : AtBuffer(m) \notin S => Line(AtBuffer(m))' = Line(AtBuffer(m))
  <2>1. ASSUME NEW m \in Receive
        PROVE  AtBuffer(m) \notin S => buffer'[m] = buffer[m]
    BY DEF Keeps
  <2>. QED  BY <2>1, LineFacts, LineFactsNext
<1>. QED  BY <1>1, <1>2, <1>3, PlaceLemma DEF Rest

\* A step moves one message, or none.
LineStep ==
  /\ sent' = sent
  /\ Lines' = Lines \/ \E p, q \in Place : \E k : Shift(Lines, Lines', p, k, q)

LEMMA SameStep ==
  ASSUME sent' = sent, Rest({})
  PROVE  LineStep
<1>1. \A p \in Place : Line(p)' = Line(p)
  BY DEF Rest
<1>. QED  BY <1>1 DEF LineStep, Lines

LEMMA ShiftStep ==
  ASSUME TypeOK, TypeOK', sent' = sent, NEW p \in Place, NEW q \in Place, p # q, NEW k,
         k \in 1 .. Len(Line(p)), Line(p)' = RemoveAt(Line(p), k), Line(q)' = Append(Line(q), Line(p)[k]),
         Rest({p, q})
  PROVE  LineStep
<1>1. \A r \in Place : Lines[r] = Line(r) /\ Lines'[r] = Line(r)'
  BY DEF Lines
<1>2. Shift(Lines, Lines', p, k, q)
  BY <1>1 DEF Shift, Rest
<1>. QED  BY <1>2 DEF LineStep

\* The first message of a line, and the only one.
LEMMA TailIsRemoveAt ==
  ASSUME NEW s \in Seq(Message), s # << >>
  PROVE  Tail(s) = RemoveAt(s, 1) /\ Head(s) = s[1] /\ 1 \in 1 .. Len(s)
<1>1. /\ Tail(s) \in Seq(Message) /\ Len(Tail(s)) = Len(s) - 1 /\ 1 \in 1 .. Len(s) /\ Head(s) = s[1]
      /\ \A j \in 1 .. Len(s) - 1 : Tail(s)[j] = s[j + 1]
  BY HeadTailLemma
<1>2. PICK t \in Seq(Message) : t = RemoveAt(s, 1)
  BY <1>1, RemoveAtLemma
<1>3. Len(t) = Len(s) - 1 /\ \A j \in 1 .. Len(s) - 1 : t[j] = IF j < 1 THEN s[j] ELSE s[j + 1]
  BY <1>1, <1>2, RemoveAtLemma
<1>4. \A j \in 1 .. Len(s) - 1 : t[j] = s[j + 1]
  BY <1>3
<1>. QED  BY <1>1, <1>2, <1>3, <1>4, SeqEqual

LEMMA OnlyOne ==
  ASSUME NEW s \in Seq(Message), Len(s) <= 1, s # << >>
  PROVE  s[1] \in Message /\ s = <<s[1]>> /\ 1 \in 1 .. Len(s) /\ RemoveAt(s, 1) = << >>
<1>1. PICK a \in Nat : a = Len(s)
  BY LenProperties
<1>2. 1 \in 1 .. a /\ Len(s) = a
  BY <1>1, HeadTailLemma
<1>3. a = 1
  BY <1>1, <1>2
<1>4. PICK x \in Message : x = s[1]
  BY <1>1, <1>2, ElementOfSeq
<1>l. Len(s) = 1 /\ 1 \in 1 .. Len(s)
  BY <1>1, <1>2, <1>3
<1>t. PICK t \in Seq(Message) : t = <<x>> /\ Len(t) = 1 /\ t[1] = x
  BY SingleLemma
<1>5. \A j \in 1 .. Len(s) : s[j] = t[j]
  BY <1>4, <1>l, <1>t
<1>6. s = t
  BY <1>5, <1>l, <1>t, SeqEqual
<1>r. PICK u \in Seq(Message) : u = RemoveAt(s, 1)
  BY <1>l, RemoveAtLemma
<1>7. Len(u) = 0
  <2>1. Len(u) = Len(s) - 1
    BY <1>l, <1>r, RemoveAtLemma
  <2>. QED  BY <1>l, <2>1
<1>8. RemoveAt(s, 1) = << >>
  BY <1>7, <1>r, EmptySeq
<1>. QED  BY <1>l, <1>t, <1>4, <1>6, <1>8

LEMMA WholeStep ==
  ASSUME TypeOK, TypeOK', sent' = sent, NEW p \in Place, NEW q \in Place, p # q, Len(Line(p)) <= 1,
         Line(p)' = << >>, Line(q)' = Line(q) \o Line(p), Rest({p, q})
  PROVE  LineStep
<1>1. PICK s \in Seq(Message), t \in Seq(Message) : s = Line(p) /\ t = Line(q)
  BY LinesType
<1>2. CASE s = << >>
  <2>1. t \o s = t
    BY <1>2, BehindEmpty
  <2>. QED  BY <1>1, <1>2, <2>1, SameStep DEF Rest
<1>3. CASE s # << >>
  <2>1. 1 \in 1 .. Len(s) /\ RemoveAt(s, 1) = << >> /\ s[1] \in Message /\ s = <<s[1]>>
    BY <1>1, <1>3, OnlyOne
  <2>2. t \o s = Append(t, s[1])
    BY <2>1, AppendIsConcat
  <2>. QED  BY <1>1, <2>1, <2>2, ShiftStep
<1>. QED  BY <1>2, <1>3

\* Looking at the wide area for the request r: what is found goes to d.
LEMMA TakeLines ==
  ASSUME TypeOK, TypeOK', sent' = sent, NEW r \in Request, ~r.completed, r.message = << >>, ProbeTakes(r),
         NEW d \in Place, d # AtQueue, d # AtForwarded,
         Line(d)' = Line(d) \o ProbeReceive(r).message,
         Rest({AtQueue, AtForwarded, d})
  PROVE  LineStep
<1>1. queue \in Seq(Message) /\ forwarded \in Seq(Message)
  BY DEF TypeOK, Messages
<1>2. /\ Line(AtQueue) = queue /\ Line(AtForwarded) = forwarded
      /\ Line(AtQueue)' = queue' /\ Line(AtForwarded)' = forwarded'
      /\ AtQueue \in Place /\ AtForwarded \in Place /\ AtQueue # AtForwarded
  BY LineFacts, LineFactsNext, PlaceLemma, PlacesDiffer
<1>d. PICK t \in Seq(Message) : t = Line(d)
  BY LinesType
<1>3. \A m \in Message : Found(r, m).message = <<m>> /\ t \o <<m>> = Append(t, m)
  BY AppendIsConcat DEF Found, Request
<1>e. t \o r.message = t
  BY BehindEmpty
<1>4. ASSUME NEW k \in 1 .. Len(queue), ProbeReceive(r) = Found(r, queue[k]),
             queue' = RemoveAt(queue, k), forwarded' = forwarded
      PROVE  LineStep
  <2>1. queue[k] \in Message
    BY LineElements
  <2>2. Line(d)' = Append(Line(d), queue[k])
    BY <1>d, <1>3, <1>4, <2>1
  <2>3. Rest({AtQueue, d})
    BY <1>2, <1>4 DEF Rest
  <2>. QED  BY <1>2, <1>4, <2>2, <2>3, ShiftStep
<1>5. CASE forwarded # << >> /\ ProbeReceive(r) = Found(r, forwarded[1])
           /\ queue' = queue /\ forwarded' = Tail(forwarded)
  <2>1. 1 \in 1 .. Len(forwarded) /\ forwarded' = RemoveAt(forwarded, 1)
    BY <1>1, <1>5, TailIsRemoveAt
  <2>2. forwarded[1] \in Message
    BY <2>1, LineElements
  <2>3. Line(d)' = Append(Line(d), forwarded[1])
    BY <1>d, <1>3, <1>5, <2>2
  <2>4. Rest({AtForwarded, d})
    BY <1>2, <1>5 DEF Rest
  <2>. QED  BY <1>2, <2>1, <2>3, <2>4, ShiftStep
<1>6. CASE forwarded # << >> /\ ProbeReceive(r) = r
           /\ queue' = Append(queue, forwarded[1]) /\ forwarded' = Tail(forwarded)
  <2>1. 1 \in 1 .. Len(forwarded) /\ forwarded' = RemoveAt(forwarded, 1)
    BY <1>1, <1>6, TailIsRemoveAt
  <2>2. Rest({AtForwarded, AtQueue})
    BY <1>d, <1>e, <1>6 DEF Rest
  <2>. QED  BY <1>2, <1>6, <2>1, <2>2, ShiftStep
<1>7. CASE ProbeReceive(r) = r /\ queue' = queue /\ forwarded' = forwarded
  <2>1. Rest({})
    BY <1>2, <1>d, <1>e, <1>7 DEF Rest
  <2>. QED  BY <2>1, SameStep
<1>. QED  BY <1>4, <1>5, <1>6, <1>7, ProbeCases

\* No message is touched.
LEMMA QuietLines ==
  ASSUME UNCHANGED <<table, queue, unexpected, forwarded, buffer, sent>>
  PROVE  LineStep
<1>1. Keeps(0, 0, {})
  BY DEF Keeps
<1>. QED  BY <1>1, RestLemma, SameStep

\* A slot is taken, changed or freed, and no message with it.
SlotOnly(i) ==
  /\ \A j \in Slot : j # i => table'[j] = table[j]
  /\ Pending(table'[i]) = Pending(table[i])
  /\ UNCHANGED <<queue, unexpected, forwarded, buffer, sent>>

LEMMA SlotLines ==
  ASSUME NEW i \in Slot, SlotOnly(i)
  PROVE  LineStep
<1>1. Keeps(i, 0, {})
  BY DEF Keeps, SlotOnly
<1>2. sent' = sent
  BY DEF SlotOnly
<1>. QED  BY <1>1, <1>2, RestLemma, SameStep

LEMMA EmptySlots ==
  ASSUME TypeOK, Inv
  PROVE  /\ Pending(Free) = << >>
         /\ \A i \in Slot : table[i].kind # "wide receive" \/ ~table[i].completed => Pending(table[i]) = << >>
<1>1. Pending(Free) = << >>
  BY FreeFacts DEF Pending
<1>2. ASSUME NEW i \in Slot, table[i].kind # "wide receive" \/ ~table[i].completed
      PROVE  Pending(table[i]) = << >>
  <2>1. PICK r \in Request : r = table[i]
    BY DEF TypeOK
  <2>2. \/ r = Free
        \/ SendShape(r)
        \/ ReceiveShape(r) /\ r.kind \in {"local receive", "wide receive", "mixed receive"}
    BY <2>1 DEF Inv, Slots, SlotOK
  <2>3. ReceiveShape(r) /\ r.kind \in {"local receive", "wide receive", "mixed receive"} => r.unpacked \/ r.message = << >>
    BY <1>2, <2>1 DEF ReceiveShape, Request
  <2>. QED  BY <1>1, <2>1, <2>2, <2>3 DEF SendShape, Pending
<1>. QED  BY <1>1, <1>2

\* A request ends: its slot is empty.
LEMMA FreedLemma ==
  ASSUME TypeOK, Inv, call.op \in Waiting, Complete, NEW h \in Slot, h = Handle
  PROVE  Pending(table'[h]) = << >> /\ \A j \in Slot : j # h => table'[j] = table[j]
<1>1. table' = [table EXCEPT ![h] = Free]
  BY DEF Complete, FreeRequest
<1>2. table'[h] = Free
  BY <1>1 DEF TypeOK
<1>. QED  BY <1>1, <1>2, EmptySlots DEF TypeOK

LEMMA IsendLines ==
  ASSUME TypeOK, TypeOK', Inv, NEW v \in Var, NEW q \in Member, Isend(v, q)
  PROVE  LineStep
<1>1. PICK r : r = CreateRequest(Kind(TRUE, q), q, AnyTag, 0)
  OBVIOUS
<1>2. PICK e : e = IF Kind(TRUE, q) = "local send" THEN [r EXCEPT !.mpi = "active"] ELSE r
  OBVIOUS
<1>3. PICK i : i = AddRequest(table)
  OBVIOUS
<1>4. e.unpacked = FALSE /\ e.message = << >>
  BY <1>1, <1>2 DEF CreateRequest, Free, Nothing
<1>5. UNCHANGED <<queue, unexpected, forwarded, buffer, sent>>
  BY DEF Isend
<1>6. CASE i = NULL
  BY <1>3, <1>5, <1>6, QuietLines DEF Isend
<1>7. CASE i # NULL
  <2>1. i \in Slot /\ table[i] = Free
    BY <1>3, <1>7, AddRequestLemma DEF TypeOK
  <2>2. table' = [table EXCEPT ![i] = e]
    BY <1>1, <1>2, <1>3, <1>7 DEF Isend
  <2>3. table'[i] = e /\ \A j \in Slot : j # i => table'[j] = table[j]
    BY <2>1, <2>2 DEF TypeOK
  <2>4. SlotOnly(i)
    BY <1>4, <1>5, <2>1, <2>3, FreeFacts DEF SlotOnly, Pending
  <2>. QED  BY <2>1, <2>4, SlotLines
<1>. QED  BY <1>6, <1>7

LEMMA RequestFreeLines ==
  ASSUME TypeOK, TypeOK', Inv, NEW v \in Var, RequestFree(v)
  PROVE  LineStep
<1>1. PICK i : i = variable[v]
  OBVIOUS
<1>2. /\ i \in Slot /\ table[i].kind \in {"local send", "wide send"}
      /\ table' = [table EXCEPT ![i] = Free]
      /\ UNCHANGED <<queue, unexpected, forwarded, buffer, sent>>
  BY <1>1 DEF RequestFree, FreeRequest, TypeOK, logVars
<1>3. table'[i] = Free /\ \A j \in Slot : j # i => table'[j] = table[j]
  BY <1>2 DEF TypeOK
<1>4. SlotOnly(i)
  BY <1>2, <1>3, EmptySlots DEF SlotOnly
<1>. QED  BY <1>2, <1>4, SlotLines

LEMMA SendCompletesLines ==
  ASSUME TypeOK, TypeOK', Inv, NEW i \in Slot, SendCompletes(i)
  PROVE  LineStep
<1>1. PICK q \in Request : q = table[i]
  BY DEF TypeOK
<1>2. PICK e : e = [q EXCEPT !.mpi = "done"]
  OBVIOUS
<1>3. /\ q.kind = "local send" /\ table' = [table EXCEPT ![i] = e]
      /\ UNCHANGED <<queue, unexpected, forwarded, buffer, sent>>
  BY <1>1, <1>2 DEF SendCompletes, logVars, TypeOK
<1>4. e.unpacked = q.unpacked /\ e.message = q.message
  BY <1>2 DEF Request
<1>5. table'[i] = e /\ \A j \in Slot : j # i => table'[j] = table[j]
  BY <1>3 DEF TypeOK
<1>6. SlotOnly(i)
  BY <1>1, <1>3, <1>4, <1>5 DEF SlotOnly, Pending
<1>. QED  BY <1>6, SlotLines

\* Looking does not unpack.
LEMMA ProbeFields ==
  ASSUME TypeOK, NEW r \in Request, ProbeTakes(r)
  PROVE  ProbeReceive(r).unpacked = r.unpacked
<1>1. \A m : Found(r, m).unpacked = r.unpacked
  BY DEF Found, Request
<1>. QED  BY <1>1, ProbeCases

LEMMA IrecvLines ==
  ASSUME TypeOK, TypeOK', Inv, NEW v \in Var, NEW a \in Asks, Irecv(v, a.source, a.tag)
  PROVE  LineStep
<1>1. PICK n : n = Len(receives) + 1
  OBVIOUS
<1>2. PICK b \in Ask : b = [source |-> a.source, tag |-> a.tag]
  BY BoundAssumption DEF Ask
<1>3. PICK r : r = CreateRequest(Kind(FALSE, a.source), a.source, a.tag, n)
  OBVIOUS
<1>4. PICK i : i = AddRequest(table)
  OBVIOUS
<1>5. /\ r.kind = Kind(FALSE, a.source) /\ r.completed = FALSE /\ r.unpacked = FALSE
      /\ r.message = << >> /\ r.n = n
  BY <1>3 DEF CreateRequest, Free, Nothing
<1>6. sent' = sent
  BY DEF Irecv
<1>7. n \in Receive
  BY <1>1, <1>2, FreshLemma DEF Irecv
<1>8. r \in Request
  BY <1>2, <1>3, <1>7, FreeFacts, KindLemma DEF CreateRequest, Request, Kinds, Ask
<1>9. CASE i = NULL
  BY <1>4, <1>6, <1>9, QuietLines DEF Irecv
<1>10. CASE i # NULL
  <2>1. i \in Slot /\ Pending(table[i]) = << >>
    BY <1>4, <1>10, AddRequestLemma, EmptySlots DEF TypeOK
  <2>2. CASE r.kind = "wide receive"
    <3>1. PICK e : e = ProbeReceive(r)
      OBVIOUS
    <3>2. table' = [table EXCEPT ![i] = e] /\ ProbeTakes(r) /\ unexpected' = unexpected /\ buffer' = buffer
      BY <1>1, <1>3, <1>4, <1>5, <1>10, <2>2, <3>1 DEF Irecv
    <3>3. table'[i] = e /\ \A j \in Slot : j # i => table'[j] = table[j]
      BY <2>1, <3>2 DEF TypeOK
    <3>4. Pending(e) = e.message
      BY <1>5, <1>8, <3>1, <3>2, ProbeFields DEF Pending
    <3>5. Keeps(i, 0, {AtQueue, AtForwarded, AtMessage(i)})
      BY <1>6, <2>1, <3>2, <3>3, <3>4 DEF Keeps
    <3>6. /\ AtMessage(i) \in Place /\ AtMessage(i) # AtQueue /\ AtMessage(i) # AtForwarded
          /\ Line(AtMessage(i))' = Line(AtMessage(i)) \o e.message
      <4>1. e.message \in Seq(Message)
        BY <1>8, <3>1, <3>2, ProbeTypes DEF Request, Messages
      <4>2. << >> \o e.message = e.message
        BY <4>1, BehindEmpty
      <4>. QED  BY <2>1, <3>3, <3>4, <4>2, PlaceLemma, PlacesDiffer, LineFacts, LineFactsNext
    <3>. QED  BY <1>5, <1>6, <1>8, <3>1, <3>2, <3>5, <3>6, RestLemma, TakeLines
  <2>3. CASE r.kind # "wide receive"
    <3>1. Post(r, i) /\ queue' = queue /\ forwarded' = forwarded
      BY <1>1, <1>3, <1>4, <1>5, <1>10, <2>3 DEF Irecv
    <3>2. PICK k : k = FirstMatch(unexpected, r.source, r.tag)
      OBVIOUS
    <3>3. CASE k = 0
      <4>1. PICK e : e = [r EXCEPT !.mpi = "active"]
        OBVIOUS
      <4>2. table' = [table EXCEPT ![i] = e] /\ unexpected' = unexpected /\ buffer' = buffer
        BY <3>1, <3>2, <3>3, <4>1 DEF Post
      <4>3. Pending(e) = << >>
        BY <1>5, <1>8, <4>1 DEF Request, Pending
      <4>4. SlotOnly(i)
        BY <1>6, <2>1, <3>1, <4>2, <4>3 DEF SlotOnly, TypeOK
      <4>. QED  BY <2>1, <4>4, SlotLines
    <3>4. CASE k # 0
      <4>1. k \in 1 .. Len(unexpected)
        BY <3>2, <3>4, FirstMatchLemma DEF TypeOK, Messages
      <4>2. PICK m \in Message : m = unexpected[k]
        BY <4>1, LineElements
      <4>3. PICK e : e = [r EXCEPT !.mpi = "done"]
        OBVIOUS
      <4>4. /\ table' = [table EXCEPT ![i] = e] /\ unexpected' = RemoveAt(unexpected, k)
            /\ buffer' = [buffer EXCEPT ![n] = Append(@, m)]
        BY <1>5, <3>1, <3>2, <3>4, <4>2, <4>3 DEF Post
      <4>5. Pending(e) = << >>
        BY <1>5, <1>8, <4>3 DEF Request, Pending
      <4>6. table'[i] = e /\ \A j \in Slot : j # i => table'[j] = table[j]
        BY <2>1, <4>4 DEF TypeOK
      <4>7. buffer'[n] = Append(buffer[n], m) /\ \A j \in Receive : j # n => buffer'[j] = buffer[j]
        BY <1>7, <4>4 DEF TypeOK
      <4>8. Keeps(i, n, {AtUnexpected, AtBuffer(n)})
        BY <2>1, <3>1, <4>5, <4>6, <4>7 DEF Keeps
      <4>9. /\ AtBuffer(n) \in Place /\ AtUnexpected \in Place /\ AtBuffer(n) # AtUnexpected
            /\ Line(AtBuffer(n))' = Append(Line(AtBuffer(n)), m)
            /\ Line(AtUnexpected) = unexpected /\ Line(AtUnexpected)' = unexpected'
        BY <1>7, <4>7, PlaceLemma, PlacesDiffer, LineFacts, LineFactsNext
      <4>. QED  BY <1>6, <4>1, <4>2, <4>4, <4>8, <4>9, RestLemma, ShiftStep
    <3>. QED  BY <3>3, <3>4
  <2>. QED  BY <2>2, <2>3
<1>. QED  BY <1>9, <1>10

\* The message of a blocking receive.
LEMMA ReceivedLines ==
  ASSUME TypeOK, TypeOK', Inv, call.op = "recv", NEW m \in Message, Received(m),
         NEW p \in {AtQueue, AtUnexpected, AtForwarded}, NEW k, k \in 1 .. Len(Line(p)), m = Line(p)[k],
         Line(p)' = RemoveAt(Line(p), k),
         \A r \in {AtQueue, AtUnexpected, AtForwarded} : r # p => Line(r)' = Line(r),
         UNCHANGED <<table, sent>>
  PROVE  LineStep
<1>0. PICK n : n = Len(receives)
  OBVIOUS
<1>1. n \in Receive
  <2>1. n \in Nat /\ n > 0 /\ DOMAIN receives = 1 .. n
    BY <1>0, ReceivesLemma DEF Inv, Calls
  <2>2. n \in DOMAIN receives
    BY <2>1
  <2>. QED  BY <2>2, ReceivesLemma
<1>2. buffer'[n] = Append(buffer[n], m) /\ \A l \in Receive : l # n => buffer'[l] = buffer[l]
  BY <1>0, <1>1 DEF Received, TypeOK
<1>3. /\ AtBuffer(n) \in Place /\ p \in Place /\ p # AtBuffer(n)
      /\ Line(AtBuffer(n)) = buffer[n] /\ Line(AtBuffer(n))' = buffer'[n]
  BY <1>1, PlaceLemma, PlacesDiffer, LineFacts, LineFactsNext
<1>4. Keeps(0, n, {p, AtBuffer(n)})
  <2>1. /\ AtQueue \in {p, AtBuffer(n)} \/ queue' = queue
        /\ AtUnexpected \in {p, AtBuffer(n)} \/ unexpected' = unexpected
        /\ AtForwarded \in {p, AtBuffer(n)} \/ forwarded' = forwarded
    BY LineFacts, LineFactsNext
  <2>2. 0 \notin Slot
    BY BoundFacts DEF NULL
  <2>. QED  BY <1>2, <2>1, <2>2 DEF Keeps
<1>. QED  BY <1>2, <1>3, <1>4, RestLemma, ShiftStep

LEMMA LocalRecvLines ==
  ASSUME TypeOK, TypeOK', Inv, LocalRecv
  PROVE  LineStep
<1>1. PICK k : k = FirstMatch(unexpected, call.source, call.tag)
  OBVIOUS
<1>2. k \in 1 .. Len(unexpected)
  BY <1>1, FirstMatchLemma DEF LocalRecv, TypeOK, Messages
<1>3. PICK m \in Message : m = unexpected[k]
  BY <1>2, LineElements
<1>4. /\ call.op = "recv" /\ Received(m) /\ unexpected' = RemoveAt(unexpected, k)
      /\ UNCHANGED <<table, queue, forwarded, sent>>
  BY <1>1, <1>3 DEF LocalRecv
<1>5. /\ Line(AtUnexpected) = unexpected /\ Line(AtUnexpected)' = unexpected'
      /\ \A r \in {AtQueue, AtUnexpected, AtForwarded} : r # AtUnexpected => Line(r)' = Line(r)
  BY <1>4, LineFacts, LineFactsNext
<1>. QED  BY <1>2, <1>3, <1>4, <1>5, ReceivedLines

\* The gateway's next message is stored.
LEMMA StoredLines ==
  ASSUME TypeOK, TypeOK', forwarded # << >>, queue' = Append(queue, Head(forwarded)), forwarded' = Tail(forwarded),
         UNCHANGED <<table, unexpected, buffer, sent>>
  PROVE  LineStep
<1>1. forwarded' = RemoveAt(forwarded, 1) /\ Head(forwarded) = forwarded[1] /\ 1 \in 1 .. Len(forwarded)
  BY TailIsRemoveAt DEF TypeOK, Messages
<1>2. Keeps(0, 0, {AtForwarded, AtQueue})
  BY DEF Keeps
<1>3. /\ AtQueue \in Place /\ AtForwarded \in Place /\ AtForwarded # AtQueue
      /\ Line(AtQueue) = queue /\ Line(AtQueue)' = queue'
      /\ Line(AtForwarded) = forwarded /\ Line(AtForwarded)' = forwarded'
  BY PlaceLemma, PlacesDiffer, LineFacts, LineFactsNext
<1>4. Rest({AtForwarded, AtQueue})
  BY <1>2, RestLemma
<1>. QED  BY <1>1, <1>3, <1>4, ShiftStep

LEMMA WideRecvLines ==
  ASSUME TypeOK, TypeOK', Inv, WideRecv
  PROVE  LineStep
<1>1. PICK k : k = FirstMatch(queue, call.source, call.tag)
  OBVIOUS
<1>2. queue \in Seq(Message) /\ forwarded \in Seq(Message)
  BY DEF TypeOK, Messages
<1>3. call.op = "recv" /\ UNCHANGED <<table, unexpected, sent>>
  BY DEF WideRecv
<1>4. CASE k # 0
  <2>1. k \in 1 .. Len(queue)
    BY <1>1, <1>2, <1>4, FirstMatchLemma
  <2>2. PICK m \in Message : m = queue[k]
    BY <2>1, LineElements
  <2>3. Received(m) /\ queue' = RemoveAt(queue, k) /\ forwarded' = forwarded
    BY <1>1, <1>4, <2>2 DEF WideRecv
  <2>4. /\ Line(AtQueue) = queue /\ Line(AtQueue)' = queue'
        /\ \A r \in {AtQueue, AtUnexpected, AtForwarded} : r # AtQueue => Line(r)' = Line(r)
    BY <1>3, <2>3, LineFacts, LineFactsNext
  <2>. QED  BY <1>3, <2>1, <2>2, <2>3, <2>4, ReceivedLines
<1>5. CASE k = 0
  <2>1. forwarded # << >> /\ forwarded' = Tail(forwarded)
    BY <1>1, <1>5 DEF WideRecv
  <2>2. 1 \in 1 .. Len(forwarded) /\ forwarded' = RemoveAt(forwarded, 1) /\ Head(forwarded) = forwarded[1]
    BY <1>2, <2>1, TailIsRemoveAt
  <2>3. PICK m \in Message : m = forwarded[1]
    BY <2>2, LineElements
  <2>4. CASE Matches(m, call.source, call.tag)
    <3>1. Received(m) /\ queue' = queue
      BY <1>1, <1>5, <2>2, <2>3, <2>4 DEF WideRecv
    <3>2. /\ Line(AtForwarded) = forwarded /\ Line(AtForwarded)' = forwarded'
          /\ \A r \in {AtQueue, AtUnexpected, AtForwarded} : r # AtForwarded => Line(r)' = Line(r)
      BY <1>3, <3>1, LineFacts, LineFactsNext
    <3>. QED  BY <1>3, <2>2, <2>3, <3>1, <3>2, ReceivedLines
  <2>5. CASE ~Matches(m, call.source, call.tag)
    <3>1. queue' = Append(queue, Head(forwarded)) /\ buffer' = buffer
      BY <1>1, <1>5, <2>2, <2>3, <2>5 DEF WideRecv, Store
    <3>. QED  BY <1>3, <2>1, <3>1, StoredLines
  <2>. QED  BY <2>4, <2>5
<1>. QED  BY <1>4, <1>5

\* The message of the receive in slot i is taken and unpacked.
Empties(i) ==
  /\ \A j \in Slot : j # i => table'[j] = table[j]
  /\ Pending(table'[i]) = << >>
  /\ UNCHANGED <<unexpected, sent>>

LEMMA TakenLines ==
  ASSUME TypeOK, TypeOK', Inv, NEW i \in Slot, NEW r, Takes(i, r), Empties(i)
  PROVE  LineStep
<1>1. PICK q : q = table[i]
  OBVIOUS
<1>2. PICK n : n = q.n
  OBVIOUS
<1>3. ReceiveShape(q) /\ n \in Receive /\ q \in Request /\ q.n = n
  BY <1>1, <1>2, ReceiveLemma DEF TypeOK, Takes
<1>4. PICK s \in Messages : Taken(q, n, r, s)
  BY <1>1, <1>2, TakesLemma
<1>5. r.message = s /\ r.n = n /\ r.unpacked = q.unpacked /\ Len(s) <= 1
  BY <1>4 DEF Taken, OneFor
<1>6. sent' = sent /\ unexpected' = unexpected
  BY DEF Empties
<1>7. r = ProbeReceive(q) /\ ProbeTakes(q)
  BY <1>1 DEF Takes
<1>8. /\ AtMessage(i) \in Place /\ AtBuffer(n) \in Place /\ AtMessage(i) # AtBuffer(n)
      /\ AtBuffer(n) # AtQueue /\ AtBuffer(n) # AtForwarded
      /\ Line(AtMessage(i)) = Pending(q) /\ Line(AtMessage(i))' = << >>
      /\ Line(AtBuffer(n)) = buffer[n] /\ Line(AtBuffer(n))' = buffer'[n]
  BY <1>1, <1>3, PlaceLemma, PlacesDiffer, LineFacts, LineFactsNext DEF Empties
<1>9. CASE q.unpacked
  <2>1. q.completed
    BY <1>3, <1>9 DEF ReceiveShape
  <2>2. queue' = queue /\ forwarded' = forwarded
    BY <1>3, <1>7, <2>1, ProbeCases
  <2>3. buffer' = buffer /\ Pending(q) = << >>
    BY <1>5, <1>9 DEF Takes, Unpack, Pending
  <2>4. Keeps(i, n, {})
    BY <1>1, <1>6, <2>2, <2>3 DEF Keeps, Empties
  <2>. QED  BY <1>6, <2>4, RestLemma, SameStep
<1>10. CASE ~q.unpacked
  <2>1. buffer' = [buffer EXCEPT ![n] = @ \o s]
    BY <1>5, <1>10 DEF Takes, Unpack
  <2>2. buffer'[n] = buffer[n] \o s /\ \A m \in Receive : m # n => buffer'[m] = buffer[m]
    BY <1>3, <2>1 DEF TypeOK
  <2>3. CASE q.completed
    <3>1. r = q /\ queue' = queue /\ forwarded' = forwarded
      BY <1>3, <1>7, <2>3, ProbeCases
    <3>2. Pending(q) = s
      BY <1>5, <1>10, <3>1 DEF Pending
    <3>3. Keeps(i, n, {AtMessage(i), AtBuffer(n)})
      BY <1>1, <1>6, <2>2, <3>1 DEF Keeps, Empties
    <3>. QED  BY <1>5, <1>6, <1>8, <2>2, <3>2, <3>3, RestLemma, WholeStep
  <2>4. CASE ~q.completed
    <3>1. q.message = << >> /\ Pending(q) = << >>
      BY <1>3, <2>4, <1>10 DEF ReceiveShape, Pending
    <3>2. Keeps(i, n, {AtQueue, AtForwarded, AtBuffer(n)})
      BY <1>1, <1>6, <2>2, <3>1 DEF Keeps, Empties
    <3>. QED  BY <1>3, <1>5, <1>6, <1>7, <1>8, <2>2, <2>4, <3>1, <3>2, RestLemma, TakeLines
  <2>. QED  BY <2>3, <2>4
<1>. QED  BY <1>3, <1>9, <1>10 DEF Request

\* Nothing was found for it.
LEMMA MissedLines ==
  ASSUME TypeOK, TypeOK', Inv, NEW i \in Slot, NEW q, q = table[i], ProbeTakes(q), ~ProbeReceive(q).completed,
         q.kind \in {"wide receive", "mixed receive"}, Empties(i), buffer' = buffer
  PROVE  LineStep
<1>1. PICK n : n = q.n
  OBVIOUS
<1>2. ReceiveShape(q) /\ n \in Receive /\ q \in Request
  BY <1>1, ReceiveLemma DEF TypeOK
<1>3. ~q.completed
  BY DEF ProbeReceive
<1>4. q.message = << >> /\ Pending(q) = << >>
  BY <1>2, <1>3, EmptySlots DEF ReceiveShape
<1>5. ProbeReceive(q) = q
  <2>1. \A m : Found(q, m).completed = TRUE
    BY <1>2 DEF Found, Request
  <2>. QED  BY <1>2, <2>1, ProbeCases
<1>6. sent' = sent /\ unexpected' = unexpected
  BY DEF Empties
<1>7. Line(AtBuffer(n))' = Line(AtBuffer(n)) \o << >>
  <2>1. PICK t \in Seq(Message) : t = buffer[n]
    BY <1>2 DEF TypeOK, Messages
  <2>2. t \o << >> = t
    BY BehindEmpty
  <2>. QED  BY <2>1, <2>2, LineFacts, LineFactsNext
<1>8. AtBuffer(n) \in Place /\ AtBuffer(n) # AtQueue /\ AtBuffer(n) # AtForwarded
  BY <1>2, PlaceLemma, PlacesDiffer
<1>9. Keeps(i, n, {AtQueue, AtForwarded, AtBuffer(n)})
  BY <1>4, <1>6 DEF Keeps, Empties
<1>10. Rest({AtQueue, AtForwarded, AtBuffer(n)})
  BY <1>9, RestLemma
<1>. QED  BY <1>2, <1>3, <1>4, <1>5, <1>6, <1>7, <1>8, <1>10, TakeLines

LEMMA RequestGetStatusLines ==
  ASSUME TypeOK, TypeOK', Inv, NEW v \in Var, RequestGetStatus(v)
  PROVE  LineStep
<1>1. PICK i \in Slot : i = variable[v]
  BY DEF RequestGetStatus, TypeOK
<1>2. PICK q \in Request : q = table[i]
  BY DEF TypeOK
<1>3. PICK r : r = ProbeReceive(q)
  OBVIOUS
<1>4. /\ q.kind \in {"wide receive", "mixed receive"} /\ ProbeTakes(q)
      /\ UNCHANGED <<unexpected, sent, receives>>
      /\ \/ r.completed /\ buffer' = Unpack(r) /\ table' = [table EXCEPT ![i] = [r EXCEPT !.unpacked = TRUE]]
         \/ ~r.completed /\ table' = table /\ buffer' = buffer
  BY <1>1, <1>2, <1>3 DEF RequestGetStatus
<1>5. CASE r.completed /\ buffer' = Unpack(r) /\ table' = [table EXCEPT ![i] = [r EXCEPT !.unpacked = TRUE]]
  <2>1. PICK e : e = [r EXCEPT !.unpacked = TRUE]
    OBVIOUS
  <2>2. r \in Request
    BY <1>2, <1>3, <1>4, ProbeTypes
  <2>3. Pending(e) = << >>
    BY <2>1, <2>2 DEF Request, Pending
  <2>4. table'[i] = e /\ \A j \in Slot : j # i => table'[j] = table[j]
    BY <1>5, <2>1 DEF TypeOK
  <2>5. Empties(i)
    BY <1>2, <1>4, <2>3, <2>4 DEF Empties
  <2>6. Takes(i, r)
    BY <1>2, <1>3, <1>4, <1>5 DEF Takes
  <2>. QED  BY <2>5, <2>6, TakenLines
<1>6. CASE ~r.completed /\ table' = table /\ buffer' = buffer
  <2>1. Pending(q) = << >>
    <3>1. ~q.completed
      BY <1>3, <1>6 DEF ProbeReceive
    <3>. QED  BY <1>2, <3>1, EmptySlots
  <2>2. Empties(i)
    BY <1>2, <1>4, <1>6, <2>1 DEF Empties
  <2>. QED  BY <1>2, <1>3, <1>4, <1>6, <2>2, MissedLines
<1>. QED  BY <1>4, <1>5, <1>6

LEMMA ProbeMixedLines ==
  ASSUME TypeOK, TypeOK', Inv, ProbeMixed
  PROVE  LineStep
<1>1. call.op \in Waiting /\ call.at = "probe"
  BY LookingLemma DEF ProbeMixed
<1>2. PICK i \in Slot : i = Handle
  BY <1>1, AskedLemma
<1>3. PICK q \in Request : q = table[i]
  BY DEF TypeOK
<1>r. PICK r : r = ProbeReceive(q)
  OBVIOUS
<1>4. q = Asked /\ q.kind = "mixed receive"
  BY <1>1, <1>2, <1>3 DEF Asked, Inv, Calls
<1>5. /\ ProbeTakes(q) /\ UNCHANGED <<unexpected, sent, receives>>
      /\ \/ r.completed /\ buffer' = Unpack(r) /\ table' = [table EXCEPT ![i] = [r EXCEPT !.unpacked = TRUE]]
         \/ ~r.completed /\ table' = table /\ buffer' = buffer
  BY <1>2, <1>4, <1>r DEF ProbeMixed
<1>6. CASE r.completed /\ buffer' = Unpack(r) /\ table' = [table EXCEPT ![i] = [r EXCEPT !.unpacked = TRUE]]
  <2>1. PICK e : e = [r EXCEPT !.unpacked = TRUE]
    OBVIOUS
  <2>2. r \in Request
    BY <1>r, <1>5, ProbeTypes
  <2>3. Pending(e) = << >>
    BY <2>1, <2>2 DEF Request, Pending
  <2>4. table'[i] = e /\ \A j \in Slot : j # i => table'[j] = table[j]
    BY <1>6, <2>1 DEF TypeOK
  <2>5. Empties(i)
    BY <1>3, <1>5, <2>3, <2>4 DEF Empties
  <2>6. Takes(i, r)
    BY <1>r, <1>3, <1>4, <1>5, <1>6 DEF Takes
  <2>. QED  BY <2>5, <2>6, TakenLines
<1>7. CASE ~r.completed /\ table' = table /\ buffer' = buffer
  <2>1. Pending(q) = << >>
    BY <1>3, <1>4, EmptySlots
  <2>2. Empties(i)
    BY <1>3, <1>5, <1>7, <2>1 DEF Empties
  <2>. QED  BY <1>3, <1>r, <1>4, <1>5, <1>7, <2>2, MissedLines
<1>. QED  BY <1>5, <1>6, <1>7

LEMMA LookWideLines ==
  ASSUME TypeOK, TypeOK', Inv, LookWide
  PROVE  LineStep
<1>1. call.op \in Waiting
  BY LookingLemma DEF LookWide
<1>2. PICK i \in Slot : i = Handle
  BY <1>1, AskedLemma
<1>3. PICK q \in Request : q = table[i]
  BY DEF TypeOK
<1>r. PICK r : r = ProbeReceive(q)
  OBVIOUS
<1>4. q = Asked /\ q.kind = "wide receive"
  BY <1>2, <1>3 DEF LookWide, IsLooking, Asked
<1>5. /\ ProbeTakes(q) /\ UNCHANGED <<unexpected, sent, receives>>
      /\ \/ r.completed /\ buffer' = Unpack(r) /\ Complete
         \/ ~r.completed /\ Complete /\ buffer' = buffer
         \/ ~r.completed /\ table' = table /\ buffer' = buffer
  BY <1>4, <1>r DEF LookWide
<1>7. ASSUME Complete
      PROVE  Empties(i)
  BY <1>1, <1>2, <1>5, <1>7, FreedLemma DEF Empties
<1>8. CASE r.completed /\ buffer' = Unpack(r) /\ Complete
  <2>1. Takes(i, r)
    BY <1>r, <1>3, <1>4, <1>5, <1>8 DEF Takes
  <2>. QED  BY <1>7, <1>8, <2>1, TakenLines
<1>9. CASE ~r.completed /\ Complete /\ buffer' = buffer
  BY <1>3, <1>r, <1>4, <1>5, <1>7, <1>9, MissedLines
<1>10. CASE ~r.completed /\ table' = table /\ buffer' = buffer
  <2>1. Pending(q) = << >>
    <3>1. ~q.completed
      BY <1>r, <1>10 DEF ProbeReceive
    <3>. QED  BY <1>3, <3>1, EmptySlots
  <2>2. Empties(i)
    BY <1>3, <1>5, <1>10, <2>1 DEF Empties
  <2>. QED  BY <1>3, <1>r, <1>4, <1>5, <1>10, <2>2, MissedLines
<1>. QED  BY <1>5, <1>8, <1>9, <1>10

\* A request that holds no message ends.
LEMMA EndsLines ==
  ASSUME TypeOK, Inv, call.op \in Waiting, Complete, Asked.kind # "wide receive",
         UNCHANGED <<queue, unexpected, forwarded, buffer, sent>>
  PROVE  LineStep
<1>1. PICK i \in Slot : i = Handle
  BY AskedLemma
<1>2. Pending(table[i]) = << >>
  BY <1>1, EmptySlots DEF Asked
<1>3. SlotOnly(i)
  BY <1>1, <1>2, FreedLemma DEF SlotOnly
<1>. QED  BY <1>3, SlotLines

LEMMA LookLocalLines ==
  ASSUME TypeOK, Inv, LookLocal
  PROVE  LineStep
<1>1. call.op \in Waiting /\ Asked.kind # "wide receive"
  BY LookingLemma DEF LookLocal, IsLooking
<1>2. UNCHANGED <<queue, unexpected, forwarded, buffer, sent>> /\ (Complete \/ table' = table)
  BY DEF LookLocal
<1>. QED  BY <1>1, <1>2, EndsLines, QuietLines

LEMMA LookWideSendLines ==
  ASSUME TypeOK, Inv, LookWideSend
  PROVE  LineStep
<1>1. call.op \in Waiting /\ Asked.kind # "wide receive"
  BY LookingLemma DEF LookWideSend, IsLooking
<1>. QED  BY <1>1, EndsLines DEF LookWideSend

LEMMA LookMixedLines ==
  ASSUME TypeOK, Inv, LookMixed
  PROVE  LineStep
<1>1. call.op \in Waiting /\ Asked.kind # "wide receive"
  BY LookingLemma DEF LookMixed, IsLooking
<1>2. UNCHANGED <<queue, unexpected, forwarded, buffer, sent>> /\ (Complete \/ table' = table)
  BY DEF LookMixed
<1>. QED  BY <1>1, <1>2, EndsLines, QuietLines

LEMMA CancelLocalLines ==
  ASSUME TypeOK, Inv, CancelLocal
  PROVE  LineStep
<1>1. call.op \in Waiting /\ Asked.kind # "wide receive"
  BY LookingLemma DEF CancelLocal, Inv, Calls
<1>. QED  BY <1>1, EndsLines DEF CancelLocal

\* A new message comes to the end of a line.
ArrivalStep ==
  \E p \in Place, m \in Message : Arrives(Lines, Lines', p, m, sent, sent')

LEMMA ArrivesAt ==
  ASSUME TypeOK, NEW p \in Place, NEW m \in Message,
         sent' = [sent EXCEPT ![m.src] = @ + 1], m.n = sent[m.src] + 1,
         Line(p)' = Append(Line(p), m), Rest({p})
  PROVE  ArrivalStep
<1>1. \A r \in Place : Lines[r] = Line(r) /\ Lines'[r] = Line(r)'
  BY DEF Lines
<1>2. Arrives(Lines, Lines', p, m, sent, sent')
  BY <1>1 DEF Arrives, Rest
<1>. QED  BY <1>2 DEF ArrivalStep

LEMMA WideArrivalLines ==
  ASSUME TypeOK, NEW q \in Member, NEW t \in Tag, WideArrival(q, t)
  PROVE  ArrivalStep
<1>1. PICK m \in Message : m = [src |-> q, tag |-> t, n |-> sent[q] + 1]
  BY MessageLemma DEF WideArrival
<1>2. /\ forwarded' = Append(forwarded, m) /\ sent' = [sent EXCEPT ![m.src] = @ + 1] /\ m.n = sent[m.src] + 1
      /\ UNCHANGED <<table, queue, unexpected, buffer>>
  BY <1>1 DEF WideArrival
<1>3. Keeps(0, 0, {AtForwarded})
  BY <1>2 DEF Keeps
<1>4. AtForwarded \in Place /\ Line(AtForwarded)' = Append(Line(AtForwarded), m)
  BY <1>2, PlaceLemma, LineFacts, LineFactsNext
<1>. QED  BY <1>2, <1>3, <1>4, RestLemma, ArrivesAt

LEMMA LocalArrivalLines ==
  ASSUME TypeOK, Inv, NEW q \in Member, NEW t \in Tag, LocalArrival(q, t)
  PROVE  ArrivalStep
<1> DEFINE new == [src |-> q, tag |-> t, n |-> sent[q] + 1]
           first == FirstWaiting(new)
<1>1. new \in Message /\ new.src = q /\ new.n = sent[q] + 1
  BY MessageLemma DEF LocalArrival
<1>2. sent' = [sent EXCEPT ![q] = @ + 1] /\ UNCHANGED <<queue, forwarded>>
  BY DEF LocalArrival
<1>a. \/ first = 0 /\ unexpected' = Append(unexpected, new) /\ UNCHANGED <<table, buffer>>
      \/ /\ first # 0 /\ unexpected' = unexpected
         /\ buffer' = [buffer EXCEPT ![posted[first]] = Append(@, new)]
         /\ table' = table \/ \E i \in Slot : table' = [table EXCEPT ![i].mpi = "done"]
  BY DEF LocalArrival, FirstWaiting
<1> HIDE DEF new, first
<1>m. PICK m \in Message : m = new
  BY <1>1
<1>k. PICK k : k = FirstWaiting(m)
  OBVIOUS
<1>l. k = first
  BY <1>m, <1>k DEF first
<1>s. sent' = [sent EXCEPT ![m.src] = @ + 1] /\ m.n = sent[m.src] + 1
  BY <1>1, <1>2, <1>m
<1>3. CASE unexpected' = Append(unexpected, m) /\ UNCHANGED <<table, buffer>>
  <2>1. Keeps(0, 0, {AtUnexpected})
    BY <1>2, <1>3 DEF Keeps
  <2>2. AtUnexpected \in Place /\ Line(AtUnexpected)' = Append(Line(AtUnexpected), m)
    BY <1>3, PlaceLemma, LineFacts, LineFactsNext
  <2>. QED  BY <1>s, <2>1, <2>2, RestLemma, ArrivesAt
<1>4. ASSUME k # 0, unexpected' = unexpected, buffer' = [buffer EXCEPT ![posted[k]] = Append(@, m)],
             table' = table \/ \E i \in Slot : table' = [table EXCEPT ![i].mpi = "done"]
      PROVE  ArrivalStep
  <2>1. k \in 1 .. Len(posted)
    BY <1>k, <1>4, FirstWaitingLemma
  <2>2. PICK n \in Receive : n = posted[k]
    BY <2>1, LineElements
  <2>3. buffer'[n] = Append(buffer[n], m) /\ \A j \in Receive : j # n => buffer'[j] = buffer[j]
    BY <1>4, <2>2 DEF TypeOK
  <2>4. AtBuffer(n) \in Place /\ Line(AtBuffer(n))' = Append(Line(AtBuffer(n)), m)
    BY <2>3, PlaceLemma, LineFacts, LineFactsNext
  <2>5. \E i : Keeps(i, n, {AtBuffer(n)})
    <3>1. CASE table' = table
      BY <1>2, <1>4, <2>3, <3>1 DEF Keeps
    <3>2. ASSUME NEW i \in Slot, table' = [table EXCEPT ![i].mpi = "done"]
          PROVE  Keeps(i, n, {AtBuffer(n)})
      <4>1. PICK r \in Request : r = table[i]
        BY DEF TypeOK
      <4>2. PICK e : e = [r EXCEPT !.mpi = "done"]
        OBVIOUS
      <4>3. table' = [table EXCEPT ![i] = e]
        BY <3>2, <4>1, <4>2, DoneLemma
      <4>4. table'[i] = e /\ \A j \in Slot : j # i => table'[j] = table[j]
        BY <4>3 DEF TypeOK
      <4>5. Pending(e) = Pending(r)
        BY <4>2 DEF Request, Pending
      <4>. QED  BY <1>2, <1>4, <2>3, <4>1, <4>4, <4>5 DEF Keeps
    <3>. QED  BY <1>4, <3>1, <3>2
  <2>. QED  BY <1>s, <2>4, <2>5, RestLemma, ArrivesAt
<1>. QED  BY <1>a, <1>m, <1>l, <1>3, <1>4

LEMMA LinesStep ==
  ASSUME TypeOK, TypeOK', Inv, [Next]_vars
  PROVE  LineStep \/ ArrivalStep
<1>1. ASSUME NEW m \in Traffic, LocalArrival(m.src, m.tag) \/ WideArrival(m.src, m.tag)
      PROVE  ArrivalStep
  <2>1. m.src \in Member /\ m.tag \in Tag
    BY BoundAssumption
  <2>. QED  BY <1>1, <2>1, LocalArrivalLines, WideArrivalLines
<1>2. ASSUME NEW op, NEW of, NEW f, Begin(op, of, f)
      PROVE  LineStep
  BY <1>2, QuietLines DEF Begin, logVars
<1>3. ASSUME NEW a \in Asks, Recv(a.source, a.tag)
      PROVE  LineStep
  BY <1>3, QuietLines DEF Recv
<1>4. CASE UNCHANGED vars
  BY <1>4, QuietLines DEF vars
<1>. QED
  BY <1>1, <1>2, <1>3, <1>4, IsendLines, IrecvLines, RequestGetStatusLines, RequestFreeLines, LocalRecvLines,
     WideRecvLines, LookLocalLines, LookWideSendLines, LookWideLines, LookMixedLines, ProbeMixedLines,
     CancelLocalLines, SendCompletesLines
     DEF Next, Application, Proceed, Environment, Test, Wait, Waitany, Waitall

LEMMA LinesInvStep ==
  ASSUME TypeOK, TypeOK', Inv, LinesOK(Lines, sent), [Next]_vars
  PROVE  LinesOK(Lines, sent)'
<1>1. Lines \in [Place -> Seq(Message)] /\ sent \in [Member -> Nat]
  <2>1. MaxSent \in Nat
    BY BoundAssumption
  <2>. QED  BY <2>1, LinesType DEF TypeOK
<1>2. CASE sent' = sent /\ Lines' = Lines
  BY <1>2
<1>3. ASSUME sent' = sent, NEW p \in Place, NEW q \in Place, NEW k, Shift(Lines, Lines', p, k, q)
      PROVE  LinesOK(Lines', sent')
  BY <1>1, <1>3, ShiftKeeps
<1>4. CASE ArrivalStep
  BY <1>1, <1>4, ArrivesKeeps DEF ArrivalStep
<1>. QED  BY <1>2, <1>3, <1>4, LinesStep DEF LineStep

LEMMA LinesInit == Init => LinesOK(Lines, sent)
<1>1. SUFFICES ASSUME Init
               PROVE  LinesOK(Lines, sent)
  OBVIOUS
<1>2. \A i \in Slot : Pending(table[i]) = << >>
  BY <1>1, FreeFacts DEF Init, Pending
<1>3. \A p \in Place : Line(p) = << >>
  <2>1. \A p \in {AtQueue, AtUnexpected, AtForwarded} : Line(p) = << >>
    BY <1>1, LineFacts DEF Init
  <2>2. \A i \in Slot : Line(AtMessage(i)) = << >>
    BY <1>2, LineFacts
  <2>3. \A n \in Receive : Line(AtBuffer(n)) = << >>
    BY <1>1, LineFacts DEF Init
  <2>. QED  BY <2>1, <2>2, <2>3, PlaceLemma
<1>4. Len(<< >>) = 0 /\ \A p \in Place : Lines[p] = << >>
  BY <1>3, EmptySeq DEF Lines
<1>5. \A q \in Member : sent[q] = 0
  BY <1>1 DEF Init
<1>. QED  BY <1>4, <1>5 DEF LinesOK, Once, AllThere, Numbered

LEMMA LinesInvariant == Spec => []LinesOK(Lines, sent)
<1>1. Init => TypeOK /\ Inv /\ LinesOK(Lines, sent)
  BY InitInv, LinesInit
<1>2. TypeOK /\ Inv /\ LinesOK(Lines, sent) /\ [Next]_vars => (TypeOK /\ Inv /\ LinesOK(Lines, sent))'
  BY TypeStep, InvStep, LinesInvStep
<1>. QED  BY <1>1, <1>2, PTL DEF Spec

-----------------------------------------------------------------------------
(* The theorems *)

\* The variables have their types in every reachable state: add_request never
\* writes past reqs[MAX_REQUESTS], and every handle of the application is a slot
\* of the table or EMPI_REQUEST_NULL.
THEOREM TypeCorrect == Spec => []TypeOK
BY Invariant, PTL

\* The application's handles and the slots of the table belong together, and
\* MPI has a posted receive, once, exactly for the active requests: add_request,
\* free_request and the cancelling of mixed receives leave none over.
THEOREM HandlesOwnedHolds == Spec => []HandlesOwned
<1>1. ASSUME TypeOK, Inv
      PROVE  HandlesOwned
  <2>1. ASSUME NEW i \in Slot, table[i].n # 0
        PROVE  (table[i].mpi = "active") <=> (table[i].n \in ToSet(posted))
    <3>1. (table[i].mpi = "active") <=> IsIn(posted, table[i].n)
      BY <1>1, <2>1, ReceiveLemma DEF Carries, Waits
    <3>2. DOMAIN posted = 1 .. Len(posted)
      BY <1>1, LenProperties DEF TypeOK
    <3>3. PICK n : n = table[i].n
      OBVIOUS
    <3>4. n \in ToSet(posted) <=> \E k \in DOMAIN posted : posted[k] = n
      BY DEF ToSet
    <3>5. n \in ToSet(posted) <=> IsIn(posted, n)
      BY <3>2, <3>4 DEF IsIn
    <3>. QED  BY <3>1, <3>3, <3>5
  <2>2. \A k, l \in DOMAIN posted : posted[k] = posted[l] => k = l
    <3>1. DOMAIN posted = 1 .. Len(posted)
      BY <1>1, LenProperties DEF TypeOK
    <3>. QED  BY <1>1, <3>1 DEF Inv, WaitsOnce, Distinct
  <2>3. /\ \A i \in Slot : (table[i] # Free) = (\E v \in Var : variable[v] = i)
        /\ \A v, w \in Var : variable[v] = variable[w] /\ variable[v] # NULL => v = w
    BY <1>1 DEF Inv, Handles
  <2>4. \A i \in Slot : table[i].n # 0 => ((table[i].mpi = "active") = (table[i].n \in ToSet(posted)))
    BY <2>1
  <2>. QED  BY <2>2, <2>3, <2>4, Zenon DEF HandlesOwned
<1>. QED  BY <1>1, Invariant, PTL

\* What is in the buffer of a receive, it asked for.  A receive that EMPI_Recv,
\* EMPI_Test, EMPI_Wait, ... reported complete has one message there, a mixed one
\* perhaps a second; only EMPI_Test of a receive from another cluster reports one
\* for the flag it was passed.
THEOREM CompletionSoundHolds == Spec => []CompletionSound
<1>1. ASSUME TypeOK, Inv
      PROVE  CompletionSound
  <2>1. ASSUME NEW n \in DOMAIN receives
        PROVE  /\ \A k \in DOMAIN buffer[n] : Matches(buffer[n][k], receives[n].source, receives[n].tag)
               /\ n \in reported \ stale => Len(buffer[n]) = 1 \/ BothWays(n)
               /\ n \in stale => buffer[n] = << >> /\ Wide(n)
    <3>1. n \in Receive
      BY <1>1, ReceivesLemma
    <3>2. /\ Holds(n) /\ (n \in reported => n \in stale \/ buffer[n] # << >>)
          /\ n \in stale => buffer[n] = << >> /\ Wide(n)
      BY <1>1, <3>1 DEF Inv, Receives, ReceiveOK
    <3>3. /\ DOMAIN buffer[n] = 1 .. Len(buffer[n]) /\ Len(buffer[n]) \in Nat
          /\ Len(buffer[n]) = 0 => buffer[n] = << >>
      BY <1>1, <3>1, LenProperties, EmptySeq DEF TypeOK, Messages
    <3>4. n \in reported \ stale => Len(buffer[n]) = 1 \/ BothWays(n)
      BY <3>2, <3>3, OneOrNone DEF Holds
    <3>. QED  BY <3>2, <3>3, <3>4 DEF Holds
  <2>. QED  BY <2>1 DEF CompletionSound, Wide
<1>. QED  BY <1>1, Invariant, PTL

\* Every message a member sent is in one place, once: on its way, stored by the
\* MPI of the cluster or by EMPI, or written into one buffer.  No buffer is written
\* twice, except that of a mixed receive, by MPI and from the gateway.
THEOREM NoLossNoDuplicationHolds == Spec => []NoLossNoDuplication
<1>1. ASSUME TypeOK, Inv, LinesOK(Lines, sent)
      PROVE  NoLossNoDuplication
  <2>1. ASSUME NEW q \in Member, NEW n \in 1 .. sent[q]
        PROVE  Cardinality(Spots(q, n)) = 1
    <3>1. \A p \in Place : Lines[p] = Line(p) /\ DOMAIN Line(p) = 1 .. Len(Line(p))
      BY <1>1, LinesType, LenProperties
    <3>2. PICK p \in Place : \E k \in 1 .. Len(Lines[p]) : Lines[p][k].src = q /\ Lines[p][k].n = n
      BY <1>1 DEF LinesOK, AllThere
    <3>3. PICK k \in 1 .. Len(Lines[p]) : Lines[p][k].src = q /\ Lines[p][k].n = n
      BY <3>2
    <3>4. \A r \in Place : \A l \in DOMAIN Line(r) : Line(r)[l].src = q /\ Line(r)[l].n = n <=> r = p /\ l = k
      <4>1. ASSUME NEW r \in Place, NEW l \in DOMAIN Line(r), Line(r)[l].src = q, Line(r)[l].n = n
            PROVE  r = p /\ l = k
        <5>1. Once(Lines)
          BY <1>1 DEF LinesOK
        <5>2. /\ l \in 1 .. Len(Lines[r]) /\ Lines[r][l].src = Lines[p][k].src /\ Lines[r][l].n = Lines[p][k].n
          BY <3>1, <3>3, <4>1
        <5>. QED  BY <5>1, <5>2, OnceLemma
      <4>. QED  BY <3>1, <3>3, <4>1
    <3>5. Spots(q, n) = {<<p, k>>}
      <4>1. \A r \in Place : { l \in DOMAIN Line(r) : Line(r)[l].src = q /\ Line(r)[l].n = n }
                               = IF r = p THEN {k} ELSE {}
        BY <3>1, <3>3, <3>4
      <4>2. Spots(q, n) = UNION { { <<r, l>> : l \in IF r = p THEN {k} ELSE {} } : r \in Place }
        BY <4>1 DEF Spots
      <4>. QED  BY <4>2
    <3>. QED  BY <3>5, FS_Singleton
  <2>2. ASSUME NEW n \in DOMAIN receives
        PROVE  Len(buffer[n]) <= 1 \/ BothWays(n)
    BY <1>1, ReceivesLemma DEF Inv, Receives, ReceiveOK, Holds
  <2>. QED  BY <2>1, <2>2 DEF NoLossNoDuplication
<1>. QED  BY <1>1, Invariant, LinesInvariant, PTL

=============================================================================
