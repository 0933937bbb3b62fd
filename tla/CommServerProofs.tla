-------------------------- MODULE CommServerProofs --------------------------
(***************************************************************************)
(* Theorems about CommServer, for any number of clusters, processes and    *)
(* calls, and any arguments of the calls: processes agree about            *)
(* communicators, know them before messages arrive for them, and never     *)
(* meet the answer to another request; the variables keep their types, and *)
(* the rank that MPI gives a process in the part of a communicator that is *)
(* in its cluster is the one the server has told everybody.                *)
(*                                                                         *)
(* The argument follows one request of one process: it is on its way, or   *)
(* among the messages of its communicator and not yet answered, or there   *)
(* is one reply to it; never two of these, and none of them unless the     *)
(* process waits.  For the ranks it needs more: the server answers a call  *)
(* on a communicator when all members have made it, so that two members    *)
(* that have made the same calls there (Done) are in the same round, and   *)
(* the colours and the keys of their calls on the MPI communicator are     *)
(* from the same operation of the server.                                  *)
(***************************************************************************)
EXTENDS CommServer, FiniteSetTheorems, FunctionTheorems, SequenceTheorems, WellFoundedInduction,
        NaturalsInduction, TLAPS

-----------------------------------------------------------------------------
(* The inductive invariant *)

\* The variables have the shape the steps rely on.
Shape ==
  /\ script \in Seq(Call)
  /\ DOMAIN at = App /\ DOMAIN phase = App
  /\ DOMAIN reply = App /\ DOMAIN replies = App
  /\ DOMAIN comms = App /\ \A a \in App : DOMAIN comms[a] = Handle
  /\ communicators \in Seq(Seq(App)) /\ Len(communicators) >= 3
  /\ DOMAIN messages = Handle /\ \A h \in Handle : IsFiniteSet(messages[h])
  /\ DOMAIN todo = Handle
  /\ locked \subseteq Handle

\* A call, or a request, is about a communicator the server has, and a group
\* is part of it.
Fits(op) ==
  /\ op.comm \in Handle \ {1}
  /\ op.comm < Len(communicators)
  /\ op.kind = "group" => Elements(op.group) \subseteq Elements(communicators[op.comm + 1])

\* A process in a call has the communicator of the call.
InCall(a) ==
  phase[a] \in {"waiting", "local"} =>
    at[a] \in 1 .. Len(script) /\ Known(a, script[at[a]].comm)

Scripted == /\ \A i \in 1 .. Len(script) : Fits(script[i])
            /\ \A a \in App : InCall(a)

\* Process a has rank i in communicator h of the server's list.
HasRank(a, h, i) ==
  /\ h < Len(communicators)
  /\ i \in 1 .. Len(communicators[h + 1])
  /\ communicators[h + 1][i] = a

\* What process a has in its table for h is what the server has.
InTable(a, h) ==
  Known(a, h) =>
    /\ h = 0 \/ (3 <= h /\ h < MaxComms)
    /\ comms[a][h].dist.members = communicators[h + 1]
    /\ HasRank(a, h, comms[a][h].rank)

Tables == \A a \in App : \A h \in Handle \ {1} :
            InTable(a, h) /\ (h = 0 => Known(a, h))

\* The request q is the one its process waits for, unanswered.
Asks(q) ==
  /\ phase[q.src] = "waiting"
  /\ replies[q.src] = << >>
  /\ q.kind = script[at[q.src]].kind
  /\ q.comm = script[at[q.src]].comm
  /\ q.rank = comms[q.src][q.comm].rank

RequestGood(q) ==
  /\ q.src \in App
  /\ Fits(q)
  /\ HasRank(q.src, q.comm, q.rank)
  /\ q.kind \in Kind /\ q.group \in Seq(App)

\* The part o of an operation answers the request q.
Serves(o, q) == o.kind = "split" => q.color = o.color

\* The requests in for h that are not answered.
Unanswered(h) == { q \in messages[h] : h \in locked => \E o \in todo[h] : Serves(o, q) }

OneRequest ==
  /\ \A q \in requests : RequestGood(q) /\ Asks(q)
  /\ \A p, q \in requests : p.src = q.src => p = q
  /\ \A h \in Handle : \A q \in messages[h] : RequestGood(q) /\ q.comm = h
  /\ \A h \in Handle : \A p, q \in messages[h] : p.rank = q.rank => p = q
  /\ \A h \in Handle : \A q \in Unanswered(h) : Asks(q)
  /\ \A p \in requests : \A h \in Handle : \A q \in Unanswered(h) : p.src # q.src

\* An operation that is processed is asked for by all members, and its parts
\* are different.
Operation(h) ==
  /\ h < Len(communicators)
  /\ Cardinality(messages[h]) = Len(communicators[h + 1])
  /\ \A o \in todo[h] :
       /\ o.kind \in Kind
       /\ \A q \in messages[h] : q.kind = o.kind
       /\ o.kind = "group" => /\ o.group \in Seq(App)
                              /\ Elements(o.group) \subseteq Elements(communicators[h + 1])
       /\ \A p \in todo[h] :
            p = o \/ (o.kind = "split" /\ p.kind = "split" /\ p.color # o.color)

ServerGood == \A h \in Handle : IF h \in locked THEN Operation(h) ELSE todo[h] = {}

\* The reply r brings a no communicator, or one that the server has by that
\* number: with those members, a among them, or as a duplicate.
Good(a, r) ==
  r.newComm # -1 =>
    /\ r.newComm \in Nat
    /\ 3 <= r.newComm /\ r.newComm < Len(communicators)
    /\ r.type # "idle"
    /\ IF r.kind = "dup"
       THEN communicators[r.newComm + 1] = communicators[r.comm + 1]
       ELSE communicators[r.newComm + 1] = r.members /\ HasRank(a, r.newComm, r.rank)

\* The reply r is to the call that a is in.
Answers(a, r) ==
  /\ r.kind = script[at[a]].kind
  /\ r.kind = "dup" => r.comm = script[at[a]].comm

RepliesGood ==
  \A a \in App :
    replies[a] # << >> => /\ phase[a] = "waiting"
                          /\ \E r : replies[a] = <<r>> /\ Good(a, r) /\ Answers(a, r)

LocalGood ==
  \A a \in App : /\ phase[a] # "failed"
                 /\ phase[a] = "local" => Good(a, reply[a]) /\ Answers(a, reply[a])

\* Member b of communicator n has it, or is in the call that makes it.
Reached(b, n) ==
  \/ Known(b, n)
  \/ replies[b] # << >> /\ Head(replies[b]).newComm = n
  \/ phase[b] = "local" /\ reply[b].newComm = n

MembersReached ==
  \A n \in Handle : \A b \in App :
    /\ 3 <= n /\ n < MaxComms /\ n < Len(communicators)
    /\ b \in Elements(communicators[n + 1])
    => Reached(b, n)

IInv == /\ Shape /\ Scripted /\ Tables
        /\ OneRequest /\ ServerGood
        /\ RepliesGood /\ LocalGood /\ MembersReached

-----------------------------------------------------------------------------
(* Lemmas *)

LEMMA HandleLemma == Handle \subseteq Nat
BY DEF Handle

\* What it takes to be a communicator of the list stays true of a longer one.
LEMMA GrowLemma ==
  ASSUME communicators \in Seq(Seq(App)), communicators' \in Seq(Seq(App)),
         Len(communicators') >= Len(communicators),
         \A i \in 1 .. Len(communicators) : communicators'[i] = communicators[i],
         NEW h \in Nat, h < Len(communicators)
  PROVE  h < Len(communicators') /\ communicators'[h + 1] = communicators[h + 1]
<1>1. Len(communicators) \in Nat /\ Len(communicators') \in Nat
  BY LenProperties
<1>. QED  BY <1>1

\* The rank of a member is its place.
LEMMA RankLemma ==
  ASSUME NEW mem \in Seq(App), NEW a \in Elements(mem)
  PROVE  RankIn(mem, a) \in 1 .. Len(mem) /\ mem[RankIn(mem, a)] = a
<1>1. DOMAIN mem = 1 .. Len(mem)
  BY LenProperties
<1>. QED  BY <1>1 DEF Elements, RankIn

LEMMA CountTo ==
  ASSUME NEW n, n \in Nat
  PROVE  IsFiniteSet(1 .. n) /\ Cardinality(1 .. n) = n
BY FS_Interval

\* As many requests as members, each of another rank: each member has sent one.
LEMMA EachOneLemma ==
  ASSUME NEW M, IsFiniteSet(M), NEW mem \in Seq(App), Cardinality(M) = Len(mem),
         \A q \in M : q.rank \in 1 .. Len(mem) /\ mem[q.rank] = q.src,
         \A p, q \in M : p.rank = q.rank => p = q,
         NEW a \in Elements(mem)
  PROVE  \E q \in M : q.src = a
<1> DEFINE R == { q.rank : q \in M }
           f == [q \in M |-> q.rank]
<1>1. /\ Len(mem) \in Nat
      /\ DOMAIN mem = 1 .. Len(mem)
  BY LenProperties
<1>2. f \in Bijection(M, R)
  <2>1. f \in [M -> R]
    OBVIOUS
  <2>2. \A p, q \in M : f[p] = f[q] => p = q
    OBVIOUS
  <2>3. \A r \in R : \E q \in M : f[q] = r
    OBVIOUS
  <2> HIDE DEF f, R
  <2>. QED  BY <2>1, <2>2, <2>3, Fun_IsBij
<1>3. IsFiniteSet(R) /\ Cardinality(R) = Cardinality(M)
  <2> HIDE DEF f, R
  <2>1. ExistsBijection(M, R)
    BY <1>2 DEF ExistsBijection
  <2>. QED  BY <2>1, FS_Bijection
<1>4. IsFiniteSet(1 .. Len(mem)) /\ Cardinality(1 .. Len(mem)) = Len(mem)
  BY <1>1, CountTo
<1>5. R \subseteq 1 .. Len(mem)
  OBVIOUS
<1>6. R = 1 .. Len(mem)
  <2> HIDE DEF R
  <2>. QED  BY <1>3, <1>4, <1>5, FS_Subset
<1>. QED  BY <1>1, <1>6 DEF Elements

\* When all members have sent their request, each member has.
LEMMA AllInLemma ==
  ASSUME IInv, NEW h \in Handle, Operation(h), NEW a \in Elements(communicators[h + 1])
  PROVE  \E q \in messages[h] : q.src = a
<1>1. IsFiniteSet(messages[h]) /\ h \in Nat
  BY HandleLemma DEF IInv, Shape
<1>2. communicators[h + 1] \in Seq(App)
  BY <1>1, ElementOfSeq DEF Operation, IInv, Shape
<1>3. \A q \in messages[h] : /\ q.rank \in 1 .. Len(communicators[h + 1])
                            /\ communicators[h + 1][q.rank] = q.src
  BY DEF IInv, OneRequest, RequestGood, HasRank
<1>4. \A p, q \in messages[h] : p.rank = q.rank => p = q
  BY DEF IInv, OneRequest
<1>5. Cardinality(messages[h]) = Len(communicators[h + 1])
  BY DEF Operation
<1>. QED  BY <1>1, <1>2, <1>3, <1>4, <1>5, EachOneLemma

\* What a process has in its table.
LEMMA TableLemma ==
  ASSUME IInv, NEW a \in App, NEW h \in Handle \ {1}, Known(a, h)
  PROVE  /\ h = 0 \/ (3 <= h /\ h < MaxComms)
         /\ h < Len(communicators)
         /\ comms[a][h].dist.members = communicators[h + 1]
         /\ HasRank(a, h, comms[a][h].rank)
<1>1. InTable(a, h)
  BY DEF IInv, Tables
<1>. QED  BY <1>1 DEF InTable, HasRank

LEMMA InitStep == Init => IInv
<1> SUFFICES ASSUME Init PROVE IInv
  OBVIOUS
<1>1. /\ communicators = <<World, << >>, << >>>>
      /\ script = << >>
      /\ \A a \in App : phase[a] = "running" /\ replies[a] = << >>
      /\ requests = {} /\ locked = {}
      /\ \A h \in Handle : messages[h] = {} /\ todo[h] = {}
  BY DEF Init
<1>2. /\ communicators \in Seq(Seq(App))
      /\ Len(communicators) = 3
      /\ communicators[1] = World
  BY <1>1, WorldAssumption
<1>3. DOMAIN comms = App /\ \A a \in App : DOMAIN comms[a] = Handle
  BY DEF Init
<1>4. \A a \in App : \A h \in Handle \ {1} :
        /\ Known(a, h) <=> h = 0
        /\ h = 0 => comms[a][h].dist.members = World /\ comms[a][h].rank = RankIn(World, a)
  <2> SUFFICES ASSUME NEW a \in App, NEW h \in Handle \ {1}
               PROVE  /\ Known(a, h) <=> h = 0
                      /\ h = 0 => /\ comms[a][h].dist.members = World
                                  /\ comms[a][h].rank = RankIn(World, a)
    OBVIOUS
  <2> DEFINE e == Entry(World, RankIn(World, a), Distribution(World).localRanks[RankIn(World, a)],
                        Cardinality({ b \in App : Home[b] = Home[a] }))
  <2>1. comms[a][h] = IF h = 0 THEN e ELSE None
    BY DEF Init, InitialEntry
  <2>2. e # None /\ e.dist.members = World /\ e.rank = RankIn(World, a)
    BY DEF Entry, None, Distribution
  <2> HIDE DEF e
  <2>. QED  BY <2>1, <2>2 DEF Known
<1>5. Shape
  BY <1>1, <1>2, <1>3, FS_EmptySet DEF Init, Shape
<1>6. Tables
  <2> SUFFICES ASSUME NEW a \in App
               PROVE  \A h \in Handle \ {1} : InTable(a, h) /\ (h = 0 => Known(a, h))
    BY DEF Tables
  <2>1. a \in Elements(World)
    BY WorldAssumption DEF Elements
  <2>2. RankIn(World, a) \in 1 .. Len(World) /\ World[RankIn(World, a)] = a
    BY <2>1, WorldAssumption, RankLemma
  <2>. QED  BY <1>2, <1>4, <2>2 DEF InTable, HasRank
<1>. QED
  BY <1>1, <1>2, <1>5, <1>6, HandleLemma
  DEF IInv, Scripted, InCall, OneRequest, Unanswered, ServerGood, RepliesGood, LocalGood, MembersReached

-----------------------------------------------------------------------------
(* Steps of a process *)

\* Process a sends the request of call op, the i-th of the program.
LEMMA AskStep ==
  ASSUME IInv, NEW a \in App, NEW i, NEW op, phase[a] = "running", Ask(a, i, op),
         script' \in Seq(Call), Len(script') >= Len(script),
         \A j \in 1 .. Len(script) : script'[j] = script[j],
         \A j \in 1 .. Len(script') : Fits(script'[j]),
         i \in 1 .. Len(script'), script'[i] = op, Known(a, op.comm)
  PROVE  IInv'
<1> PICK n : n = RequestOf(a, op)
  OBVIOUS
<1>1. /\ requests' = requests \cup {n}
      /\ at' = [at EXCEPT ![a] = i]
      /\ phase' = [phase EXCEPT ![a] = "waiting"]
      /\ UNCHANGED <<reply, local, comms, replies, communicators, messages, locked, todo>>
  BY DEF Ask, serverVars
<1>2. Shape'
  BY <1>1 DEF IInv, Shape
<1>3. /\ phase'[a] = "waiting" /\ at'[a] = i
      /\ \A b \in App \ {a} : phase'[b] = phase[b] /\ at'[b] = at[b]
  BY <1>1 DEF IInv, Shape
<1>4. \A b \in App \ {a} :
        phase[b] \in {"waiting", "local"} => script'[at'[b]] = script[at[b]]
  BY <1>3 DEF IInv, Scripted, InCall
<1>5. Scripted'
  <2>1. Len(script) \in Nat /\ Len(script') \in Nat
    BY LenProperties DEF IInv, Shape
  <2>2. \A b \in App : InCall(b)'
    BY <1>1, <1>3, <1>4, <2>1 DEF IInv, Scripted, InCall, Known
  <2>3. \A j \in 1 .. Len(script') : Fits(script[j])'
    BY <1>1 DEF Fits
  <2>. QED  BY <2>2, <2>3 DEF Scripted
<1>6. Tables'
  BY <1>1 DEF IInv, Tables, InTable, HasRank, Known
<1>7. replies[a] = << >> /\ (\A q \in requests : q.src # a)
      /\ \A h \in Handle : \A q \in Unanswered(h) : q.src # a
  BY DEF IInv, RepliesGood, OneRequest, Asks
<1>8. n.src = a /\ n.comm = op.comm /\ n.kind = op.kind /\ n.rank = comms[a][op.comm].rank
      /\ n.group = op.group
  BY DEF RequestOf
<1>9. RequestGood(n)'
  <2>1. Fits(op) /\ op \in Call
    BY ElementOfSeq
  <2>2. op.group \in Seq(App)
    <3>1. op.group \in Groups \cup {NoGroup}
      BY <2>1 DEF Call
    <3>2. << >> \in Seq(App)
      OBVIOUS
    <3>. QED  BY <3>1, <3>2, ArgumentAssumption DEF NoGroup
  <2>3. op.kind \in Kind
    BY <2>1 DEF Call
  <2>4. Fits(n)
    BY <1>8, <2>1 DEF Fits
  <2>5. HasRank(a, op.comm, comms[a][op.comm].rank)
    BY <2>1, TableLemma DEF Fits
  <2>. QED  BY <1>1, <1>8, <2>2, <2>4, <2>5, <2>3 DEF RequestGood, Fits, HasRank
<1>10. Asks(n)'
  <2>. QED  BY <1>1, <1>3, <1>7, <1>8 DEF Asks
<1>11. \A q : q.src \in App \ {a} /\ Asks(q) => Asks(q)'
  BY <1>1, <1>3, <1>4 DEF Asks
<1>12. \A q : RequestGood(q) => RequestGood(q)'
  BY <1>1 DEF RequestGood, Fits, HasRank
<1>13. \A h \in Handle : Unanswered(h)' = Unanswered(h)
  BY <1>1 DEF Unanswered
<1>14. OneRequest'
  <2>1. \A h \in Handle : Unanswered(h) \subseteq messages[h]
    BY DEF Unanswered
  <2>2. \A q \in requests' : RequestGood(q)' /\ Asks(q)'
    BY <1>1, <1>7, <1>9, <1>10, <1>11, <1>12 DEF IInv, OneRequest, RequestGood
  <2>3. \A p, q \in requests' : p.src = q.src => p = q
    BY <1>1, <1>7, <1>8 DEF IInv, OneRequest
  <2>4. \A h \in Handle : \A q \in messages'[h] : RequestGood(q)' /\ q.comm = h
    BY <1>1, <1>12 DEF IInv, OneRequest
  <2>5. \A h \in Handle : \A p, q \in messages'[h] : p.rank = q.rank => p = q
    BY <1>1 DEF IInv, OneRequest
  <2>6. \A h \in Handle : \A q \in Unanswered(h)' : Asks(q)'
    BY <1>7, <1>11, <1>13, <2>1 DEF IInv, OneRequest, RequestGood
  <2>7. \A p \in requests' : \A h \in Handle : \A q \in Unanswered(h)' : p.src # q.src
    BY <1>1, <1>7, <1>8, <1>13 DEF IInv, OneRequest
  <2>. QED  BY <2>2, <2>3, <2>4, <2>5, <2>6, <2>7 DEF OneRequest
<1>15. ServerGood'
  BY <1>1 DEF IInv, ServerGood, Operation
<1>16. \A b \in App \ {a} : \A r : /\ phase[b] \in {"waiting", "local"}
                                   /\ Good(b, r) /\ Answers(b, r)
                                   => Good(b, r)' /\ Answers(b, r)'
  BY <1>1, <1>4 DEF Good, Answers, HasRank
<1>17. RepliesGood' /\ LocalGood'
  BY <1>1, <1>3, <1>7, <1>16 DEF IInv, RepliesGood, LocalGood
<1>18. MembersReached'
  BY <1>1, <1>3 DEF IInv, MembersReached, Reached, Known
<1>. QED
  BY <1>2, <1>5, <1>6, <1>14, <1>15, <1>17, <1>18 DEF IInv

LEMMA CallFirstStep ==
  ASSUME IInv, NEW a \in App, NEW h \in Handle, CallFirst(a, h)
  PROVE  IInv'
<1>1. PICK op \in Calls(a, h) : /\ script' = Append(script, op)
                                /\ Ask(a, Len(script) + 1, op)
  BY DEF CallFirst
<1>2. phase[a] = "running" /\ h # 1 /\ Known(a, h)
  BY DEF CallFirst, Known
<1>3. op \in Call /\ op.comm = h
  BY <1>1, ArgumentAssumption DEF Calls, Call, Kind
<1>4. Fits(op)
  <2>1. h < Len(communicators) /\ comms[a][h].dist.members = communicators[h + 1]
    BY <1>2, TableLemma
  <2>2. op.kind = "group" => Elements(op.group) \subseteq Elements(comms[a][h].dist.members)
    BY <1>1 DEF Calls
  <2>. QED  BY <1>2, <1>3, <2>1, <2>2 DEF Fits
<1>5. /\ script' \in Seq(Call)
      /\ Len(script') = Len(script) + 1
      /\ Len(script) \in Nat
      /\ \A j \in 1 .. Len(script) : script'[j] = script[j]
      /\ script'[Len(script) + 1] = op
  BY <1>1, <1>3, AppendProperties, LenProperties DEF IInv, Shape
<1>6. \A j \in 1 .. Len(script') : Fits(script'[j])
  BY <1>4, <1>5 DEF IInv, Scripted
<1>. QED  BY <1>1, <1>2, <1>3, <1>5, <1>6, AskStep

LEMMA CallNextStep ==
  ASSUME IInv, NEW a \in App, CallNext(a)
  PROVE  IInv'
<1>1. PICK i \in Ahead(a) : Ask(a, i, script[i])
  BY DEF CallNext
<1>2. phase[a] = "running" /\ script' = script
  BY DEF CallNext
<1>3. Len(script) \in Nat /\ i \in 1 .. Len(script) /\ Known(a, script[i].comm)
  BY <1>1, LenProperties DEF Ahead, Known, IInv, Shape
<1>4. script' \in Seq(Call) /\ \A j \in 1 .. Len(script') : Fits(script'[j])
  BY <1>2 DEF IInv, Shape, Scripted
<1>5. PICK op : op = script[i]
  OBVIOUS
<1>. QED  BY <1>1, <1>2, <1>3, <1>4, <1>5, AskStep

\* A process takes its reply: it is to the call it is in.
LEMMA ReceiveStep ==
  ASSUME IInv, NEW a \in App, ReceiveReply(a)
  PROVE  IInv'
<1>1. PICK r : replies[a] = <<r>> /\ Good(a, r) /\ Answers(a, r)
  BY DEF ReceiveReply, IInv, RepliesGood
<1>2. Head(replies[a]) = r /\ Tail(replies[a]) = << >>
  BY <1>1
<1>3. /\ phase[a] = "waiting"
      /\ reply' = [reply EXCEPT ![a] = r]
      /\ replies' = [replies EXCEPT ![a] = << >>]
      /\ UNCHANGED <<script, at, comms, requests, communicators, messages, locked, todo>>
  BY <1>2 DEF ReceiveReply, serverVars
<1>4. PICK p \in {"running", "local"} :
        /\ phase' = [phase EXCEPT ![a] = p]
        /\ p = "running" => r.type = "idle"
  <2>1. r.kind = script[at[a]].kind
    BY <1>1 DEF Answers
  <2>. QED  BY <1>2, <2>1 DEF ReceiveReply, Expected, IdleReply
<1>5. /\ phase'[a] = p /\ reply'[a] = r /\ replies'[a] = << >>
      /\ \A b \in App \ {a} : phase'[b] = phase[b] /\ reply'[b] = reply[b] /\ replies'[b] = replies[b]
  BY <1>3, <1>4 DEF IInv, Shape
<1>6. /\ \A q \in requests : q.src # a
      /\ \A h \in Handle : \A q \in Unanswered(h) : q.src # a
  BY <1>1 DEF IInv, OneRequest, Asks
<1>7. Shape'
  BY <1>3, <1>4 DEF IInv, Shape
<1>8. Scripted' /\ Tables' /\ ServerGood'
  <2>1. Tables'
    BY <1>3 DEF IInv, Tables, InTable, HasRank, Known
  <2>2. ServerGood'
    BY <1>3 DEF IInv, ServerGood, Operation
  <2>3. \A b \in App : InCall(b)'
    BY <1>3, <1>5 DEF IInv, Scripted, InCall, Known
  <2>4. \A i \in 1 .. Len(script) : Fits(script[i])'
    BY <1>3 DEF IInv, Scripted, Fits
  <2>. QED  BY <1>3, <2>1, <2>3, <2>4, <2>2 DEF Scripted
<1>9. \A q : RequestGood(q) => RequestGood(q)'
  BY <1>3 DEF RequestGood, Fits, HasRank
<1>10. \A q : q.src \in App \ {a} /\ Asks(q) => Asks(q)'
  BY <1>3, <1>5 DEF Asks
<1>11. \A h \in Handle : Unanswered(h)' = Unanswered(h) /\ Unanswered(h) \subseteq messages[h]
  BY <1>3 DEF Unanswered
<1>12. OneRequest'
  BY <1>3, <1>6, <1>9, <1>10, <1>11 DEF IInv, OneRequest, RequestGood
<1>13. \A b, x : Good(b, x) /\ Answers(b, x) => Good(b, x)' /\ Answers(b, x)'
  BY <1>3 DEF Good, Answers, HasRank
<1>14. RepliesGood' /\ LocalGood'
  BY <1>1, <1>4, <1>5, <1>13 DEF IInv, RepliesGood, LocalGood
<1>15. MembersReached'
  <2> SUFFICES ASSUME NEW n \in Handle, NEW b \in App, 3 <= n, Reached(b, n)
               PROVE  Reached(b, n)'
    BY <1>3 DEF IInv, MembersReached
  <2>1. CASE b = a
    <3>1. n # -1 /\ n \in Nat
      BY HandleLemma
    <3>2. Known(a, n) \/ r.newComm = n
      BY <1>2, <1>3, <2>1 DEF Reached
    <3>3. r.newComm = n => p = "local"
      BY <1>1, <1>4, <3>1 DEF Good
    <3>. QED  BY <1>3, <1>5, <2>1, <3>2, <3>3 DEF Reached, Known
  <2>2. CASE b # a
    BY <1>3, <1>5, <2>2 DEF Reached, Known
  <2>. QED  BY <2>1, <2>2
<1>. QED
  BY <1>7, <1>8, <1>12, <1>14, <1>15 DEF IInv

\* A process enters the communicator of its reply in its table.
LEMMA CreateStep ==
  ASSUME IInv, NEW a \in App, CreateCommunicator(a)
  PROVE  IInv'
<1> PICK r, op : r = reply[a] /\ op = script[at[a]]
  OBVIOUS
<1> DEFINE h == r.newComm
           c == comms[a][op.comm]
<1>1. /\ phase[a] = "local"
      /\ UNCHANGED <<script, at, reply, replies, requests, communicators, messages, locked, todo>>
      /\ phase' = [phase EXCEPT ![a] = "running"]
  BY DEF CreateCommunicator, serverVars
<1>2. /\ phase'[a] = "running"
      /\ \A b \in App \ {a} : phase'[b] = phase[b]
  BY <1>1 DEF IInv, Shape
<1>3. Good(a, r) /\ Answers(a, r)
  BY <1>1 DEF IInv, LocalGood
<1>4. op.comm \in Handle \ {1} /\ Known(a, op.comm)
  BY <1>1 DEF IInv, Scripted, InCall, Fits
<1>5. PICK e : /\ \/ h = -1 /\ UNCHANGED comms
                  \/ h # -1 /\ AddCommunicator(a, h, e)
               /\ h # -1 /\ r.kind = "dup" => e = c
               /\ h # -1 /\ r.kind # "dup" => /\ e.dist.members = r.members
                                              /\ e.rank = r.rank
                                              /\ e # None
  <2> DEFINE e == NewEntry(a, op, c)
  <2>1. (h # -1 /\ AddCommunicator(a, h, e)) \/ (h = -1 /\ UNCHANGED comms)
    BY DEF CreateCommunicator, Joins
  <2>2. r.kind = op.kind
    BY <1>3 DEF Answers
  <2>3. r.kind = "dup" => e = c
    BY <2>2 DEF NewEntry
  <2>4. r.kind # "dup" => e.dist.members = r.members /\ e.rank = r.rank /\ e # None
    BY <2>2 DEF NewEntry, Entry, Distribution, None
  <2>. QED  BY <2>1, <2>3, <2>4
<1>6. h # -1 => /\ e.dist.members = communicators[h + 1]
                /\ HasRank(a, h, e.rank)
                /\ e # None
                /\ h \in Nat /\ 3 <= h
  <2> SUFFICES ASSUME h # -1 PROVE /\ e.dist.members = communicators[h + 1]
                                   /\ HasRank(a, h, e.rank)
                                   /\ e # None
                                   /\ h \in Nat /\ 3 <= h
    OBVIOUS
  <2>1. h \in Nat /\ 3 <= h /\ h < Len(communicators)
    BY <1>3 DEF Good
  <2>2. CASE r.kind # "dup"
    BY <1>3, <1>5, <2>1, <2>2 DEF Good
  <2>3. CASE r.kind = "dup"
    <3>1. e = c /\ r.comm = op.comm
      BY <1>3, <1>5, <2>3 DEF Answers
    <3>2. communicators[h + 1] = communicators[op.comm + 1]
      BY <1>3, <2>3, <3>1 DEF Good
    <3>3. /\ c.dist.members = communicators[op.comm + 1]
          /\ HasRank(a, op.comm, c.rank)
      BY <1>4, TableLemma
    <3>4. c # None
      BY <1>4 DEF Known
    <3> HIDE DEF h, c
    <3>. QED  BY <2>1, <3>1, <3>2, <3>3, <3>4 DEF HasRank
  <2>. QED  BY <2>2, <2>3
<1> HIDE DEF h, c
<1>7. /\ \A b \in App \ {a} : comms'[b] = comms[b]
      /\ \A g \in Handle : Known(a, g) => comms'[a][g] = comms[a][g]
      /\ \A g \in Handle : ~ Known(a, g) /\ Known(a, g)' =>
           g = h /\ h # -1 /\ h < MaxComms /\ comms'[a][g] = e
      /\ h \in Handle /\ h < MaxComms => Known(a, h)'
      /\ DOMAIN comms' = App /\ \A b \in App : DOMAIN comms'[b] = Handle
  <2>1. CASE UNCHANGED comms /\ ~ (h \in Handle /\ h < MaxComms /\ ~ Known(a, h))
    BY <2>1 DEF Known, IInv, Shape
  <2>2. CASE /\ h # -1 /\ h < MaxComms /\ comms[a][h] = None
             /\ comms' = [comms EXCEPT ![a][h] = e]
    BY <1>6, <2>2 DEF Known, IInv, Shape
  <2>3. \A g \in Handle : g # -1
    BY HandleLemma
  <2>. QED  BY <1>5, <2>1, <2>2, <2>3 DEF AddCommunicator, Known
<1>8. \A b \in App, g \in Handle : Known(b, g) => Known(b, g)' /\ comms'[b][g] = comms[b][g]
  BY <1>7 DEF Known
<1>9. Shape'
  BY <1>1, <1>7 DEF IInv, Shape
<1>10. Scripted'
  <2>1. \A b \in App : InCall(b)'
    <3> SUFFICES ASSUME NEW b \in App, phase'[b] \in {"waiting", "local"}
                 PROVE  at[b] \in 1 .. Len(script) /\ Known(b, script[at[b]].comm)'
      BY <1>1 DEF InCall, Known
    <3>1. b # a /\ phase[b] \in {"waiting", "local"}
      BY <1>2
    <3>2. InCall(b)
      BY DEF IInv, Scripted
    <3>. QED  BY <1>1, <1>7, <3>1, <3>2 DEF InCall, Known
  <2>2. \A i \in 1 .. Len(script) : Fits(script[i])'
    BY <1>1 DEF IInv, Scripted, Fits
  <2>. QED  BY <1>1, <2>1, <2>2 DEF Scripted
<1>11. \A b, g, i : HasRank(b, g, i) => HasRank(b, g, i)'
  BY <1>1 DEF HasRank
<1>12. Tables'
  <2> SUFFICES ASSUME NEW b \in App, NEW g \in Handle \ {1}
               PROVE  InTable(b, g)' /\ (g = 0 => Known(b, g)')
    BY DEF Tables
  <2>1. CASE Known(b, g)
    <3>1. InTable(b, g)'
      BY <1>1, <1>8, <1>11, <2>1, TableLemma DEF InTable
    <3>. QED  BY <1>8, <2>1, <3>1
  <2>2. CASE ~ Known(b, g) /\ Known(b, g)'
    <3>1. b = a
      BY <1>7, <2>2 DEF Known
    <3>. QED  BY <1>1, <1>6, <1>7, <1>11, <2>2, <3>1 DEF InTable, IInv, Tables
  <2>3. CASE ~ Known(b, g) /\ ~ Known(b, g)'
    BY <2>3 DEF InTable, IInv, Tables
  <2>. QED  BY <2>1, <2>2, <2>3
<1>13. /\ \A q \in requests : q.src # a
       /\ \A g \in Handle : \A q \in Unanswered(g) : q.src # a
  BY <1>1 DEF IInv, OneRequest, Asks
<1>14. \A q : RequestGood(q) => RequestGood(q)'
  BY <1>1 DEF RequestGood, Fits, HasRank
<1>15. \A q : q.src \in App \ {a} /\ Asks(q) => Asks(q)'
  BY <1>1, <1>2, <1>7 DEF Asks
<1>16. \A g \in Handle : Unanswered(g)' = Unanswered(g) /\ Unanswered(g) \subseteq messages[g]
  BY <1>1 DEF Unanswered
<1>17. OneRequest'
  BY <1>1, <1>13, <1>14, <1>15, <1>16 DEF IInv, OneRequest, RequestGood
<1>18. ServerGood'
  BY <1>1 DEF IInv, ServerGood, Operation
<1>19. \A b, x : Good(b, x) /\ Answers(b, x) => Good(b, x)' /\ Answers(b, x)'
  BY <1>1, <1>11 DEF Good, Answers
<1>20. RepliesGood' /\ LocalGood'
  BY <1>1, <1>2, <1>19 DEF IInv, RepliesGood, LocalGood
<1>21. MembersReached'
  <2> SUFFICES ASSUME NEW n \in Handle, NEW b \in App, n < MaxComms, Reached(b, n)
               PROVE  Reached(b, n)'
    BY <1>1 DEF IInv, MembersReached
  <2>1. CASE b = a /\ r.newComm = n
    BY <1>7, <2>1 DEF Reached, h
  <2>2. CASE ~ (b = a /\ r.newComm = n)
    BY <1>1, <1>2, <1>8, <2>2 DEF Reached
  <2>. QED  BY <2>1, <2>2
<1>. QED
  BY <1>9, <1>10, <1>12, <1>17, <1>18, <1>20, <1>21 DEF IInv

-----------------------------------------------------------------------------
(* Steps of the server *)

LEMMA DeliverStep ==
  ASSUME IInv, NEW q \in requests, DeliverRequest(q)
  PROVE  IInv'
<1> PICK h : h = q.comm
  OBVIOUS
<1>1. /\ h \notin locked
      /\ requests' = requests \ {q}
      /\ UNCHANGED <<script, at, phase, reply, local, comms, replies, communicators>>
  BY DEF DeliverRequest, Unlocked, appVars
<1>2. RequestGood(q) /\ Asks(q)
  BY DEF IInv, OneRequest
<1>3. h \in Handle /\ h < Len(communicators)
  BY <1>2 DEF RequestGood, Fits
<1> DEFINE in == messages[h] \cup {q}
<1>4. \/ UNCHANGED <<messages, locked, todo>>
      \/ /\ \A p \in messages[h] : p.rank # q.rank
         /\ messages' = [messages EXCEPT ![h] = in]
         /\ \/ UNCHANGED <<locked, todo>>
            \/ /\ Cardinality(in) = Len(communicators[h + 1])
               /\ locked' = locked \cup {h}
               /\ todo' = [todo EXCEPT ![h] = Operations(in)]
  BY DEF DeliverRequest, AllIn
<1>5. Scripted' /\ Tables'
  <2>1. Scripted'
    BY <1>1 DEF IInv, Scripted, InCall, Known, Fits
  <2>2. Tables'
    BY <1>1 DEF IInv, Tables, InTable, HasRank, Known
  <2>. QED  BY <2>1, <2>2
<1>6. RepliesGood' /\ LocalGood' /\ MembersReached'
  <2>1. \A b, x : Good(b, x)' = Good(b, x) /\ Answers(b, x)' = Answers(b, x)
    BY <1>1 DEF Good, Answers, HasRank
  <2>2. \A b, n : Reached(b, n)' = Reached(b, n)
    BY <1>1 DEF Reached, Known
  <2>. QED  BY <1>1, <2>1, <2>2 DEF IInv, RepliesGood, LocalGood, MembersReached
<1>7. \A p : /\ RequestGood(p)' = RequestGood(p)
             /\ Asks(p)' = Asks(p)
  BY <1>1 DEF RequestGood, Fits, HasRank, Asks
<1>8. CASE UNCHANGED <<messages, locked, todo>>
  <2>1. Shape' /\ ServerGood'
    BY <1>1, <1>8 DEF IInv, Shape, ServerGood, Operation
  <2>2. \A g \in Handle : Unanswered(g)' = Unanswered(g)
    BY <1>8 DEF Unanswered
  <2>3. OneRequest'
    BY <1>1, <1>7, <1>8, <2>2 DEF IInv, OneRequest
  <2>. QED  BY <1>5, <1>6, <2>1, <2>3 DEF IInv
<1>9. CASE /\ \A p \in messages[h] : p.rank # q.rank
           /\ messages' = [messages EXCEPT ![h] = in]
           /\ \/ UNCHANGED <<locked, todo>>
              \/ /\ Cardinality(in) = Len(communicators[h + 1])
                 /\ locked' = locked \cup {h}
                 /\ todo' = [todo EXCEPT ![h] = Operations(in)]
  <2>1. /\ messages'[h] = in
        /\ DOMAIN messages' = Handle
        /\ \A g \in Handle \ {h} : messages'[g] = messages[g]
    BY <1>3, <1>9 DEF IInv, Shape
  <2>2. /\ DOMAIN todo' = Handle
        /\ locked' \subseteq Handle
        /\ \A g \in Handle \ {h} : (g \in locked' <=> g \in locked) /\ todo'[g] = todo[g]
    BY <1>3, <1>9 DEF IInv, Shape
  <2>3. IsFiniteSet(in)
    <3>1. IsFiniteSet(messages[h])
      BY <1>3 DEF IInv, Shape
    <3>. QED  BY <3>1, FS_AddElement
  <2>4. Shape'
    BY <1>1, <2>1, <2>2, <2>3 DEF IInv, Shape
  <2>5. \A p \in in : /\ RequestGood(p) /\ p.comm = h /\ Asks(p)
                      /\ p # q => p \in Unanswered(h) /\ p \notin requests
    <3>1. Unanswered(h) = messages[h]
      BY <1>1 DEF Unanswered
    <3>. QED  BY <1>2, <1>3, <3>1 DEF IInv, OneRequest
  <2>6. /\ \A g \in Handle \ {h} : Unanswered(g)' = Unanswered(g)
        /\ Unanswered(h)' \subseteq in
    BY <2>1, <2>2 DEF Unanswered
  <2>7. OneRequest'
    <3>1. \A p \in requests' : RequestGood(p)' /\ Asks(p)'
      BY <1>1, <1>7 DEF IInv, OneRequest
    <3>2. \A p, r \in requests' : p.src = r.src => p = r
      BY <1>1 DEF IInv, OneRequest
    <3>3. \A g \in Handle : \A p \in messages'[g] : RequestGood(p)' /\ p.comm = g
      BY <1>7, <2>1, <2>5 DEF IInv, OneRequest
    <3>4. \A g \in Handle : \A p, r \in messages'[g] : p.rank = r.rank => p = r
      BY <1>3, <1>9, <2>1 DEF IInv, OneRequest
    <3>5. \A g \in Handle : \A p \in Unanswered(g)' : Asks(p)'
      BY <1>7, <2>5, <2>6 DEF IInv, OneRequest
    <3>6. \A p \in requests' : \A g \in Handle : \A r \in Unanswered(g)' : p.src # r.src
      BY <1>1, <1>3, <2>5, <2>6 DEF IInv, OneRequest
    <3>. QED  BY <3>1, <3>2, <3>3, <3>4, <3>5, <3>6 DEF OneRequest
  <2>8. \A g \in Handle \ {h} : IF g \in locked' THEN Operation(g)' ELSE todo'[g] = {}
    BY <1>1, <2>1, <2>2 DEF IInv, ServerGood, Operation
  <2>9. IF h \in locked' THEN Operation(h)' ELSE todo'[h] = {}
    <3>1. CASE UNCHANGED <<locked, todo>>
      BY <1>1, <1>3, <3>1 DEF IInv, ServerGood
    <3>2. CASE /\ Cardinality(in) = Len(communicators[h + 1])
               /\ locked' = locked \cup {h}
               /\ todo' = [todo EXCEPT ![h] = Operations(in)]
      <4>1. todo'[h] = Operations(in)
        BY <1>3, <3>2 DEF IInv, Shape
      <4>2. PICK first : Operations(in) =
              IF \E p \in in : p.kind # first.kind \/ p.group # first.group THEN {}
              ELSE IF first.kind = "split"
              THEN { [kind |-> "split", color |-> p.color, group |-> NoGroup] : p \in in }
              ELSE { [kind |-> first.kind, color |-> 0, group |-> first.group] }
        BY DEF Operations
      <4>3. ASSUME NEW o \in Operations(in)
            PROVE  /\ o.kind \in Kind
                   /\ \A p \in in : p.kind = o.kind
                   /\ o.kind = "group" => \A p \in in : p.group = o.group
                   /\ \A p \in Operations(in) :
                        p = o \/ (o.kind = "split" /\ p.kind = "split" /\ p.color # o.color)
        <5>1. \A p \in in : p.kind = first.kind /\ p.group = first.group
          BY <4>2, <4>3
        <5>2. first.kind \in Kind
          BY <1>2, <5>1 DEF RequestGood
        <5>3. CASE first.kind = "split"
          <6>1. Operations(in) =
                  { [kind |-> "split", color |-> p.color, group |-> NoGroup] : p \in in }
            BY <4>2, <5>1, <5>3
          <6> HIDE DEF in
          <6>. QED  BY <4>3, <5>1, <5>3, <5>2, <6>1
        <5>4. CASE first.kind # "split"
          <6>1. Operations(in) = { [kind |-> first.kind, color |-> 0, group |-> first.group] }
            BY <4>2, <5>1, <5>4
          <6> HIDE DEF in
          <6>. QED  BY <4>3, <5>1, <5>4, <5>2, <6>1
        <5>. QED  BY <5>3, <5>4
      <4>4. ASSUME NEW o \in Operations(in), o.kind = "group"
            PROVE  /\ o.group \in Seq(App)
                   /\ Elements(o.group) \subseteq Elements(communicators[h + 1])
        <5>1. q.kind = o.kind /\ q.group = o.group
          <6>1. q \in in
            OBVIOUS
          <6> HIDE DEF in
          <6>. QED  BY <4>3, <4>4, <6>1
        <5>. QED  BY <1>2, <4>4, <5>1 DEF RequestGood, Fits
      <4>5. Operation(h)'
        <5> HIDE DEF in
        <5>. QED  BY <1>1, <1>3, <2>1, <3>2, <4>1, <4>3, <4>4 DEF Operation
      <4>. QED  BY <3>2, <4>5
    <3>. QED  BY <1>9, <3>1, <3>2
  <2>10. ServerGood'
    BY <2>8, <2>9 DEF ServerGood
  <2>. QED  BY <1>5, <1>6, <2>4, <2>7, <2>10 DEF IInv
<1>. QED  BY <1>4, <1>8, <1>9

LEMMA ResetStep ==
  ASSUME IInv, NEW h \in Handle, ResetMessages(h)
  PROVE  IInv'
<1>1. /\ todo[h] = {}
      /\ messages' = [messages EXCEPT ![h] = {}]
      /\ locked' = locked \ {h}
      /\ UNCHANGED <<script, at, phase, reply, local, comms, requests, replies, communicators, todo>>
  BY DEF ResetMessages, appVars
<1>2. /\ messages'[h] = {} /\ DOMAIN messages' = Handle
      /\ \A g \in Handle \ {h} : messages'[g] = messages[g]
  BY <1>1 DEF IInv, Shape
<1>3. Scripted' /\ Tables'
  <2>1. Scripted'
    BY <1>1 DEF IInv, Scripted, InCall, Known, Fits
  <2>2. Tables'
    BY <1>1 DEF IInv, Tables, InTable, HasRank, Known
  <2>. QED  BY <2>1, <2>2
<1>4. RepliesGood' /\ LocalGood' /\ MembersReached'
  <2>1. \A b, x : Good(b, x)' = Good(b, x) /\ Answers(b, x)' = Answers(b, x)
    BY <1>1 DEF Good, Answers, HasRank
  <2>2. \A b, n : Reached(b, n)' = Reached(b, n)
    BY <1>1 DEF Reached, Known
  <2>. QED  BY <1>1, <2>1, <2>2 DEF IInv, RepliesGood, LocalGood, MembersReached
<1>5. \A p : RequestGood(p)' = RequestGood(p) /\ Asks(p)' = Asks(p)
  BY <1>1 DEF RequestGood, Fits, HasRank, Asks
<1>6. Shape'
  BY <1>1, <1>2, FS_EmptySet DEF IInv, Shape
<1>7. \A g \in Handle : Unanswered(g)' \subseteq Unanswered(g)
  BY <1>1, <1>2 DEF Unanswered
<1>8. \A g \in Handle : messages'[g] \subseteq messages[g]
  BY <1>2
<1>9. OneRequest'
  BY <1>1, <1>5, <1>7, <1>8 DEF IInv, OneRequest
<1>10. ServerGood'
  <2> SUFFICES ASSUME NEW g \in Handle
               PROVE  IF g \in locked' THEN Operation(g)' ELSE todo'[g] = {}
    BY DEF ServerGood
  <2>1. IF g \in locked THEN Operation(g) ELSE todo[g] = {}
    BY DEF IInv, ServerGood
  <2>2. CASE g = h
    BY <1>1, <2>2
  <2>3. CASE g # h
    BY <1>1, <1>2, <2>1, <2>3 DEF Operation
  <2>. QED  BY <2>2, <2>3
<1>. QED  BY <1>3, <1>4, <1>6, <1>9, <1>10 DEF IInv

\* One part o of an operation on h: the processes of S, whose requests o answers,
\* get the replies f, and a communicator that is added has its members in S.
AnswersPart(h, o, S, f) ==
  /\ UNCHANGED <<script, at, phase, reply, local, comms, requests, messages, locked>>
  /\ todo' = [todo EXCEPT ![h] = @ \ {o}]
  /\ replies' = [a \in App |-> IF a \in S THEN Append(replies[a], f[a]) ELSE replies[a]]
  /\ communicators' \in Seq(Seq(App))
  /\ Len(communicators') >= Len(communicators)
  /\ \A i \in 1 .. Len(communicators) : communicators'[i] = communicators[i]
  /\ \A a \in S \cap App : /\ \E q \in messages[h] : q.src = a /\ Serves(o, q)
                           /\ Good(a, f[a])'
                           /\ f[a].kind = o.kind
                           /\ o.kind = "dup" => f[a].comm = h
  /\ \A n \in Nat :
       Len(communicators) <= n /\ n < Len(communicators') =>
         \A b \in App \cap Elements(communicators'[n + 1]) : b \in S /\ f[b].newComm = n

\* The processes that get a reply have waited for it, and those that do not are
\* not served by o.
LEMMA PartLemma ==
  ASSUME IInv, NEW h \in Handle, NEW o \in todo[h], NEW S, NEW f, AnswersPart(h, o, S, f)
  PROVE  /\ h \in locked /\ Operation(h)
         /\ \A a \in S \cap App : \E q \in Unanswered(h) : q.src = a /\ Serves(o, q)
         /\ \A a \in S \cap App : /\ phase[a] = "waiting" /\ replies[a] = << >>
                                 /\ script[at[a]].kind = o.kind
                                 /\ script[at[a]].comm = h
         /\ \A b \in App \ S : replies'[b] = replies[b]
         /\ \A a \in S \cap App : replies'[a] = <<f[a]>>
         /\ \A q \in Unanswered(h)' : ~ Serves(o, q)
         /\ \A g \in Handle : \A q \in Unanswered(g)' : q \in Unanswered(g) /\ q.src \notin S
<1> USE DEF AnswersPart
<1>1. h \in locked /\ Operation(h)
  BY DEF IInv, ServerGood
<1>2. /\ todo'[h] = todo[h] \ {o}
      /\ DOMAIN todo' = Handle
      /\ \A g \in Handle \ {h} : todo'[g] = todo[g]
  BY DEF IInv, Shape
<1>3. \A a \in S \cap App : \E q \in Unanswered(h) : q.src = a /\ Serves(o, q)
  <2> SUFFICES ASSUME NEW a \in S \cap App
               PROVE  \E q \in Unanswered(h) : q.src = a /\ Serves(o, q)
    OBVIOUS
  <2>1. PICK q \in messages[h] : q.src = a /\ Serves(o, q)
    OBVIOUS
  <2>2. q \in Unanswered(h)
    BY <2>1 DEF Unanswered
  <2>. QED  BY <2>1, <2>2
<1>4. \A a \in S \cap App : /\ phase[a] = "waiting" /\ replies[a] = << >>
                            /\ script[at[a]].kind = o.kind
                            /\ script[at[a]].comm = h
  <2> SUFFICES ASSUME NEW a \in S \cap App
               PROVE  /\ phase[a] = "waiting" /\ replies[a] = << >>
                      /\ script[at[a]].kind = o.kind
                      /\ script[at[a]].comm = h
    OBVIOUS
  <2>1. PICK q \in Unanswered(h) : q.src = a
    BY <1>3
  <2>2. q \in messages[h]
    BY <2>1 DEF Unanswered
  <2>3. Asks(q) /\ q.comm = h
    BY <2>1, <2>2 DEF IInv, OneRequest
  <2>4. q.kind = o.kind
    BY <1>1, <2>2 DEF Operation
  <2>. QED  BY <2>1, <2>3, <2>4 DEF Asks
<1>5. /\ \A b \in App \ S : replies'[b] = replies[b]
      /\ \A a \in S \cap App : replies'[a] = <<f[a]>>
  <2>1. \A a \in S \cap App : replies'[a] = Append(<< >>, f[a])
    BY <1>4
  <2>. QED  BY <2>1
<1>6. \A g \in Handle \ {h} : Unanswered(g)' = Unanswered(g)
  BY <1>2 DEF Unanswered
<1>7. Unanswered(h)' \subseteq Unanswered(h)
  BY <1>1, <1>2 DEF Unanswered
<1>8. \A q \in Unanswered(h)' : ~ Serves(o, q)
  <2> SUFFICES ASSUME NEW q \in Unanswered(h)', Serves(o, q) PROVE FALSE
    OBVIOUS
  <2>1. PICK p \in todo[h] \ {o} : Serves(p, q)
    BY <1>1, <1>2 DEF Unanswered, Serves
  <2>2. p.kind = "split" /\ o.kind = "split" /\ p.color # o.color
    BY <1>1, <2>1 DEF Operation
  <2>. QED  BY <2>1, <2>2 DEF Serves
<1>9. \A g \in Handle : \A q \in Unanswered(g)' : q \in Unanswered(g) /\ q.src \notin S
  <2> SUFFICES ASSUME NEW g \in Handle, NEW q \in Unanswered(g)'
               PROVE  q \in Unanswered(g) /\ q.src \notin S
    OBVIOUS
  <2>1. q \in Unanswered(g)
    BY <1>6, <1>7
  <2>2. q \in messages[g]
    BY <2>1 DEF Unanswered
  <2>3. Asks(q) /\ q.comm = g /\ q.src \in App
    BY <2>1, <2>2 DEF IInv, OneRequest, RequestGood
  <2>4. ASSUME q.src \in S PROVE FALSE
    <3>1. PICK p \in Unanswered(h) : p.src = q.src /\ Serves(o, p)
      BY <1>3, <2>3, <2>4
    <3>2. p \in messages[h]
      BY <3>1 DEF Unanswered
    <3>3. Asks(p) /\ p.comm = h
      BY <3>1, <3>2 DEF IInv, OneRequest
    <3>4. PICK a, i : a = q.src /\ i = at[a]
      OBVIOUS
    <3>5. /\ q.comm = script[i].comm /\ q.rank = comms[a][q.comm].rank
          /\ p.comm = script[i].comm /\ p.rank = comms[a][p.comm].rank
      BY <2>3, <3>1, <3>3, <3>4 DEF Asks
    <3>6. g = h /\ p.rank = q.rank
      BY <2>3, <3>3, <3>5
    <3>7. p = q
      BY <2>2, <3>2, <3>6 DEF IInv, OneRequest
    <3>. QED  BY <1>8, <3>1, <3>6, <3>7
  <2>. QED  BY <2>1, <2>4
<1>. QED  BY <1>1, <1>3, <1>4, <1>5, <1>8, <1>9

LEMMA AnswerStep ==
  ASSUME IInv, NEW h \in Handle, NEW o \in todo[h], NEW S, NEW f, AnswersPart(h, o, S, f)
  PROVE  IInv'
<1>1. /\ \A a \in S \cap App : \E q \in Unanswered(h) : q.src = a /\ Serves(o, q)
      /\ \A a \in S \cap App : /\ phase[a] = "waiting" /\ replies[a] = << >>
                              /\ script[at[a]].kind = o.kind
                              /\ script[at[a]].comm = h
      /\ \A b \in App \ S : replies'[b] = replies[b]
      /\ \A a \in S \cap App : replies'[a] = <<f[a]>>
      /\ \A g \in Handle : \A q \in Unanswered(g)' : q \in Unanswered(g) /\ q.src \notin S
  BY PartLemma
<1> USE DEF AnswersPart
<1>2. Len(communicators) \in Nat /\ Len(communicators') \in Nat
  BY LenProperties DEF IInv, Shape
<1>3. \A g \in Nat : g < Len(communicators) =>
        g < Len(communicators') /\ communicators'[g + 1] = communicators[g + 1]
  BY <1>2
<1>4. h \in locked /\ Operation(h)
  BY DEF IInv, ServerGood
<1>5. /\ todo'[h] = todo[h] \ {o}
      /\ DOMAIN todo' = Handle
      /\ \A g \in Handle \ {h} : todo'[g] = todo[g]
  BY DEF IInv, Shape
<1>6. \A b, g, i : g \in Nat /\ HasRank(b, g, i) => HasRank(b, g, i)'
  BY <1>3 DEF HasRank
<1>7. \A p : Fits(p) => Fits(p)'
  BY <1>3, HandleLemma DEF Fits
<1>8. Shape'
  BY <1>2, <1>5 DEF IInv, Shape
<1>9. Scripted' /\ Tables'
  <2>1. Scripted'
    <3>1. \A b \in App : InCall(b)'
      BY DEF IInv, Scripted, InCall, Known
    <3>2. \A i \in 1 .. Len(script) : Fits(script[i])'
      <4> SUFFICES ASSUME NEW i \in 1 .. Len(script) PROVE Fits(script[i])'
        OBVIOUS
      <4>1. PICK p : p = script[i]
        OBVIOUS
      <4>2. Fits(p)
        BY <4>1 DEF IInv, Scripted
      <4>3. Fits(p)'
        BY <1>7, <4>2
      <4>. QED  BY <4>1, <4>3 DEF Fits
    <3>. QED  BY <3>1, <3>2 DEF Scripted
  <2>2. Tables'
    <3> SUFFICES ASSUME NEW b \in App, NEW g \in Handle \ {1}
                 PROVE  InTable(b, g)' /\ (g = 0 => Known(b, g)')
      BY DEF Tables
    <3>1. InTable(b, g) /\ (g = 0 => Known(b, g)) /\ g \in Nat
      BY HandleLemma DEF IInv, Tables
    <3>. QED  BY <1>3, <3>1 DEF InTable, Known, HasRank
  <2>. QED  BY <2>1, <2>2
<1>10. \A q \in requests : q.src \notin S
  <2> SUFFICES ASSUME NEW q \in requests, q.src \in S PROVE FALSE
    OBVIOUS
  <2>1. q.src \in App
    BY DEF IInv, OneRequest, RequestGood
  <2>2. PICK p \in Unanswered(h) : p.src = q.src
    BY <1>1, <2>1
  <2>3. OneRequest /\ h \in Handle
    BY DEF IInv
  <2>4. \A x \in requests : \A g \in Handle : \A y \in Unanswered(g) : x.src # y.src
    BY <2>3 DEF OneRequest
  <2>. QED  BY <2>2, <2>3, <2>4
<1>11. \A q : q.src \in App \ S /\ Asks(q) => Asks(q)'
  BY <1>1 DEF Asks
<1>12. \A q : RequestGood(q) => RequestGood(q)'
  BY <1>6, <1>7, HandleLemma DEF RequestGood, Fits
<1>13. OneRequest'
  <2>1. \A q \in requests : q.src \in App
    BY DEF IInv, OneRequest, RequestGood
  <2>2. \A g \in Handle : \A q \in Unanswered(g) : q.src \in App
    BY DEF IInv, OneRequest, RequestGood, Unanswered
  <2>3. \A q \in requests' : RequestGood(q)' /\ Asks(q)'
    BY <1>10, <1>11, <1>12, <2>1 DEF IInv, OneRequest
  <2>4. \A g \in Handle : \A q \in Unanswered(g)' : Asks(q)'
    BY <1>1, <1>11, <2>2 DEF IInv, OneRequest
  <2>5. \A p \in requests' : \A g \in Handle : \A q \in Unanswered(g)' : p.src # q.src
    BY <1>1 DEF IInv, OneRequest
  <2>6. \A p, q \in requests' : p.src = q.src => p = q
    BY DEF IInv, OneRequest
  <2>7. \A g \in Handle : \A q \in messages'[g] : RequestGood(q)' /\ q.comm = g
    BY <1>12 DEF IInv, OneRequest
  <2>8. \A g \in Handle : \A p, q \in messages'[g] : p.rank = q.rank => p = q
    BY DEF IInv, OneRequest
  <2>. QED  BY <2>3, <2>4, <2>5, <2>6, <2>7, <2>8 DEF OneRequest
<1>14. ServerGood'
  <2> SUFFICES ASSUME NEW g \in Handle
               PROVE  IF g \in locked THEN Operation(g)' ELSE todo'[g] = {}
    BY DEF ServerGood
  <2>1. IF g \in locked THEN Operation(g) ELSE todo[g] = {}
    BY DEF IInv, ServerGood
  <2>2. todo'[g] \subseteq todo[g]
    BY <1>5
  <2>3. g \in Nat
    BY HandleLemma
  <2>4. Operation(g) => Operation(g)'
    BY <1>3, <2>2, <2>3 DEF Operation
  <2>. QED  BY <2>1, <2>2, <2>4
<1>15. ASSUME NEW b \in App, NEW x, phase[b] \in {"waiting", "local"},
              Good(b, x), Answers(b, x)
       PROVE  Good(b, x)' /\ Answers(b, x)'
  <2>1. PICK op : op = script[at[b]]
    OBVIOUS
  <2>2. op.comm \in Nat /\ op.comm < Len(communicators)
    BY <1>15, <2>1, HandleLemma DEF IInv, Scripted, InCall, Fits
  <2>3. x.kind = "dup" => x.comm = op.comm
    BY <1>15, <2>1 DEF Answers
  <2>4. Good(b, x)'
    BY <1>3, <1>6, <1>15, <2>2, <2>3 DEF Good
  <2>5. Answers(b, x)'
    BY <1>15 DEF Answers
  <2>. QED  BY <2>4, <2>5
<1>16. LocalGood'
  BY <1>15 DEF IInv, LocalGood
<1>17. RepliesGood'
  <2> SUFFICES ASSUME NEW b \in App, replies'[b] # << >>
               PROVE  /\ phase[b] = "waiting"
                      /\ \E r : replies'[b] = <<r>> /\ Good(b, r)' /\ Answers(b, r)'
    BY DEF RepliesGood
  <2>1. CASE b \in S
    <3>1. Answers(b, f[b])'
      BY <1>1, <2>1 DEF Answers
    <3>2. Good(b, f[b])'
      BY <2>1
    <3>3. replies'[b] = <<f[b]>> /\ phase[b] = "waiting"
      BY <1>1, <2>1
    <3>. QED  BY <3>1, <3>2, <3>3
  <2>2. CASE b \notin S
    <3>1. replies'[b] = replies[b]
      BY <1>1, <2>2
    <3>2. phase[b] = "waiting"
      BY <3>1 DEF IInv, RepliesGood
    <3>3. PICK r : replies[b] = <<r>> /\ Good(b, r) /\ Answers(b, r)
      BY <3>1 DEF IInv, RepliesGood
    <3>. QED  BY <1>15, <3>1, <3>2, <3>3
  <2>. QED  BY <2>1, <2>2
<1>18. MembersReached'
  <2> SUFFICES ASSUME NEW n \in Handle, NEW b \in App,
                      3 <= n, n < MaxComms, n < Len(communicators'),
                      b \in Elements(communicators'[n + 1])
               PROVE  Reached(b, n)'
    BY DEF MembersReached
  <2>1. n \in Nat
    BY HandleLemma
  <2>2. CASE n < Len(communicators)
    <3>1. b \in Elements(communicators[n + 1])
      BY <1>3, <2>1, <2>2
    <3>2. Reached(b, n)
      BY <2>2, <3>1 DEF IInv, MembersReached
    <3>3. replies[b] # << >> => b \notin S
      BY <1>1
    <3>. QED  BY <1>1, <3>2, <3>3 DEF Reached, Known
  <2>3. CASE Len(communicators) <= n
    <3>1. b \in S /\ f[b].newComm = n
      BY <2>1, <2>3
    <3>2. PICK r : r = f[b]
      OBVIOUS
    <3>3. replies'[b] = <<r>>
      BY <1>1, <3>1, <3>2
    <3>4. Head(<<r>>) = r /\ <<r>> # << >>
      OBVIOUS
    <3>. QED  BY <3>1, <3>2, <3>3, <3>4 DEF Reached
  <2>. QED  BY <1>2, <2>1, <2>2, <2>3
<1>. QED
  BY <1>8, <1>9, <1>13, <1>14, <1>16, <1>17, <1>18 DEF IInv

\* What the members of a part of a split are told.
SplitReplies(h, o, S, f) ==
  LET part == { q \in messages[h] : q.color = o.color } IN
  \/ /\ o.color >= 0
     /\ \E line \in Sorted(part, ColorComparator) : \E pids :
          /\ pids = [ k \in 1 .. Cardinality(part) |-> communicators[h + 1][line[k].rank] ]
          /\ S = Elements(pids)
          /\ f = [a \in App |-> Membership("split", pids, a, o.color, LocalKey(pids, a))]
          /\ communicators' = Append(communicators, pids)
  \/ /\ ~ (o.color >= 0)
     /\ S = { q.src : q \in part }
     /\ f = [a \in App |-> NoMember("split", "idle")]
     /\ UNCHANGED communicators

LEMMA SplitAnswers ==
  ASSUME IInv, NEW h \in Handle, NEW o \in todo[h], o.kind = "split",
         ProcessSplit(h, o.color), todo' = [todo EXCEPT ![h] = @ \ {o}],
         UNCHANGED <<script, at, phase, reply, local, comms, requests, messages, locked>>
  PROVE  \E S, f : AnswersPart(h, o, S, f) /\ SplitReplies(h, o, S, f)
<1> DEFINE part == { q \in messages[h] : q.color = o.color }
<1>1. h \in locked /\ Operation(h) /\ h \in Nat
  BY HandleLemma DEF IInv, ServerGood
<1>2. \A q \in part : /\ q \in messages[h] /\ Serves(o, q)
                      /\ q.src \in App
                      /\ q.rank \in 1 .. Len(communicators[h + 1])
                      /\ communicators[h + 1][q.rank] = q.src
  BY DEF Serves, IInv, OneRequest, RequestGood, HasRank
<1>3. Len(communicators) \in Nat /\ Len(communicators) >= 3
  BY LenProperties DEF IInv, Shape
<1>4. CASE o.color >= 0
  <2>1. PICK line \in Sorted(part, ColorComparator) :
          LET pids == [ k \in 1 .. Cardinality(part) |-> communicators[h + 1][line[k].rank] ]
          IN  /\ communicators' = Append(communicators, pids)
              /\ Enqueue(Elements(pids),
                         LAMBDA a : Membership("split", pids, a, o.color, LocalKey(pids, a)))
    BY <1>4 DEF ProcessSplit
  <2>2. PICK pids : pids = [ k \in 1 .. Cardinality(part) |-> communicators[h + 1][line[k].rank] ]
    OBVIOUS
  <2>3. PICK f : f = [a \in App |-> Membership("split", pids, a, o.color, LocalKey(pids, a))]
    OBVIOUS
  <2>4. communicators' = Append(communicators, pids)
    BY <2>1, <2>2
  <2>5. replies' = [a \in App |-> IF a \in Elements(pids) THEN Append(replies[a], f[a])
                                                          ELSE replies[a]]
    BY <2>1, <2>2, <2>3 DEF Enqueue
  <2>6. \A k \in 1 .. Cardinality(part) : line[k] \in part /\ pids[k] = line[k].src
    BY <1>2, <2>2 DEF Sorted
  <2>7. pids \in Seq(App)
    <3>1. IsFiniteSet(part)
      <4>1. IsFiniteSet(messages[h])
        BY DEF IInv, Shape
      <4>2. part \in SUBSET messages[h]
        BY <1>2
      <4>. QED  BY <4>1, <4>2, FS_Subset
    <3>2. Cardinality(part) \in Nat
      BY <3>1, FS_CardinalityType
    <3>3. pids \in [1 .. Cardinality(part) -> App]
      BY <1>2, <2>2, <2>6
    <3>. QED  BY <3>2, <3>3, SeqDef
  <2>8. \A a \in Elements(pids) : \E q \in messages[h] : q.src = a /\ Serves(o, q)
    BY <1>2, <2>2, <2>6 DEF Elements
  <2>9. /\ communicators' \in Seq(Seq(App))
        /\ Len(communicators') = Len(communicators) + 1
        /\ \A i \in 1 .. Len(communicators) : communicators'[i] = communicators[i]
        /\ communicators'[Len(communicators) + 1] = pids
    BY <2>4, <2>7, AppendProperties DEF IInv, Shape
  <2>10. \A a \in Elements(pids) \cap App :
           /\ f[a].kind = "split" /\ f[a].type = "active" /\ f[a].newComm = Len(communicators)
           /\ f[a].members = pids /\ f[a].rank = RankIn(pids, a)
    BY <2>3 DEF Membership, NewNumber
  <2>11. ASSUME NEW a \in Elements(pids) \cap App PROVE Good(a, f[a])'
    <3>1. PICK n, i : n = Len(communicators) /\ i = RankIn(pids, a)
      OBVIOUS
    <3>2. i \in 1 .. Len(pids) /\ pids[i] = a
      BY <2>7, <3>1, RankLemma
    <3>3. HasRank(a, n, i)'
      BY <1>3, <2>9, <3>1, <3>2 DEF HasRank
    <3>4. Len(communicators) >= 3 /\ Len(communicators) \in Nat
      BY <1>3
    <3>5. /\ f[a].kind = "split" /\ f[a].type = "active" /\ f[a].newComm = Len(communicators)
          /\ f[a].members = pids /\ f[a].rank = RankIn(pids, a)
      BY <2>10
    <3>. QED  BY <2>9, <3>1, <3>3, <3>4, <3>5 DEF Good
  <2>12. \A n \in Nat :
           Len(communicators) <= n /\ n < Len(communicators') =>
             \A b \in App \cap Elements(communicators'[n + 1]) :
               b \in Elements(pids) /\ f[b].newComm = n
    BY <1>3, <2>9, <2>10
  <2>13. AnswersPart(h, o, Elements(pids), f)
    BY <1>3, <2>5, <2>8, <2>9, <2>10, <2>11, <2>12 DEF AnswersPart
  <2>14. SplitReplies(h, o, Elements(pids), f)
    BY <1>4, <2>2, <2>3, <2>4 DEF SplitReplies
  <2>. QED  BY <2>13, <2>14
<1>5. CASE ~ (o.color >= 0)
  <2>1. PICK S, f : S = { q.src : q \in part } /\ f = [a \in App |-> NoMember("split", "idle")]
    OBVIOUS
  <2>2. UNCHANGED communicators
    BY <1>5 DEF ProcessSplit
  <2>3. replies' = [a \in App |-> IF a \in S THEN Append(replies[a], f[a]) ELSE replies[a]]
    BY <1>5, <2>1 DEF ProcessSplit, Enqueue
  <2>4. \A a \in S \cap App : f[a].newComm = -1 /\ f[a].kind = "split"
    BY <2>1 DEF NoMember
  <2>5. \A a \in S \cap App : \E q \in messages[h] : q.src = a /\ Serves(o, q)
    BY <1>2, <2>1
  <2>6. \A a \in S \cap App : Good(a, f[a])'
    BY <2>4 DEF Good
  <2>7. communicators' \in Seq(Seq(App))
    BY <2>2 DEF IInv, Shape
  <2>8. AnswersPart(h, o, S, f)
    BY <1>3, <2>2, <2>3, <2>4, <2>5, <2>6, <2>7 DEF AnswersPart
  <2>9. SplitReplies(h, o, S, f)
    BY <1>5, <2>1, <2>2 DEF SplitReplies
  <2>. QED  BY <2>8, <2>9
<1>. QED  BY <1>4, <1>5

\* What the members of a group, and those outside, are told.
GroupReplies(h, o, S, f) ==
  /\ S = Elements(o.group) \cup Elements(communicators[h + 1])
  /\ f = [a \in App |->
            IF a \in Elements(o.group) THEN Membership("group", o.group, a, -1, 0)
            ELSE NoMember("group", IF Home[a] \in { Home[b] : b \in Elements(o.group) }
                                   THEN "separatist" ELSE "idle")]
  /\ communicators' = Append(communicators, o.group)

LEMMA GroupAnswers ==
  ASSUME IInv, NEW h \in Handle, NEW o \in todo[h], o.kind = "group",
         ProcessGroup(h, o.group), todo' = [todo EXCEPT ![h] = @ \ {o}],
         UNCHANGED <<script, at, phase, reply, local, comms, requests, messages, locked>>
  PROVE  \E S, f : AnswersPart(h, o, S, f) /\ GroupReplies(h, o, S, f)
<1> PICK group, S, f :
      /\ group = o.group
      /\ S = Elements(group) \cup Elements(communicators[h + 1])
      /\ f = [a \in App |->
                IF a \in Elements(group) THEN Membership("group", group, a, -1, 0)
                ELSE NoMember("group", IF Home[a] \in { Home[b] : b \in Elements(group) }
                                       THEN "separatist" ELSE "idle")]
  OBVIOUS
<1>1. h \in locked /\ Operation(h) /\ h \in Nat
  BY HandleLemma DEF IInv, ServerGood
<1>2. group \in Seq(App) /\ Elements(group) \subseteq Elements(communicators[h + 1])
  BY <1>1 DEF Operation
<1>3. Len(communicators) \in Nat /\ Len(communicators) >= 3
  BY LenProperties DEF IInv, Shape
<1>4. communicators' = Append(communicators, group)
  BY DEF ProcessGroup
<1>5. replies' = [a \in App |-> IF a \in S THEN Append(replies[a], f[a]) ELSE replies[a]]
  BY DEF ProcessGroup, Enqueue
<1>6. /\ communicators' \in Seq(Seq(App))
      /\ Len(communicators') = Len(communicators) + 1
      /\ \A i \in 1 .. Len(communicators) : communicators'[i] = communicators[i]
      /\ communicators'[Len(communicators) + 1] = group
  BY <1>2, <1>4, AppendProperties DEF IInv, Shape
<1>7. \A a \in S : \E q \in messages[h] : q.src = a /\ Serves(o, q)
  BY <1>1, <1>2, AllInLemma DEF Serves
<1>8. \A a \in App \cap Elements(group) :
        /\ f[a].kind = "group" /\ f[a].type = "active" /\ f[a].newComm = Len(communicators)
        /\ f[a].members = group /\ f[a].rank = RankIn(group, a)
  BY DEF Membership, NewNumber
<1>9. \A a \in App \ Elements(group) : f[a].newComm = -1 /\ f[a].kind = "group"
  BY DEF NoMember
<1>10. ASSUME NEW a \in S \cap App PROVE Good(a, f[a])'
  <2>1. CASE a \in Elements(group)
    <3>1. PICK n, i : n = Len(communicators) /\ i = RankIn(group, a)
      OBVIOUS
    <3>2. i \in 1 .. Len(group) /\ group[i] = a
      BY <1>2, <2>1, <3>1, RankLemma
    <3>3. HasRank(a, n, i)'
      BY <1>3, <1>6, <3>1, <3>2 DEF HasRank
    <3>. QED  BY <1>3, <1>6, <1>8, <2>1, <3>1, <3>3 DEF Good
  <2>2. CASE a \notin Elements(group)
    BY <1>9, <2>2 DEF Good
  <2>. QED  BY <2>1, <2>2
<1>11. \A n \in Nat :
         Len(communicators) <= n /\ n < Len(communicators') =>
           \A b \in App \cap Elements(communicators'[n + 1]) : b \in S /\ f[b].newComm = n
  BY <1>3, <1>6, <1>8
<1>12. \A a \in S \cap App : f[a].kind = o.kind
  BY <1>8, <1>9
<1>13. AnswersPart(h, o, S, f)
  BY <1>3, <1>5, <1>6, <1>7, <1>10, <1>11, <1>12 DEF AnswersPart
<1>14. GroupReplies(h, o, S, f)
  BY <1>4 DEF GroupReplies
<1>. QED  BY <1>13, <1>14

\* What the members of a duplicate are told.
DupReplies(h, S, f) ==
  /\ S = Elements(communicators[h + 1])
  /\ f = [a \in App |-> [ kind |-> "dup", type |-> "active", comm |-> h, newComm |-> NewNumber,
                          color |-> -1, key |-> 0 ]]
  /\ communicators' = Append(communicators, communicators[h + 1])

LEMMA DupAnswers ==
  ASSUME IInv, NEW h \in Handle, NEW o \in todo[h], o.kind = "dup",
         ProcessDup(h), todo' = [todo EXCEPT ![h] = @ \ {o}],
         UNCHANGED <<script, at, phase, reply, local, comms, requests, messages, locked>>
  PROVE  \E S, f : AnswersPart(h, o, S, f) /\ DupReplies(h, S, f)
<1> PICK mem, f :
      /\ mem = communicators[h + 1]
      /\ f = [a \in App |-> [ kind |-> "dup", type |-> "active", comm |-> h, newComm |-> NewNumber,
                              color |-> -1, key |-> 0 ]]
  OBVIOUS
<1>1. h \in locked /\ Operation(h) /\ h \in Nat
  BY HandleLemma DEF IInv, ServerGood
<1>2. Len(communicators) \in Nat /\ Len(communicators) >= 3 /\ h < Len(communicators)
  BY <1>1, LenProperties DEF IInv, Shape, Operation
<1>3. mem \in Seq(App)
  BY <1>1, <1>2, ElementOfSeq DEF IInv, Shape
<1>4. communicators' = Append(communicators, mem)
  BY DEF ProcessDup
<1>5. replies' = [a \in App |-> IF a \in Elements(mem) THEN Append(replies[a], f[a])
                                                       ELSE replies[a]]
  BY DEF ProcessDup, Enqueue
<1>6. /\ communicators' \in Seq(Seq(App))
      /\ Len(communicators') = Len(communicators) + 1
      /\ \A i \in 1 .. Len(communicators) : communicators'[i] = communicators[i]
      /\ communicators'[Len(communicators) + 1] = mem
  BY <1>3, <1>4, AppendProperties DEF IInv, Shape
<1>7. \A a \in Elements(mem) : \E q \in messages[h] : q.src = a /\ Serves(o, q)
  BY <1>1, AllInLemma DEF Serves
<1>8. \A a \in App : /\ f[a].kind = "dup" /\ f[a].type = "active" /\ f[a].comm = h
                     /\ f[a].newComm = Len(communicators)
  BY DEF NewNumber
<1>9. ASSUME NEW a \in Elements(mem) \cap App PROVE Good(a, f[a])'
  <2>1. communicators'[h + 1] = communicators[h + 1]
    <3>1. h + 1 \in 1 .. Len(communicators)
      BY <1>1, <1>2
    <3>. QED  BY <1>6, <3>1
  <2>. QED  BY <1>2, <1>6, <1>8, <2>1 DEF Good
<1>10. \A n \in Nat :
         Len(communicators) <= n /\ n < Len(communicators') =>
           \A b \in App \cap Elements(communicators'[n + 1]) :
             b \in Elements(mem) /\ f[b].newComm = n
  BY <1>2, <1>6, <1>8
<1>11. AnswersPart(h, o, Elements(mem), f)
  BY <1>2, <1>5, <1>6, <1>7, <1>8, <1>9, <1>10 DEF AnswersPart
<1>12. DupReplies(h, Elements(mem), f)
  BY <1>4 DEF DupReplies
<1>. QED  BY <1>11, <1>12

-----------------------------------------------------------------------------
(* The theorems *)

\* A step of processRequest answers a part of an operation.
LEMMA ProcessLemma ==
  ASSUME IInv, NEW h \in Handle, ProcessRequest(h)
  PROVE  \E o \in todo[h] : \E S, f :
           /\ AnswersPart(h, o, S, f)
           /\ \/ o.kind = "split" /\ SplitReplies(h, o, S, f)
              \/ o.kind = "group" /\ GroupReplies(h, o, S, f)
              \/ o.kind = "dup" /\ DupReplies(h, S, f)
<1>1. UNCHANGED <<script, at, phase, reply, local, comms, requests, messages, locked>>
  BY DEF ProcessRequest, appVars
<1>2. PICK o \in todo[h] : /\ CASE o.kind = "split" -> ProcessSplit(h, o.color)
                                [] o.kind = "group" -> ProcessGroup(h, o.group)
                                [] OTHER -> ProcessDup(h)
                           /\ todo' = [todo EXCEPT ![h] = @ \ {o}]
  BY DEF ProcessRequest
<1>3. o.kind \in Kind
  <2>1. Operation(h)
    BY DEF IInv, ServerGood
  <2>. QED  BY <2>1 DEF Operation
<1>4. CASE o.kind = "split"
  BY <1>1, <1>2, <1>4, SplitAnswers
<1>5. CASE o.kind = "group"
  BY <1>1, <1>2, <1>5, GroupAnswers
<1>6. CASE o.kind = "dup"
  BY <1>1, <1>2, <1>6, DupAnswers
<1>. QED  BY <1>3, <1>4, <1>5, <1>6 DEF Kind

LEMMA InvariantStep == IInv /\ [Next]_vars => IInv'
<1> SUFFICES ASSUME IInv, [Next]_vars PROVE IInv'
  OBVIOUS
<1>1. ASSUME NEW h \in Handle, ProcessRequest(h) PROVE IInv'
  <2>1. PICK o \in todo[h] : \E S, f : AnswersPart(h, o, S, f)
    BY <1>1, ProcessLemma
  <2>. QED  BY <2>1, AnswerStep
<1>2. CASE Over \/ UNCHANGED vars
  <2>1. UNCHANGED <<script, at, phase, reply, local, comms, requests, replies,
                    communicators, messages, locked, todo>>
    BY <1>2 DEF Over, vars, appVars, serverVars
  <2>2. Shape' /\ ServerGood'
    BY <2>1 DEF IInv, Shape, ServerGood, Operation
  <2>3. Scripted'
    BY <2>1 DEF IInv, Scripted, Fits, InCall, Known
  <2>4. Tables'
    BY <2>1 DEF IInv, Tables, InTable, HasRank, Known
  <2>5. OneRequest'
    <3>1. \A q : RequestGood(q)' = RequestGood(q) /\ Asks(q)' = Asks(q)
      BY <2>1 DEF RequestGood, Fits, HasRank, Asks
    <3>2. \A g : Unanswered(g)' = Unanswered(g)
      BY <2>1 DEF Unanswered
    <3>. QED  BY <2>1, <3>1, <3>2 DEF IInv, OneRequest
  <2>6. RepliesGood' /\ LocalGood'
    BY <2>1 DEF IInv, RepliesGood, LocalGood, Good, Answers, HasRank
  <2>7. MembersReached'
    BY <2>1 DEF IInv, MembersReached, Reached, Known
  <2>. QED  BY <2>2, <2>3, <2>4, <2>5, <2>6, <2>7 DEF IInv
<1>. QED
  BY <1>1, <1>2, CallFirstStep, CallNextStep, ReceiveStep, CreateStep, DeliverStep, ResetStep
  DEF Next, ServerStep, ProcessStep

\* Two processes that know a communicator by the same number mean the same one,
\* with the members in the same order, and so does the server: whatever order
\* the requests reach the server in (deliverRequest), the operations are
\* numbered in (createCommunicator), and the members enter it in.
THEOREM AgreementHolds == Spec => []Agreement
<1>1. Init => IInv
  BY InitStep
<1>2. IInv /\ [Next]_vars => IInv'
  BY InvariantStep
<1>3. IInv => Agreement
  BY TableLemma DEF Agreement, HasRank
<1>. QED  BY <1>1, <1>2, <1>3, PTL DEF Spec

\* A member of a communicator that does not have it yet is still in the call
\* that makes it, so that store_message never misses the communicator.
THEOREM KnownBeforeUseHolds == Spec => []KnownBeforeUse
<1>1. Init => IInv
  BY InitStep
<1>2. IInv /\ [Next]_vars => IInv'
  BY InvariantStep
<1>3. IInv => KnownBeforeUse
  <2> SUFFICES ASSUME IInv, NEW a \in App, NEW b \in App, NEW h \in Handle \ {1},
                      Known(a, h), b \in Elements(comms[a][h].dist.members), phase[b] = "running"
               PROVE  Known(b, h)
    BY DEF KnownBeforeUse
  <2>1. CASE h = 0
    BY <2>1 DEF IInv, Tables
  <2>2. CASE h # 0
    <3>1. /\ 3 <= h /\ h < MaxComms /\ h < Len(communicators)
          /\ b \in Elements(communicators[h + 1])
      BY <2>2, TableLemma
    <3>2. Reached(b, h)
      BY <3>1 DEF IInv, MembersReached
    <3>. QED  BY <3>2 DEF Reached, IInv, RepliesGood
  <2>. QED  BY <2>1, <2>2
<1>. QED  BY <1>1, <1>2, <1>3, PTL DEF Spec

\* A process never meets the reply to another call than the one it is in: the
\* check of the opcode in messaging_comm_split_receive and its like never fails.
THEOREM ReplyMatchesRequestHolds == Spec => []ReplyMatchesRequest
<1>1. Init => IInv
  BY InitStep
<1>2. IInv /\ [Next]_vars => IInv'
  BY InvariantStep
<1>3. IInv => ReplyMatchesRequest
  BY DEF IInv, LocalGood, ReplyMatchesRequest
<1>. QED  BY <1>1, <1>2, <1>3, PTL DEF Spec

-----------------------------------------------------------------------------
(* The rounds of a communicator *)

\* Process a has the reply r to the call it is in.
Answer(a, r) ==
  \/ phase[a] = "waiting" /\ replies[a] = <<r>>
  \/ phase[a] = "local" /\ reply[a] = r

CommOf(a) == script[at[a]].comm

\* The calls on h that a has made.
Made(a, h) == { i \in 1 .. at[a] : script[i].comm = h }

\* The request of a for h is on its way, or the server still collects.
Out(a, h) ==
  \/ \E q \in requests : q.src = a /\ q.comm = h
  \/ h \notin locked /\ \E q \in messages[h] : q.src = a

\* The calls on h that a and all other members have made.
Done(a, h) == IF Out(a, h) THEN Made(a, h) \ {at[a]} ELSE Made(a, h)

Members(h) == Elements(communicators[h + 1])

\* Every member makes the same calls on a communicator, and the server processes
\* a call when all of them have made it.
SameCalls ==
  \A h \in Handle \ {1} :
    h < Len(communicators) => \A a, b \in Members(h) : Done(a, h) = Done(b, h)

\* A call on the MPI communicator of a cluster is one the server has answered.
LocalDone ==
  /\ DOMAIN local = App
  /\ \A a \in App : DOMAIN local[a] = Handle
  /\ \A a \in App : \A h \in Handle :
       local[a][h] # None =>
         /\ h # 1 /\ Known(a, h)
         /\ local[a][h].at \in Done(a, h)
         /\ local[a][h].color \in Int /\ local[a][h].key \in Int
         /\ phase[a] = "waiting" /\ h = CommOf(a) => local[a][h].at < at[a]

\* What the colour and the key of b's local call have to be, when the reply r
\* brings somebody a part of a split.
Agrees(r, b, color, key) ==
  /\ color = r.color <=> b \in Elements(r.members)
  /\ b \in Elements(r.members) => key = LocalKey(r.members, b)

\* a has the reply r to a split of h, and becomes a member of a part.
Part(a, h, r) == /\ phase[a] # "running" /\ CommOf(a) = h
                 /\ Answer(a, r) /\ r.kind = "split" /\ r.newComm # -1

\* All replies to a split, and the local calls they lead to, divide the members
\* of a cluster into the same parts; who is not answered is in none of those.
OneSplit ==
  \A a \in App : \A h \in Handle : \A r : Part(a, h, r) =>
    /\ \A b \in App :
         local[b][h] # None /\ local[b][h].at = at[a]
           => Agrees(r, b, local[b][h].color, local[b][h].key)
    /\ \A b \in App : \A s :
         phase[b] = "waiting" /\ replies[b] = <<s>> /\ CommOf(b) = h
           => Agrees(r, b, s.color, s.key)
    /\ h \in locked => \A q \in Unanswered(h) :
                         q.color # r.color /\ q.src \notin Elements(r.members)

\* Nobody has been told the colour of a part that is not made yet.
FreshColors ==
  \A h \in locked : \A q \in Unanswered(h) : q.kind = "split" /\ q.color >= 0 =>
    /\ \A b \in App : local[b][h] # None /\ local[b][h].at = at[q.src]
                        => local[b][h].color # q.color
    /\ \A b \in App : \A s :
         phase[b] = "waiting" /\ replies[b] = <<s>> /\ CommOf(b) = h
           => s.color # q.color

-----------------------------------------------------------------------------
(* Replies, requests and entries *)

Distinct(q) == \A i, j \in DOMAIN q : q[i] = q[j] => i = j

AllDistinct ==
  /\ \A i \in 1 .. Len(communicators) : Distinct(communicators[i])
  /\ \A i \in 1 .. Len(script) : script[i].kind = "group" => Distinct(script[i].group)

\* Calls are made on communicators that are in tables.
Callable == \A i \in 1 .. Len(script) :
              script[i].comm = 0 \/ (3 <= script[i].comm /\ script[i].comm < MaxComms)

\* The reply r to a says what the call of a asks for.
Exact(a, r) ==
  /\ r.color \in Int /\ r.key \in Int
  /\ r.newComm # -1 => /\ r.kind = "group" => r.members = script[at[a]].group
                       /\ r.kind = "split" => /\ r.color >= 0
                                              /\ Elements(r.members) \subseteq Members(CommOf(a))

RepliesExact == \A a \in App : \A r : Answer(a, r) => Exact(a, r)

PartOf(h, o) ==
  /\ o.kind = "group" => \A q \in messages[h] : q.group = o.group
  /\ o.kind = "split" => \E q \in messages[h] : q.color = o.color
  /\ o \in [kind : Kind, color : Int, group : Groups \cup {NoGroup}]

Typed(q) == q \in Request /\ q.group = script[at[q.src]].group

RequestsTyped ==
  /\ \A q \in requests : Typed(q)
  /\ \A h \in Handle : /\ messages[h] \subseteq Request
                       /\ \A q \in Unanswered(h) : Typed(q)
                       /\ \A o \in todo[h] : PartOf(h, o)

\* The entry c is what the server told everybody, and the place of a in the part
\* in its cluster.
EntryExact(a, c) ==
  LET mem == c.dist.members IN
  /\ c = Entry(mem, c.rank, c.localRank, c.localSize)
  /\ c.localRank = Cardinality({ j \in 1 .. c.rank : Home[mem[j]] = Home[a] })
  /\ c.localSize = Cardinality({ j \in DOMAIN mem : Home[mem[j]] = Home[a] })

EntriesExact ==
  \A a \in App : \A h \in Handle \ {1} : Known(a, h) => EntryExact(a, comms[a][h])

RanksInv ==
  /\ \A a \in App : at[a] \in 0 .. Len(script)
  /\ Len(script) <= MaxOps /\ Callable
  /\ AllDistinct /\ RequestsTyped /\ RepliesExact /\ EntriesExact
  /\ SameCalls /\ LocalDone /\ OneSplit /\ FreshColors
-----------------------------------------------------------------------------
(* Sequences in the order of a key *)

Below(S, key, x) == { y \in S : key[y] <= key[x] }

\* q has the elements of S in the order of their keys.
InKeyOrder(q, S, key) ==
  /\ q \in [1 .. Cardinality(S) -> S]
  /\ Elements(q) = S
  /\ \A i, j \in 1 .. Cardinality(S) : i < j => key[q[i]] < key[q[j]]

\* A one-to-one image is as large as the set.
LEMMA ImageLemma ==
  ASSUME NEW S, NEW T, NEW f, IsFiniteSet(S), f \in [S -> T],
         \A x, y \in S : f[x] = f[y] => x = y, \A t \in T : \E x \in S : f[x] = t
  PROVE  IsFiniteSet(T) /\ Cardinality(T) = Cardinality(S)
<1>1. f \in Bijection(S, T)
  BY Fun_IsBij
<1>2. ExistsBijection(S, T)
  BY <1>1 DEF ExistsBijection
<1>. QED  BY <1>2, FS_Bijection

\* The number of elements up to one.
LEMMA BelowLemma ==
  ASSUME NEW S, IsFiniteSet(S), NEW key \in [S -> Int], NEW x \in S
  PROVE  /\ IsFiniteSet(Below(S, key, x))
         /\ Cardinality(Below(S, key, x)) \in 1 .. Cardinality(S)
         /\ \A y \in S : key[x] < key[y] =>
              Cardinality(Below(S, key, x)) < Cardinality(Below(S, key, y))
<1>1. ASSUME NEW y \in S
      PROVE  /\ IsFiniteSet(Below(S, key, y)) /\ Cardinality(Below(S, key, y)) \in Nat
             /\ Cardinality(Below(S, key, y)) <= Cardinality(S)
  <2>1. Below(S, key, y) \in SUBSET S
    BY DEF Below
  <2>. QED  BY <2>1, FS_Subset, FS_CardinalityType
<1>2. Cardinality(Below(S, key, x)) # 0
  <2>1. x \in Below(S, key, x)
    BY DEF Below
  <2>. QED  BY <1>1, <2>1, FS_EmptySet
<1>3. ASSUME NEW y \in S, key[x] < key[y]
      PROVE  Cardinality(Below(S, key, x)) < Cardinality(Below(S, key, y))
  <2>1. Below(S, key, x) \in SUBSET Below(S, key, y)
    BY <1>3 DEF Below
  <2>2. y \in Below(S, key, y) /\ y \notin Below(S, key, x)
    BY <1>3 DEF Below
  <2>3. /\ Cardinality(Below(S, key, x)) <= Cardinality(Below(S, key, y))
        /\ Cardinality(Below(S, key, x)) # Cardinality(Below(S, key, y))
    BY <1>1, <2>1, <2>2, FS_Subset
  <2>. QED  BY <1>1, <2>3
<1>4. Cardinality(S) \in Nat
  BY FS_CardinalityType
<1>. QED  BY <1>1, <1>2, <1>3, <1>4

\* A finite set whose elements have different keys can be put in their order.
LEMMA KeyOrderExists ==
  ASSUME NEW S, IsFiniteSet(S), NEW key \in [S -> Int],
         \A x, y \in S : key[x] = key[y] => x = y
  PROVE  \E q : InKeyOrder(q, S, key)
<1> DEFINE N == Cardinality(S)
           place == [x \in S |-> Cardinality(Below(S, key, x))]
           T == { place[x] : x \in S }
<1>1. N \in Nat
  BY FS_CardinalityType
<1>2. /\ place \in [S -> T] /\ T \subseteq 1 .. N
      /\ \A x, y \in S : key[x] < key[y] => place[x] < place[y]
  BY BelowLemma
<1>3. \A t \in T : \E x \in S : place[x] = t
  OBVIOUS
<1> HIDE DEF place, T
<1>4. \A x, y \in S : place[x] = place[y] => x = y
  <2> SUFFICES ASSUME NEW x \in S, NEW y \in S, place[x] = place[y] PROVE x = y
    OBVIOUS
  <2>1. place[x] \in 1 .. N /\ place[y] \in 1 .. N
    BY <1>2
  <2>2. place[x] \in Int /\ place[y] \in Int /\ key[x] \in Int /\ key[y] \in Int
    BY <2>1
  <2>3. ~ (key[x] < key[y]) /\ ~ (key[y] < key[x])
    BY <1>2, <2>2
  <2>. QED  BY <2>3, <2>2
<1>5. IsFiniteSet(T) /\ Cardinality(T) = N
  BY <1>2, <1>3, <1>4, ImageLemma
<1>6. IsFiniteSet(1 .. N) /\ Cardinality(1 .. N) = N
  BY <1>1, FS_Interval
<1>7. T = 1 .. N
  BY <1>2, <1>5, <1>6, FS_Subset
<1> DEFINE q == [k \in 1 .. N |-> CHOOSE x \in S : place[x] = k]
<1>8. \A k \in 1 .. N : q[k] \in S /\ place[q[k]] = k
  BY <1>3, <1>7
<1>9. q \in [1 .. N -> S] /\ DOMAIN q = 1 .. N
  BY <1>8
<1>10. Elements(q) = S
  <2>1. \A x \in S : place[x] \in 1 .. N /\ q[place[x]] = x
    BY <1>2, <1>4, <1>7, <1>8
  <2> HIDE DEF q
  <2>. QED  BY <1>8, <1>9, <2>1 DEF Elements
<1>11. \A i, j \in 1 .. N : i < j => key[q[i]] < key[q[j]]
  <2> HIDE DEF q
  <2> SUFFICES ASSUME NEW i \in 1 .. N, NEW j \in 1 .. N, i < j PROVE key[q[i]] < key[q[j]]
    OBVIOUS
  <2>1. PICK x, y : x = q[i] /\ y = q[j]
    OBVIOUS
  <2>2. x \in S /\ y \in S /\ place[x] = i /\ place[y] = j
    BY <1>8, <2>1
  <2>3. key[x] \in Int /\ key[y] \in Int /\ x # y
    BY <1>1, <2>2
  <2>4. ~ (key[y] < key[x])
    BY <1>1, <1>2, <2>2
  <2>. QED  BY <2>1, <2>2, <2>3, <2>4
<1> HIDE DEF q
<1>. QED  BY <1>9, <1>10, <1>11 DEF InKeyOrder

\* The place of an element is the number of elements up to it.
LEMMA PlaceLemma ==
  ASSUME NEW S, IsFiniteSet(S), NEW key \in [S -> Int], NEW q, InKeyOrder(q, S, key),
         NEW a \in S
  PROVE  Len(q) = Cardinality(S) /\ RankIn(q, a) = Cardinality(Below(S, key, a))
<1>1. PICK N : N = Cardinality(S)
  OBVIOUS
<1>2. N \in Nat /\ q \in [1 .. N -> S] /\ DOMAIN q = 1 .. N
  BY <1>1, FS_CardinalityType DEF InKeyOrder
<1>3. Len(q) = N
  <2>1. q \in Seq(S)
    BY <1>2, SeqDef
  <2>. QED  BY <1>2, <2>1, LenProperties
<1>4. PICK k : k = RankIn(q, a)
  OBVIOUS
<1>5. k \in 1 .. N /\ q[k] = a
  <2>1. \E i \in 1 .. N : q[i] = a
    BY <1>2 DEF InKeyOrder, Elements
  <2>. QED  BY <1>2, <1>4, <2>1 DEF RankIn
<1>6. \A i, j \in 1 .. N : i < j => key[q[i]] < key[q[j]]
  BY <1>1 DEF InKeyOrder
<1> DEFINE f == [i \in 1 .. k |-> q[i]]
<1>7. \A i \in 1 .. k : i \in 1 .. N /\ q[i] \in S
  BY <1>2, <1>5
<1>8. \A i \in 1 .. N : key[q[i]] \in Int
  BY <1>2
<1>9. \A i \in 1 .. k : q[i] \in Below(S, key, a)
  <2> SUFFICES ASSUME NEW i \in 1 .. k PROVE q[i] \in Below(S, key, a)
    OBVIOUS
  <2>1. i \in 1 .. N /\ q[i] \in S /\ key[q[i]] \in Int /\ key[q[k]] \in Int
    BY <1>5, <1>7, <1>8
  <2>2. key[q[i]] <= key[q[k]]
    <3>1. CASE i = k
      BY <2>1, <3>1
    <3>2. CASE i < k
      BY <1>5, <1>6, <2>1, <3>2
    <3>. QED  BY <1>5, <3>1, <3>2
  <2>. QED  BY <1>5, <2>1, <2>2 DEF Below
<1>10. \A y \in Below(S, key, a) : \E i \in 1 .. k : q[i] = y
  <2> SUFFICES ASSUME NEW y \in S, key[y] <= key[a] PROVE \E i \in 1 .. k : q[i] = y
    BY DEF Below
  <2>1. PICK i \in 1 .. N : q[i] = y
    BY <1>2 DEF InKeyOrder, Elements
  <2>2. ~ (k < i)
    BY <1>5, <1>6, <1>8, <2>1
  <2>. QED  BY <1>5, <2>1, <2>2
<1>11. \A i, j \in 1 .. k : q[i] = q[j] => i = j
  <2> SUFFICES ASSUME NEW i \in 1 .. k, NEW j \in 1 .. k, q[i] = q[j] PROVE i = j
    OBVIOUS
  <2>1. i \in 1 .. N /\ j \in 1 .. N /\ key[q[i]] \in Int
    BY <1>7, <1>8
  <2>2. ~ (i < j) /\ ~ (j < i)
    BY <1>6, <2>1
  <2>. QED  BY <2>1, <2>2
<1>12. IsFiniteSet(1 .. k) /\ Cardinality(1 .. k) = k
  BY <1>5, FS_Interval
<1>13. Cardinality(Below(S, key, a)) = k
  <2>1. PICK I, B : I = 1 .. k /\ B = Below(S, key, a)
    OBVIOUS
  <2>2. f \in [I -> B]
    BY <1>9, <2>1
  <2>3. \A i, j \in I : f[i] = f[j] => i = j
    BY <1>11, <2>1
  <2>4. \A y \in B : \E i \in I : f[i] = y
    BY <1>10, <2>1
  <2>5. IsFiniteSet(I) /\ Cardinality(I) = k
    BY <1>12, <2>1
  <2> HIDE DEF f
  <2>6. Cardinality(B) = Cardinality(I)
    BY <2>2, <2>3, <2>4, <2>5, ImageLemma
  <2>. QED  BY <2>1, <2>5, <2>6
<1>. QED  BY <1>1, <1>3, <1>4, <1>13

-----------------------------------------------------------------------------
(* The distribution of a communicator over clusters *)

LEMMA PartFinite ==
  ASSUME NEW mem \in Seq(App), NEW X \in SUBSET (1 .. Len(mem))
  PROVE  IsFiniteSet(X) /\ Cardinality(X) \in Nat
<1>1. Len(mem) \in Nat
  BY LenProperties
<1>2. IsFiniteSet(1 .. Len(mem))
  BY <1>1, FS_Interval
<1>. QED  BY <1>2, FS_Subset, FS_CardinalityType

\* The place of a member.
LEMMA DistinctRank ==
  ASSUME NEW mem \in Seq(App), Distinct(mem), NEW i \in 1 .. Len(mem)
  PROVE  RankIn(mem, mem[i]) = i
<1>1. DOMAIN mem = 1 .. Len(mem)
  BY LenProperties
<1>2. mem[i] \in Elements(mem)
  BY <1>1 DEF Elements
<1>3. RankIn(mem, mem[i]) \in 1 .. Len(mem) /\ mem[RankIn(mem, mem[i])] = mem[i]
  BY <1>2, RankLemma
<1>. QED  BY <1>1, <1>3 DEF Distinct

\* The elements of S among the first k members are as many as their places.
LEMMA CountLemma ==
  ASSUME NEW mem \in Seq(App), Distinct(mem), NEW S \in SUBSET Elements(mem),
         NEW k \in 0 .. Len(mem)
  PROVE  LET B == { b \in S : RankIn(mem, b) <= k }
         IN  IsFiniteSet(B) /\ Cardinality(B) = Cardinality({ j \in 1 .. k : mem[j] \in S })
<1> DEFINE B == { b \in S : RankIn(mem, b) <= k }
           J == { j \in 1 .. k : mem[j] \in S }
           f == [j \in J |-> mem[j]]
<1>1. DOMAIN mem = 1 .. Len(mem) /\ Len(mem) \in Nat
  BY LenProperties
<1>2. J \in SUBSET (1 .. Len(mem))
  BY <1>1
<1>3. IsFiniteSet(J)
  BY <1>2, PartFinite
<1>4. \A j \in J : j \in 1 .. Len(mem) /\ RankIn(mem, mem[j]) = j
  BY <1>2, DistinctRank
<1>5. f \in [J -> B]
  BY <1>4
<1>6. \A i, j \in J : f[i] = f[j] => i = j
  BY <1>1, <1>4 DEF Distinct
<1>7. \A b \in B : \E j \in J : f[j] = b
  <2> SUFFICES ASSUME NEW b \in B PROVE \E j \in J : f[j] = b
    OBVIOUS
  <2>1. RankIn(mem, b) \in 1 .. Len(mem) /\ mem[RankIn(mem, b)] = b
    BY RankLemma
  <2>2. RankIn(mem, b) \in J
    BY <1>1, <2>1
  <2>. QED  BY <2>1, <2>2
<1> HIDE DEF B, J, f
<1>8. IsFiniteSet(B) /\ Cardinality(B) = Cardinality(J)
  BY <1>3, <1>5, <1>6, <1>7, ImageLemma
<1>. QED  BY <1>8 DEF B, J

\* A process and those in its cluster, in a communicator.
Locals(mem, a) == { b \in Elements(mem) : Home[b] = Home[a] }

LEMMA LocalsLemma ==
  ASSUME NEW mem \in Seq(App), Distinct(mem), NEW a \in App
  PROVE  /\ IsFiniteSet(Locals(mem, a))
         /\ Cardinality(Locals(mem, a)) = Cardinality({ j \in DOMAIN mem : Home[mem[j]] = Home[a] })
         /\ \A k \in 1 .. Len(mem) :
              Cardinality({ b \in Locals(mem, a) : RankIn(mem, b) <= k })
                = Cardinality({ j \in 1 .. k : Home[mem[j]] = Home[a] })
<1>1. DOMAIN mem = 1 .. Len(mem) /\ Len(mem) \in Nat
  BY LenProperties
<1>2. Locals(mem, a) \in SUBSET Elements(mem)
  BY DEF Locals
<1>3. ASSUME NEW k \in 1 .. Len(mem)
      PROVE  { j \in 1 .. k : mem[j] \in Locals(mem, a) } = { j \in 1 .. k : Home[mem[j]] = Home[a] }
  BY <1>1 DEF Locals, Elements
<1>4. { j \in 1 .. Len(mem) : mem[j] \in Locals(mem, a) }
        = { j \in DOMAIN mem : Home[mem[j]] = Home[a] }
  BY <1>1 DEF Locals, Elements
<1>5. \A k \in 0 .. Len(mem) :
        LET B == { b \in Locals(mem, a) : RankIn(mem, b) <= k }
        IN  IsFiniteSet(B)
            /\ Cardinality(B) = Cardinality({ j \in 1 .. k : mem[j] \in Locals(mem, a) })
  BY <1>2, CountLemma
<1>6. { b \in Locals(mem, a) : RankIn(mem, b) <= Len(mem) } = Locals(mem, a)
  <2>1. \A b \in Locals(mem, a) : RankIn(mem, b) \in 1 .. Len(mem)
    BY <1>2, RankLemma
  <2>. QED  BY <1>1, <2>1
<1>7. /\ IsFiniteSet(Locals(mem, a))
      /\ Cardinality(Locals(mem, a)) = Cardinality({ j \in DOMAIN mem : Home[mem[j]] = Home[a] })
  <2>1. PICK k : k = Len(mem)
    OBVIOUS
  <2>2. k \in 0 .. Len(mem)
    BY <1>1, <2>1
  <2>3. LET B == { b \in Locals(mem, a) : RankIn(mem, b) <= k }
        IN  IsFiniteSet(B)
            /\ Cardinality(B) = Cardinality({ j \in 1 .. k : mem[j] \in Locals(mem, a) })
    BY <1>5, <2>2
  <2>. QED  BY <1>4, <1>6, <2>1, <2>3
<1>8. ASSUME NEW k \in 1 .. Len(mem)
      PROVE  Cardinality({ b \in Locals(mem, a) : RankIn(mem, b) <= k })
               = Cardinality({ j \in 1 .. k : Home[mem[j]] = Home[a] })
  <2>1. k \in 0 .. Len(mem)
    BY <1>1
  <2>. QED  BY <1>3, <1>5, <2>1
<1>. QED  BY <1>7, <1>8

\* Who lines up the processes of a cluster in the order of their ranks finds
\* the local ranks of the server.
LEMMA LocalOrder ==
  ASSUME NEW mem \in Seq(App), Distinct(mem), NEW a \in Elements(mem),
         NEW key \in [Locals(mem, a) -> Int],
         \A b, d \in Locals(mem, a) : key[b] <= key[d] <=> RankIn(mem, b) <= RankIn(mem, d),
         NEW q, InKeyOrder(q, Locals(mem, a), key)
  PROVE  /\ RankIn(q, a) = Cardinality({ j \in 1 .. RankIn(mem, a) : Home[mem[j]] = Home[a] })
         /\ Len(q) = Cardinality({ j \in DOMAIN mem : Home[mem[j]] = Home[a] })
<1> DEFINE S == Locals(mem, a)
<1>1. a \in App
  BY LenProperties DEF Elements
<1>2. a \in S
  BY DEF Locals
<1>3. RankIn(mem, a) \in 1 .. Len(mem)
  BY RankLemma
<1>4. Below(S, key, a) = { b \in S : RankIn(mem, b) <= RankIn(mem, a) }
  BY <1>2 DEF Below
<1>5. /\ IsFiniteSet(S)
      /\ Cardinality(S) = Cardinality({ j \in DOMAIN mem : Home[mem[j]] = Home[a] })
      /\ Cardinality({ b \in S : RankIn(mem, b) <= RankIn(mem, a) })
           = Cardinality({ j \in 1 .. RankIn(mem, a) : Home[mem[j]] = Home[a] })
  BY <1>1, <1>3, LocalsLemma
<1>6. Len(q) = Cardinality(S) /\ RankIn(q, a) = Cardinality(Below(S, key, a))
  BY <1>2, <1>5, PlaceLemma
<1>. QED  BY <1>4, <1>5, <1>6

\* The keys of the server's replies order a cluster as the ranks do.
LEMMA LocalKeyLemma ==
  ASSUME NEW mem \in Seq(App), Distinct(mem), NEW a \in App
  PROVE  \A b, d \in Locals(mem, a) :
           /\ LocalKey(mem, b) \in Nat
           /\ LocalKey(mem, b) <= LocalKey(mem, d) <=> RankIn(mem, b) <= RankIn(mem, d)
<1>1. DOMAIN mem = 1 .. Len(mem) /\ Len(mem) \in Nat
  BY LenProperties
<1>2. ASSUME NEW b \in Locals(mem, a)
      PROVE  /\ RankIn(mem, b) \in 1 .. Len(mem) /\ mem[RankIn(mem, b)] = b
             /\ LocalKey(mem, b) = Cardinality({ j \in 1 .. RankIn(mem, b) : Home[mem[j]] = Home[a] })
             /\ LocalKey(mem, b) \in Nat
  <2>1. RankIn(mem, b) \in 1 .. Len(mem) /\ mem[RankIn(mem, b)] = b /\ Home[b] = Home[a]
    BY RankLemma DEF Locals
  <2>2. PICK k : k = RankIn(mem, b)
    OBVIOUS
  <2>3. LocalKey(mem, b) = Cardinality({ j \in 1 .. k : Home[mem[j]] = Home[mem[k]] })
    BY <1>1, <2>1, <2>2 DEF LocalKey, Distribution
  <2>4. { j \in 1 .. k : Home[mem[j]] = Home[a] } \in SUBSET (1 .. Len(mem))
    BY <1>1, <2>1, <2>2
  <2>5. Home[mem[k]] = Home[a]
    BY <2>1, <2>2
  <2>. QED  BY <2>1, <2>2, <2>3, <2>4, <2>5, PartFinite
<1>3. ASSUME NEW b \in Locals(mem, a), NEW d \in Locals(mem, a), RankIn(mem, b) < RankIn(mem, d)
      PROVE  LocalKey(mem, b) < LocalKey(mem, d)
  <2>1. PICK i, k : i = RankIn(mem, b) /\ k = RankIn(mem, d)
    OBVIOUS
  <2>2. i \in 1 .. Len(mem) /\ k \in 1 .. Len(mem) /\ i < k /\ Home[mem[k]] = Home[a]
    BY <1>2, <1>3, <2>1 DEF Locals
  <2>3. PICK B, D : /\ B = { j \in 1 .. i : Home[mem[j]] = Home[a] }
                    /\ D = { j \in 1 .. k : Home[mem[j]] = Home[a] }
    OBVIOUS
  <2>4. B \in SUBSET D /\ k \in D /\ k \notin B /\ D \in SUBSET (1 .. Len(mem))
    BY <1>1, <2>2, <2>3
  <2>5. IsFiniteSet(D)
    BY <2>4, PartFinite
  <2>6. Cardinality(B) <= Cardinality(D) /\ Cardinality(B) # Cardinality(D)
    BY <2>4, <2>5, FS_Subset
  <2>7. /\ LocalKey(mem, b) = Cardinality(B) /\ LocalKey(mem, d) = Cardinality(D)
        /\ LocalKey(mem, b) \in Nat /\ LocalKey(mem, d) \in Nat
    BY <1>2, <2>1, <2>3
  <2>. QED  BY <2>6, <2>7
<1>4. ASSUME NEW b \in Locals(mem, a), NEW d \in Locals(mem, a)
      PROVE  LocalKey(mem, b) <= LocalKey(mem, d) <=> RankIn(mem, b) <= RankIn(mem, d)
  <2>1. /\ RankIn(mem, b) \in Int /\ RankIn(mem, d) \in Int
        /\ LocalKey(mem, b) \in Int /\ LocalKey(mem, d) \in Int
    <3>1. /\ RankIn(mem, b) \in 1 .. Len(mem) /\ RankIn(mem, d) \in 1 .. Len(mem)
          /\ LocalKey(mem, b) \in Nat /\ LocalKey(mem, d) \in Nat
      BY <1>2
    <3>. QED  BY <1>1, <3>1
  <2>2. CASE RankIn(mem, b) < RankIn(mem, d)
    BY <1>3, <2>1, <2>2
  <2>3. CASE RankIn(mem, d) < RankIn(mem, b)
    BY <1>3, <2>1, <2>3
  <2>4. CASE RankIn(mem, b) = RankIn(mem, d)
    <3>1. b = d
      BY <1>2, <2>4
    <3>. QED  BY <2>1, <3>1
  <2>. QED  BY <2>1, <2>2, <2>3, <2>4
<1>. QED  BY <1>2, <1>4

\* The first members of the clusters, in order.
Firsts(mem) == { i \in DOMAIN mem : \A j \in 1 .. i - 1 : Home[mem[j]] # Home[mem[i]] }

LEMMA CoordinatorsLemma ==
  ASSUME NEW mem \in Seq(App)
  PROVE  /\ Coordinators(mem) \in Seq(Nat)
         /\ Elements(Coordinators(mem)) = Firsts(mem)
<1> DEFINE F == Firsts(mem)
           key == [i \in F |-> i]
<1>1. DOMAIN mem = 1 .. Len(mem) /\ Len(mem) \in Nat
  BY LenProperties
<1>2. F \in SUBSET (1 .. Len(mem))
  BY <1>1 DEF Firsts
<1>3. IsFiniteSet(F) /\ Cardinality(F) \in Nat
  BY <1>2, PartFinite
<1>4. key \in [F -> Int] /\ \A x, y \in F : key[x] = key[y] => x = y
  BY <1>2
<1> HIDE DEF key
<1>5. PICK q : InKeyOrder(q, F, key)
  BY <1>3, <1>4, KeyOrderExists
<1>6. q \in Sorted(F, <)
  BY <1>2, <1>5 DEF InKeyOrder, Sorted, key
<1>7. Coordinators(mem) \in Sorted(F, <)
  BY <1>6 DEF Coordinators, Arrange, Firsts
<1>8. Coordinators(mem) \in [1 .. Cardinality(F) -> F] /\ Elements(Coordinators(mem)) = F
  BY <1>7 DEF Sorted
<1>9. Coordinators(mem) \in [1 .. Cardinality(F) -> Nat]
  BY <1>2, <1>8
<1>. QED  BY <1>3, <1>8, <1>9, SeqDef

\* Every cluster with a member has a first one.
LEMMA FirstsLemma ==
  ASSUME NEW mem \in Seq(App), NEW a \in Elements(mem)
  PROVE  \E i \in Firsts(mem) : Home[mem[i]] = Home[a]
<1> DEFINE S == { j \in DOMAIN mem : Home[mem[j]] = Home[a] }
<1>1. DOMAIN mem = 1 .. Len(mem) /\ Len(mem) \in Nat
  BY LenProperties
<1>2. S \in SUBSET Nat /\ S # {}
  BY <1>1 DEF Elements
<1> HIDE DEF S
<1>3. PICK x \in S : \A y \in S : ~ (<<y, x>> \in OpToRel(<, Nat))
  BY <1>2, NatLessThanWellFounded, WFMin, Zenon
<1>4. \A y \in S : ~ (y < x)
  BY <1>2, <1>3 DEF OpToRel
<1>5. x \in DOMAIN mem /\ Home[mem[x]] = Home[a]
  BY DEF S
<1>6. ASSUME NEW j \in 1 .. x - 1 PROVE Home[mem[j]] # Home[mem[x]]
  <2>1. j \in DOMAIN mem /\ j < x
    BY <1>1, <1>5
  <2>. QED  BY <1>4, <1>5, <2>1 DEF S
<1>. QED  BY <1>5, <1>6 DEF Firsts

LEMMA DistributionTyped ==
  ASSUME NEW mem \in Seq(App)
  PROVE  /\ Distribution(mem).members = mem
         /\ Distribution(mem) \in
              [ members : Seq(App), coordinators : Seq(Nat), clusterRanks : Seq(Cluster),
                clusterSizes : Seq(Nat), localRanks : Seq(Nat), memberClusterIndex : Seq(Nat) ]
<1> DEFINE first == Coordinators(mem)
           N == Len(mem)
           K == Len(first)
<1>1. DOMAIN mem = 1 .. N /\ N \in Nat
  BY LenProperties
<1>2. first \in Seq(Nat) /\ Elements(first) = Firsts(mem)
  BY CoordinatorsLemma
<1>3. DOMAIN first = 1 .. K /\ K \in Nat
  BY <1>2, LenProperties
<1>4. \A k \in 1 .. K : first[k] \in 1 .. N
  BY <1>1, <1>2, <1>3 DEF Elements, Firsts
<1>5. \A i \in 1 .. N : mem[i] \in App /\ Home[mem[i]] \in Cluster
  BY <1>1, WorldAssumption, ElementOfSeq
<1> HIDE DEF first, N, K
<1> DEFINE ranks == [ k \in 1 .. K |-> Home[mem[first[k]]] ]
           sizes == [ k \in 1 .. K |->
                        Cardinality({ i \in 1 .. N : Home[mem[i]] = Home[mem[first[k]]] }) ]
           locals == [ i \in 1 .. N |-> Cardinality({ j \in 1 .. i : Home[mem[j]] = Home[mem[i]] }) ]
           index == [ i \in 1 .. N |-> Cardinality({ k \in 1 .. K : first[k] <= i }) ]
<1>6. Distribution(mem) =
        [ members |-> mem, coordinators |-> first, clusterRanks |-> ranks,
          clusterSizes |-> sizes, localRanks |-> locals, memberClusterIndex |-> index ]
  BY <1>1, <1>3 DEF Distribution, first
<1>7. ranks \in Seq(Cluster)
  <2>1. ranks \in [1 .. K -> Cluster]
    BY <1>4, <1>5
  <2>. QED  BY <1>3, <2>1, SeqDef
<1>8. sizes \in Seq(Nat)
  <2>1. \A k \in 1 .. K : { i \in 1 .. N : Home[mem[i]] = Home[mem[first[k]]] } \in SUBSET (1 .. N)
    OBVIOUS
  <2>2. sizes \in [1 .. K -> Nat]
    BY <2>1, PartFinite DEF N
  <2>. QED  BY <1>3, <2>2, SeqDef
<1>9. locals \in Seq(Nat)
  <2>1. \A i \in 1 .. N : { j \in 1 .. i : Home[mem[j]] = Home[mem[i]] } \in SUBSET (1 .. N)
    BY <1>1
  <2>2. locals \in [1 .. N -> Nat]
    BY <2>1, PartFinite DEF N
  <2>. QED  BY <1>1, <2>2, SeqDef
<1>10. index \in Seq(Nat)
  <2>1. IsFiniteSet(1 .. K)
    BY <1>3, FS_Interval
  <2>2. \A i \in 1 .. N : { k \in 1 .. K : first[k] <= i } \in SUBSET (1 .. K)
    OBVIOUS
  <2>3. \A i \in 1 .. N : Cardinality({ k \in 1 .. K : first[k] <= i }) \in Nat
    BY <2>1, <2>2, FS_Subset, FS_CardinalityType
  <2>4. index \in [1 .. N -> Nat]
    BY <2>3
  <2>. QED  BY <1>1, <2>4, SeqDef
<1> HIDE DEF ranks, sizes, locals, index
<1>. QED  BY <1>2, <1>6, <1>7, <1>8, <1>9, <1>10

\* An entry that is what the server told and what MPI gave agrees with itself.
LEMMA EntryLemma ==
  ASSUME NEW a \in App, NEW c, EntryExact(a, c), c.dist.members \in Seq(App),
         c.rank \in 1 .. Len(c.dist.members), c.dist.members[c.rank] = a
  PROVE  /\ c \in Communicator
         /\ c.dist.localRanks[c.rank] = c.localRank
         /\ \E k \in DOMAIN c.dist.clusterRanks :
              /\ c.dist.clusterRanks[k] = Home[a]
              /\ c.dist.clusterSizes[k] = c.localSize
<1> PICK mem, r : mem = c.dist.members /\ r = c.rank
  OBVIOUS
<1>1. DOMAIN mem = 1 .. Len(mem) /\ Len(mem) \in Nat /\ r \in 1 .. Len(mem) /\ mem[r] = a
  BY LenProperties
<1>2. /\ c = Entry(mem, r, c.localRank, c.localSize)
      /\ c.localRank = Cardinality({ j \in 1 .. r : Home[mem[j]] = Home[a] })
      /\ c.localSize = Cardinality({ j \in DOMAIN mem : Home[mem[j]] = Home[a] })
  BY DEF EntryExact
<1>3. c.dist = Distribution(mem)
  BY <1>2 DEF Entry
<1>4. c.localRank \in Nat /\ c.localSize \in Nat
  <2>1. /\ { j \in 1 .. r : Home[mem[j]] = Home[a] } \in SUBSET (1 .. Len(mem))
        /\ { j \in DOMAIN mem : Home[mem[j]] = Home[a] } \in SUBSET (1 .. Len(mem))
    BY <1>1
  <2>. QED  BY <1>2, <2>1, PartFinite
<1>5. c \in Communicator
  <2>1. Distribution(mem) \in
          [ members : Seq(App), coordinators : Seq(Nat), clusterRanks : Seq(Cluster),
            clusterSizes : Seq(Nat), localRanks : Seq(Nat), memberClusterIndex : Seq(Nat) ]
    BY DistributionTyped
  <2>2. r \in Nat
    BY <1>1
  <2>. QED  BY <1>2, <1>4, <2>1, <2>2 DEF Entry, Communicator
<1>6. Distribution(mem).localRanks[r] = c.localRank
  BY <1>1, <1>2 DEF Distribution
<1>7. \E k \in DOMAIN Distribution(mem).clusterRanks :
        /\ Distribution(mem).clusterRanks[k] = Home[a]
        /\ Distribution(mem).clusterSizes[k] = c.localSize
  <2>1. a \in Elements(mem)
    BY <1>1 DEF Elements
  <2>2. PICK i \in Firsts(mem) : Home[mem[i]] = Home[a]
    BY <2>1, FirstsLemma
  <2>3. PICK k \in DOMAIN Coordinators(mem) : Coordinators(mem)[k] = i
    BY CoordinatorsLemma DEF Elements
  <2>4. /\ k \in DOMAIN Distribution(mem).clusterRanks
        /\ Distribution(mem).clusterRanks[k] = Home[mem[i]]
        /\ Distribution(mem).clusterSizes[k]
             = Cardinality({ j \in DOMAIN mem : Home[mem[j]] = Home[mem[i]] })
    BY <2>3 DEF Distribution
  <2>5. c.localSize = Cardinality({ j \in DOMAIN mem : Home[mem[j]] = Home[mem[i]] })
    BY <1>2, <2>2
  <2>. QED  BY <2>2, <2>4, <2>5
<1>. QED  BY <1>3, <1>5, <1>6, <1>7

-----------------------------------------------------------------------------
(* What MPI makes of the calls of a cluster *)

\* peers are the processes of a's cluster in mem, in the order of their ranks.
LinedUp(peers, mem, a) ==
  /\ RankIn(peers, a) = Cardinality({ j \in 1 .. RankIn(mem, a) : Home[mem[j]] = Home[a] })
  /\ Len(peers) = Cardinality({ j \in DOMAIN mem : Home[mem[j]] = Home[a] })

\* The local split: the keys are the server's.
LEMMA SplitResult ==
  ASSUME NEW a \in App, NEW op, op.kind = "split", NEW c,
         NEW mem \in Seq(App), Distinct(mem), a \in Elements(mem),
         Elements(mem) \subseteq Elements(c.dist.members),
         \A b \in LocalPeers(a, c) :
           /\ local[b][op.comm].color = local[a][op.comm].color <=> b \in Elements(mem)
           /\ b \in Elements(mem) => local[b][op.comm].key = LocalKey(mem, b)
           /\ comms[b][op.comm].localRank \in Int
  PROVE  LinedUp(LocalResult(a, op, c), mem, a)
<1> DEFINE S == Locals(mem, a)
           key == [b \in S |-> LocalKey(mem, b)]
           same == { b \in LocalPeers(a, c) : local[b][op.comm].color = local[a][op.comm].color }
           Before(b, d) == \/ local[b][op.comm].key < local[d][op.comm].key
                           \/ /\ local[b][op.comm].key = local[d][op.comm].key
                              /\ comms[b][op.comm].localRank < comms[d][op.comm].localRank
<1>1. same = S /\ S \subseteq LocalPeers(a, c)
  BY DEF Locals, LocalPeers
<1>2. \A b \in S : local[b][op.comm].key = key[b] /\ comms[b][op.comm].localRank \in Int
  BY <1>1 DEF Locals
<1>3. /\ key \in [S -> Int]
      /\ \A b, d \in S : key[b] <= key[d] <=> RankIn(mem, b) <= RankIn(mem, d)
  BY LocalKeyLemma
<1>4. \A b, d \in S : key[b] = key[d] => b = d
  <2> SUFFICES ASSUME NEW b \in S, NEW d \in S, key[b] = key[d] PROVE b = d
    OBVIOUS
  <2>1. b \in Elements(mem) /\ d \in Elements(mem)
    BY DEF Locals
  <2>2. /\ RankIn(mem, b) \in 1 .. Len(mem) /\ mem[RankIn(mem, b)] = b
        /\ RankIn(mem, d) \in 1 .. Len(mem) /\ mem[RankIn(mem, d)] = d
    BY <2>1, RankLemma
  <2>3. key[b] \in Int /\ key[d] \in Int
    BY <1>3
  <2>4. key[b] <= key[d] /\ key[d] <= key[b]
    BY <2>3
  <2>5. RankIn(mem, b) <= RankIn(mem, d) /\ RankIn(mem, d) <= RankIn(mem, b)
    BY <1>3, <2>4
  <2>6. Len(mem) \in Nat
    BY LenProperties
  <2>. QED  BY <2>2, <2>5, <2>6
<1>5. IsFiniteSet(S)
  BY LocalsLemma
<1>6. \A b, d \in S : key[b] < key[d] <=> Before(b, d)
  <2> SUFFICES ASSUME NEW b \in S, NEW d \in S PROVE key[b] < key[d] <=> Before(b, d)
    OBVIOUS
  <2>1. /\ local[b][op.comm].key = key[b] /\ local[d][op.comm].key = key[d]
        /\ comms[b][op.comm].localRank \in Int
        /\ key[b] \in Int /\ key[d] \in Int
    BY <1>2, <1>3
  <2>2. ~ (comms[b][op.comm].localRank < comms[b][op.comm].localRank)
    BY <2>1
  <2>. QED  BY <1>4, <2>1, <2>2
<1> HIDE DEF S, key, same, Before
<1>7. PICK q : InKeyOrder(q, S, key)
  BY <1>3, <1>4, <1>5, KeyOrderExists
<1>8. q \in Sorted(S, Before)
  BY <1>6, <1>7 DEF InKeyOrder, Sorted
<1>9. LocalResult(a, op, c) = Arrange(same, Before)
  BY DEF LocalResult, same, Before
<1>10. LocalResult(a, op, c) \in Sorted(S, Before)
  BY <1>1, <1>8, <1>9 DEF Arrange
<1>11. InKeyOrder(LocalResult(a, op, c), S, key)
  BY <1>6, <1>10 DEF InKeyOrder, Sorted
<1>. QED  BY <1>3, <1>11, LocalOrder DEF S, LinedUp

\* The local creation from a group: the order of the group.
LEMMA GroupResult ==
  ASSUME NEW a \in App, NEW op, op.kind = "group", NEW c,
         op.group \in Seq(App), Distinct(op.group), a \in Elements(op.group)
  PROVE  LinedUp(LocalResult(a, op, c), op.group, a)
<1> DEFINE mem == op.group
           S == Locals(mem, a)
           key == [b \in S |-> RankIn(mem, b)]
           Before(b, d) == RankIn(mem, b) < RankIn(mem, d)
<1>1. /\ Len(mem) \in Nat
      /\ \A b \in S : RankIn(mem, b) \in 1 .. Len(mem) /\ mem[RankIn(mem, b)] = b
  BY RankLemma, LenProperties DEF Locals
<1>2. /\ key \in [S -> Int]
      /\ \A b, d \in S : key[b] <= key[d] <=> RankIn(mem, b) <= RankIn(mem, d)
  BY <1>1
<1>3. \A b, d \in S : key[b] = key[d] => b = d
  BY <1>1
<1>4. IsFiniteSet(S)
  BY LocalsLemma
<1>5. \A b, d \in S : key[b] < key[d] <=> Before(b, d)
  OBVIOUS
<1>6. LocalResult(a, op, c) = Arrange(S, Before)
  BY DEF LocalResult, Locals
<1> HIDE DEF S, key, Before
<1>7. PICK q : InKeyOrder(q, S, key)
  BY <1>2, <1>3, <1>4, KeyOrderExists
<1>8. q \in Sorted(S, Before)
  BY <1>5, <1>7 DEF InKeyOrder, Sorted
<1>9. LocalResult(a, op, c) \in Sorted(S, Before)
  BY <1>6, <1>8 DEF Arrange
<1>10. InKeyOrder(LocalResult(a, op, c), S, key)
  BY <1>5, <1>9 DEF InKeyOrder, Sorted
<1>. QED  BY <1>2, <1>10, LocalOrder DEF S, LinedUp

-----------------------------------------------------------------------------
(* Rounds *)

LEMMA MembersLemma ==
  ASSUME IInv, NEW h \in Handle, h < Len(communicators)
  PROVE  Members(h) \subseteq App /\ communicators[h + 1] \in Seq(App)
<1>1. h + 1 \in 1 .. Len(communicators)
  BY HandleLemma, LenProperties DEF IInv, Shape
<1>2. communicators[h + 1] \in Seq(App)
  BY <1>1, ElementOfSeq DEF IInv, Shape
<1>. QED  BY <1>2, ElementOfSeq, LenProperties DEF Members, Elements

LEMMA MemberLemma ==
  ASSUME IInv, NEW a \in App, NEW h \in Handle \ {1}, Known(a, h)
  PROVE  h < Len(communicators) /\ a \in Members(h)
<1>1. h < Len(communicators) /\ HasRank(a, h, comms[a][h].rank)
  BY TableLemma
<1>2. h + 1 \in 1 .. Len(communicators)
  BY <1>1, HandleLemma, LenProperties DEF IInv, Shape
<1>3. communicators[h + 1] \in Seq(App)
  BY <1>2, ElementOfSeq DEF IInv, Shape
<1>. QED  BY <1>1, <1>3, LenProperties DEF HasRank, Members, Elements

\* A process in a call.
LEMMA InCallLemma ==
  ASSUME IInv, NEW a \in App, phase[a] \in {"waiting", "local"}
  PROVE  /\ at[a] \in 1 .. Len(script)
         /\ CommOf(a) \in Handle \ {1} /\ CommOf(a) < Len(communicators)
         /\ Known(a, CommOf(a)) /\ a \in Members(CommOf(a))
         /\ script[at[a]] \in Call /\ Fits(script[at[a]])
<1>1. at[a] \in 1 .. Len(script) /\ Known(a, CommOf(a))
  BY DEF IInv, Scripted, InCall, CommOf
<1>2. Fits(script[at[a]])
  BY <1>1 DEF IInv, Scripted
<1>3. CommOf(a) \in Handle \ {1} /\ CommOf(a) < Len(communicators)
  BY <1>2 DEF Fits, CommOf
<1>4. script[at[a]] \in Call
  BY <1>1, ElementOfSeq DEF IInv, Shape
<1>. QED  BY <1>1, <1>2, <1>3, <1>4, MemberLemma

\* A process that does not wait, or has its reply, has no request with the server.
LEMMA NotOut ==
  ASSUME IInv, NEW a \in App, ~ (phase[a] = "waiting" /\ replies[a] = << >>)
  PROVE  /\ \A q \in requests : q.src # a
         /\ \A h \in Handle : \A q \in Unanswered(h) : q.src # a
         /\ \A h \in Handle : ~ Out(a, h)
<1>1. /\ \A q \in requests : q.src # a
      /\ \A h \in Handle : \A q \in Unanswered(h) : q.src # a
  BY DEF IInv, OneRequest, Asks
<1>. QED  BY <1>1 DEF Out, Unanswered

LEMMA AnswerLemma ==
  ASSUME IInv, NEW a \in App, NEW r, Answer(a, r)
  PROVE  /\ phase[a] \in {"waiting", "local"}
         /\ ~ (phase[a] = "waiting" /\ replies[a] = << >>)
         /\ Good(a, r) /\ Answers(a, r)
<1>1. CASE phase[a] = "waiting" /\ replies[a] = <<r>>
  <2>1. replies[a] # << >>
    BY <1>1
  <2>2. PICK s : replies[a] = <<s>> /\ Good(a, s) /\ Answers(a, s)
    BY <2>1 DEF IInv, RepliesGood
  <2>3. s = r
    BY <1>1, <2>2
  <2>. QED  BY <1>1, <2>1, <2>2, <2>3
<1>2. CASE phase[a] = "local" /\ reply[a] = r
  BY <1>2 DEF IInv, LocalGood
<1>. QED  BY <1>1, <1>2 DEF Answer

LEMMA UnansweredLemma ==
  ASSUME IInv, NEW h \in Handle, NEW q \in Unanswered(h)
  PROVE  /\ q.src \in App /\ phase[q.src] = "waiting" /\ replies[q.src] = << >>
         /\ CommOf(q.src) = h /\ q.kind = script[at[q.src]].kind
         /\ q \in messages[h] /\ RequestGood(q) /\ q.comm = h
         /\ h \in locked => ~ Out(q.src, h)
<1>1. q \in messages[h]
  BY DEF Unanswered
<1>2. RequestGood(q) /\ q.comm = h /\ Asks(q)
  BY <1>1 DEF IInv, OneRequest
<1>3. h \in locked => ~ Out(q.src, h)
  BY DEF Out, IInv, OneRequest
<1>. QED  BY <1>1, <1>2, <1>3 DEF RequestGood, Asks, CommOf

\* The call a is in is one it has made, and none it has made is later.
LEMMA MadeLemma ==
  ASSUME IInv, NEW a \in App, NEW h \in Handle
  PROVE  /\ phase[a] \in {"waiting", "local"} /\ CommOf(a) = h => at[a] \in Made(a, h)
         /\ \A i \in Made(a, h) : i \in Int /\ 1 <= i /\ i <= at[a]
         /\ Done(a, h) \subseteq Made(a, h)
<1>1. phase[a] \in {"waiting", "local"} => at[a] \in Int /\ 1 <= at[a]
  BY InCallLemma, LenProperties DEF IInv, Shape
<1>2. phase[a] \in {"waiting", "local"} /\ CommOf(a) = h => at[a] \in Made(a, h)
  BY <1>1 DEF Made, CommOf
<1>. QED  BY <1>2 DEF Made, Done

\* Two members whose latest call on h is being answered are in the same call.
LEMMA SameRound ==
  ASSUME IInv, RanksInv, NEW a \in App, NEW b \in App, NEW h \in Handle,
         phase[a] \in {"waiting", "local"}, phase[b] \in {"waiting", "local"},
         CommOf(a) = h, CommOf(b) = h, ~ Out(a, h), ~ Out(b, h)
  PROVE  at[a] = at[b]
<1>1. h # 1 /\ h < Len(communicators) /\ a \in Members(h) /\ b \in Members(h)
  BY InCallLemma
<1>2. Made(a, h) = Made(b, h)
  BY <1>1 DEF RanksInv, SameCalls, Done
<1>3. at[a] \in Made(b, h) /\ at[b] \in Made(a, h)
  BY <1>2, MadeLemma
<1>4. at[a] \in Int /\ at[b] \in Int /\ at[a] <= at[b] /\ at[b] <= at[a]
  BY <1>3, MadeLemma
<1>. QED  BY <1>4

\* Nobody has made a later call on the MPI communicator of h.
LEMMA NotAhead ==
  ASSUME IInv, RanksInv, NEW a \in App, NEW b \in App, NEW h \in Handle,
         phase[a] \in {"waiting", "local"}, CommOf(a) = h, ~ Out(a, h),
         local[b][h] # None
  PROVE  local[b][h].at \in Int /\ local[b][h].at <= at[a]
<1>1. h # 1 /\ h < Len(communicators) /\ a \in Members(h)
  BY InCallLemma
<1>2. Known(b, h) /\ local[b][h].at \in Done(b, h)
  BY DEF RanksInv, LocalDone
<1>3. b \in Members(h)
  BY <1>1, <1>2, MemberLemma
<1>4. local[b][h].at \in Done(a, h)
  BY <1>1, <1>2, <1>3 DEF RanksInv, SameCalls
<1>. QED  BY <1>4, MadeLemma

LEMMA RanksInit == Init => RanksInv
<1> SUFFICES ASSUME Init PROVE RanksInv
  OBVIOUS
<1>1. /\ script = << >> /\ requests = {} /\ locked = {}
      /\ at = [a \in App |-> 0] /\ phase = [a \in App |-> "running"]
      /\ local = [a \in App |-> [h \in Handle |-> None]]
      /\ comms = [a \in App |-> [h \in Handle |-> InitialEntry(a, h)]]
      /\ \A h \in Handle : messages[h] = {} /\ todo[h] = {}
      /\ communicators = <<World, << >>, << >>>>
  BY DEF Init
<1>2. Len(script) = 0
  BY <1>1
<1>3. /\ \A a \in App : at[a] \in 0 .. Len(script)
      /\ Len(script) <= MaxOps /\ Callable
  BY <1>1, <1>2, ArgumentAssumption DEF Callable
<1>4. AllDistinct
  <2>1. Distinct(World)
    BY WorldAssumption DEF Distinct
  <2>2. Distinct(<< >>)
    BY DEF Distinct
  <2>3. /\ Len(communicators) = 3 /\ communicators[1] = World
        /\ communicators[2] = << >> /\ communicators[3] = << >>
    BY <1>1
  <2>4. \A i \in 1 .. 3 : Distinct(communicators[i])
    BY <2>1, <2>2, <2>3
  <2>. QED  BY <1>2, <2>3, <2>4 DEF AllDistinct
<1>5. RequestsTyped
  BY <1>1 DEF RequestsTyped, Unanswered
<1>6. \A a \in App : phase[a] = "running"
  BY <1>1
<1>7. RepliesExact
  BY <1>6 DEF RepliesExact, Answer
<1>8. EntriesExact
  <2> SUFFICES ASSUME NEW a \in App, NEW h \in Handle \ {1}, Known(a, h)
               PROVE  EntryExact(a, comms[a][h])
    BY DEF EntriesExact
  <2> DEFINE r == RankIn(World, a)
  <2>1. h = 0
    BY <1>1 DEF Known, InitialEntry
  <2>2. comms[a][h] = Entry(World, r, Distribution(World).localRanks[r],
                            Cardinality({ b \in App : Home[b] = Home[a] }))
    BY <1>1, <2>1 DEF InitialEntry
  <2>3. World \in Seq(App) /\ Distinct(World) /\ Elements(World) = App
    BY WorldAssumption, ElementOfSeq, LenProperties DEF Distinct, Elements
  <2>4. r \in 1 .. Len(World) /\ World[r] = a /\ DOMAIN World = 1 .. Len(World)
    BY <2>3, RankLemma, LenProperties
  <2>5. Distribution(World).localRanks[r] = Cardinality({ j \in 1 .. r : Home[World[j]] = Home[World[r]] })
    BY <2>4 DEF Distribution
  <2>6. Cardinality({ b \in App : Home[b] = Home[a] })
          = Cardinality({ j \in DOMAIN World : Home[World[j]] = Home[a] })
    BY <2>3, LocalsLemma DEF Locals
  <2>7. Distribution(World).members = World
    BY <2>3, DistributionTyped
  <2>8. PICK k, l, s : /\ k = r /\ l = Distribution(World).localRanks[r]
                       /\ s = Cardinality({ b \in App : Home[b] = Home[a] })
    OBVIOUS
  <2>9. comms[a][h] = Entry(World, k, l, s)
    BY <2>2, <2>8
  <2>10. /\ comms[a][h].dist.members = World
         /\ comms[a][h].rank = k /\ comms[a][h].localRank = l /\ comms[a][h].localSize = s
    BY <2>7, <2>9 DEF Entry
  <2>11. /\ l = Cardinality({ j \in 1 .. k : Home[World[j]] = Home[a] })
         /\ s = Cardinality({ j \in DOMAIN World : Home[World[j]] = Home[a] })
    BY <2>4, <2>5, <2>6, <2>8
  <2>. QED  BY <2>9, <2>10, <2>11 DEF EntryExact
<1>9. LocalDone
  BY <1>1 DEF LocalDone
<1>10. SameCalls
  <2>1. \A a \in App : \A h \in Handle : Done(a, h) = {}
    BY <1>1 DEF Done, Made
  <2>2. ASSUME NEW h \in Handle, h < Len(communicators) PROVE Members(h) \subseteq App
    <3>1. h + 1 \in 1 .. Len(communicators) /\ communicators \in Seq(Seq(App))
      BY <1>1, <2>2, HandleLemma, WorldAssumption
    <3>2. communicators[h + 1] \in Seq(App)
      BY <3>1, ElementOfSeq
    <3>. QED  BY <3>2, ElementOfSeq, LenProperties DEF Members, Elements
  <2>. QED  BY <2>1, <2>2 DEF SameCalls
<1>11. OneSplit /\ FreshColors
  BY <1>1, <1>6 DEF OneSplit, Part, FreshColors
<1>. QED
  BY <1>3, <1>4, <1>5, <1>7, <1>8, <1>9, <1>10, <1>11 DEF RanksInv

-----------------------------------------------------------------------------
(* Steps of a process *)

LEMMA RanksAsk ==
  ASSUME IInv, RanksInv, NEW a \in App, NEW i, NEW op, phase[a] = "running", Ask(a, i, op),
         script' \in Seq(Call), Len(script') >= Len(script), Len(script') <= MaxOps,
         \A j \in 1 .. Len(script) : script'[j] = script[j],
         \A j \in 1 .. Len(script') : script'[j].kind = "group" => Distinct(script'[j].group),
         Callable',
         i \in 1 .. Len(script'), script'[i] = op, Known(a, op.comm), Fits(op),
         at[a] < i, \A j \in at[a] + 1 .. i - 1 : j \in 1 .. Len(script) /\ ~ Known(a, script[j].comm)
  PROVE  RanksInv'
<1> PICK n : n = RequestOf(a, op)
  OBVIOUS
<1>1. /\ requests' = requests \cup {n}
      /\ at' = [at EXCEPT ![a] = i]
      /\ phase' = [phase EXCEPT ![a] = "waiting"]
      /\ UNCHANGED <<reply, local, comms, replies, communicators, messages, locked, todo>>
  BY DEF Ask, serverVars
<1>2. /\ phase'[a] = "waiting" /\ at'[a] = i
      /\ \A b \in App \ {a} : phase'[b] = phase[b] /\ at'[b] = at[b]
  BY <1>1 DEF IInv, Shape
<1>3. /\ Len(script) \in Nat /\ Len(script') \in Nat
      /\ \A b \in App : at[b] \in 0 .. Len(script)
  BY LenProperties DEF IInv, Shape, RanksInv
<1>4. \A b \in App \ {a} : phase[b] \in {"waiting", "local"} =>
        /\ at[b] \in 1 .. Len(script)
        /\ script'[at'[b]] = script[at[b]] /\ CommOf(b)' = CommOf(b)
  BY <1>2, InCallLemma DEF CommOf
<1>5. script'[at'[a]] = op /\ CommOf(a)' = op.comm
  BY <1>2 DEF CommOf
<1>6. replies[a] = << >> /\ (\A r : ~ Answer(a, r)') /\ (\A r : ~ Answer(a, r))
  <2>1. replies[a] = << >>
    BY DEF IInv, RepliesGood
  <2>. QED  BY <1>1, <1>2, <2>1 DEF Answer
<1>7. /\ \A q \in requests : q.src # a
      /\ \A h \in Handle : \A q \in Unanswered(h) : q.src # a
      /\ \A h \in Handle : ~ Out(a, h)
  BY NotOut
<1>8. n.src = a /\ n.comm = op.comm /\ n.kind = op.kind /\ n.rank = comms[a][op.comm].rank
      /\ n.group = op.group
  BY DEF RequestOf
<1>9. op.comm \in Handle \ {1} /\ op.comm < Len(communicators) /\ a \in Members(op.comm) /\ op \in Call
  BY MemberLemma, ElementOfSeq DEF Fits
<1>10. /\ \A h : Members(h)' = Members(h)
       /\ \A b \in App : \A h \in Handle : Known(b, h)' = Known(b, h)
       /\ \A h \in Handle : Unanswered(h)' = Unanswered(h) /\ Unanswered(h) \subseteq messages[h]
  BY <1>1 DEF Members, Known, Unanswered
\* What a, and the others, have made.
<1>11. ASSUME NEW b \in App \ {a}, NEW h \in Handle
       PROVE  Done(b, h)' = Done(b, h)
  <2>1. at[b] \in 0 .. Len(script) /\ at'[b] = at[b]
    BY <1>2, <1>3
  <2>2. Made(b, h)' = Made(b, h)
    <3>1. \A j \in 1 .. at[b] : script'[j] = script[j]
      BY <1>3, <2>1
    <3>. QED  BY <2>1, <3>1 DEF Made
  <2>3. Out(b, h)' = Out(b, h)
    BY <1>1, <1>8 DEF Out
  <2>. QED  BY <2>1, <2>2, <2>3 DEF Done
<1>12. ASSUME NEW h \in Handle \ {1}, h < Len(communicators), a \in Members(h)
       PROVE  Done(a, h)' = Done(a, h)
  <2>1. Done(a, h) = { j \in 1 .. at[a] : script[j].comm = h }
    BY <1>7 DEF Done, Made
  <2>2. Made(a, h)' = { j \in 1 .. i : script'[j].comm = h }
    BY <1>2 DEF Made
  <2>3. at[a] \in Int /\ i \in Int
    BY <1>3
  <2>4. ASSUME NEW j \in at[a] + 1 .. i - 1 PROVE script'[j].comm # h
    <3>1. j \in 1 .. Len(script) /\ ~ Known(a, script[j].comm)
      OBVIOUS
    <3>2. script'[j] = script[j]
      BY <3>1
    <3>3. ASSUME script[j].comm = h PROVE FALSE
      <4>1. h = 0 \/ (3 <= h /\ h < MaxComms)
        BY <3>1, <3>3 DEF RanksInv, Callable
      <4>2. CASE h = 0
        BY <3>1, <3>3, <4>2 DEF IInv, Tables
      <4>3. CASE 3 <= h /\ h < MaxComms
        <5>1. Reached(a, h)
          BY <1>12, <4>3 DEF IInv, MembersReached, Members
        <5>. QED  BY <1>6, <3>1, <3>3, <5>1 DEF Reached
      <4>. QED  BY <4>1, <4>2, <4>3
    <3>. QED  BY <3>2, <3>3
  <2>5. \A j \in 1 .. at[a] : script'[j] = script[j] /\ j # i
    BY <1>3, <2>3
  <2>6. CASE h = op.comm
    <3>1. Out(a, h)'
      BY <1>1, <1>8, <2>6 DEF Out
    <3>2. Done(a, h)' = { j \in 1 .. i : script'[j].comm = h } \ {i}
      BY <1>2, <2>2, <3>1 DEF Done
    <3>. QED  BY <1>3, <2>1, <2>3, <2>4, <2>5, <3>2
  <2>7. CASE h # op.comm
    <3>1. ~ Out(a, h)'
      <4>1. \A q \in requests' : ~ (q.src = a /\ q.comm = h)
        BY <1>1, <1>7, <1>8, <2>7
      <4>2. h \notin locked => \A q \in messages[h] : q.src # a
        BY <1>7 DEF Out
      <4>. QED  BY <1>1, <4>1, <4>2 DEF Out
    <3>2. Done(a, h)' = { j \in 1 .. i : script'[j].comm = h }
      BY <2>2, <3>1 DEF Done
    <3>3. script'[i].comm # h
      BY <2>7
    <3>. QED  BY <1>3, <2>1, <2>3, <2>4, <2>5, <3>2, <3>3
  <2>. QED  BY <2>6, <2>7
<1>13. SameCalls'
  <2> SUFFICES ASSUME NEW h \in Handle \ {1}, h < Len(communicators),
                      NEW b \in Members(h), NEW d \in Members(h)
               PROVE  Done(b, h)' = Done(d, h)'
    BY <1>1, <1>10 DEF SameCalls
  <2>1. b \in App /\ d \in App
    BY MembersLemma
  <2>2. Done(b, h) = Done(d, h)
    BY DEF RanksInv, SameCalls
  <2>3. Done(b, h)' = Done(b, h) /\ Done(d, h)' = Done(d, h)
    BY <1>11, <1>12, <2>1
  <2>. QED  BY <2>2, <2>3
<1>14. LocalDone'
  <2> SUFFICES ASSUME NEW b \in App, NEW h \in Handle, local[b][h] # None
               PROVE  /\ h # 1 /\ Known(b, h)'
                      /\ local[b][h].at \in Done(b, h)'
                      /\ local[b][h].color \in Int /\ local[b][h].key \in Int
                      /\ phase'[b] = "waiting" /\ h = CommOf(b)' => local[b][h].at < at'[b]
    BY <1>1 DEF LocalDone, RanksInv
  <2>1. /\ h # 1 /\ Known(b, h)
        /\ local[b][h].at \in Done(b, h)
        /\ local[b][h].color \in Int /\ local[b][h].key \in Int
        /\ phase[b] = "waiting" /\ h = CommOf(b) => local[b][h].at < at[b]
    BY DEF RanksInv, LocalDone
  <2>2. CASE b = a
    <3>1. h < Len(communicators) /\ a \in Members(h)
      BY <2>1, <2>2, MemberLemma
    <3>2. Done(a, h)' = Done(a, h)
      BY <1>12, <2>1, <3>1
    <3>3. local[a][h].at \in Int /\ local[a][h].at <= at[a]
      BY <2>1, <2>2, MadeLemma
    <3>4. local[a][h].at < i
      BY <1>3, <3>3
    <3>. QED  BY <1>2, <1>10, <2>1, <2>2, <3>2, <3>4
  <2>3. CASE b # a
    <3>1. Done(b, h)' = Done(b, h)
      BY <1>11, <2>3
    <3>. QED  BY <1>2, <1>4, <1>10, <2>1, <2>3, <3>1
  <2>. QED  BY <2>2, <2>3
\* The answers there are.
<1>15. \A b \in App : \A r : Answer(b, r)' => /\ b # a /\ Answer(b, r)
                                              /\ phase[b] \in {"waiting", "local"}
                                              /\ CommOf(b)' = CommOf(b)
  BY <1>1, <1>2, <1>4, <1>6 DEF Answer
<1>16. \A b \in App : \A s : phase'[b] = "waiting" /\ replies[b] = <<s>>
                              => phase[b] = "waiting" /\ CommOf(b)' = CommOf(b)
  <2> SUFFICES ASSUME NEW b \in App, NEW s, phase'[b] = "waiting", replies[b] = <<s>>
               PROVE  phase[b] = "waiting" /\ CommOf(b)' = CommOf(b)
    OBVIOUS
  <2>1. b # a
    <3>1. <<s>> # << >>
      OBVIOUS
    <3>. QED  BY <1>6, <3>1
  <2>. QED  BY <1>2, <1>4, <2>1
<1>17. OneSplit'
  <2> SUFFICES ASSUME NEW x \in App, NEW h \in Handle, NEW r, Part(x, h, r)'
               PROVE  /\ \A b \in App :
                           local[b][h] # None /\ local[b][h].at = at[x]
                             => Agrees(r, b, local[b][h].color, local[b][h].key)
                      /\ \A b \in App : \A s :
                           phase'[b] = "waiting" /\ replies[b] = <<s>> /\ CommOf(b)' = h
                             => Agrees(r, b, s.color, s.key)
                      /\ h \in locked => \A q \in Unanswered(h) :
                                           q.color # r.color /\ q.src \notin Elements(r.members)
                      /\ at'[x] = at[x]
    BY <1>1, <1>10 DEF OneSplit
  <2>1. x # a /\ Part(x, h, r)
    BY <1>15 DEF Part
  <2>. QED  BY <1>2, <1>16, <2>1 DEF RanksInv, OneSplit
<1>18. FreshColors'
  <2> SUFFICES ASSUME NEW h \in locked, NEW q \in Unanswered(h), q.kind = "split", q.color >= 0
               PROVE  /\ \A b \in App : local[b][h] # None /\ local[b][h].at = at'[q.src]
                                          => local[b][h].color # q.color
                      /\ \A b \in App : \A s :
                           phase'[b] = "waiting" /\ replies[b] = <<s>> /\ CommOf(b)' = h
                             => s.color # q.color
    BY <1>1, <1>10 DEF FreshColors, IInv, Shape
  <2>1. h \in Handle
    BY DEF IInv, Shape
  <2>2. q.src \in App \ {a} /\ at'[q.src] = at[q.src]
    BY <1>2, <1>7, <2>1, UnansweredLemma
  <2>. QED  BY <1>16, <2>2 DEF RanksInv, FreshColors
<1>19. RequestsTyped'
  <2>1. n \in Request
    <3>1. HasRank(a, op.comm, comms[a][op.comm].rank)
      BY <1>9, TableLemma
    <3>2. comms[a][op.comm].rank \in Nat
      BY <3>1 DEF HasRank
    <3>3. op.split \in Splits \cup {NoSplit} /\ op.kind \in Kind /\ op.group \in Groups \cup {NoGroup}
      BY <1>9 DEF Call
    <3>4. op.split.color[a] \in Int /\ op.split.key[a] \in Int
      BY <3>3, ArgumentAssumption DEF NoSplit
    <3>. QED  BY <1>9, <3>2, <3>3, <3>4 DEF RequestOf, Request
  <2>2. Typed(n)'
    BY <1>5, <1>8, <2>1 DEF Typed
  <2>3. \A q : q.src \in App \ {a} /\ phase[q.src] = "waiting" /\ Typed(q) => Typed(q)'
    BY <1>4 DEF Typed
  <2>4. \A q \in requests : q.src \in App /\ phase[q.src] = "waiting"
    BY DEF IInv, OneRequest, RequestGood, Asks
  <2>5. \A q \in requests' : Typed(q)'
    BY <1>1, <1>7, <2>2, <2>3, <2>4 DEF RanksInv, RequestsTyped
  <2>6. ASSUME NEW h \in Handle, NEW q \in Unanswered(h) PROVE Typed(q)'
    <3>1. q.src \in App \ {a} /\ phase[q.src] = "waiting"
      BY <1>7, UnansweredLemma
    <3>. QED  BY <2>3, <3>1 DEF RanksInv, RequestsTyped
  <2>7. \A h \in Handle : \A o : PartOf(h, o)' = PartOf(h, o)
    BY <1>1 DEF PartOf
  <2>. QED  BY <1>1, <1>10, <2>5, <2>6, <2>7 DEF RanksInv, RequestsTyped
<1>20. RepliesExact'
  <2> SUFFICES ASSUME NEW b \in App, NEW r, Answer(b, r)' PROVE Exact(b, r)'
    BY DEF RepliesExact
  <2>1. /\ b # a /\ Answer(b, r) /\ phase[b] \in {"waiting", "local"}
        /\ CommOf(b)' = CommOf(b) /\ script'[at'[b]] = script[at[b]]
    BY <1>4, <1>15
  <2>2. Exact(b, r)
    BY <2>1 DEF RanksInv, RepliesExact
  <2>. QED  BY <1>10, <2>1, <2>2 DEF Exact
<1>21. EntriesExact'
  BY <1>1 DEF RanksInv, EntriesExact, Known
<1>22. AllDistinct'
  BY <1>1 DEF RanksInv, AllDistinct
<1>23. \A b \in App : at'[b] \in 0 .. Len(script')
  BY <1>2, <1>3
<1>. QED
  BY <1>13, <1>14, <1>17, <1>18, <1>19, <1>20, <1>21, <1>22, <1>23 DEF RanksInv

LEMMA RanksCallFirst ==
  ASSUME IInv, RanksInv, NEW a \in App, NEW h \in Handle, CallFirst(a, h)
  PROVE  RanksInv'
<1>1. PICK op \in Calls(a, h) : /\ script' = Append(script, op)
                                /\ Ask(a, Len(script) + 1, op)
  BY DEF CallFirst
<1>2. phase[a] = "running" /\ h # 1 /\ Known(a, h) /\ Ahead(a) = {} /\ Len(script) < MaxOps
  BY DEF CallFirst, Known
<1>3. op \in Call /\ op.comm = h
  BY <1>1, ArgumentAssumption DEF Calls, Call, Kind
<1>4. Fits(op)
  <2>1. h < Len(communicators) /\ comms[a][h].dist.members = communicators[h + 1]
    BY <1>2, TableLemma
  <2>2. op.kind = "group" => Elements(op.group) \subseteq Elements(comms[a][h].dist.members)
    BY <1>1 DEF Calls
  <2>. QED  BY <1>2, <1>3, <2>1, <2>2 DEF Fits
<1>5. /\ script' \in Seq(Call)
      /\ Len(script') = Len(script) + 1
      /\ Len(script) \in Nat
      /\ \A j \in 1 .. Len(script) : script'[j] = script[j]
      /\ script'[Len(script) + 1] = op
      /\ DOMAIN script = 1 .. Len(script)
  BY <1>1, <1>3, AppendProperties, LenProperties DEF IInv, Shape
<1>6. h = 0 \/ (3 <= h /\ h < MaxComms)
  BY <1>2, TableLemma
<1>7. Callable'
  BY <1>3, <1>5, <1>6 DEF RanksInv, Callable
<1>8. op.kind = "group" => Distinct(op.group)
  <2>1. op.kind = "group" => op.group \in Groups
    BY <1>1 DEF Calls
  <2>. QED  BY <2>1, ArgumentAssumption DEF Distinct
<1>9. \A j \in 1 .. Len(script') : script'[j].kind = "group" => Distinct(script'[j].group)
  BY <1>5, <1>8 DEF RanksInv, AllDistinct
<1>10. PICK i : i = Len(script) + 1
  OBVIOUS
<1>11. at[a] \in 0 .. Len(script)
  BY DEF RanksInv
<1>12. \A j \in at[a] + 1 .. i - 1 : j \in 1 .. Len(script) /\ ~ Known(a, script[j].comm)
  BY <1>2, <1>5, <1>10, <1>11 DEF Ahead, Known
<1>13. i \in 1 .. Len(script') /\ at[a] < i /\ Len(script') >= Len(script) /\ Len(script') <= MaxOps
  BY <1>2, <1>5, <1>10, <1>11, ArgumentAssumption
<1>. QED
  BY <1>1, <1>2, <1>3, <1>4, <1>5, <1>7, <1>9, <1>10, <1>12, <1>13, RanksAsk

LEMMA RanksCallNext ==
  ASSUME IInv, RanksInv, NEW a \in App, CallNext(a)
  PROVE  RanksInv'
<1>1. PICK i \in Ahead(a) : (\A j \in Ahead(a) : i <= j) /\ Ask(a, i, script[i])
  BY DEF CallNext
<1>2. phase[a] = "running" /\ script' = script
  BY DEF CallNext
<1>3. /\ Len(script) \in Nat /\ DOMAIN script = 1 .. Len(script) /\ at[a] \in 0 .. Len(script)
      /\ i \in 1 .. Len(script) /\ i > at[a] /\ Known(a, script[i].comm)
  BY <1>1, LenProperties DEF Ahead, Known, IInv, Shape, RanksInv
<1>4. \A j \in at[a] + 1 .. i - 1 : j \in 1 .. Len(script) /\ ~ Known(a, script[j].comm)
  BY <1>1, <1>3 DEF Ahead, Known
<1>5. PICK op : op = script[i]
  OBVIOUS
<1>6. Fits(op)
  BY <1>3, <1>5 DEF IInv, Scripted
<1>7. /\ script' \in Seq(Call) /\ Len(script') <= MaxOps /\ Callable'
      /\ \A j \in 1 .. Len(script') : script'[j].kind = "group" => Distinct(script'[j].group)
  BY <1>2 DEF IInv, Shape, RanksInv, AllDistinct, Callable
<1>8. at[a] < i /\ Len(script') >= Len(script)
  BY <1>2, <1>3
<1>. QED
  BY <1>1, <1>2, <1>3, <1>4, <1>5, <1>6, <1>7, <1>8, RanksAsk

\* A process takes its reply, and makes the call on the communicator of its cluster.
LEMMA RanksReceive ==
  ASSUME IInv, RanksInv, NEW a \in App, ReceiveReply(a)
  PROVE  RanksInv'
<1>1. PICK r : replies[a] = <<r>> /\ Good(a, r) /\ Answers(a, r)
  BY DEF ReceiveReply, IInv, RepliesGood
<1>2. Head(replies[a]) = r /\ Tail(replies[a]) = << >>
  BY <1>1
<1>3. /\ phase[a] = "waiting"
      /\ reply' = [reply EXCEPT ![a] = r]
      /\ replies' = [replies EXCEPT ![a] = << >>]
      /\ UNCHANGED <<script, at, comms, requests, communicators, messages, locked, todo>>
  BY <1>2 DEF ReceiveReply, serverVars
<1> PICK h : h = CommOf(a)
  OBVIOUS
<1>4. PICK p \in {"running", "local"} :
        /\ phase' = [phase EXCEPT ![a] = p]
        /\ \/ p = "running" /\ UNCHANGED local
           \/ /\ p = "local"
              /\ local' = [local EXCEPT ![a][h] = [ at |-> at[a], color |-> r.color, key |-> r.key ]]
  <2>1. r.kind = script[at[a]].kind
    BY <1>1 DEF Answers
  <2>. QED  BY <1>2, <2>1 DEF ReceiveReply, Expected, IdleReply, CommOf
<1>5. /\ phase'[a] = p /\ reply'[a] = r /\ replies'[a] = << >>
      /\ \A b \in App \ {a} : phase'[b] = phase[b] /\ reply'[b] = reply[b] /\ replies'[b] = replies[b]
  BY <1>3, <1>4 DEF IInv, Shape
<1>6. Answer(a, r) /\ replies[a] # << >>
  BY <1>1, <1>3 DEF Answer
<1>7. /\ h \in Handle \ {1} /\ h < Len(communicators) /\ Known(a, h) /\ a \in Members(h)
      /\ ~ Out(a, h) /\ at[a] \in 1 .. Len(script)
  BY <1>3, <1>6, InCallLemma, NotOut
<1>8. at[a] \in Done(a, h)
  BY <1>3, <1>7, MadeLemma DEF Done
<1>9. r.color \in Int /\ r.key \in Int
  BY <1>6 DEF RanksInv, RepliesExact, Exact
<1>10. /\ \A g : Members(g)' = Members(g)
       /\ \A b, g : Done(b, g)' = Done(b, g) /\ Known(b, g)' = Known(b, g)
       /\ \A b : CommOf(b)' = CommOf(b)
       /\ \A g : Unanswered(g)' = Unanswered(g)
       /\ \A q : Typed(q)' = Typed(q)
       /\ \A g, o : PartOf(g, o)' = PartOf(g, o)
  <2>1. \A b, g : Made(b, g)' = Made(b, g) /\ Out(b, g)' = Out(b, g)
    BY <1>3 DEF Made, Out
  <2>2. \A b, g : Done(b, g)' = Done(b, g) /\ Known(b, g)' = Known(b, g)
    BY <1>3, <2>1 DEF Done, Known
  <2>3. \A q : Typed(q)' = Typed(q)
    BY <1>3 DEF Typed
  <2>4. \A g, o : PartOf(g, o)' = PartOf(g, o)
    BY <1>3 DEF PartOf
  <2>. QED  BY <1>3, <2>2, <2>3, <2>4 DEF Members, CommOf, Unanswered
\* What is new in local is r.
<1>11. /\ DOMAIN local' = App /\ \A b \in App : DOMAIN local'[b] = Handle
       /\ \A b \in App : \A g \in Handle :
            \/ local'[b][g] = local[b][g]
            \/ /\ b = a /\ g = h /\ p = "local"
               /\ local'[b][g] = [ at |-> at[a], color |-> r.color, key |-> r.key ]
  <2>1. DOMAIN local = App /\ \A b \in App : DOMAIN local[b] = Handle
    BY DEF RanksInv, LocalDone
  <2>. QED  BY <1>4, <1>7, <2>1
<1>12. LocalDone'
  <2> SUFFICES ASSUME NEW b \in App, NEW g \in Handle, local'[b][g] # None
               PROVE  /\ g # 1 /\ Known(b, g)
                      /\ local'[b][g].at \in Done(b, g)
                      /\ local'[b][g].color \in Int /\ local'[b][g].key \in Int
                      /\ phase'[b] = "waiting" /\ g = CommOf(b) => local'[b][g].at < at[b]
    BY <1>3, <1>10, <1>11 DEF LocalDone
  <2>1. CASE local'[b][g] = local[b][g]
    <3>1. phase'[b] = "waiting" => phase[b] = "waiting"
      BY <1>4, <1>5
    <3>. QED  BY <2>1, <3>1 DEF RanksInv, LocalDone
  <2>2. CASE /\ b = a /\ g = h /\ p = "local"
             /\ local'[b][g] = [ at |-> at[a], color |-> r.color, key |-> r.key ]
    BY <1>5, <1>7, <1>8, <1>9, <2>2
  <2>. QED  BY <1>11, <2>1, <2>2
<1>13. \A b \in App : \A x : Answer(b, x)' => Answer(b, x)
  <2> SUFFICES ASSUME NEW b \in App, NEW x, Answer(b, x)' PROVE Answer(b, x)
    OBVIOUS
  <2>1. CASE b = a
    <3>1. x = r
      BY <1>4, <1>5, <2>1 DEF Answer
    <3>. QED  BY <1>6, <2>1, <3>1
  <2>2. CASE b # a
    BY <1>5, <2>2 DEF Answer
  <2>. QED  BY <2>1, <2>2
<1>14. \A b \in App : \A s : phase'[b] = "waiting" /\ replies'[b] = <<s>>
                               => phase[b] = "waiting" /\ replies[b] = <<s>>
  BY <1>4, <1>5
<1>15. OneSplit'
  <2> SUFFICES ASSUME NEW x \in App, NEW g \in Handle, NEW y, Part(x, g, y)'
               PROVE  /\ \A b \in App :
                           local'[b][g] # None /\ local'[b][g].at = at[x]
                             => Agrees(y, b, local'[b][g].color, local'[b][g].key)
                      /\ \A b \in App : \A s :
                           phase'[b] = "waiting" /\ replies'[b] = <<s>> /\ CommOf(b) = g
                             => Agrees(y, b, s.color, s.key)
                      /\ g \in locked => \A q \in Unanswered(g) :
                                           q.color # y.color /\ q.src \notin Elements(y.members)
    BY <1>3, <1>10 DEF OneSplit
  <2>1. Part(x, g, y)
    <3>1. Answer(x, y) /\ CommOf(x) = g /\ y.kind = "split" /\ y.newComm # -1
      BY <1>10, <1>13 DEF Part
    <3>2. phase[x] # "running"
      BY <3>1 DEF Answer
    <3>. QED  BY <3>1, <3>2 DEF Part
  <2>2. /\ \A b \in App :
              local[b][g] # None /\ local[b][g].at = at[x]
                => Agrees(y, b, local[b][g].color, local[b][g].key)
        /\ \A b \in App : \A s :
              phase[b] = "waiting" /\ replies[b] = <<s>> /\ CommOf(b) = g
                => Agrees(y, b, s.color, s.key)
        /\ g \in locked => \A q \in Unanswered(g) :
                             q.color # y.color /\ q.src \notin Elements(y.members)
    BY <2>1 DEF RanksInv, OneSplit
  <2>3. h = g => Agrees(y, a, r.color, r.key)
    BY <1>1, <1>3, <2>2
  <2>4. ASSUME NEW b \in App, local'[b][g] # None, local'[b][g].at = at[x]
        PROVE  Agrees(y, b, local'[b][g].color, local'[b][g].key)
    <3>1. CASE local'[b][g] = local[b][g]
      BY <2>2, <2>4, <3>1
    <3>2. CASE /\ b = a /\ g = h /\ p = "local"
               /\ local'[b][g] = [ at |-> at[a], color |-> r.color, key |-> r.key ]
      BY <2>3, <3>2
    <3>. QED  BY <1>11, <3>1, <3>2
  <2>. QED  BY <1>14, <2>2, <2>4
<1>16. FreshColors'
  <2> SUFFICES ASSUME NEW g \in locked, NEW q \in Unanswered(g), q.kind = "split", q.color >= 0
               PROVE  /\ \A b \in App : local'[b][g] # None /\ local'[b][g].at = at[q.src]
                                          => local'[b][g].color # q.color
                      /\ \A b \in App : \A s :
                           phase'[b] = "waiting" /\ replies'[b] = <<s>> /\ CommOf(b) = g
                             => s.color # q.color
    BY <1>3, <1>10 DEF FreshColors
  <2>1. g \in Handle
    BY DEF IInv, Shape
  <2>2. /\ \A b \in App : local[b][g] # None /\ local[b][g].at = at[q.src]
                            => local[b][g].color # q.color
        /\ \A b \in App : \A s :
             phase[b] = "waiting" /\ replies[b] = <<s>> /\ CommOf(b) = g => s.color # q.color
    BY DEF RanksInv, FreshColors
  <2>3. h = g => r.color # q.color
    BY <1>1, <1>3, <2>2
  <2>4. ASSUME NEW b \in App, local'[b][g] # None, local'[b][g].at = at[q.src]
        PROVE  local'[b][g].color # q.color
    <3>1. CASE local'[b][g] = local[b][g]
      BY <2>2, <2>4, <3>1
    <3>2. CASE /\ b = a /\ g = h /\ p = "local"
               /\ local'[b][g] = [ at |-> at[a], color |-> r.color, key |-> r.key ]
      BY <2>3, <3>2
    <3>. QED  BY <1>11, <2>1, <3>1, <3>2
  <2>. QED  BY <1>14, <2>2, <2>4
<1>17. RequestsTyped'
  BY <1>3, <1>10 DEF RanksInv, RequestsTyped
<1>18. RepliesExact'
  <2> SUFFICES ASSUME NEW b \in App, NEW x, Answer(b, x)' PROVE Exact(b, x)'
    BY DEF RepliesExact
  <2>1. Exact(b, x)
    BY <1>13 DEF RanksInv, RepliesExact
  <2>. QED  BY <1>3, <1>10, <2>1 DEF Exact
<1>19. EntriesExact'
  BY <1>3, <1>10 DEF RanksInv, EntriesExact
<1>20. SameCalls'
  BY <1>3, <1>10 DEF RanksInv, SameCalls
<1>21. AllDistinct' /\ Callable'
  BY <1>3 DEF RanksInv, AllDistinct, Callable
<1>. QED
  BY <1>3, <1>12, <1>15, <1>16, <1>17, <1>18, <1>19, <1>20, <1>21 DEF RanksInv

\* The part of a new communicator in the cluster of a.
LEMMA RanksCreateEntry ==
  ASSUME IInv, RanksInv, NEW a \in App, CreateCommunicator(a), reply[a].newComm # -1
  PROVE  EntryExact(a, NewEntry(a, script[at[a]], comms[a][CommOf(a)]))
<1> PICK r, op, h, c : r = reply[a] /\ op = script[at[a]] /\ h = CommOf(a) /\ c = comms[a][h]
  OBVIOUS
<1>1. /\ phase[a] = "local"
      /\ \A b \in LocalPeers(a, c) : local[b][h] # None /\ local[b][h].at >= at[a]
  BY DEF CreateCommunicator, CommOf
<1>2. Answer(a, r)
  BY <1>1 DEF Answer
<1>3. /\ op.comm = h /\ h \in Handle \ {1} /\ h < Len(communicators) /\ Known(a, h) /\ op \in Call
      /\ at[a] \in 1 .. Len(script) /\ ~ Out(a, h)
  BY <1>1, InCallLemma, NotOut DEF CommOf
<1>4. Good(a, r) /\ r.kind = op.kind
  BY <1>2, AnswerLemma DEF Answers
<1>5. EntryExact(a, c)
  BY <1>3 DEF RanksInv, EntriesExact
<1>6. CASE op.kind = "dup"
  BY <1>5, <1>6 DEF NewEntry
<1>7. CASE op.kind # "dup"
  <2>1. PICK mem, n : mem = r.members /\ n = r.newComm
    OBVIOUS
  <2>2. /\ n \in Nat /\ n < Len(communicators) /\ communicators[n + 1] = mem
        /\ HasRank(a, n, r.rank)
    BY <1>4, <1>7, <2>1 DEF Good
  <2>3. mem \in Seq(App) /\ Distinct(mem)
    <3>1. n + 1 \in 1 .. Len(communicators)
      BY <2>2, LenProperties DEF IInv, Shape
    <3>. QED  BY <2>2, <3>1, ElementOfSeq DEF IInv, Shape, RanksInv, AllDistinct
  <2>4. r.rank \in 1 .. Len(mem) /\ mem[r.rank] = a
    BY <2>2 DEF HasRank
  <2>5. a \in Elements(mem) /\ RankIn(mem, a) = r.rank
    BY <2>3, <2>4, DistinctRank, LenProperties DEF Elements
  <2>6. Exact(a, r)
    BY <1>2 DEF RanksInv, RepliesExact
  <2>7. LinedUp(LocalResult(a, op, c), mem, a)
    <3>1. CASE op.kind = "group"
      <4>1. mem = op.group
        BY <1>4, <2>1, <2>6, <3>1 DEF Exact
      <4>. QED  BY <2>3, <2>5, <3>1, <4>1, GroupResult
    <3>2. CASE op.kind = "split"
      <4>1. c.dist.members = communicators[h + 1]
        BY <1>3, TableLemma
      <4>2. Elements(mem) \subseteq Elements(c.dist.members)
        BY <1>4, <2>1, <2>6, <3>2, <4>1 DEF Exact, Members
      <4>3. Part(a, h, r)
        BY <1>1, <1>2, <1>4, <2>1, <3>2 DEF Part
      <4>4. a \in LocalPeers(a, c)
        BY <2>5, <4>2 DEF LocalPeers
      <4>5. ASSUME NEW b \in LocalPeers(a, c)
            PROVE  /\ b \in App /\ Known(b, h)
                   /\ Agrees(r, b, local[b][h].color, local[b][h].key)
        <5>1. b \in App
          <6>1. b \in Members(h)
            BY <4>1 DEF LocalPeers, Members
          <6>. QED  BY <1>3, <6>1, MembersLemma
        <5>2. local[b][h] # None /\ local[b][h].at >= at[a]
          BY <1>1
        <5>3. local[b][h].at \in Int /\ local[b][h].at <= at[a]
          BY <1>1, <1>3, <5>1, <5>2, NotAhead
        <5>4. local[b][h].at = at[a]
          <6>1. at[a] \in Int
            BY <1>3, LenProperties DEF IInv, Shape
          <6>. QED  BY <5>2, <5>3, <6>1
        <5>5. Known(b, h)
          BY <1>3, <5>1, <5>2 DEF RanksInv, LocalDone
        <5>. QED  BY <1>3, <4>3, <5>1, <5>2, <5>4, <5>5 DEF RanksInv, OneSplit
      <4>6. local[a][h].color = r.color
        BY <2>1, <2>5, <4>4, <4>5 DEF Agrees
      <4>7. ASSUME NEW b \in LocalPeers(a, c)
            PROVE  comms[b][h].localRank \in Int
        <5>1. EntryExact(b, comms[b][h])
          BY <1>3, <4>5 DEF RanksInv, EntriesExact
        <5>2. HasRank(b, h, comms[b][h].rank) /\ comms[b][h].dist.members = communicators[h + 1]
          BY <1>3, <4>5, TableLemma
        <5>3. communicators[h + 1] \in Seq(App)
          BY <1>3, MembersLemma
        <5>4. comms[b][h] \in Communicator
          BY <4>5, <5>1, <5>2, <5>3, EntryLemma DEF HasRank
        <5>. QED  BY <5>4 DEF Communicator
      <4>8. \A b \in LocalPeers(a, c) :
              /\ local[b][op.comm].color = local[a][op.comm].color <=> b \in Elements(mem)
              /\ b \in Elements(mem) => local[b][op.comm].key = LocalKey(mem, b)
              /\ comms[b][op.comm].localRank \in Int
        BY <1>3, <2>1, <4>5, <4>6, <4>7 DEF Agrees
      <4>. QED  BY <2>3, <2>5, <3>2, <4>2, <4>8, SplitResult
    <3>. QED  BY <1>3, <1>7, <3>1, <3>2 DEF Call, Kind
  <2>8. PICK peers : peers = LocalResult(a, op, c)
    OBVIOUS
  <2>9. NewEntry(a, op, c) = Entry(mem, r.rank, RankIn(peers, a), Len(peers))
    BY <1>7, <2>1, <2>8 DEF NewEntry
  <2>10. PICK k, l : k = RankIn(peers, a) /\ l = Len(peers)
    OBVIOUS
  <2>11. PICK e : e = Entry(mem, r.rank, k, l)
    OBVIOUS
  <2>12. e.dist.members = mem /\ e.rank = r.rank /\ e.localRank = k /\ e.localSize = l
    BY <2>3, <2>11, DistributionTyped DEF Entry
  <2>13. /\ k = Cardinality({ j \in 1 .. r.rank : Home[mem[j]] = Home[a] })
         /\ l = Cardinality({ j \in DOMAIN mem : Home[mem[j]] = Home[a] })
    BY <2>5, <2>7, <2>8, <2>10 DEF LinedUp
  <2>14. e = Entry(mem, e.rank, e.localRank, e.localSize)
    BY <2>11, <2>12
  <2>15. EntryExact(a, e)
    BY <2>12, <2>13, <2>14 DEF EntryExact
  <2>. QED  BY <2>9, <2>10, <2>11, <2>15
<1>. QED  BY <1>6, <1>7

LEMMA RanksCreate ==
  ASSUME IInv, RanksInv, NEW a \in App, CreateCommunicator(a)
  PROVE  RanksInv'
<1> PICK h, e : h = reply[a].newComm /\ e = NewEntry(a, script[at[a]], comms[a][CommOf(a)])
  OBVIOUS
<1>1. /\ phase[a] = "local"
      /\ UNCHANGED <<script, at, reply, local, replies, requests, communicators, messages, locked, todo>>
      /\ phase' = [phase EXCEPT ![a] = "running"]
  BY DEF CreateCommunicator, serverVars
<1>2. /\ phase'[a] = "running"
      /\ \A b \in App \ {a} : phase'[b] = phase[b]
  BY <1>1 DEF IInv, Shape
<1>3. \/ UNCHANGED comms
      \/ h # -1 /\ AddCommunicator(a, h, e)
  BY DEF CreateCommunicator, Joins, CommOf
<1>4. \A b \in App : \A g \in Handle :
        \/ comms'[b][g] = comms[b][g]
        \/ h # -1 /\ b = a /\ comms[b][g] = None /\ comms'[b][g] = e
  BY <1>3 DEF AddCommunicator, IInv, Shape
<1>5. \A b \in App : \A g \in Handle : Known(b, g) => Known(b, g)'
  BY <1>4 DEF Known
<1>6. EntriesExact'
  <2> SUFFICES ASSUME NEW b \in App, NEW g \in Handle \ {1}, Known(b, g)'
               PROVE  EntryExact(b, comms'[b][g])
    BY DEF EntriesExact
  <2>1. CASE comms'[b][g] = comms[b][g]
    BY <2>1 DEF RanksInv, EntriesExact, Known
  <2>2. CASE h # -1 /\ b = a /\ comms[b][g] = None /\ comms'[b][g] = e
    BY <2>2, RanksCreateEntry
  <2>. QED  BY <1>4, <2>1, <2>2
<1>7. /\ \A g : Members(g)' = Members(g)
      /\ \A b, g : Done(b, g)' = Done(b, g)
      /\ \A b : CommOf(b)' = CommOf(b)
      /\ \A g : Unanswered(g)' = Unanswered(g)
      /\ \A q : Typed(q)' = Typed(q)
      /\ \A g, o : PartOf(g, o)' = PartOf(g, o)
  <2>1. \A b, g : Made(b, g)' = Made(b, g) /\ Out(b, g)' = Out(b, g)
    BY <1>1 DEF Made, Out
  <2>2. \A b, g : Done(b, g)' = Done(b, g)
    BY <1>1, <2>1 DEF Done
  <2>3. \A q : Typed(q)' = Typed(q)
    BY <1>1 DEF Typed
  <2>4. \A g, o : PartOf(g, o)' = PartOf(g, o)
    BY <1>1 DEF PartOf
  <2>. QED  BY <1>1, <2>2, <2>3, <2>4 DEF Members, CommOf, Unanswered
<1>8. \A b \in App : \A x : Answer(b, x)' => Answer(b, x)
  BY <1>1, <1>2 DEF Answer
<1>9. \A b \in App : phase'[b] = "waiting" => phase[b] = "waiting"
  BY <1>2
<1>10. LocalDone'
  BY <1>1, <1>5, <1>7, <1>9 DEF RanksInv, LocalDone
<1>11. OneSplit'
  <2> SUFFICES ASSUME NEW x \in App, NEW g \in Handle, NEW y, Part(x, g, y)' PROVE Part(x, g, y)
    BY <1>1, <1>7, <1>9 DEF RanksInv, OneSplit
  <2>1. Answer(x, y) /\ CommOf(x) = g /\ y.kind = "split" /\ y.newComm # -1
    BY <1>7, <1>8 DEF Part
  <2>2. phase[x] # "running"
    BY <2>1 DEF Answer
  <2>. QED  BY <2>1, <2>2 DEF Part
<1>12. FreshColors'
  BY <1>1, <1>7, <1>9 DEF RanksInv, FreshColors
<1>13. RequestsTyped'
  BY <1>1, <1>7 DEF RanksInv, RequestsTyped
<1>14. RepliesExact'
  <2> SUFFICES ASSUME NEW b \in App, NEW x, Answer(b, x)' PROVE Exact(b, x)'
    BY DEF RepliesExact
  <2>1. Exact(b, x)
    BY <1>8 DEF RanksInv, RepliesExact
  <2>. QED  BY <1>1, <1>7, <2>1 DEF Exact
<1>15. SameCalls'
  BY <1>1, <1>7 DEF RanksInv, SameCalls
<1>16. AllDistinct' /\ Callable'
  BY <1>1 DEF RanksInv, AllDistinct, Callable
<1>. QED
  BY <1>1, <1>6, <1>10, <1>11, <1>12, <1>13, <1>14, <1>15, <1>16 DEF RanksInv

-----------------------------------------------------------------------------
(* Steps of the server *)

LEMMA RanksReset ==
  ASSUME IInv, RanksInv, NEW h \in Handle, ResetMessages(h)
  PROVE  RanksInv'
<1>1. /\ h \in locked
      /\ messages' = [messages EXCEPT ![h] = {}]
      /\ locked' = locked \ {h}
      /\ UNCHANGED <<script, at, phase, reply, local, comms, requests, replies, communicators, todo>>
  BY DEF ResetMessages, appVars
<1>2. /\ messages'[h] = {}
      /\ \A g \in Handle \ {h} : messages'[g] = messages[g]
  BY <1>1 DEF IInv, Shape
<1>3. /\ \A g : Members(g)' = Members(g)
      /\ \A b \in App : \A g \in Handle : Done(b, g)' = Done(b, g) /\ Known(b, g)' = Known(b, g)
      /\ \A b : CommOf(b)' = CommOf(b)
      /\ \A b, r : Answer(b, r)' <=> Answer(b, r)
  <2>1. \A b, g : Made(b, g)' = Made(b, g) /\ Known(b, g)' = Known(b, g)
    BY <1>1 DEF Made, Known
  <2>2. ASSUME NEW b \in App, NEW g \in Handle PROVE Out(b, g)' = Out(b, g)
    <3>1. CASE g = h
      BY <1>1, <1>2, <3>1 DEF Out
    <3>2. CASE g # h
      BY <1>1, <1>2, <3>2 DEF Out
    <3>. QED  BY <3>1, <3>2
  <2>3. \A b \in App : \A g \in Handle : Done(b, g)' = Done(b, g)
    BY <1>1, <2>1, <2>2 DEF Done
  <2>. QED  BY <1>1, <2>1, <2>3 DEF Members, CommOf, Answer
<1>4. /\ Unanswered(h)' = {}
      /\ \A g \in Handle \ {h} : Unanswered(g)' = Unanswered(g)
  BY <1>1, <1>2 DEF Unanswered
<1>5. \A g \in locked' : g \in locked /\ g \in Handle \ {h}
  BY <1>1 DEF IInv, Shape
<1>6. OneSplit'
  <2> SUFFICES ASSUME NEW x \in App, NEW g \in Handle, NEW y, Part(x, g, y)' PROVE Part(x, g, y)
    BY <1>1, <1>3, <1>4, <1>5 DEF RanksInv, OneSplit
  <2>. QED  BY <1>1, <1>3 DEF Part
<1>7. FreshColors'
  BY <1>1, <1>3, <1>4, <1>5 DEF RanksInv, FreshColors
<1>8. RequestsTyped'
  <2>1. \A q : Typed(q)' = Typed(q)
    BY <1>1 DEF Typed
  <2>2. ASSUME NEW g \in Handle
        PROVE  /\ messages'[g] \subseteq Request
               /\ \A q \in Unanswered(g)' : Typed(q)'
               /\ \A o \in todo'[g] : PartOf(g, o)'
    <3>1. CASE g = h
      BY <1>1, <1>2, <1>4, <3>1 DEF ResetMessages
    <3>2. CASE g # h
      BY <1>1, <1>2, <1>4, <2>1, <3>2 DEF RanksInv, RequestsTyped, PartOf
    <3>. QED  BY <3>1, <3>2
  <2>. QED  BY <1>1, <2>1, <2>2 DEF RanksInv, RequestsTyped
<1>9. RepliesExact'
  <2> SUFFICES ASSUME NEW b \in App, NEW x, Answer(b, x)' PROVE Exact(b, x)'
    BY DEF RepliesExact
  <2>1. Exact(b, x)
    BY <1>3 DEF RanksInv, RepliesExact
  <2>. QED  BY <1>1, <1>3, <2>1 DEF Exact
<1>10. EntriesExact'
  BY <1>1, <1>3 DEF RanksInv, EntriesExact
<1>11. SameCalls'
  <2> SUFFICES ASSUME NEW g \in Handle \ {1}, g < Len(communicators)
               PROVE  \A b, d \in Members(g) : Done(b, g)' = Done(d, g)'
    BY <1>1, <1>3 DEF SameCalls
  <2>1. Members(g) \subseteq App
    BY MembersLemma
  <2>. QED  BY <1>3, <2>1 DEF RanksInv, SameCalls
<1>12. LocalDone'
  BY <1>1, <1>3 DEF RanksInv, LocalDone
<1>13. AllDistinct' /\ Callable'
  BY <1>1 DEF RanksInv, AllDistinct, Callable
<1>. QED
  BY <1>1, <1>6, <1>7, <1>8, <1>9, <1>10, <1>11, <1>12, <1>13 DEF RanksInv

\* The parts of the operation the requests in ask for.
LEMMA OperationsLemma ==
  ASSUME NEW in, in # {}, in \subseteq Request, NEW o \in Operations(in)
  PROVE  /\ o.kind = "group" => \A q \in in : q.group = o.group
         /\ o.kind = "split" => \E q \in in : q.color = o.color
         /\ o \in [kind : Kind, color : Int, group : Groups \cup {NoGroup}]
<1>1. PICK first : Operations(in) =
        IF \E p \in in : p.kind # first.kind \/ p.group # first.group THEN {}
        ELSE IF first.kind = "split"
        THEN { [kind |-> "split", color |-> p.color, group |-> NoGroup] : p \in in }
        ELSE { [kind |-> first.kind, color |-> 0, group |-> first.group] }
  BY DEF Operations
<1>2. \A p \in in : p.kind = first.kind /\ p.group = first.group
  BY <1>1
<1>3. first.kind \in Kind /\ first.group \in Groups \cup {NoGroup}
  BY <1>2 DEF Request
<1>4. CASE first.kind = "split"
  <2>1. PICK p \in in : o = [kind |-> "split", color |-> p.color, group |-> NoGroup]
    BY <1>1, <1>2, <1>4
  <2>2. p.color \in Int
    BY DEF Request
  <2>. QED  BY <2>1, <2>2 DEF Kind
<1>5. CASE first.kind # "split"
  <2>1. o = [kind |-> first.kind, color |-> 0, group |-> first.group]
    BY <1>1, <1>2, <1>5
  <2>. QED  BY <1>2, <1>3, <1>5, <2>1
<1>. QED  BY <1>4, <1>5

\* A request comes in, and maybe it is the last one.
LEMMA RanksDeliver ==
  ASSUME IInv, RanksInv, NEW q \in requests, DeliverRequest(q)
  PROVE  RanksInv'
<1> PICK h : h = q.comm
  OBVIOUS
<1> DEFINE in == messages[h] \cup {q}
<1>1. /\ h \notin locked
      /\ requests' = requests \ {q}
      /\ UNCHANGED <<script, at, phase, reply, local, comms, replies, communicators>>
  BY DEF DeliverRequest, Unlocked, appVars
<1>2. /\ RequestGood(q) /\ Asks(q) /\ q.src \in App
      /\ h \in Handle \ {1} /\ h < Len(communicators)
      /\ HasRank(q.src, h, q.rank)
  BY DEF IInv, OneRequest, RequestGood, Fits
<1>3. Unanswered(h) = messages[h]
  BY <1>1 DEF Unanswered
<1>4. \A p \in messages[h] : p.rank # q.rank /\ p.src # q.src
  <2> SUFFICES ASSUME NEW p \in messages[h] PROVE p.rank # q.rank /\ p.src # q.src
    OBVIOUS
  <2>1. p.src # q.src
    BY <1>2, <1>3 DEF IInv, OneRequest
  <2>2. HasRank(p.src, h, p.rank)
    BY <1>2 DEF IInv, OneRequest, RequestGood
  <2>. QED  BY <1>2, <2>1, <2>2 DEF HasRank
<1>5. /\ messages' = [messages EXCEPT ![h] = in]
      /\ \/ UNCHANGED <<locked, todo>>
         \/ /\ Cardinality(in) = Len(communicators[h + 1])
            /\ locked' = locked \cup {h}
            /\ todo' = [todo EXCEPT ![h] = Operations(in)]
  BY <1>4 DEF DeliverRequest, AllIn
<1>6. /\ messages'[h] = in
      /\ \A g \in Handle \ {h} : /\ messages'[g] = messages[g]
                                 /\ g \in locked' <=> g \in locked
                                 /\ todo'[g] = todo[g]
  BY <1>2, <1>5 DEF IInv, Shape
<1>7. \A p \in in : /\ RequestGood(p) /\ Asks(p) /\ Typed(p) /\ p.comm = h
                    /\ p.src \in App /\ p \in Request
                    /\ HasRank(p.src, h, p.rank)
  <2> SUFFICES ASSUME NEW p \in in
               PROVE  RequestGood(p) /\ Asks(p) /\ Typed(p) /\ p.comm = h
    BY DEF RequestGood, Typed
  <2>1. CASE p = q
    BY <1>2, <2>1 DEF RanksInv, RequestsTyped
  <2>2. CASE p \in messages[h]
    BY <1>2, <1>3, <2>2 DEF RanksInv, RequestsTyped, IInv, OneRequest
  <2>. QED  BY <2>1, <2>2
<1>8. /\ \A g \in Handle \ {h} : Unanswered(g)' = Unanswered(g)
      /\ Unanswered(h)' \subseteq in
  BY <1>6 DEF Unanswered
<1>9. /\ \A g : Members(g)' = Members(g)
      /\ \A b, g : Made(b, g)' = Made(b, g) /\ Known(b, g)' = Known(b, g)
      /\ \A b : CommOf(b)' = CommOf(b)
      /\ \A b, r : Answer(b, r)' <=> Answer(b, r)
      /\ \A b, g, r : Part(b, g, r)' <=> Part(b, g, r)
      /\ \A p : Typed(p)' <=> Typed(p)
  BY <1>1 DEF Members, Made, Known, CommOf, Answer, Part, Typed
<1>10. ASSUME NEW b \in App, NEW g \in Handle \ {h} PROVE Done(b, g)' = Done(b, g)
  <2>1. Out(b, g)' <=> Out(b, g)
    BY <1>1, <1>6 DEF Out
  <2>. QED  BY <1>1, <1>9, <2>1 DEF Done
\* The parts of the proof that the messages of h matter for.
<1>11. ASSUME UNCHANGED <<locked, todo>>
       PROVE  /\ SameCalls' /\ LocalDone' /\ OneSplit' /\ FreshColors'
              /\ \A o \in todo'[h] : PartOf(h, o)'
  <2>1. ASSUME NEW b \in App PROVE Done(b, h)' = Done(b, h)
    <3>1. Out(b, h)' <=> Out(b, h)
      BY <1>1, <1>6, <1>11 DEF Out
    <3>. QED  BY <1>1, <1>9, <3>1 DEF Done
  <2>2. SameCalls'
    <3> SUFFICES ASSUME NEW g \in Handle \ {1}, g < Len(communicators),
                        NEW b \in Members(g), NEW d \in Members(g)
                 PROVE  Done(b, g)' = Done(d, g)'
      BY <1>1, <1>9 DEF SameCalls
    <3>1. b \in App /\ d \in App
      BY MembersLemma
    <3>2. Done(b, g)' = Done(b, g) /\ Done(d, g)' = Done(d, g)
      BY <1>10, <2>1, <3>1
    <3>. QED  BY <3>2 DEF RanksInv, SameCalls
  <2>3. LocalDone'
    BY <1>1, <1>9, <1>10, <2>1 DEF RanksInv, LocalDone
  <2>4. OneSplit'
    <3> SUFFICES ASSUME NEW x \in App, NEW g \in Handle, NEW r, Part(x, g, r)
                 PROVE  /\ \A b \in App :
                             local[b][g] # None /\ local[b][g].at = at[x]
                               => Agrees(r, b, local[b][g].color, local[b][g].key)
                        /\ \A b \in App : \A s :
                             phase[b] = "waiting" /\ replies[b] = <<s>> /\ CommOf(b) = g
                               => Agrees(r, b, s.color, s.key)
                        /\ g \in locked' => \A p \in Unanswered(g)' :
                                              p.color # r.color /\ p.src \notin Elements(r.members)
      BY <1>1, <1>9 DEF OneSplit
    <3>1. g \in locked' => g \in locked /\ Unanswered(g)' = Unanswered(g)
      BY <1>1, <1>8, <1>11
    <3>. QED  BY <3>1 DEF RanksInv, OneSplit
  <2>5. FreshColors'
    <3>1. \A g \in locked' : g \in locked /\ g \in Handle \ {h}
      BY <1>1, <1>11 DEF IInv, Shape
    <3>. QED  BY <1>1, <1>8, <1>9, <3>1 DEF RanksInv, FreshColors
  <2>6. todo'[h] = {}
    BY <1>1, <1>2, <1>11 DEF IInv, ServerGood
  <2>. QED  BY <2>2, <2>3, <2>4, <2>5, <2>6
<1>12. ASSUME Cardinality(in) = Len(communicators[h + 1]),
              locked' = locked \cup {h},
              todo' = [todo EXCEPT ![h] = Operations(in)]
       PROVE  /\ SameCalls' /\ LocalDone' /\ OneSplit' /\ FreshColors'
              /\ \A o \in todo'[h] : PartOf(h, o)'
  <2>1. todo'[h] = Operations(in)
    BY <1>2, <1>12 DEF IInv, Shape
  <2>2. ASSUME NEW b \in Members(h) PROVE \E p \in in : p.src = b
    <3>1. IsFiniteSet(in)
      <4>1. IsFiniteSet(messages[h])
        BY <1>2 DEF IInv, Shape
      <4>. QED  BY <4>1, FS_AddElement
    <3>2. communicators[h + 1] \in Seq(App)
      BY <1>2, MembersLemma
    <3>3. \A p \in in : /\ p.rank \in 1 .. Len(communicators[h + 1])
                        /\ communicators[h + 1][p.rank] = p.src
      BY <1>7 DEF HasRank
    <3>4. \A p, r \in in : p.rank = r.rank => p = r
      BY <1>2, <1>4 DEF IInv, OneRequest
    <3>5. Cardinality(in) = Len(communicators[h + 1])
      BY <1>12
    <3> HIDE DEF in
    <3>. QED  BY <3>1, <3>2, <3>3, <3>4, <3>5, EachOneLemma DEF Members
\* All members wait, with their request among the messages.
  <2>3. ASSUME NEW b \in Members(h)
        PROVE  /\ b \in App /\ phase[b] = "waiting" /\ replies[b] = << >> /\ CommOf(b) = h
               /\ Out(b, h)
               /\ \A p \in requests \ {q} : p.src # b
    <3>1. PICK p \in in : p.src = b
      BY <2>2
    <3>2. Asks(p) /\ b \in App /\ p.comm = h
      BY <1>7, <3>1
    <3>3. phase[b] = "waiting" /\ replies[b] = << >> /\ CommOf(b) = h
      BY <3>1, <3>2 DEF Asks, CommOf
    <3>4. CASE p = q
      BY <3>1, <3>2, <3>3, <3>4 DEF Out, IInv, OneRequest
    <3>5. CASE p \in messages[h]
      BY <1>1, <1>2, <1>3, <3>1, <3>2, <3>3, <3>5 DEF Out, IInv, OneRequest
    <3>. QED  BY <3>1, <3>4, <3>5
  <2>4. ASSUME NEW b \in App PROVE ~ Out(b, h)'
    <3>1. h \in locked'
      BY <1>12
    <3>2. ASSUME NEW p \in requests \ {q}, p.src = b, p.comm = h PROVE FALSE
      <4>1. HasRank(b, h, p.rank)
        BY <3>2 DEF IInv, OneRequest, RequestGood
      <4>2. b \in Members(h)
        <5>1. communicators[h + 1] \in Seq(App)
          BY <1>2, MembersLemma
        <5>. QED  BY <4>1, <5>1, LenProperties DEF HasRank, Members, Elements
      <4>. QED  BY <2>3, <3>2, <4>2
    <3>. QED  BY <1>1, <3>1, <3>2 DEF Out
  <2>5. \A b \in App : Done(b, h)' = Made(b, h)
    BY <1>9, <2>4 DEF Done
  <2>6. ASSUME NEW b \in Members(h)
        PROVE  Done(b, h) = Made(b, h) \ {at[b]} /\ at[b] \in Made(b, h) /\ at[b] \in Int
    <3>1. at[b] \in Made(b, h)
      BY <1>2, <2>3, MadeLemma
    <3>. QED  BY <1>2, <2>3, <3>1, MadeLemma DEF Done
  <2>7. ASSUME NEW b \in Members(h), NEW d \in Members(h), at[b] < at[d] PROVE FALSE
    <3>1. Done(b, h) = Done(d, h)
      BY <1>2 DEF RanksInv, SameCalls
    <3>2. at[b] \in Made(d, h)
      BY <2>6, <2>7 DEF Made
    <3>. QED  BY <2>6, <2>7, <3>1, <3>2
  <2>8. ASSUME NEW b \in Members(h), NEW d \in Members(h) PROVE Made(b, h) = Made(d, h)
    <3>1. at[b] = at[d]
      BY <2>6, <2>7
    <3>. QED  BY <3>1 DEF Made
  <2>9. SameCalls'
    <3> SUFFICES ASSUME NEW g \in Handle \ {1}, g < Len(communicators),
                        NEW b \in Members(g), NEW d \in Members(g)
                 PROVE  Done(b, g)' = Done(d, g)'
      BY <1>1, <1>9 DEF SameCalls
    <3>1. b \in App /\ d \in App
      BY MembersLemma
    <3>2. CASE g = h
      BY <2>5, <2>8, <3>1, <3>2
    <3>3. CASE g # h
      BY <1>10, <3>1, <3>3 DEF RanksInv, SameCalls
    <3>. QED  BY <3>2, <3>3
  <2>10. LocalDone'
    <3>1. \A b \in App : \A g \in Handle : Done(b, g) \subseteq Done(b, g)'
      BY <1>2, <1>10, <2>5, MadeLemma
    <3>. QED  BY <1>1, <1>9, <3>1 DEF RanksInv, LocalDone
\* Nobody has an answer on h.
  <2>11. ASSUME NEW b \in App, CommOf(b) = h, phase[b] \in {"waiting", "local"}
         PROVE  phase[b] = "waiting" /\ replies[b] = << >>
    BY <2>3, <2>11, InCallLemma
  <2>12. OneSplit'
    <3> SUFFICES ASSUME NEW x \in App, NEW g \in Handle, NEW r, Part(x, g, r)
                 PROVE  /\ \A b \in App :
                             local[b][g] # None /\ local[b][g].at = at[x]
                               => Agrees(r, b, local[b][g].color, local[b][g].key)
                        /\ \A b \in App : \A s :
                             phase[b] = "waiting" /\ replies[b] = <<s>> /\ CommOf(b) = g
                               => Agrees(r, b, s.color, s.key)
                        /\ g \in locked' => \A p \in Unanswered(g)' :
                                              p.color # r.color /\ p.src \notin Elements(r.members)
      BY <1>1, <1>9 DEF OneSplit
    <3>1. g # h
      <4>1. Answer(x, r) /\ CommOf(x) = g
        BY DEF Part
      <4>. QED  BY <2>11, <4>1, AnswerLemma
    <3>2. g \in locked' => g \in locked /\ Unanswered(g)' = Unanswered(g)
      BY <1>6, <1>8, <3>1
    <3>. QED  BY <3>2 DEF RanksInv, OneSplit
  <2>13. FreshColors'
    <3> SUFFICES ASSUME NEW g \in locked', NEW p \in Unanswered(g)', p.kind = "split", p.color >= 0
                 PROVE  /\ \A b \in App : local[b][g] # None /\ local[b][g].at = at[p.src]
                                            => local[b][g].color # p.color
                        /\ \A b \in App : \A s :
                             phase[b] = "waiting" /\ replies[b] = <<s>> /\ CommOf(b) = g
                               => s.color # p.color
      BY <1>1, <1>9 DEF FreshColors
    <3>1. g \in Handle
      BY <1>2, <1>12 DEF IInv, Shape
    <3>2. CASE g = h
      <4>1. p \in in
        BY <1>8, <3>2
      <4>2. p.src \in Members(h)
        <5>1. communicators[h + 1] \in Seq(App)
          BY <1>2, MembersLemma
        <5>. QED  BY <1>7, <4>1, <5>1, LenProperties DEF HasRank, Members, Elements
      <4>3. ASSUME NEW b \in App, local[b][h] # None, local[b][h].at = at[p.src] PROVE FALSE
        <5>1. Known(b, h) /\ local[b][h].at \in Done(b, h)
          BY <1>2, <4>3 DEF RanksInv, LocalDone
        <5>2. b \in Members(h)
          BY <1>2, <5>1, MemberLemma
        <5>3. Done(b, h) = Done(p.src, h)
          BY <1>2, <4>2, <5>2 DEF RanksInv, SameCalls
        <5>. QED  BY <2>6, <4>2, <4>3, <5>1, <5>3
      <4>4. ASSUME NEW b \in App, NEW s, phase[b] = "waiting", replies[b] = <<s>>, CommOf(b) = h
            PROVE  FALSE
        <5>1. <<s>> # << >>
          OBVIOUS
        <5>. QED  BY <2>11, <4>4, <5>1
      <4>. QED  BY <3>2, <4>3, <4>4
    <3>3. CASE g # h
      <4>1. g \in locked /\ p \in Unanswered(g)
        BY <1>6, <1>8, <3>1, <3>3
      <4>. QED  BY <4>1 DEF RanksInv, FreshColors
    <3>. QED  BY <3>2, <3>3
  <2>14. ASSUME NEW o \in todo'[h] PROVE PartOf(h, o)'
    <3>1. in # {} /\ in \subseteq Request
      BY <1>7
    <3> HIDE DEF in
    <3>. QED  BY <1>6, <2>1, <3>1, OperationsLemma DEF PartOf
  <2>. QED  BY <2>9, <2>10, <2>12, <2>13, <2>14
<1>13. /\ SameCalls' /\ LocalDone' /\ OneSplit' /\ FreshColors'
       /\ \A o \in todo'[h] : PartOf(h, o)'
  BY <1>5, <1>11, <1>12
<1>14. RequestsTyped'
  <2>1. \A p \in requests' : Typed(p)'
    BY <1>1, <1>9 DEF RanksInv, RequestsTyped
  <2>2. ASSUME NEW g \in Handle
        PROVE  /\ messages'[g] \subseteq Request
               /\ \A p \in Unanswered(g)' : Typed(p)'
               /\ \A o \in todo'[g] : PartOf(g, o)'
    <3>1. CASE g = h
      BY <1>6, <1>7, <1>8, <1>9, <1>13, <3>1
    <3>2. CASE g # h
      BY <1>6, <1>8, <1>9, <3>2 DEF RanksInv, RequestsTyped, PartOf
    <3>. QED  BY <3>1, <3>2
  <2>. QED  BY <2>1, <2>2 DEF RequestsTyped
<1>15. RepliesExact'
  <2> SUFFICES ASSUME NEW b \in App, NEW x, Answer(b, x)' PROVE Exact(b, x)'
    BY DEF RepliesExact
  <2>1. Exact(b, x)
    BY <1>9 DEF RanksInv, RepliesExact
  <2>. QED  BY <1>1, <1>9, <2>1 DEF Exact
<1>16. EntriesExact'
  BY <1>1, <1>9 DEF RanksInv, EntriesExact
<1>17. AllDistinct' /\ Callable'
  BY <1>1 DEF RanksInv, AllDistinct, Callable
<1>. QED
  BY <1>1, <1>13, <1>14, <1>15, <1>16, <1>17 DEF RanksInv

\* The replies f to the part o of an operation on h: the new communicator has
\* every member once, and all members of a part of a split are told the same.
PartExact(h, o, S, f) ==
  /\ S \subseteq App
  /\ AllDistinct'
  /\ \A a \in S : Exact(a, f[a])'
  /\ o.kind = "split" =>
       IF o.color < 0
       THEN \A a \in S : f[a].newComm = -1 /\ f[a].color = -1
       ELSE \A a \in S : /\ f[a].color = o.color
                         /\ Elements(f[a].members) = S
                         /\ \A b \in S : f[b].key = LocalKey(f[a].members, b)

LEMMA RanksAnswer ==
  ASSUME IInv, RanksInv, NEW h \in Handle, NEW o \in todo[h], NEW S, NEW f,
         AnswersPart(h, o, S, f), PartExact(h, o, S, f)
  PROVE  RanksInv'
<1>1. /\ UNCHANGED <<script, at, phase, reply, local, comms, requests, messages, locked>>
      /\ todo' = [todo EXCEPT ![h] = @ \ {o}]
      /\ communicators' \in Seq(Seq(App))
      /\ Len(communicators') >= Len(communicators)
      /\ \A i \in 1 .. Len(communicators) : communicators'[i] = communicators[i]
      /\ \A a \in S \cap App : f[a].kind = o.kind
      /\ S \cap App = S
  BY DEF AnswersPart, PartExact
<1>2. /\ h \in locked /\ Operation(h)
      /\ \A a \in S : \E q \in Unanswered(h) : q.src = a /\ Serves(o, q)
      /\ \A a \in S : /\ phase[a] = "waiting" /\ replies[a] = << >>
                      /\ script[at[a]].kind = o.kind /\ CommOf(a) = h
      /\ \A b \in App \ S : replies'[b] = replies[b]
      /\ \A a \in S : replies'[a] = <<f[a]>>
      /\ \A q \in Unanswered(h)' : ~ Serves(o, q)
      /\ \A g \in Handle : \A q \in Unanswered(g)' : q \in Unanswered(g) /\ q.src \notin S
  BY <1>1, PartLemma DEF CommOf
<1>3. \A g \in Handle : g < Len(communicators) =>
        g < Len(communicators') /\ Members(g)' = Members(g)
  BY <1>1, GrowLemma, HandleLemma DEF IInv, Shape, Members
<1>4. /\ \A b, g : Done(b, g)' = Done(b, g) /\ Known(b, g)' = Known(b, g)
      /\ \A b : CommOf(b)' = CommOf(b)
  <2>1. \A b, g : Made(b, g)' = Made(b, g) /\ Out(b, g)' = Out(b, g)
    BY <1>1 DEF Made, Out
  <2>. QED  BY <1>1, <2>1 DEF Done, Known, CommOf
<1>5. SameCalls'
  <2> SUFFICES ASSUME NEW g \in Handle \ {1}, g < Len(communicators'),
                      NEW b \in Members(g)', NEW d \in Members(g)'
               PROVE  Done(b, g) = Done(d, g)
    BY <1>4 DEF SameCalls
  <2>1. CASE g < Len(communicators)
    BY <1>3, <2>1 DEF RanksInv, SameCalls
  <2>2. CASE ~ (g < Len(communicators))
    <3>1. ASSUME NEW x \in App PROVE Done(x, g) = {}
      <4>1. ASSUME NEW i \in 1 .. at[x], script[i].comm = g PROVE FALSE
        <5>1. i \in 1 .. Len(script)
          <6>1. Len(script) \in Nat /\ at[x] \in 0 .. Len(script)
            BY LenProperties DEF IInv, Shape, RanksInv
          <6>. QED  BY <6>1
        <5>. QED  BY <2>2, <4>1, <5>1 DEF IInv, Scripted, Fits
      <4>. QED  BY <4>1 DEF Done, Made
    <3>2. Members(g)' \subseteq App
      <4>1. g + 1 \in 1 .. Len(communicators')
        BY <1>1, HandleLemma, LenProperties
      <4>2. communicators'[g + 1] \in Seq(App)
        BY <1>1, <4>1, ElementOfSeq
      <4>. QED  BY <4>2, ElementOfSeq, LenProperties DEF Members, Elements
    <3>. QED  BY <3>1, <3>2
  <2>. QED  BY <2>1, <2>2
<1>6. LocalDone'
  BY <1>1, <1>4 DEF RanksInv, LocalDone
\* Who has an answer now.
<1>7. ASSUME NEW b \in App, NEW r, Answer(b, r)'
      PROVE  IF b \in S THEN r = f[b] ELSE Answer(b, r)
  <2>1. CASE b \in S
    <3>1. replies'[b] = <<f[b]>> /\ phase'[b] = "waiting"
      BY <1>1, <1>2, <2>1
    <3>. QED  BY <1>7, <2>1, <3>1 DEF Answer
  <2>2. CASE b \notin S
    BY <1>1, <1>2, <1>7, <2>2 DEF Answer
  <2>. QED  BY <2>1, <2>2
<1>8. RepliesExact'
  <2> SUFFICES ASSUME NEW b \in App, NEW r, Answer(b, r)' PROVE Exact(b, r)'
    BY DEF RepliesExact
  <2>1. CASE b \in S
    BY <1>7, <2>1 DEF PartExact
  <2>2. CASE b \notin S
    <3>1. Answer(b, r)
      BY <1>7, <2>2
    <3>2. Exact(b, r)
      BY <3>1 DEF RanksInv, RepliesExact
    <3>3. CommOf(b) \in Handle /\ CommOf(b) < Len(communicators)
      BY <3>1, AnswerLemma, InCallLemma
    <3>4. Members(CommOf(b))' = Members(CommOf(b))
      <4>1. PICK g : g = CommOf(b)
        OBVIOUS
      <4>. QED  BY <1>3, <1>4, <3>3, <4>1
    <3>. QED  BY <1>1, <3>2, <3>4 DEF Exact
  <2>. QED  BY <2>1, <2>2
<1>9. RequestsTyped'
  <2>1. \A q : Typed(q)' = Typed(q)
    BY <1>1 DEF Typed
  <2>2. \A g, p : PartOf(g, p)' = PartOf(g, p)
    BY <1>1 DEF PartOf
  <2>3. \A g \in Handle : todo'[g] \subseteq todo[g]
    BY <1>1 DEF IInv, Shape
  <2>. QED  BY <1>1, <1>2, <2>1, <2>2, <2>3 DEF RanksInv, RequestsTyped
<1>10. FreshColors'
  <2> SUFFICES ASSUME NEW g \in locked, NEW q \in Unanswered(g)', q.kind = "split", q.color >= 0
               PROVE  /\ \A b \in App : local[b][g] # None /\ local[b][g].at = at[q.src]
                                          => local[b][g].color # q.color
                      /\ \A b \in App : \A s :
                           phase[b] = "waiting" /\ replies'[b] = <<s>> /\ CommOf(b) = g
                             => s.color # q.color
    BY <1>1, <1>4 DEF FreshColors
  <2>1. g \in Handle /\ q \in Unanswered(g)
    BY <1>2 DEF IInv, Shape
  <2>2. ASSUME NEW b \in App, NEW s, phase[b] = "waiting", replies'[b] = <<s>>, CommOf(b) = g
        PROVE  s.color # q.color
    <3>1. CASE b \in S
      <4>1. g = h /\ s = f[b]
        BY <1>2, <2>2, <3>1
      <4>2. q \in messages[h] /\ ~ Serves(o, q)
        BY <1>2, <2>1, <4>1 DEF Unanswered
      <4>3. o.kind = "split"
        BY <1>2, <4>2 DEF Operation
      <4>4. q.color # o.color
        BY <4>2, <4>3 DEF Serves
      <4>5. CASE o.color < 0
        BY <3>1, <4>1, <4>3, <4>5 DEF PartExact
      <4>6. CASE ~ (o.color < 0)
        BY <3>1, <4>1, <4>3, <4>4, <4>6 DEF PartExact
      <4>. QED  BY <4>5, <4>6
    <3>2. CASE b \notin S
      BY <1>2, <2>1, <2>2, <3>2 DEF RanksInv, FreshColors
    <3>. QED  BY <3>1, <3>2
  <2>. QED  BY <2>1, <2>2 DEF RanksInv, FreshColors
<1>11. OneSplit'
  <2> SUFFICES ASSUME NEW x \in App, NEW g \in Handle, NEW r, Part(x, g, r)'
               PROVE  /\ \A b \in App :
                           local[b][g] # None /\ local[b][g].at = at[x]
                             => Agrees(r, b, local[b][g].color, local[b][g].key)
                      /\ \A b \in App : \A s :
                           phase[b] = "waiting" /\ replies'[b] = <<s>> /\ CommOf(b) = g
                             => Agrees(r, b, s.color, s.key)
                      /\ g \in locked => \A q \in Unanswered(g)' :
                                           q.color # r.color /\ q.src \notin Elements(r.members)
    BY <1>1, <1>4 DEF OneSplit
  <2>1. /\ phase[x] # "running" /\ CommOf(x) = g /\ Answer(x, r)'
        /\ r.kind = "split" /\ r.newComm # -1
    BY <1>1, <1>4 DEF Part
  <2>2. CASE x \notin S
    <3>1. Answer(x, r)
      BY <1>7, <2>1, <2>2
    <3>2. Part(x, g, r)
      BY <2>1, <3>1 DEF Part
    <3>3. /\ \A b \in App :
               local[b][g] # None /\ local[b][g].at = at[x]
                 => Agrees(r, b, local[b][g].color, local[b][g].key)
          /\ \A b \in App : \A s :
               phase[b] = "waiting" /\ replies[b] = <<s>> /\ CommOf(b) = g
                 => Agrees(r, b, s.color, s.key)
          /\ g \in locked => \A q \in Unanswered(g) :
                               q.color # r.color /\ q.src \notin Elements(r.members)
      BY <3>2 DEF RanksInv, OneSplit
    <3>4. ASSUME NEW b \in S, CommOf(b) = g PROVE Agrees(r, b, f[b].color, f[b].key)
      <4>1. g = h /\ b \in App
        BY <1>1, <1>2, <3>4
      <4>2. PICK q \in Unanswered(h) : q.src = b /\ Serves(o, q)
        BY <1>2
      <4>3. q.color # r.color /\ b \notin Elements(r.members)
        BY <1>2, <3>3, <4>1, <4>2
      <4>4. at[x] = at[b]
        <5>1. ~ Out(b, h)
          BY <1>2, <4>2, UnansweredLemma
        <5>2. ~ Out(x, h) /\ phase[x] \in {"waiting", "local"}
          BY <3>1, AnswerLemma, NotOut
        <5>3. phase[b] \in {"waiting", "local"}
          BY <1>2
        <5>. QED  BY <2>1, <3>4, <4>1, <5>1, <5>2, <5>3, SameRound
      <4>5. o.kind = "split"
        <5>1. Answers(x, r)
          BY <3>1, AnswerLemma
        <5>. QED  BY <1>2, <2>1, <4>4, <5>1 DEF Answers
      <4>6. q.color = o.color
        BY <4>2, <4>5 DEF Serves
      <4>7. r.color \in Int /\ r.color >= 0
        BY <2>1, <3>1 DEF RanksInv, RepliesExact, Exact
      <4>8. f[b].color # r.color
        <5>1. CASE o.color < 0
          BY <4>5, <4>7, <5>1 DEF PartExact
        <5>2. CASE ~ (o.color < 0)
          BY <4>3, <4>5, <4>6, <5>2 DEF PartExact
        <5>. QED  BY <5>1, <5>2
      <4>. QED  BY <4>3, <4>8 DEF Agrees
    <3>5. ASSUME NEW b \in App, NEW s, phase[b] = "waiting", replies'[b] = <<s>>, CommOf(b) = g
          PROVE  Agrees(r, b, s.color, s.key)
      <4>1. CASE b \in S
        <5>1. s = f[b]
          BY <1>2, <3>5, <4>1
        <5>. QED  BY <3>4, <3>5, <4>1, <5>1
      <4>2. CASE b \notin S
        <5>1. replies[b] = <<s>>
          BY <1>2, <3>5, <4>2
        <5>. QED  BY <3>3, <3>5, <5>1
      <4>. QED  BY <4>1, <4>2
    <3>. QED  BY <1>2, <3>3, <3>5
  <2>3. CASE x \in S
    <3>1. g = h /\ r = f[x] /\ o.kind = "split"
      BY <1>1, <1>2, <1>7, <2>1, <2>3
    <3>2. /\ r.color = o.color /\ Elements(r.members) = S
          /\ \A b \in S : f[b].color = o.color /\ f[b].key = LocalKey(r.members, b)
      BY <2>1, <2>3, <3>1 DEF PartExact
    <3>3. o.color >= 0
      <4>1. r.color \in Int /\ r.color >= 0
        BY <1>1, <2>1, <2>3, <3>1 DEF PartExact, Exact
      <4>. QED  BY <3>2, <4>1
    <3>4. PICK q \in Unanswered(h) : q.src = x /\ Serves(o, q)
      BY <1>2, <2>3
    <3>5. q.color = r.color /\ q.kind = "split" /\ q.color >= 0
      <4>1. q \in messages[h]
        BY DEF Unanswered
      <4>. QED  BY <1>2, <3>1, <3>2, <3>3, <3>4, <4>1 DEF Serves, Operation
    <3>6. ASSUME NEW b \in App, local[b][h] # None, local[b][h].at = at[x] PROVE b \notin S
      <4> SUFFICES ASSUME b \in S PROVE FALSE
        OBVIOUS
      <4>1. local[b][h].at < at[b] /\ local[b][h].at \in Done(b, h)
        BY <1>2, <3>6 DEF RanksInv, LocalDone
      <4>2. at[b] = at[x]
        <5>1. PICK p \in Unanswered(h) : p.src = b
          BY <1>2
        <5>2. ~ Out(b, h) /\ ~ Out(x, h)
          BY <1>2, <3>4, <5>1, UnansweredLemma
        <5>. QED  BY <1>2, <2>3, <5>2, SameRound
      <4>3. local[b][h].at \in Int
        BY <4>1, MadeLemma
      <4>. QED  BY <3>6, <4>1, <4>2, <4>3
    <3>7. ASSUME NEW b \in App, local[b][g] # None, local[b][g].at = at[x]
          PROVE  Agrees(r, b, local[b][g].color, local[b][g].key)
      <4>1. b \notin S
        BY <3>1, <3>6, <3>7
      <4>2. local[b][h].color # q.color
        BY <1>2, <3>1, <3>4, <3>5, <3>7 DEF RanksInv, FreshColors
      <4>. QED  BY <3>1, <3>2, <3>5, <4>1, <4>2 DEF Agrees
    <3>8. ASSUME NEW b \in App, NEW s, phase[b] = "waiting", replies'[b] = <<s>>, CommOf(b) = g
          PROVE  Agrees(r, b, s.color, s.key)
      <4>1. CASE b \in S
        <5>1. s = f[b]
          BY <1>2, <3>8, <4>1
        <5>. QED  BY <3>2, <4>1, <5>1 DEF Agrees
      <4>2. CASE b \notin S
        <5>1. replies[b] = <<s>>
          BY <1>2, <3>8, <4>2
        <5>2. s.color # q.color
          BY <1>2, <3>1, <3>5, <3>8, <5>1 DEF RanksInv, FreshColors
        <5>. QED  BY <3>2, <3>5, <4>2, <5>2 DEF Agrees
      <4>. QED  BY <4>1, <4>2
    <3>9. ASSUME NEW p \in Unanswered(g)' PROVE p.color # r.color /\ p.src \notin Elements(r.members)
      <4>1. p.src \notin S /\ ~ Serves(o, p)
        BY <1>2, <3>1
      <4>. QED  BY <3>1, <3>2, <4>1 DEF Serves
    <3>. QED  BY <3>7, <3>8, <3>9
  <2>. QED  BY <2>2, <2>3
<1>12. EntriesExact'
  BY <1>1, <1>4 DEF RanksInv, EntriesExact
<1>13. Callable'
  BY <1>1 DEF RanksInv, Callable
<1>. QED
  BY <1>1, <1>5, <1>6, <1>8, <1>9, <1>10, <1>11, <1>12, <1>13 DEF RanksInv, PartExact

LEMMA DistinctAppend ==
  ASSUME IInv, RanksInv, NEW mem \in Seq(App), Distinct(mem),
         communicators' = Append(communicators, mem), script' = script
  PROVE  AllDistinct'
<1>1. /\ Len(communicators) \in Nat
      /\ Len(communicators') = Len(communicators) + 1
      /\ \A i \in 1 .. Len(communicators) : communicators'[i] = communicators[i]
      /\ communicators'[Len(communicators) + 1] = mem
  BY AppendProperties, LenProperties DEF IInv, Shape
<1>2. \A i \in 1 .. Len(communicators') : Distinct(communicators'[i])
  <2>1. \A i \in 1 .. Len(communicators) : Distinct(communicators[i])
    BY DEF RanksInv, AllDistinct
  <2>. QED  BY <1>1, <2>1
<1>. QED  BY <1>2 DEF RanksInv, AllDistinct

\* What is true of whatever is answered.
LEMMA AnsweredLemma ==
  ASSUME IInv, RanksInv, NEW h \in Handle, NEW o \in todo[h], NEW S, NEW f,
         AnswersPart(h, o, S, f), S \subseteq App
  PROVE  /\ Operation(h) /\ PartOf(h, o) /\ h < Len(communicators)
         /\ h + 1 \in 1 .. Len(communicators)
         /\ script' = script /\ Members(h)' = Members(h)
         /\ \A a \in S : /\ \E q \in messages[h] : q.src = a /\ Typed(q)
                         /\ at[a] \in 1 .. Len(script) /\ script[at[a]].kind = o.kind
                         /\ CommOf(a)' = h /\ script'[at'[a]] = script[at[a]]
<1>1. /\ communicators' \in Seq(Seq(App))
      /\ Len(communicators') >= Len(communicators)
      /\ \A i \in 1 .. Len(communicators) : communicators'[i] = communicators[i]
      /\ UNCHANGED <<script, at>> /\ S \cap App = S
  BY DEF AnswersPart
<1>2. /\ Operation(h)
      /\ \A a \in S : \E q \in Unanswered(h) : q.src = a
      /\ \A a \in S : /\ phase[a] = "waiting" /\ script[at[a]].kind = o.kind
                      /\ script[at[a]].comm = h
  BY <1>1, PartLemma
<1>3. h < Len(communicators) /\ h + 1 \in 1 .. Len(communicators)
  BY <1>2, HandleLemma, LenProperties DEF Operation, IInv, Shape
<1>4. Members(h)' = Members(h)
  BY <1>1, <1>3 DEF Members
<1>5. \A a \in S : at[a] \in 1 .. Len(script)
  BY <1>2, InCallLemma
<1>6. \A a \in S : \E q \in messages[h] : q.src = a /\ Typed(q)
  BY <1>2 DEF RanksInv, RequestsTyped, Unanswered
<1>. QED
  BY <1>1, <1>2, <1>3, <1>4, <1>5, <1>6 DEF RanksInv, RequestsTyped, CommOf

LEMMA ExactSplit ==
  ASSUME IInv, RanksInv, NEW h \in Handle, NEW o \in todo[h], NEW S, NEW f,
         AnswersPart(h, o, S, f), o.kind = "split", SplitReplies(h, o, S, f)
  PROVE  PartExact(h, o, S, f)
<1> PICK part, mem : part = { q \in messages[h] : q.color = o.color } /\ mem = communicators[h + 1]
  OBVIOUS
<1>1. h < Len(communicators) /\ mem \in Seq(App) /\ Distinct(mem)
      /\ o.color \in Int /\ IsFiniteSet(messages[h])
  <2>1. Operation(h) /\ PartOf(h, o)
    BY DEF IInv, ServerGood, RanksInv, RequestsTyped
  <2>2. h < Len(communicators) /\ h + 1 \in 1 .. Len(communicators)
    BY <2>1, HandleLemma, LenProperties DEF Operation, IInv, Shape
  <2>3. mem \in Seq(App) /\ Distinct(mem)
    BY <2>2, ElementOfSeq DEF IInv, Shape, RanksInv, AllDistinct
  <2>. QED  BY <2>1, <2>2, <2>3 DEF PartOf, IInv, Shape
<1>2. \A q \in part : /\ q \in messages[h] /\ q \in Request
                      /\ q.src \in App /\ q.key \in Int /\ q.rank \in 1 .. Len(mem)
                      /\ mem[q.rank] = q.src
  BY DEF IInv, OneRequest, RequestGood, HasRank, RanksInv, RequestsTyped, Request
<1>3. CASE o.color >= 0
  <2>1. PICK line, pids :
          /\ line \in Sorted(part, ColorComparator)
          /\ pids = [ k \in 1 .. Cardinality(part) |-> mem[line[k].rank] ]
          /\ S = Elements(pids)
          /\ f = [a \in App |-> Membership("split", pids, a, o.color, LocalKey(pids, a))]
          /\ communicators' = Append(communicators, pids)
    BY <1>3 DEF SplitReplies
  <2>2. PICK n : n = Cardinality(part)
    OBVIOUS
  <2>3. n \in Nat
    <3>1. part \in SUBSET messages[h]
      BY <1>2
    <3>. QED  BY <1>1, <2>2, <3>1, FS_Subset, FS_CardinalityType
  <2>4. /\ \A k \in 1 .. n : line[k] \in part
        /\ \A i, j \in 1 .. n : i < j => ColorComparator(line[i], line[j])
    BY <2>1, <2>2 DEF Sorted
  <2>5. pids = [ k \in 1 .. n |-> mem[line[k].rank] ]
    BY <2>1, <2>2
  <2>6. pids \in [1 .. n -> App] /\ \A k \in 1 .. n : pids[k] = line[k].src
    BY <1>2, <2>4, <2>5
  <2>7. pids \in Seq(App) /\ DOMAIN pids = 1 .. n
    BY <2>3, <2>6, SeqDef
  <2>8. ASSUME NEW i \in 1 .. n, NEW j \in 1 .. n, i < j PROVE pids[i] # pids[j]
    <3> PICK p, q : p = line[i] /\ q = line[j]
      OBVIOUS
    <3>1. p \in part /\ q \in part /\ ColorComparator(p, q)
      BY <2>4, <2>8
    <3>2. ASSUME pids[i] = pids[j] PROVE FALSE
      <4>1. mem[p.rank] = mem[q.rank]
        BY <1>2, <2>6, <3>1, <3>2
      <4>2. p.rank = q.rank
        BY <1>1, <1>2, <3>1, <4>1, LenProperties DEF Distinct
      <4>3. p = q
        BY <1>2, <3>1, <4>2 DEF IInv, OneRequest
      <4>4. PICK k, r : k = p.key /\ r = p.rank
        OBVIOUS
      <4>5. k \in Int /\ r \in Int
        BY <1>1, <1>2, <3>1, <4>4, LenProperties
      <4>6. k < k \/ r < r
        BY <3>1, <4>3, <4>4 DEF ColorComparator
      <4>. QED  BY <4>5, <4>6
    <3>. QED  BY <3>2
  <2>9. Distinct(pids)
    BY <2>3, <2>7, <2>8 DEF Distinct
  <2>10. S \subseteq App /\ S \subseteq Elements(mem)
    <3>1. ASSUME NEW k \in 1 .. n PROVE pids[k] \in App /\ pids[k] \in Elements(mem)
      <4>1. PICK i : i = line[k].rank
        OBVIOUS
      <4>2. i \in DOMAIN mem /\ pids[k] = mem[i]
        BY <1>1, <1>2, <2>4, <2>5, <4>1, LenProperties
      <4>3. pids[k] \in App
        BY <2>6
      <4>4. mem[i] \in Elements(mem)
        BY <4>2 DEF Elements
      <4>. QED  BY <4>2, <4>3, <4>4
    <3>2. \A x \in Elements(pids) : \E k \in 1 .. n : x = pids[k]
      BY <2>7 DEF Elements
    <3>3. S = Elements(pids)
      BY <2>1
    <3>. QED  BY <3>1, <3>2, <3>3
  <2>11. AllDistinct'
    BY <2>1, <2>7, <2>9, <2>10, DistinctAppend, AnsweredLemma
  <2>12. ASSUME NEW a \in S
         PROVE  /\ f[a].color = o.color /\ f[a].members = pids /\ f[a].kind = "split"
                /\ f[a].key = LocalKey(pids, a) /\ f[a].key \in Nat
    <3>1. a \in App /\ a \in Locals(pids, a)
      BY <2>1, <2>10 DEF Locals
    <3>2. LocalKey(pids, a) \in Nat
      BY <2>7, <2>9, <3>1, LocalKeyLemma
    <3>. QED  BY <2>1, <3>1, <3>2 DEF Membership
  <2>13. ASSUME NEW a \in S PROVE Exact(a, f[a])'
    <3>1. CommOf(a)' = h /\ Members(h)' = Members(h)
      BY <2>10, AnsweredLemma
    <3>2. Members(CommOf(a))' = Members(h)'
      BY <3>1 DEF Members
    <3>3. Elements(f[a].members) \subseteq Members(h)
      BY <2>1, <2>10, <2>12 DEF Members
    <3>. QED  BY <1>1, <1>3, <2>12, <3>1, <3>2, <3>3 DEF Exact
  <2>14. Elements(pids) = S /\ ~ (o.color < 0)
    BY <1>1, <1>3, <2>1
  <2>. QED  BY <2>10, <2>11, <2>12, <2>13, <2>14 DEF PartExact
<1>4. CASE ~ (o.color >= 0)
  <2>1. /\ S = { q.src : q \in part }
        /\ f = [a \in App |-> NoMember("split", "idle")]
        /\ UNCHANGED communicators
    BY <1>4 DEF SplitReplies
  <2>2. S \subseteq App
    BY <1>2, <2>1
  <2>3. AllDistinct'
    BY <2>1, <2>2, AnsweredLemma DEF RanksInv, AllDistinct
  <2>4. \A a \in S : f[a].newComm = -1 /\ f[a].color = -1 /\ f[a].key = 0
    BY <2>1, <2>2 DEF NoMember
  <2>5. \A a \in S : Exact(a, f[a])'
    BY <2>4 DEF Exact
  <2>6. o.color < 0
    BY <1>1, <1>4
  <2>. QED  BY <2>2, <2>3, <2>4, <2>5, <2>6 DEF PartExact
<1>. QED  BY <1>3, <1>4

LEMMA ExactGroup ==
  ASSUME IInv, RanksInv, NEW h \in Handle, NEW o \in todo[h], NEW S, NEW f,
         AnswersPart(h, o, S, f), o.kind = "group", GroupReplies(h, o, S, f)
  PROVE  PartExact(h, o, S, f)
<1> PICK group : group = o.group
  OBVIOUS
<1>1. Operation(h) /\ PartOf(h, o) /\ h < Len(communicators)
  BY DEF IInv, ServerGood, RanksInv, RequestsTyped, Operation
<1>2. group \in Seq(App) /\ Elements(group) \subseteq App
  BY <1>1, ElementOfSeq, LenProperties DEF Operation, Elements
<1>3. /\ S = Elements(group) \cup Members(h)
      /\ communicators' = Append(communicators, group)
      /\ S \subseteq App
  BY <1>1, <1>2, MembersLemma DEF GroupReplies, Members
<1>4. \A a \in S : script[at[a]].group = group /\ Distinct(group)
  <2> SUFFICES ASSUME NEW a \in S PROVE script[at[a]].group = group /\ Distinct(group)
    OBVIOUS
  <2>1. PICK q \in messages[h] : q.src = a /\ Typed(q)
    BY <1>3, AnsweredLemma
  <2>2. script[at[a]].group = group
    BY <1>1, <2>1 DEF Typed, PartOf
  <2>3. at[a] \in 1 .. Len(script) /\ script[at[a]].kind = "group"
    BY <1>3, AnsweredLemma
  <2>. QED  BY <2>2, <2>3 DEF RanksInv, AllDistinct
<1>5. Distinct(group)
  <2> SUFFICES ASSUME NEW i \in DOMAIN group PROVE Distinct(group)
    BY DEF Distinct
  <2>1. group[i] \in S
    BY <1>3 DEF Elements
  <2>. QED  BY <1>4, <2>1
<1>6. AllDistinct'
  BY <1>2, <1>3, <1>5, DistinctAppend, AnsweredLemma
<1>7. \A a \in S : /\ f[a].color = -1 /\ f[a].key = 0 /\ f[a].kind = "group"
                   /\ f[a].newComm # -1 => f[a].members = group
  BY <1>3 DEF GroupReplies, Membership, NoMember
<1>8. ASSUME NEW a \in S PROVE Exact(a, f[a])'
  <2>1. script'[at'[a]].group = group
    BY <1>3, <1>4, AnsweredLemma
  <2>. QED  BY <1>7, <2>1 DEF Exact
<1>. QED  BY <1>3, <1>6, <1>8 DEF PartExact

LEMMA ExactDup ==
  ASSUME IInv, RanksInv, NEW h \in Handle, NEW o \in todo[h], NEW S, NEW f,
         AnswersPart(h, o, S, f), o.kind = "dup", DupReplies(h, S, f)
  PROVE  PartExact(h, o, S, f)
<1> PICK mem : mem = communicators[h + 1]
  OBVIOUS
<1>1. h < Len(communicators)
  BY DEF IInv, ServerGood, Operation
<1>2. S \subseteq App /\ mem \in Seq(App) /\ communicators' = Append(communicators, mem)
  BY <1>1, MembersLemma DEF DupReplies, Members
<1>3. Distinct(mem)
  BY <1>2, AnsweredLemma DEF RanksInv, AllDistinct
<1>4. AllDistinct'
  BY <1>2, <1>3, DistinctAppend, AnsweredLemma
<1>5. \A a \in S : f[a].color = -1 /\ f[a].key = 0 /\ f[a].kind = "dup"
  BY <1>2 DEF DupReplies
<1>6. \A a \in S : Exact(a, f[a])'
  BY <1>5 DEF Exact
<1>. QED  BY <1>2, <1>4, <1>6 DEF PartExact

LEMMA RanksProcess ==
  ASSUME IInv, RanksInv, NEW h \in Handle, ProcessRequest(h)
  PROVE  RanksInv'
<1>1. PICK o, S, f :
        /\ o \in todo[h]
        /\ AnswersPart(h, o, S, f)
        /\ \/ o.kind = "split" /\ SplitReplies(h, o, S, f)
           \/ o.kind = "group" /\ GroupReplies(h, o, S, f)
           \/ o.kind = "dup" /\ DupReplies(h, S, f)
  BY ProcessLemma
<1>2. PartExact(h, o, S, f)
  BY <1>1, ExactSplit, ExactGroup, ExactDup
<1>. QED  BY <1>1, <1>2, RanksAnswer

LEMMA RanksStep == IInv /\ RanksInv /\ [Next]_vars => RanksInv'
<1> SUFFICES ASSUME IInv, RanksInv, [Next]_vars PROVE RanksInv'
  OBVIOUS
<1>1. CASE Over \/ UNCHANGED vars
  <2>1. UNCHANGED <<script, at, phase, reply, local, comms, requests, replies,
                    communicators, messages, locked, todo>>
    BY <1>1 DEF Over, vars, appVars, serverVars
  <2>2. /\ \A b, g : Done(b, g)' = Done(b, g) /\ Known(b, g)' = Known(b, g)
        /\ \A g : Members(g)' = Members(g) /\ Unanswered(g)' = Unanswered(g)
        /\ \A b : CommOf(b)' = CommOf(b)
        /\ \A b, g, r : Part(b, g, r)' <=> Part(b, g, r)
    <3>1. \A b, g : Made(b, g)' = Made(b, g) /\ Out(b, g)' = Out(b, g)
      BY <2>1 DEF Made, Out
    <3>2. \A b, r : Answer(b, r)' <=> Answer(b, r)
      BY <2>1 DEF Answer
    <3>3. \A b : CommOf(b)' = CommOf(b)
      BY <2>1 DEF CommOf
    <3>4. \A b, g, r : Part(b, g, r)' <=> Part(b, g, r)
      BY <2>1, <3>2, <3>3 DEF Part
    <3>5. \A b, g : Done(b, g)' = Done(b, g)
      BY <2>1, <3>1 DEF Done
    <3>. QED  BY <2>1, <3>3, <3>4, <3>5 DEF Known, Members, Unanswered
  <2>3. RequestsTyped'
    <3>1. \A q : Typed(q)' = Typed(q)
      BY <2>1 DEF Typed
    <3>2. \A g, o : PartOf(g, o)' = PartOf(g, o)
      BY <2>1 DEF PartOf
    <3>. QED  BY <2>1, <2>2, <3>1, <3>2 DEF RanksInv, RequestsTyped
  <2>4. RepliesExact'
    <3>1. \A b, r : Answer(b, r)' <=> Answer(b, r)
      BY <2>1 DEF Answer
    <3>2. \A b, r : Exact(b, r)' = Exact(b, r)
      BY <2>1 DEF Exact, Members, CommOf
    <3>. QED  BY <3>1, <3>2 DEF RanksInv, RepliesExact
  <2>5. EntriesExact' /\ SameCalls' /\ LocalDone'
    BY <2>1, <2>2 DEF RanksInv, EntriesExact, SameCalls, LocalDone
  <2>6. OneSplit'
    BY <2>1, <2>2 DEF RanksInv, OneSplit
  <2>7. FreshColors'
    BY <2>1, <2>2 DEF RanksInv, FreshColors
  <2>8. AllDistinct' /\ Callable'
    BY <2>1 DEF RanksInv, AllDistinct, Callable
  <2>. QED
    BY <2>1, <2>3, <2>4, <2>5, <2>6, <2>7, <2>8 DEF RanksInv
<1>. QED
  BY <1>1, RanksCallFirst, RanksCallNext, RanksReceive, RanksCreate,
     RanksDeliver, RanksProcess, RanksReset
  DEF Next, ServerStep, ProcessStep

-----------------------------------------------------------------------------
(* Types *)

LEMMA TypesInit == Init => TypeOK
<1> SUFFICES ASSUME Init PROVE TypeOK
  OBVIOUS
<1>1. IInv /\ RanksInv
  BY InitStep, RanksInit
<1>2. \A a \in App : \A h \in Handle :
        /\ comms[a][h] \in Communicator \cup {None}
        /\ comms[a][h] # None => h < MaxComms
  <2> SUFFICES ASSUME NEW a \in App, NEW h \in Handle
               PROVE  /\ comms[a][h] \in Communicator \cup {None}
                      /\ comms[a][h] # None => h < MaxComms
    OBVIOUS
  <2>1. CASE h = 1
    <3>1. comms[a][h] = [Entry(<<a>>, 1, 1, 1) EXCEPT !.dist.clusterRanks = <<Home[World[1]]>>]
      BY <2>1 DEF Init, InitialEntry
    <3>2. <<a>> \in Seq(App) /\ <<Home[World[1]]>> \in Seq(Cluster)
      <4>1. 1 \in DOMAIN World
        BY WorldAssumption, LenProperties
      <4>2. World[1] \in App
        BY <4>1, WorldAssumption, ElementOfSeq, LenProperties
      <4>. QED  BY <4>2, WorldAssumption
    <3>3. Entry(<<a>>, 1, 1, 1) \in Communicator
      <4>1. PICK d : d = Distribution(<<a>>)
        OBVIOUS
      <4>2. d \in [ members : Seq(App), coordinators : Seq(Nat), clusterRanks : Seq(Cluster),
                    clusterSizes : Seq(Nat), localRanks : Seq(Nat), memberClusterIndex : Seq(Nat) ]
        BY <3>2, <4>1, DistributionTyped
      <4>. QED  BY <4>1, <4>2 DEF Entry, Communicator
    <3>4. [Entry(<<a>>, 1, 1, 1) EXCEPT !.dist.clusterRanks = <<Home[World[1]]>>] \in Communicator
      BY <3>2, <3>3 DEF Communicator
    <3>. QED  BY <2>1, <3>1, <3>4, ArgumentAssumption
  <2>2. CASE h # 1 /\ Known(a, h)
    <3>1. /\ h = 0 \/ (3 <= h /\ h < MaxComms)
          /\ h < Len(communicators)
          /\ comms[a][h].dist.members = communicators[h + 1]
          /\ HasRank(a, h, comms[a][h].rank)
      BY <1>1, <2>2, TableLemma
    <3>2. communicators[h + 1] \in Seq(App)
      BY <1>1, <3>1, MembersLemma
    <3>3. EntryExact(a, comms[a][h])
      BY <1>1, <2>2 DEF RanksInv, EntriesExact
    <3>4. comms[a][h] \in Communicator
      BY <3>1, <3>2, <3>3, EntryLemma DEF HasRank
    <3>. QED  BY <3>1, <3>4, ArgumentAssumption
  <2>3. CASE h # 1 /\ ~ Known(a, h)
    BY <2>3 DEF Known
  <2>. QED  BY <2>1, <2>2, <2>3
<1>3. /\ script \in Seq(Call) /\ communicators \in Seq(Seq(App))
      /\ DOMAIN reply = App /\ DOMAIN replies = App /\ locked \subseteq Handle
  BY <1>1 DEF IInv, Shape
<1>4. comms \in [App -> [Handle -> Communicator \cup {None}]]
  BY <1>2 DEF Init
<1>5. /\ at \in [App -> 0 .. MaxOps]
      /\ phase \in [App -> {"running", "waiting", "local", "failed"}]
      /\ local \in [App -> [Handle -> [at : 1 .. MaxOps, color : Int, key : Int] \cup {None}]]
      /\ requests \subseteq Request
      /\ messages \in [Handle -> SUBSET Request]
      /\ todo \in [Handle -> SUBSET [kind : Kind, color : Int, group : Groups \cup {NoGroup}]]
  BY ArgumentAssumption DEF Init
<1>. QED  BY <1>2, <1>3, <1>4, <1>5 DEF TypeOK

\* The entry for a new communicator.
LEMMA CreateTyped ==
  ASSUME TypeOK, IInv, RanksInv, IInv', RanksInv', NEW a \in App, CreateCommunicator(a)
  PROVE  /\ comms' \in [App -> [Handle -> Communicator \cup {None}]]
         /\ \A b \in App, h \in Handle : comms'[b][h] # None => h < MaxComms
<1> PICK h, e : h = reply[a].newComm /\ e = NewEntry(a, script[at[a]], comms[a][CommOf(a)])
  OBVIOUS
<1>1. \/ UNCHANGED comms
      \/ h # -1 /\ h < MaxComms /\ comms' = [comms EXCEPT ![a][h] = e]
  BY DEF CreateCommunicator, Joins, CommOf, AddCommunicator
<1>2. CASE UNCHANGED comms
  BY <1>2 DEF TypeOK
<1>3. CASE h # -1 /\ h < MaxComms /\ comms' = [comms EXCEPT ![a][h] = e]
  <2>1. ASSUME h \in Handle PROVE e \in Communicator \cup {None}
    <3>1. comms'[a][h] = e
      BY <1>3, <2>1 DEF TypeOK
    <3>2. h \in Handle \ {1}
      <4>1. Answer(a, reply[a])
        BY DEF CreateCommunicator, Answer
      <4>. QED  BY <1>3, <2>1, <4>1, AnswerLemma DEF Good
    <3>3. CASE e # None
      <4>1. InTable(a, h)'
        BY <3>2 DEF IInv, Tables
      <4>2. Known(a, h)'
        BY <3>1, <3>3 DEF Known
      <4>3. /\ h < Len(communicators')
            /\ e.dist.members = communicators'[h + 1]
            /\ e.rank \in 1 .. Len(communicators'[h + 1])
            /\ communicators'[h + 1][e.rank] = a
        BY <3>1, <4>1, <4>2 DEF InTable, HasRank
      <4>4. communicators'[h + 1] \in Seq(App)
        <5>1. communicators' \in Seq(Seq(App))
          BY DEF IInv, Shape
        <5>2. h + 1 \in 1 .. Len(communicators')
          BY <2>1, <4>3, <5>1, HandleLemma, LenProperties
        <5>. QED  BY <5>1, <5>2, ElementOfSeq
      <4>5. EntryExact(a, e)
        BY <3>1, <3>2, <4>2 DEF RanksInv, EntriesExact
      <4>. QED  BY <4>3, <4>4, <4>5, EntryLemma
    <3>. QED  BY <3>3
  <2>2. comms \in [App -> [Handle -> Communicator \cup {None}]]
    BY DEF TypeOK
  <2>3. comms' \in [App -> [Handle -> Communicator \cup {None}]]
    BY <1>3, <2>1, <2>2
  <2>4. \A b \in App, g \in Handle : comms'[b][g] # None => g < MaxComms
    BY <1>3, <2>2 DEF TypeOK
  <2>. QED  BY <2>3, <2>4
<1>. QED  BY <1>1, <1>2, <1>3

LEMMA TypesStep == TypeOK /\ IInv /\ RanksInv /\ IInv' /\ RanksInv' /\ [Next]_vars => TypeOK'
<1> SUFFICES ASSUME TypeOK, IInv, RanksInv, IInv', RanksInv', [Next]_vars PROVE TypeOK'
  OBVIOUS
<1>1. /\ script' \in Seq(Call) /\ communicators' \in Seq(Seq(App))
      /\ DOMAIN reply' = App /\ DOMAIN replies' = App /\ locked' \subseteq Handle
  BY DEF IInv, Shape
<1>2. /\ requests' \subseteq Request
      /\ \A h \in Handle : messages'[h] \subseteq Request
      /\ \A h \in Handle :
           todo'[h] \subseteq [kind : Kind, color : Int, group : Groups \cup {NoGroup}]
  BY DEF RanksInv, RequestsTyped, Typed, PartOf
<1>3. \A a \in App : at'[a] \in 0 .. MaxOps
  <2>1. \A a \in App : at'[a] \in 0 .. Len(script')
    BY DEF RanksInv
  <2>2. Len(script') \in Nat /\ Len(script') <= MaxOps
    BY <1>1, LenProperties DEF RanksInv
  <2>. QED  BY <2>1, <2>2, ArgumentAssumption
\* The variables are functions.
<1>4. \A a \in App : \A i, op :
        Ask(a, i, op) => /\ at' \in [App -> 0 .. MaxOps]
                         /\ phase' \in [App -> {"running", "waiting", "local", "failed"}]
                         /\ UNCHANGED <<local, comms, messages, todo>>
  BY <1>3 DEF Ask, serverVars, TypeOK
<1>5. ASSUME NEW a \in App, CallNext(a) \/ \E h \in Handle : CallFirst(a, h) PROVE TypeOK'
  <2>1. \E i, op : Ask(a, i, op)
    BY <1>5 DEF CallNext, CallFirst
  <2>. QED  BY <1>1, <1>2, <1>4, <2>1 DEF TypeOK
<1>6. ASSUME NEW a \in App, ReceiveReply(a) PROVE TypeOK'
  <2>1. PICK r : replies[a] = <<r>> /\ Head(replies[a]) = r
    BY <1>6 DEF ReceiveReply, IInv, RepliesGood
  <2>2. phase[a] = "waiting" /\ UNCHANGED <<at, comms, messages, todo>>
    BY <1>6 DEF ReceiveReply, serverVars
  <2>3. PICK rec : rec = [ at |-> at[a], color |-> r.color, key |-> r.key ]
    OBVIOUS
  <2>4. rec \in [at : 1 .. MaxOps, color : Int, key : Int]
    <3>1. Answer(a, r)
      BY <2>1, <2>2 DEF Answer
    <3>2. r.color \in Int /\ r.key \in Int
      BY <3>1 DEF RanksInv, RepliesExact, Exact
    <3>3. at[a] \in 1 .. Len(script) /\ Len(script) \in Nat /\ Len(script) <= MaxOps
      BY <2>2, InCallLemma, LenProperties DEF IInv, Shape, RanksInv
    <3>4. at[a] \in 1 .. MaxOps
      BY <3>3, ArgumentAssumption
    <3>. QED  BY <2>3, <3>2, <3>4
  <2>5. PICK h : h = script[at[a]].comm
    OBVIOUS
  <2>6. /\ phase' \in [App -> {"running", "waiting", "local", "failed"}]
        /\ \/ UNCHANGED local
           \/ local' = [local EXCEPT ![a][h] = rec]
    BY <1>6, <2>1, <2>3, <2>5 DEF ReceiveReply, TypeOK
  <2>7. local' \in [App -> [Handle -> [at : 1 .. MaxOps, color : Int, key : Int] \cup {None}]]
    <3>1. PICK T : T = [at : 1 .. MaxOps, color : Int, key : Int] \cup {None}
      OBVIOUS
    <3>2. rec \in T /\ local \in [App -> [Handle -> T]]
      BY <2>4, <3>1 DEF TypeOK
    <3>3. local' \in [App -> [Handle -> T]]
      BY <2>6, <3>2
    <3>. QED  BY <3>1, <3>3
  <2>. QED  BY <1>1, <1>2, <2>2, <2>7, <2>6 DEF TypeOK
<1>7. ASSUME NEW a \in App, CreateCommunicator(a) PROVE TypeOK'
  <2>1. /\ phase' \in [App -> {"running", "waiting", "local", "failed"}]
        /\ UNCHANGED <<at, local, messages, todo>>
    BY <1>7 DEF CreateCommunicator, serverVars, TypeOK
  <2>. QED  BY <1>1, <1>2, <1>7, <2>1, CreateTyped DEF TypeOK
<1>8. ASSUME UNCHANGED <<at, phase, local, comms>>,
             messages' = messages \/ \E h, x : messages' = [messages EXCEPT ![h] = x],
             todo' = todo \/ \E h, x : todo' = [todo EXCEPT ![h] = x]
      PROVE  TypeOK'
  <2>1. messages' \in [Handle -> SUBSET Request]
    BY <1>2, <1>8 DEF TypeOK
  <2>2. todo' \in [Handle -> SUBSET [kind : Kind, color : Int, group : Groups \cup {NoGroup}]]
    BY <1>2, <1>8 DEF TypeOK
  <2>. QED  BY <1>1, <1>2, <1>8, <2>1, <2>2 DEF TypeOK
<1>9. ASSUME NEW q \in requests, DeliverRequest(q) PROVE TypeOK'
  BY <1>8, <1>9 DEF DeliverRequest, appVars
<1>10. ASSUME NEW h \in Handle, ProcessRequest(h) \/ ResetMessages(h) PROVE TypeOK'
  BY <1>8, <1>10 DEF ProcessRequest, ResetMessages, appVars
<1>11. CASE Over \/ UNCHANGED vars
  BY <1>8, <1>11 DEF Over, vars, appVars, serverVars
<1>. QED
  BY <1>5, <1>6, <1>7, <1>9, <1>10, <1>11 DEF Next, ServerStep, ProcessStep

-----------------------------------------------------------------------------
(* The theorems *)

\* The tables, requests, replies and messages keep their types; no process has
\* more communicators than add_communicator has room for.
THEOREM TypeCorrect == Spec => []TypeOK
<1>1. Init => IInv /\ RanksInv /\ TypeOK
  BY InitStep, RanksInit, TypesInit
<1>2. IInv /\ RanksInv /\ TypeOK /\ [Next]_vars => IInv' /\ RanksInv' /\ TypeOK'
  BY InvariantStep, RanksStep, TypesStep
<1>. QED  BY <1>1, <1>2, PTL DEF Spec

\* Whatever colours and keys the processes give, the communicator MPI makes in
\* a cluster gives every process the place among the processes of its cluster
\* that the server has told everybody: create_communicator and the Distribution
\* agree about local ranks and sizes.
THEOREM LocalRankAgreesHolds == Spec => []LocalRankAgrees
<1>1. Init => IInv /\ RanksInv
  BY InitStep, RanksInit
<1>2. IInv /\ RanksInv /\ [Next]_vars => IInv' /\ RanksInv'
  BY InvariantStep, RanksStep
<1>3. IInv /\ RanksInv => LocalRankAgrees
  <2> SUFFICES ASSUME IInv, RanksInv, NEW a \in App, NEW h \in Handle \ {1}, Known(a, h)
               PROVE  LET c == comms[a][h] IN
                      /\ c.dist.localRanks[c.rank] = c.localRank
                      /\ \E k \in DOMAIN c.dist.clusterRanks :
                           /\ c.dist.clusterRanks[k] = Home[a]
                           /\ c.dist.clusterSizes[k] = c.localSize
    BY DEF LocalRankAgrees
  <2> PICK c : c = comms[a][h]
    OBVIOUS
  <2>1. /\ h < Len(communicators)
        /\ comms[a][h].dist.members = communicators[h + 1]
        /\ HasRank(a, h, comms[a][h].rank)
    BY TableLemma
  <2>2. communicators[h + 1] \in Seq(App)
    BY <2>1, MembersLemma
  <2>3. EntryExact(a, c)
    BY DEF RanksInv, EntriesExact
  <2>4. /\ c.dist.members \in Seq(App)
        /\ c.rank \in 1 .. Len(c.dist.members) /\ c.dist.members[c.rank] = a
    BY <2>1, <2>2 DEF HasRank
  <2>5. /\ c.dist.localRanks[c.rank] = c.localRank
        /\ \E k \in DOMAIN c.dist.clusterRanks :
             /\ c.dist.clusterRanks[k] = Home[a]
             /\ c.dist.clusterSizes[k] = c.localSize
    BY <2>3, <2>4, EntryLemma
  <2>. QED  BY <2>5
<1>. QED  BY <1>1, <1>2, <1>3, PTL DEF Spec
=============================================================================
