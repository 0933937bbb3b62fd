------------------------------- MODULE Requests -------------------------------
(***************************************************************************)
(* Non-blocking communication of one process (src/src/backend/empi.c,      *)
(* request.c and the probing functions of messaging.c): EMPI_Isend,        *)
(* EMPI_Irecv, EMPI_Recv, and the calls that test, wait for and free the   *)
(* requests.                                                               *)
(*                                                                         *)
(* The process receives from members of its own cluster with the MPI of    *)
(* the cluster, and from the others through its gateway.  MPI matches a    *)
(* message with the receives that are posted; a message of the wide area   *)
(* is matched only when the process looks for one.  A receive from any     *)
(* source on a communicator with members of both kinds, a mixed receive,   *)
(* is posted with MPI and also looks at the wide area: both put the        *)
(* message they find into the buffer the application passed.               *)
(***************************************************************************)
EXTENDS Integers, Sequences, FiniteSets, SequencesExt, FiniteSetsExt

CONSTANTS
  Local, Remote,       \* the other members: in this cluster, in other clusters
  Tag,                 \* message tags
  AnySource, AnyTag,   \* wildcards of a receive
  Asks,                \* bound: the [source, tag] its receives ask for
  Var,                 \* the application's request variables
  Lists,               \* bound: the arrays of them it waits for
  MaxRequests,         \* MAX_REQUESTS
  FlagPassed,          \* bound: what the flag of EMPI_Test holds before the call
  MaxReceives,         \* bound: receives started
  MaxSends,            \* bound: sends started
  Traffic,             \* bound: the [src, tag] of messages to this process
  MaxSent              \* bound: messages each member sends to it

Member == Local \cup Remote
Slot    == 1 .. MaxRequests
Receive == 1 .. MaxReceives
NULL    == 0           \* EMPI_REQUEST_NULL

ASSUME MemberAssumption == Local \cap Remote = {} /\ AnySource \notin Member
ASSUME BoundAssumption ==
  /\ MaxRequests \in Nat \ {0}
  /\ MaxReceives \in Nat /\ MaxSent \in Nat
  /\ Asks \subseteq [source : Member \cup {AnySource}, tag : Tag \cup {AnyTag}]
  /\ FlagPassed \subseteq {0, 1}
  /\ Lists \subseteq Seq(Var)
  /\ Traffic \subseteq [src : Member, tag : Tag]

VARIABLES
  variable,    \* variable[v] : the handle in the application's variable v
  table,       \* table[i]    : reqs[i], Free if it holds no request
  queue,       \* the unexpected messages of the communicator
  posted,      \* in MPI: the receives that wait for a message, in order
  unexpected,  \* in MPI: the messages that wait for a receive
  forwarded,   \* in MPI: the messages from the gateway
  call,        \* the call the application is in
  receives,    \* log: what each receive asked for, in the order of the calls
  buffer,      \* log: buffer[n], the messages written into the buffer of
               \*      receive n, of which the last is the one it holds
  reported,    \* log: the receives that were reported complete
  stale,       \* log: those of them that EMPI_Test found only a flag for
  started,     \* the number of sends
  sent         \* sent[q]     : the number of messages of member q
vars == <<variable, table, queue, posted, unexpected, forwarded, call,
          receives, buffer, reported, stale, started, sent>>

logVars == <<receives, buffer, reported, stale, started, sent>>

Message == [src : Member, tag : Tag, n : 1 .. MaxSent]
Nothing == << >>       \* no message; a message is <<m>>
Free    == [kind |-> "free", source |-> AnySource, tag |-> AnyTag, n |-> 0,
            completed |-> FALSE, unpacked |-> FALSE, message |-> Nothing,
            mpi |-> "null"]
Idle    == [op |-> "idle", of |-> << >>, i |-> 0, at |-> "look", flag |-> 0,
            source |-> AnySource, tag |-> AnyTag]

-----------------------------------------------------------------------------
(* Requests *)

\* The kinds of request that probe_request tells apart.
Kind(send, source) ==
  LET local == IF source = AnySource THEN Remote = {} ELSE source \in Local
  IN  CASE local  -> IF send THEN "local send" ELSE "local receive"
        [] ~local /\ send -> "wide send"
        [] ~local /\ ~send /\ source # AnySource -> "wide receive"
        [] OTHER -> "mixed receive"

\* add_request: the first free slot, NULL if there is none.  The variant takes
\* no notice of the end of the table.
AddPastEnd(tbl) ==
  LET free == { i \in Slot : tbl[i] = Free }
  IN  IF free = {} THEN MaxRequests + 1 ELSE Min(free)

AddRequest(tbl) ==
  LET free == { i \in Slot : tbl[i] = Free }
  IN  IF free = {} THEN NULL ELSE Min(free)

\* create_request
CreateRequest(kind, source, tag, n) ==
  [Free EXCEPT !.kind = kind, !.source = source, !.tag = tag, !.n = n]

\* match_message, and the rule of MPI.  The variant forgets the source.
MatchesTag(m, source, tag) == tag \in {AnyTag, m.tag}
Matches(m, source, tag) == source \in {AnySource, m.src} /\ tag \in {AnyTag, m.tag}

FirstMatch(s, source, tag) == SelectInSeq(s, LAMBDA m : Matches(m, source, tag))

\* The application is in a call; an ERROR has ended the process.
InCall  == call # Idle
Crashed == call.op = "crashed"
Crash   == call' = [Idle EXCEPT !.op = "crashed"]

-----------------------------------------------------------------------------
(* The MPI of the cluster *)

\* PMPI_Irecv for the request in slot i, with the buffer of the application: it
\* takes the first message that matches, or waits.
Post(r, i) ==
  LET k == FirstMatch(unexpected, r.source, r.tag)
  IN  IF k = 0
      THEN /\ table' = [table EXCEPT ![i] = [r EXCEPT !.mpi = "active"]]
           /\ posted' = Append(posted, r.n)
           /\ UNCHANGED <<unexpected, buffer>>
      ELSE /\ table' = [table EXCEPT ![i] = [r EXCEPT !.mpi = "done"]]
           /\ buffer' = [buffer EXCEPT ![r.n] = Append(@, unexpected[k])]
           /\ unexpected' = RemoveAt(unexpected, k)
           /\ UNCHANGED posted

\* A message of a member of this cluster comes in: the first posted receive
\* that matches gets it into its buffer, whether or not there still is a request
\* for it.
LocalArrival(q, t) ==
  LET m == [src |-> q, tag |-> t, n |-> sent[q] + 1]
      k == SelectInSeq(posted, LAMBDA n : Matches(m, receives[n].source, receives[n].tag))
      owner == { i \in Slot : table[i].n = posted[k] }
  IN  /\ ~Crashed /\ q \in Local
      /\ sent[q] < MaxSent
      /\ sent' = [sent EXCEPT ![q] = @ + 1]
      /\ \/ /\ k = 0
            /\ unexpected' = Append(unexpected, m)
            /\ UNCHANGED <<posted, table, buffer>>
         \/ /\ k # 0
            /\ posted' = RemoveAt(posted, k)
            /\ buffer' = [buffer EXCEPT ![posted[k]] = Append(@, m)]
            /\ \/ owner = {} /\ UNCHANGED table
               \/ \E i \in owner : table' = [table EXCEPT ![i].mpi = "done"]
            /\ UNCHANGED unexpected
      /\ UNCHANGED <<variable, queue, forwarded, call, receives, reported, stale, started>>

\* MPI completes a send of this process.
SendCompletes(i) ==
  /\ ~Crashed
  /\ table[i].kind = "local send" /\ table[i].mpi = "active"
  /\ table' = [table EXCEPT ![i].mpi = "done"]
  /\ UNCHANGED <<variable, queue, posted, unexpected, forwarded, call>>
  /\ UNCHANGED logVars

\* The gateway forwards a message of a member of another cluster.
WideArrival(q, t) ==
  /\ ~Crashed /\ q \in Remote
  /\ sent[q] < MaxSent
  /\ sent' = [sent EXCEPT ![q] = @ + 1]
  /\ forwarded' = Append(forwarded, [src |-> q, tag |-> t, n |-> sent[q] + 1])
  /\ UNCHANGED <<variable, table, queue, posted, unexpected, call,
                 receives, buffer, reported, stale, started>>

-----------------------------------------------------------------------------
(* Looking at the wide area *)

\* store_message for a message that does not match; the variant drops it.
Drop(m) == queue
Store(m) == Append(queue, m)

\* messaging_probe_receive without blocking, for a request r that is not
\* complete: the first stored message that matches, or one message from the
\* gateway.  The request afterwards.
ProbeReceive(r) ==
  LET k == FirstMatch(queue, r.source, r.tag)
      hit == forwarded # << >> /\ Matches(Head(forwarded), r.source, r.tag)
  IN  IF r.completed THEN r
      ELSE IF k # 0 THEN [r EXCEPT !.completed = TRUE, !.message = <<queue[k]>>]
      ELSE IF hit THEN [r EXCEPT !.completed = TRUE, !.message = <<Head(forwarded)>>]
      ELSE r

\* What the same call does to the messages.
ProbeTakes(r) ==
  LET k == FirstMatch(queue, r.source, r.tag)
  IN  IF r.completed THEN UNCHANGED <<queue, forwarded>>
      ELSE IF k # 0 THEN queue' = RemoveAt(queue, k) /\ UNCHANGED forwarded
      ELSE IF forwarded = << >> THEN UNCHANGED <<queue, forwarded>>
      ELSE /\ forwarded' = Tail(forwarded)
           /\ queue' = IF Matches(Head(forwarded), r.source, r.tag) THEN queue
                                                                  ELSE Store(Head(forwarded))

\* messaging_finalize_receive of a completed request: the message is unpacked
\* into the buffer, once.  The variant has no REQUEST_FLAG_UNPACKED.
UnpackAgain(r) == [buffer EXCEPT ![r.n] = @ \o r.message]
Unpack(r) == IF r.unpacked THEN buffer ELSE [buffer EXCEPT ![r.n] = @ \o r.message]

-----------------------------------------------------------------------------
(* Starting operations *)

\* EMPI_Isend, EMPI_Issend, EMPI_Irsend to q: a message for another cluster is
\* handed to the gateway at once.  With a full table the process ends.
Isend(v, q) ==
  LET i == AddRequest(table)
      kind == Kind(TRUE, q)
      r == CreateRequest(kind, q, AnyTag, 0)
  IN  /\ ~InCall /\ variable[v] = NULL
      /\ started < MaxSends
      /\ IF i = NULL
         THEN Crash /\ UNCHANGED <<variable, table, started>>
         ELSE /\ variable' = [variable EXCEPT ![v] = i]
              /\ table' = [table EXCEPT ![i] =
                             IF kind = "local send" THEN [r EXCEPT !.mpi = "active"] ELSE r]
              /\ started' = started + 1
              /\ UNCHANGED call
      /\ UNCHANGED <<queue, posted, unexpected, forwarded, receives, buffer, reported, stale, sent>>

\* EMPI_Irecv: a local and a mixed receive are posted with MPI, a receive from
\* another cluster looks once for its message.
Irecv(v, s, t) ==
  LET i == AddRequest(table)
      kind == Kind(FALSE, s)
      r == CreateRequest(kind, s, t, Len(receives) + 1)
  IN  /\ ~InCall /\ variable[v] = NULL
      /\ Len(receives) < MaxReceives
      /\ IF i = NULL
         THEN /\ Crash
              /\ UNCHANGED <<variable, table, queue, posted, unexpected, forwarded, receives, buffer>>
         ELSE /\ variable' = [variable EXCEPT ![v] = i]
              /\ receives' = Append(receives, [source |-> s, tag |-> t])
              /\ IF kind = "wide receive"
                 THEN /\ table' = [table EXCEPT ![i] = ProbeReceive(r)]
                      /\ ProbeTakes(r)
                      /\ UNCHANGED <<posted, unexpected, buffer>>
                 ELSE Post(r, i) /\ UNCHANGED <<queue, forwarded>>
              /\ UNCHANGED call
      /\ UNCHANGED <<reported, stale, started, sent>>

-----------------------------------------------------------------------------
(* Blocking receives *)

\* EMPI_Recv.  A mixed one is not implemented: its ERROR ends the process.
Recv(s, t) ==
  /\ ~InCall
  /\ Len(receives) < MaxReceives
  /\ IF Kind(FALSE, s) = "mixed receive"
     THEN Crash /\ UNCHANGED receives
     ELSE /\ call' = [Idle EXCEPT !.op = "recv", !.source = s, !.tag = t]
          /\ receives' = Append(receives, [source |-> s, tag |-> t])
  /\ UNCHANGED <<variable, table, queue, posted, unexpected, forwarded,
                 buffer, reported, stale, started, sent>>

Received(m) ==
  /\ buffer' = [buffer EXCEPT ![Len(receives)] = Append(@, m)]
  /\ reported' = reported \cup {Len(receives)}
  /\ call' = Idle

\* PMPI_Recv
LocalRecv ==
  LET k == FirstMatch(unexpected, call.source, call.tag)
  IN  /\ call.op = "recv" /\ Kind(FALSE, call.source) = "local receive"
      /\ k # 0
      /\ Received(unexpected[k])
      /\ unexpected' = RemoveAt(unexpected, k)
      /\ UNCHANGED <<variable, table, queue, posted, forwarded, receives, stale, started, sent>>

\* messaging_receive: the first stored message that matches, else the messages
\* of the gateway, one at a time, until one matches.
WideRecv ==
  LET k == FirstMatch(queue, call.source, call.tag)
  IN  /\ call.op = "recv" /\ Kind(FALSE, call.source) = "wide receive"
      /\ \/ /\ k # 0
            /\ Received(queue[k])
            /\ queue' = RemoveAt(queue, k)
            /\ UNCHANGED forwarded
         \/ /\ k = 0 /\ forwarded # << >>
            /\ forwarded' = Tail(forwarded)
            /\ IF Matches(Head(forwarded), call.source, call.tag)
               THEN Received(Head(forwarded)) /\ UNCHANGED queue
               ELSE queue' = Store(Head(forwarded)) /\ UNCHANGED <<buffer, reported, call>>
      /\ UNCHANGED <<variable, table, posted, unexpected, receives, stale, started, sent>>

-----------------------------------------------------------------------------
(* Testing and waiting: probe_request, and the loops around it *)

Waiting == {"test", "wait", "waitany", "waitall"}
Current == call.of[call.i]
Handle  == variable[Current]
Asked   == table[Handle]

\* The next of the variables of the call that holds a request.  The variant
\* starts from the first again.
FromFirst(var) == Min({ j \in DOMAIN call.of : var[call.of[j]] # NULL })
NextIndex(var) ==
  LET holds == { j \in DOMAIN call.of : var[call.of[j]] # NULL }
      later == { j \in holds : j > call.i }
  IN  IF later = {} THEN Min(holds) ELSE Min(later)

\* EMPI_Test and EMPI_Wait return; EMPI_Waitany and EMPI_Waitall go on to the
\* next request, the latter with a flag of 0.
NotComplete(flag) ==
  call' = CASE call.op = "test"    -> Idle
            [] call.op = "waitany" -> [call EXCEPT !.i = NextIndex(variable), !.at = "look", !.flag = flag]
            [] call.op = "waitall" -> [call EXCEPT !.i = NextIndex(variable), !.at = "look", !.flag = 0]

\* free_request: a receive that is still active in MPI stays posted there.  The
\* variant does not clear the slot.
KeepSlot(i) == table
FreeRequest(i) == [table EXCEPT ![i] = Free]

\* The flag is 1: the request is freed and the variable set to EMPI_REQUEST_NULL.
Complete ==
  /\ variable' = [variable EXCEPT ![Current] = NULL]
  /\ table' = FreeRequest(Handle)
  /\ reported' = reported \cup ({Asked.n} \ {0})
  /\ call' = IF call.op = "waitall" /\ \E j \in DOMAIN call.of : variable'[call.of[j]] # NULL
             THEN [call EXCEPT !.i = NextIndex(variable'), !.at = "look", !.flag = 0]
             ELSE Idle

IsLooking(kinds) == call.op \in Waiting /\ call.at = "look" /\ Asked.kind \in kinds

\* PMPI_Test or PMPI_Wait on a request of MPI alone.
LookLocal ==
  /\ IsLooking({"local send", "local receive"})
  /\ IF Asked.mpi = "done"
     THEN Complete
     ELSE /\ call.op # "wait"
          /\ NotComplete(0)
          /\ UNCHANGED <<variable, table, reported>>
  /\ UNCHANGED <<queue, posted, unexpected, forwarded, receives, buffer, stale, started, sent>>

\* A wide-area send has finished.
LookWideSend ==
  /\ IsLooking({"wide send"})
  /\ Complete
  /\ UNCHANGED <<queue, posted, unexpected, forwarded, receives, buffer, stale, started, sent>>

\* A receive from another cluster.  EMPI_Test leaves the flag alone when there
\* is no message, and then looks at it: a flag that was 1 is taken for an answer.
LookWide ==
  LET r == ProbeReceive(Asked)
  IN  /\ IsLooking({"wide receive"})
      /\ ProbeTakes(Asked)
      /\ \/ /\ r.completed
            /\ buffer' = Unpack(r)
            /\ Complete
            /\ UNCHANGED stale
         \/ /\ ~r.completed /\ call.op # "wait" /\ call.flag = 1
            /\ Complete
            /\ stale' = stale \cup {Asked.n}
            /\ UNCHANGED buffer
         \/ /\ ~r.completed /\ call.op # "wait" /\ call.flag = 0
            /\ NotComplete(0)
            /\ UNCHANGED <<variable, table, reported, stale, buffer>>
         \/ /\ ~r.completed /\ call.op = "wait"
            /\ UNCHANGED <<variable, table, reported, stale, buffer, call>>
      /\ UNCHANGED <<posted, unexpected, receives, started, sent>>

\* A mixed receive: first PMPI_Test.  One that EMPI_Request_get_status completed
\* is freed as it is, its local receive stays posted.
LookMixed ==
  /\ IsLooking({"mixed receive"})
  /\ \/ /\ Asked.completed \/ Asked.mpi = "done"
        /\ Complete
     \/ /\ ~Asked.completed /\ Asked.mpi = "active"
        /\ call' = [call EXCEPT !.at = "probe", !.flag = 0]
        /\ UNCHANGED <<variable, table, reported>>
  /\ UNCHANGED <<queue, posted, unexpected, forwarded, receives, buffer, stale, started, sent>>

\* then the wide area, without blocking.
ProbeMixed ==
  LET r == ProbeReceive(Asked)
  IN  /\ InCall /\ call.at = "probe"
      /\ ProbeTakes(Asked)
      /\ IF r.completed
         THEN /\ buffer' = Unpack(r)
              /\ table' = [table EXCEPT ![Handle] = [r EXCEPT !.unpacked = TRUE]]
              /\ call' = [call EXCEPT !.at = "cancel"]
         ELSE /\ IF call.op = "wait" THEN call' = [call EXCEPT !.at = "look"] ELSE NotComplete(0)
              /\ UNCHANGED <<table, buffer>>
      /\ UNCHANGED <<variable, posted, unexpected, receives, reported, stale, started, sent>>

\* then PMPI_Cancel and PMPI_Request_free: the local receive is taken back, or
\* its message has come already, into the same buffer.
CancelLocal ==
  /\ InCall /\ call.at = "cancel"
  /\ posted' = RemoveFirst(posted, Asked.n)
  /\ Complete
  /\ UNCHANGED <<queue, unexpected, forwarded, receives, buffer, stale, started, sent>>

\* The calls.  With EMPI_REQUEST_NULL in its variables a call returns at once.
Begin(op, of, flag) ==
  /\ ~InCall
  /\ \E j \in DOMAIN of : variable[of[j]] # NULL
  /\ call' = [Idle EXCEPT !.op = op, !.of = of, !.flag = flag,
               !.i = Min({ j \in DOMAIN of : variable[of[j]] # NULL })]
  /\ UNCHANGED <<variable, table, queue, posted, unexpected, forwarded>>
  /\ UNCHANGED logVars

Test(v)     == \E f \in FlagPassed : Begin("test", <<v>>, f)
Wait(v)     == Begin("wait", <<v>>, 0)
Waitany(of) == Begin("waitany", of, 0)
Waitall(of) == Begin("waitall", of, 0)

\* EMPI_Request_get_status of a receive that may come over the wide area: the
\* message is received, the request stays.  (Of another request it only asks.)
RequestGetStatus(v) ==
  LET i == variable[v]
      r == ProbeReceive(table[i])
  IN  /\ ~InCall /\ i # NULL
      /\ table[i].kind \in {"wide receive", "mixed receive"}
      /\ ProbeTakes(table[i])
      /\ IF r.completed
         THEN /\ buffer' = Unpack(r)
              /\ table' = [table EXCEPT ![i] = [r EXCEPT !.unpacked = TRUE]]
              /\ reported' = reported \cup {r.n}
         ELSE UNCHANGED <<table, buffer, reported>>
      /\ UNCHANGED <<variable, posted, unexpected, call, receives, stale, started, sent>>

\* EMPI_Request_free.  An application that frees a receive gives its message up;
\* this one frees sends.
RequestFree(v) ==
  /\ ~InCall /\ variable[v] # NULL
  /\ table[variable[v]].kind \in {"local send", "wide send"}
  /\ table' = FreeRequest(variable[v])
  /\ variable' = [variable EXCEPT ![v] = NULL]
  /\ UNCHANGED <<queue, posted, unexpected, forwarded, call>>
  /\ UNCHANGED logVars

-----------------------------------------------------------------------------
Init ==
  /\ variable = [v \in Var |-> NULL]
  /\ table = [i \in Slot |-> Free]
  /\ queue = << >> /\ posted = << >> /\ unexpected = << >> /\ forwarded = << >>
  /\ call = Idle
  /\ receives = << >> /\ reported = {}
  /\ buffer = [n \in Receive |-> << >>]
  /\ stale = {}
  /\ started = 0
  /\ sent = [q \in Member |-> 0]

\* A call that is under way.
Proceed ==
  \/ LocalRecv \/ WideRecv
  \/ LookLocal \/ LookWideSend \/ LookWide \/ LookMixed \/ ProbeMixed \/ CancelLocal

Application ==
  \/ \E v \in Var : \/ \E q \in Member : Isend(v, q)
                    \/ \E a \in Asks : Irecv(v, a.source, a.tag)
                    \/ Test(v) \/ Wait(v) \/ RequestGetStatus(v) \/ RequestFree(v)
  \/ \E a \in Asks : Recv(a.source, a.tag)
  \/ \E of \in Lists : Waitany(of) \/ Waitall(of)

Environment ==
  \/ \E m \in Traffic : LocalArrival(m.src, m.tag) \/ WideArrival(m.src, m.tag)
  \/ \E i \in Slot : SendCompletes(i)

Next == Application \/ Proceed \/ Environment

Spec == Init /\ [][Next]_vars

\* A call that can go on does: the process runs.  Nothing is assumed of the
\* application, of MPI or of the other members.
FairSpec == Spec /\ WF_vars(Proceed)

-----------------------------------------------------------------------------
(* Properties *)

Kinds == {"local send", "wide send", "local receive", "wide receive", "mixed receive"}
Ask == [source : Member \cup {AnySource}, tag : Tag \cup {AnyTag}]
Messages == Seq(Message)

Request == [kind : Kinds \cup {"free"}, source : Member \cup {AnySource}, tag : Tag \cup {AnyTag},
            n : Receive \cup {0}, completed : BOOLEAN, unpacked : BOOLEAN, message : Messages,
            mpi : {"null", "active", "done"}]
Call == [op : {"idle", "recv", "crashed"} \cup Waiting, of : Seq(Var), i : Nat,
         at : {"look", "probe", "cancel"}, flag : {0, 1},
         source : Member \cup {AnySource}, tag : Tag \cup {AnyTag}]

\* The types of all variables: in particular add_request never writes past the
\* table.
TypeOK ==
  /\ variable \in [Var -> Slot \cup {NULL}]
  /\ table \in [Slot -> Request]
  /\ queue \in Messages /\ unexpected \in Messages /\ forwarded \in Messages
  /\ posted \in Seq(Receive)
  /\ call \in Call
  /\ receives \in Seq(Ask) /\ Len(receives) <= MaxReceives
  /\ buffer \in [Receive -> Messages]
  /\ reported \subseteq DOMAIN receives /\ stale \subseteq reported
  /\ started \in Nat
  /\ sent \in [Member -> 0 .. MaxSent]

\* The variables of the application and the slots of the table belong together:
\* no handle is in two variables, none refers to a slot that was freed, no slot
\* stays occupied, and MPI waits for a receive, once, exactly if its request is
\* active.
HandlesOwned ==
  /\ \A i \in Slot : (table[i] # Free) = (\E v \in Var : variable[v] = i)
  /\ \A v, w \in Var : variable[v] = variable[w] /\ variable[v] # NULL => v = w
  /\ \A i \in Slot : table[i].n # 0 => ((table[i].mpi = "active") = (table[i].n \in ToSet(posted)))
  /\ \A k, l \in DOMAIN posted : posted[k] = posted[l] => k = l

\* The buffer of receive n got a message of this cluster, from MPI, and one of
\* another, from the gateway: only a mixed receive looks for both.
BothWays(n) ==
  /\ Kind(FALSE, receives[n].source) = "mixed receive"
  /\ Len(buffer[n]) = 2
  /\ \E k, l \in 1 .. 2 : buffer[n][k].src \in Local /\ buffer[n][l].src \in Remote

\* The places of messages, and the messages at each, in order.
Place == ({"queue", "unexpected", "forwarded"} \X {0})
         \cup ({"message"} \X Slot) \cup ({"buffer"} \X Receive)
Line(p) ==
  CASE p[1] = "queue"      -> queue
    [] p[1] = "unexpected" -> unexpected
    [] p[1] = "forwarded"  -> forwarded
    [] p[1] = "message"    -> IF table[p[2]].unpacked THEN << >> ELSE table[p[2]].message
    [] p[1] = "buffer"     -> buffer[p[2]]
\* Where the n-th message of member q is.
Spots(q, n) ==
  UNION { { <<p, k>> : k \in { l \in DOMAIN Line(p) : Line(p)[l].src = q /\ Line(p)[l].n = n } }
          : p \in Place }

\* Every message a member sent waits in one place, or was written once into one
\* buffer.  Nothing is written over it there, except in the buffer of a mixed
\* receive, which MPI and the gateway may each write to once: PMPI_Cancel comes
\* after the message of the other cluster was unpacked.
NoLossNoDuplication ==
  /\ \A q \in Member : \A n \in 1 .. sent[q] : Cardinality(Spots(q, n)) = 1
  /\ \A n \in DOMAIN receives : Len(buffer[n]) <= 1 \/ BothWays(n)

\* What is in the buffer of a receive, it asked for.  A receive that was reported
\* complete has its one message; a mixed one may have had a second.  The only
\* ones without are receives from another cluster that EMPI_Test reported because
\* of the flag it was passed.
CompletionSound ==
  \A n \in DOMAIN receives :
    /\ \A k \in DOMAIN buffer[n] : Matches(buffer[n][k], receives[n].source, receives[n].tag)
    /\ n \in reported \ stale => Len(buffer[n]) = 1 \/ BothWays(n)
    /\ n \in stale => buffer[n] = << >> /\ Kind(FALSE, receives[n].source) = "wide receive"

\* EMPI_Wait, EMPI_Waitany and EMPI_Waitall do not overlook a request that can
\* be completed, wherever its message is.
Ready(i) ==
  \/ table[i].mpi = "done" \/ table[i].kind = "wide send" \/ table[i].completed
  \/ /\ table[i].kind \in {"wide receive", "mixed receive"}
     /\ FirstMatch(queue \o forwarded, table[i].source, table[i].tag) # 0
IsReady(v) == variable[v] # NULL /\ Ready(variable[v])
WaitReturns ==
  \A v \in Var : (InCall /\ v \in ToSet(call.of) /\ call.op # "test" /\ IsReady(v))
                   ~> (~InCall \/ ~IsReady(v))
=============================================================================
