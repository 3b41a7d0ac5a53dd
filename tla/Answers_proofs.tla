--------------------------- MODULE Answers_proofs ----------------------------
(***************************************************************************)
(* Theorems about the table of pending requests in Proxy: no response is   *)
(* dropped whose entry did not expire, and an answered request leaves no   *)
(* entry.  The proof follows each answer that is still due through the     *)
(* places it can be at, from the task that has yet to send the request to  *)
(* the task that looks for its entry.                                      *)
(***************************************************************************)
EXTENDS Sessions_proofs

-----------------------------------------------------------------------------
(***************************************************************************)
(* Conditions                                                              *)
(***************************************************************************)

\* No two requests have the same sequence number.
OneRequestPerSeq == \A r1, r2 \in Requests : r1.seq = r2.seq => r1 = r2

\* No request is sent again.
SentOnce == \A r \in Requests : Copies[r] <= 1

\* No backend leaves while a broadcast counts on its response.
PoolGrows == Commands \subseteq {"add"} \X Upfs

\* Backends neither join nor leave.
FixedPool == Commands = {}

-----------------------------------------------------------------------------
(***************************************************************************)
(* Broadcasts are marked as such, in tasks and in entries, and go to every *)
(* backend once.                                                           *)
(***************************************************************************)
IsBroadcast(r) == r.type \in BroadcastTypes

FlagTask(k) ==
    /\ k.pc \in ResponseSteps => k.msg.kind = "response"
    /\ k.pc # "idle" /\ k.msg.kind = "request" =>
          (k.is_broadcast <=> k.pc \in SendSteps /\ IsBroadcast(k.msg.req))
    /\ k.pc = "forward" => ~ IsBroadcast(k.msg.req)
    /\ k.pc \in {"broadcast", "tally"} => IsBroadcast(k.msg.req)
    /\ k.pc = "reply" => (k.is_broadcast <=> IsBroadcast(k.msg.req))

FlagInv ==
    /\ \A t \in Tasks : FlagTask(task[t])
    /\ \A r \in Requests : IsPending(r.seq) =>
          (pending[r.seq].is_broadcast <=> IsBroadcast(r))

Distinct(s) == \A i, j \in 1 .. Len(s) : s[i] = s[j] => i = j

HostTask(k) ==
    /\ k.pc = "register" /\ k.is_broadcast =>
          Distinct(k.hosts) /\ Len(k.hosts) <= Len(backends)
    /\ k.pc = "broadcast" => Distinct(k.hosts)

HostInv ==
    /\ Distinct(backends)
    /\ backends # << >>
    /\ \A t \in Tasks : HostTask(task[t])

-----------------------------------------------------------------------------
(***************************************************************************)
(* The answers to r that are due, and where the one of u is.               *)
(***************************************************************************)
Sending(t, r, u) ==
    /\ Carries(t, r)
    /\ \/ At(t, "forward") /\ task[t].dest = u
       \/ At(t, "broadcast") /\ \E i \in 1 .. Len(task[t].hosts) : task[t].hosts[i] = u

Underway(r, u) == [to |-> u, msg |-> RequestMsg(r)] \in outbox

Returning(r, u) == ResponseMsg(r, u) \in inbox

Arrived(t, r, u) == At(t, "match") /\ Msg(t) = ResponseMsg(r, u)

Due(r, u) ==
    \/ \E t \in Tasks : Sending(t, r, u) \/ Arrived(t, r, u)
    \/ Underway(r, u)
    \/ Returning(r, u)

Outstanding(r) == {u \in Addr : Due(r, u)}

\* The answer of u is at one place.
OnePlace(r, u) ==
    /\ \A t \in Tasks : Sending(t, r, u) =>
          /\ ~ Underway(r, u)
          /\ ~ Returning(r, u)
          /\ \A x \in Tasks : ~ Arrived(x, r, u)
    /\ Underway(r, u) =>
          /\ ~ Returning(r, u)
          /\ \A x \in Tasks : ~ Arrived(x, r, u)
    /\ Returning(r, u) => \A x \in Tasks : ~ Arrived(x, r, u)
    /\ \A t, x \in Tasks : Arrived(t, r, u) /\ Arrived(x, r, u) => t = x

\* As many answers as a request can have.
Answers(r) == IF IsBroadcast(r) THEN Len(backends) ELSE 1

Reacting(t, r) == ~ At(t, "idle") /\ Msg(t).kind = "response" /\ Msg(t).req = r

\* t has counted the response to r that it holds.
Counted(t, r) == Reacting(t, r) /\ task[t].pc \in {"reply", "tally", "retire"}

\* Nobody received r.
Silent(r) ==
    /\ \A u \in Addr : ~ Underway(r, u) /\ ~ Returning(r, u)
    /\ \A t \in Tasks : ~ Reacting(t, r)

\* r has no entry yet.
Early(r) ==
    \/ ~ Requested(r)
    \/ RequestMsg(r) \in inbox
    \/ \E t \in Tasks : /\ Carries(t, r)
                        /\ task[t].pc \notin {"forward", "broadcast", "unregister"}

\* r has an entry, and t did not send it so far.
Unsent(t, r) ==
    /\ Carries(t, r)
    /\ \/ task[t].pc \in {"forward", "unregister"}
       \/ task[t].pc = "broadcast" /\ task[t].n = 0

Tracked(r) ==
    /\ \A u \in Addr : OnePlace(r, u)
    /\ Early(r) => Silent(r) /\ ~ IsPending(r.seq)
    /\ \A t \in Tasks : Unsent(t, r) => Silent(r)
    /\ Outstanding(r) # {} => IsPending(r.seq) \/ r.seq \in expired
    /\ IsFiniteSet(Outstanding(r))
    /\ IsPending(r.seq) =>
          Cardinality(Outstanding(r)) + pending[r.seq].responses <= Answers(r)
    /\ \A t \in Tasks : Counted(t, r) =>
          /\ task[t].n >= 1
          /\ Cardinality(Outstanding(r)) + task[t].n <= Answers(r)
          /\ At(t, "retire") => Outstanding(r) = {}

AnswerInv ==
    /\ \A d \in outbox : FromSource(d.msg)
    /\ \A r \in Requests : Tracked(r)

(***************************************************************************)
(* Nothing is lost and the pool is fixed: the entry of an answered request *)
(* has its count right, and the task that counted the last answer removes  *)
(* it.                                                                     *)
(***************************************************************************)
Settled(r) ==
    r.type \in AnsweredTypes /\ IsPending(r.seq) =>
        /\ Cardinality(Outstanding(r)) + pending[r.seq].responses = Answers(r)
        /\ pending[r.seq].responses = Answers(r) =>
              \E t \in Tasks : Counted(t, r) /\ task[t].n = Answers(r)

\* Every send succeeds, and a broadcast goes to the whole pool.
SettledTask(k) ==
    /\ k.pc # "unregister"
    /\ k.pc = "register" /\ k.is_broadcast => k.hosts = InitialPool
    /\ k.pc = "broadcast" => k.hosts # << >> \/ k.n # 0

SettledInv ==
    /\ backends = InitialPool
    /\ \A t \in Tasks : SettledTask(task[t])
    /\ \A r \in Requests : Settled(r)

-----------------------------------------------------------------------------
\* Which action a task takes at the steps that touch the pending requests, and
\* what all the others leave alone.
LEMMA HandlerAt ==
    ASSUME NEW t \in Tasks, HandleMessage(t)
    PROVE  /\ At(t, "fan_out") => FanOut(t)
           /\ At(t, "register") => Register(t)
           /\ At(t, "forward") => Forward(t) \/ ForwardFails(t)
           /\ At(t, "broadcast") => BroadcastOne(t) \/ BroadcastOneFails(t) \/ EndBroadcast(t)
           /\ At(t, "unregister") => Unregister(t)
           /\ At(t, "match") => MatchFound(t) \/ MatchMissed(t)
           /\ At(t, "reply") => Reply(t) \/ ReplyFails(t)
           /\ At(t, "tally") => Tally(t)
           /\ At(t, "retire") => Retire(t)
<1> QED
  BY DEF HandleMessage, At, FanOut, Select, Turn, CountBackend, Place, LookupFound,
         LookupMissed, Unmap, OwnerOf, Register, Forward, ForwardFails, Unregister,
         BroadcastOne, BroadcastOneFails, EndBroadcast, MatchFound, MatchMissed,
         Reply, ReplyFails, Tally, Retire

LEMMA HandlerPends ==
    ASSUME NEW t \in Tasks, HandleMessage(t)
    PROVE  /\ UNCHANGED <<backends, commands, expired>>
           /\ \/ UNCHANGED pending
              \/ At(t, "register") /\ PendingInsert(SeqNo(t), Msg(t).by, task[t].is_broadcast)
              \/ At(t, "match") /\ IsPending(SeqNo(t)) /\ PendingIncrement(SeqNo(t))
              \/ At(t, "unregister") /\ PendingRemove(SeqNo(t))
              \/ At(t, "retire") /\ PendingRemove(SeqNo(t))
<1> USE DEF tableVars, poolVars, netVars, peerVars
<1>1. CASE \/ Register(t) \/ Unregister(t) \/ MatchFound(t) \/ Retire(t)
  BY <1>1 DEF Register, Unregister, MatchFound, Retire
<1>2. CASE \/ FanOut(t) \/ Select(t) \/ Turn(t) \/ CountBackend(t) \/ Place(t)
           \/ LookupFound(t) \/ LookupMissed(t) \/ Unmap(t) \/ OwnerOf(t)
           \/ Forward(t) \/ ForwardFails(t)
           \/ BroadcastOne(t) \/ BroadcastOneFails(t) \/ EndBroadcast(t)
           \/ MatchMissed(t) \/ Reply(t) \/ ReplyFails(t) \/ Tally(t)
  BY <1>2 DEF FanOut, Select, Turn, CountBackend, Place, LookupFound,
     LookupMissed, Unmap, OwnerOf, Forward, ForwardFails,
     BroadcastOne, BroadcastOneFails, EndBroadcast, MatchMissed,
     Reply, ReplyFails, Tally
<1> QED BY <1>1, <1>2 DEF HandleMessage

\* An entry that stays, or comes, and whose it is.
LEMMA PendingIs ==
    ASSUME TypeInv, NEW q \in Seqs, NEW e \in Seqs
    PROVE  /\ PendingRemove(e) => pending'[q] = IF q = e THEN None ELSE pending[q]
           /\ IsPending(e) /\ PendingIncrement(e) =>
                 pending'[q] = IF q = e
                     THEN [pending[e] EXCEPT !.responses = pending[e].responses + 1]
                     ELSE pending[q]
           /\ PendingGrowOld(e) =>
                 pending'[q] = IF q = e THEN [pending[e] EXCEPT !.old = TRUE]
                                        ELSE pending[q]
           /\ IsPending(q) => pending[q] \in RequestInfo
           /\ None \notin RequestInfo
           /\ pending \in [Seqs -> RequestInfo \cup {None}]
<1>1. pending \in [Seqs -> RequestInfo \cup {None}]
  BY DEF TypeInv, TypeOK, PendingTypeOK
<1>2. None \notin RequestInfo
  BY NoRequestAssumption
<1> QED BY <1>1, <1>2 DEF PendingRemove, PendingIncrement, PendingGrowOld, IsPending

LEMMA PendingInserted ==
    ASSUME TypeInv, NEW q \in Seqs, NEW e \in Seqs, NEW a, NEW b,
           PendingInsert(e, a, b)
    PROVE  pending'[q] = IF q = e THEN [origin |-> a, is_broadcast |-> b,
                                        responses |-> 0, old |-> FALSE]
                                  ELSE pending[q]
BY PendingIs DEF PendingInsert

-----------------------------------------------------------------------------
LEMMA FlagInit == Init => FlagInv
BY RequestFacts
   DEF Init, FlagInv, FlagTask, IdleTask, PendingInit, IsPending, ResponseSteps

\* Nobody but a handler marks anything as a broadcast.
LEMMA FlagStep ==
    ASSUME OneRequestPerSeq, TypeInv, ArmInv, FlagInv, [Next]_vars
    PROVE  FlagInv'
<1> USE DEF tableVars, poolVars, netVars, peerVars
<1>0. task \in [Tasks -> Task]
  BY DEF TypeInv, TypeOK
<1>1. ASSUME \A x \in Tasks : task'[x] = task[x] \/ FlagTask(task'[x]),
             \A r \in Requests : IsPending(r.seq)' =>
                 \/ IsPending(r.seq) /\ pending'[r.seq].is_broadcast = pending[r.seq].is_broadcast
                 \/ pending'[r.seq].is_broadcast <=> IsBroadcast(r)
      PROVE  FlagInv'
  <2>1. \A x \in Tasks : FlagTask(task'[x])
    BY <1>1 DEF FlagInv
  <2>2. (\A x \in Tasks : FlagTask(task[x]))'
    BY <2>1 DEF FlagTask, IsBroadcast
  <2>3. \A r \in Requests : IsPending(r.seq)' =>
            (pending'[r.seq].is_broadcast <=> IsBroadcast(r))
    BY <1>1 DEF FlagInv
  <2> QED BY <2>2, <2>3 DEF FlagInv, IsBroadcast
<1>2. CASE \E t \in Tasks : HandleMessage(t)
  <2> PICK t \in Tasks : HandleMessage(t)
    BY <1>2
  <2> DEFINE k == task[t]
  <2>1. /\ k.pc # "idle" /\ Moves(k, task'[t])
        /\ \A x \in Tasks : x # t => task'[x] = task[x]
    BY HandlerMoves
  <2>2. k \in Task /\ WellFormed(k) /\ ArmTask(k) /\ FlagTask(k) /\ k.msg = Msg(t)
        /\ k.msg.req \in Requests /\ SeqNo(t) = k.msg.req.seq /\ SeqNo(t) \in Seqs
        /\ k.msg \in Message
    BY <2>1, BusyTask DEF ArmInv, FlagInv, SeqNo, Msg, Message
  <2>3. k.msg.kind \in {"request", "response"}
    BY <2>2 DEF Message
  <2>4. k.pc = "register" =>
            (k.is_broadcast <=> IsBroadcast(k.msg.req))
    BY <2>2 DEF WellFormed, FlagTask, SendSteps
  <2>5. ASSUME NEW r \in Requests, IsPending(r.seq)'
        PROVE  \/ /\ IsPending(r.seq)
                  /\ pending'[r.seq].is_broadcast = pending[r.seq].is_broadcast
               \/ pending'[r.seq].is_broadcast <=> IsBroadcast(r)
    <3>1. r.seq \in Seqs /\ (r.seq = SeqNo(t) => r = k.msg.req)
      BY <2>2, RequestFacts DEF OneRequestPerSeq
    <3>2. CASE UNCHANGED pending
      BY <2>5, <3>2 DEF IsPending
    <3>3. CASE At(t, "register") /\ PendingInsert(SeqNo(t), Msg(t).by, task[t].is_broadcast)
      <4>1. pending'[r.seq] = IF r.seq = SeqNo(t)
                 THEN [origin |-> Msg(t).by, is_broadcast |-> k.is_broadcast,
                       responses |-> 0, old |-> FALSE]
                 ELSE pending[r.seq]
        BY <2>2, <3>1, <3>3, PendingInserted
      <4>2. CASE r.seq = SeqNo(t)
        <5>1. pending'[r.seq].is_broadcast = k.is_broadcast
          BY <4>1, <4>2
        <5>2. k.pc = "register" /\ r = k.msg.req
          BY <3>1, <3>3, <4>2 DEF At
        <5> QED BY <2>4, <5>1, <5>2
      <4>3. CASE r.seq # SeqNo(t)
        BY <2>5, <4>1, <4>3 DEF IsPending
      <4> QED BY <4>2, <4>3
    <3>4. CASE IsPending(SeqNo(t)) /\ PendingIncrement(SeqNo(t))
      <4>1. pending[SeqNo(t)] \in RequestInfo
        BY <2>2, <3>4, PendingIs
      <4>2. pending'[r.seq] = IF r.seq = SeqNo(t)
                 THEN [pending[SeqNo(t)] EXCEPT !.responses = pending[SeqNo(t)].responses + 1]
                 ELSE pending[r.seq]
        BY <2>2, <3>1, <3>4, PendingIs
      <4> QED BY <2>5, <3>4, <4>1, <4>2 DEF IsPending, RequestInfo
    <3>5. CASE PendingRemove(SeqNo(t))
      <4>1. pending'[r.seq] = IF r.seq = SeqNo(t) THEN None ELSE pending[r.seq]
        BY <2>2, <3>1, <3>5, PendingIs
      <4> QED BY <2>5, <4>1 DEF IsPending
    <3> QED BY <3>2, <3>3, <3>4, <3>5, HandlerPends
  <2>6. FlagTask(task'[t])
    <3>1. CASE task'[t].pc = "idle"
      BY <3>1 DEF FlagTask, ResponseSteps
    <3>2. CASE k.pc = "fan_out" /\ task'[t].pc # "idle"
      <4>1. task'[t] = [k EXCEPT !.pc = "register", !.hosts = backends, !.is_broadcast = TRUE]
        BY <1>0, <3>2, HandlerAt DEF At, FanOut, Become
      <4>2. /\ task'[t].pc = "register" /\ task'[t].is_broadcast = TRUE
            /\ task'[t].msg = k.msg
        BY <2>2, <4>1 DEF Task
      <4>3. IsBroadcast(k.msg.req)
        BY <2>2, <3>2 DEF ArmTask, IsBroadcast
      <4> QED BY <4>2, <4>3 DEF FlagTask, SendSteps, ResponseSteps
    <3>3. CASE k.pc \in {"match", "reply", "tally"} /\ task'[t].pc # "idle"
      <4>1. /\ task'[t].msg = k.msg /\ task'[t].pc \in ResponseSteps
            /\ k.msg.kind = "response"
        BY <2>1, <2>2, <3>3 DEF Moves, Advances, FlagTask, ResponseSteps
      <4>2. CASE MatchFound(t)
        <5>1. IsPending(SeqNo(t)) /\ pending[SeqNo(t)] \in RequestInfo
          BY <2>2, <4>2, PendingIs DEF MatchFound
        <5>2. pending[SeqNo(t)].is_broadcast <=> IsBroadcast(k.msg.req)
          BY <2>2, <5>1 DEF FlagInv
        <5>3. task'[t].pc = "reply" /\ task'[t].is_broadcast = pending[SeqNo(t)].is_broadcast
          BY <1>0, <2>2, <4>2 DEF MatchFound, Become, Task
        <5> QED BY <4>1, <5>2, <5>3 DEF FlagTask
      <4>3. CASE Reply(t)
        <5>1. /\ task'[t].pc = IF k.is_broadcast THEN "tally" ELSE "retire"
              /\ k.pc = "reply"
          BY <1>0, <4>3 DEF Reply, Goto, At
        <5> QED BY <2>2, <4>1, <5>1 DEF FlagTask
      <4>4. CASE Tally(t)
        <5>1. task'[t].pc = "retire"
          BY <1>0, <2>2, <3>3, <4>4 DEF Tally, Goto, Finish, Become, IdleTask, Task
        <5> QED BY <4>1, <5>1 DEF FlagTask
      <4>5. ~ MatchMissed(t) /\ ~ ReplyFails(t)
        BY <1>0, <3>3 DEF MatchMissed, ReplyFails, Finish, Become, IdleTask
      <4> QED BY <3>3, <4>2, <4>3, <4>4, <4>5, HandlerAt DEF At
    <3>4. CASE Advances(k, task'[t]) /\ task'[t].is_broadcast = k.is_broadcast
               /\ task'[t].msg = k.msg
      <4>1. k.msg.kind = "request"
        BY <2>2, <3>4 DEF Advances, WellFormed, RouteSteps, PoolSteps, IsSmfRequest
      <4>2. IsBroadcast(k.msg.req) => k.pc \in {"register", "broadcast", "forward", "unregister"}
        <5>1. k.pc = "owner" => ~ IsBroadcast(k.msg.req)
          BY <2>2, <4>1 DEF WellFormed, IsSmfRequest, IsBroadcast, SmfRequestTypes
        <5>2. k.pc \in {"lookup", "unmap", "place"} \cup PoolSteps =>
                  ~ IsBroadcast(k.msg.req)
          BY <2>2, TypesDisjoint DEF ArmTask, IsBroadcast, AffinityTypes
        <5> QED BY <3>4, <5>1, <5>2 DEF Advances, PoolSteps
      <4> QED
        BY <2>2, <2>4, <3>4, <4>1, <4>2 DEF Advances, FlagTask, SendSteps, ResponseSteps
    <3> QED BY <2>1, <3>1, <3>2, <3>3, <3>4 DEF Moves
  <2> QED BY <1>1, <2>1, <2>5, <2>6
<1>3. CASE ReceiveSome
  <2> PICK t \in Tasks, m \in inbox : Receive(t, m)
    BY <1>3 DEF ReceiveSome
  <2> DEFINE pc == FirstStep(m)
  <2>1. m \in Message /\ UNCHANGED pending
    BY DEF TypeInv, TypeOK, Receive
  <2>2. /\ \A x \in Tasks : x # t => task'[x] = task[x]
        /\ \/ task'[t] = task[t]
           \/ task'[t].pc = pc /\ task'[t].msg = m /\ task'[t].is_broadcast = FALSE
    BY <1>0 DEF Receive, Become, IdleTask
  <2>3. /\ pc \in {"idle", "match", "owner", "fan_out", "select", "lookup"}
        /\ pc = "match" => m.kind = "response"
    BY <2>1, FirstStepFacts
  <2> HIDE DEF pc
  <2>4. task'[t] = task[t] \/ FlagTask(task'[t])
    BY <2>2, <2>3 DEF FlagTask, ResponseSteps, SendSteps
  <2> QED BY <1>1, <2>1, <2>2, <2>4 DEF IsPending
<1>4. CASE \E q \in Seqs : GrowOld(q) \/ CleanupStale(q)
  <2> PICK q \in Seqs : GrowOld(q) \/ CleanupStale(q)
    BY <1>4
  <2>1. UNCHANGED task
    BY DEF GrowOld, CleanupStale
  <2>2. PendingGrowOld(q) \/ PendingRemove(q)
    BY DEF GrowOld, CleanupStale, PendingCleanup
  <2>3. ASSUME NEW r \in Requests, IsPending(r.seq)'
        PROVE  IsPending(r.seq) /\ pending'[r.seq].is_broadcast = pending[r.seq].is_broadcast
    <3>1. r.seq \in Seqs
      BY RequestFacts
    <3>2. CASE PendingRemove(q)
      <4>1. pending'[r.seq] = IF r.seq = q THEN None ELSE pending[r.seq]
        BY <3>1, <3>2, PendingIs
      <4> QED BY <2>3, <4>1 DEF IsPending
    <3>3. CASE PendingGrowOld(q)
      <4>1. IsPending(q) /\ pending[q] \in RequestInfo
        BY <3>3, PendingIs DEF PendingGrowOld
      <4>2. pending'[r.seq] = IF r.seq = q THEN [pending[q] EXCEPT !.old = TRUE]
                                           ELSE pending[r.seq]
        BY <3>1, <3>3, PendingIs
      <4> QED BY <2>3, <4>1, <4>2 DEF IsPending, RequestInfo
    <3> QED BY <2>2, <3>2, <3>3
  <2> QED BY <1>1, <2>1, <2>3
<1>5. CASE \/ \E c \in commands : ApplyCommand(c)
           \/ \E r \in Requests : SendRequest(r)
           \/ PeerStep
           \/ Lose
           \/ UNCHANGED vars
  <2>1. UNCHANGED <<task, pending>>
    BY <1>5 DEF ApplyCommand, SendRequest, PeerStep, PeerHandles, PeerGetsResponse,
       Lose, vars
  <2> QED BY <1>1, <2>1 DEF IsPending
<1> QED BY <1>2, <1>3, <1>4, <1>5 DEF Next, Wait

-----------------------------------------------------------------------------
LEMMA TailOf ==
    ASSUME NEW S, NEW s \in Seq(S), s # << >>
    PROVE  /\ Len(s) \in Nat \ {0} /\ Head(s) = s[1] /\ Head(s) \in S
           /\ Tail(s) \in Seq(S) /\ Len(Tail(s)) = Len(s) - 1
           /\ \A i \in 1 .. Len(s) - 1 : Tail(s)[i] = s[i + 1]
OBVIOUS

\* A backend joins at the end, and only if it is not there.
LEMMA PoolKept ==
    ASSUME PoolGrows, TypeInv, Distinct(backends), [Next]_vars
    PROVE  /\ Distinct(backends')
           /\ Len(backends) \in Nat /\ Len(backends') \in Nat
           /\ Len(backends) <= Len(backends')
           /\ backends # << >> => backends' # << >>
<1> USE DEF tableVars, poolVars, netVars, peerVars
<1>0. backends \in Seq(Upfs) /\ commands \subseteq Commands
  BY DEF TypeInv, TypeOK, UpfPoolTypeOK
<1>1. CASE UNCHANGED backends
  BY <1>0, <1>1
<1>2. CASE \E u \in Upfs : AddBackend(u)
  <2> PICK u \in Upfs : AddBackend(u)
    BY <1>2
  <2>1. backends' = Append(backends, u) /\ \A i \in 1 .. Len(backends) : backends[i] # u
    BY DEF AddBackend, MayAdd, IsBackend
  <2>2. /\ Len(backends') = Len(backends) + 1 /\ Len(backends) \in Nat
        /\ backends'[Len(backends) + 1] = u
        /\ \A i \in 1 .. Len(backends) : backends'[i] = backends[i]
    BY <1>0, <2>1
  <2>3. Distinct(backends')
    <3> SUFFICES ASSUME NEW i \in 1 .. Len(backends'), NEW j \in 1 .. Len(backends'),
                        backends'[i] = backends'[j]
                 PROVE  i = j
      BY DEF Distinct
    <3>1. CASE i = Len(backends) + 1
      BY <2>1, <2>2, <3>1
    <3>2. CASE j = Len(backends) + 1
      BY <2>1, <2>2, <3>2
    <3>3. CASE i \in 1 .. Len(backends) /\ j \in 1 .. Len(backends)
      BY <2>2, <3>3 DEF Distinct
    <3> QED BY <2>2, <3>1, <3>2, <3>3
  <2> QED BY <1>0, <2>2, <2>3
<1>3. CASE \E c \in commands : ApplyCommand(c)
  <2> PICK c \in commands : ApplyCommand(c)
    BY <1>3
  <2>1. c[1] = "add" /\ c[2] \in Upfs
    BY <1>0 DEF PoolGrows
  <2>2. UNCHANGED backends \/ AddBackend(c[2])
    BY <2>1 DEF ApplyCommand
  <2> QED BY <1>1, <1>2, <2>1, <2>2
<1>4. CASE \/ ReceiveSome
           \/ \E t \in Tasks : HandleMessage(t)
           \/ \E q \in Seqs : GrowOld(q) \/ CleanupStale(q)
           \/ \E r \in Requests : SendRequest(r)
           \/ PeerStep
           \/ Lose
           \/ UNCHANGED vars
  <2>1. UNCHANGED backends
    BY <1>4, HandlerPends DEF ReceiveSome, Receive, GrowOld, CleanupStale, SendRequest,
       PeerStep, PeerHandles, PeerGetsResponse, Lose, vars
  <2> QED BY <1>1, <2>1
<1> QED BY <1>3, <1>4 DEF Next, Wait

LEMMA HostInit == Init => HostInv
BY PoolAssumption DEF Init, HostInv, HostTask, IdleTask, UpfPoolInit, Distinct

LEMMA HostStep ==
    ASSUME PoolGrows, TypeInv, FlagInv, HostInv, [Next]_vars
    PROVE  HostInv'
<1> USE DEF tableVars, poolVars, netVars, peerVars
<1>0. task \in [Tasks -> Task] /\ backends \in Seq(Upfs)
  BY DEF TypeInv, TypeOK, UpfPoolTypeOK
<1>1. /\ Distinct(backends') /\ backends' # << >>
      /\ Len(backends) \in Nat /\ Len(backends') \in Nat
      /\ Len(backends) <= Len(backends')
  BY PoolKept DEF HostInv
<1>2. ASSUME \A x \in Tasks :
                 \/ task'[x] = task[x]
                 \/ /\ task'[x].pc = "register" /\ task'[x].is_broadcast =>
                           task'[x].hosts = backends
                    /\ task'[x].pc = "broadcast" => Distinct(task'[x].hosts)
      PROVE  HostInv'
  <2>1. ASSUME NEW x \in Tasks, task'[x].pc = "register", task'[x].is_broadcast
        PROVE  Distinct(task'[x].hosts) /\ Len(task'[x].hosts) <= Len(backends')
    <3>1. CASE task'[x] = task[x]
      <4>1. Distinct(task[x].hosts) /\ Len(task[x].hosts) <= Len(backends)
        BY <2>1, <3>1 DEF HostInv, HostTask
      <4>2. Len(task[x].hosts) \in Nat
        BY <1>0 DEF Task
      <4> QED BY <1>1, <3>1, <4>1, <4>2
    <3>2. CASE task'[x].hosts = backends
      BY <1>1, <3>2 DEF HostInv
    <3> QED BY <1>2, <2>1, <3>1, <3>2
  <2>2. ASSUME NEW x \in Tasks, task'[x].pc = "broadcast"
        PROVE  Distinct(task'[x].hosts)
    BY <1>2, <2>2 DEF HostInv, HostTask
  <2>3. (\A x \in Tasks : HostTask(task[x]))'
    BY <2>1, <2>2 DEF HostTask, Distinct
  <2> QED BY <1>1, <2>3 DEF HostInv, Distinct
<1>3. CASE \E t \in Tasks : HandleMessage(t)
  <2> PICK t \in Tasks : HandleMessage(t)
    BY <1>3
  <2> DEFINE k == task[t]
  <2>1. /\ k.pc # "idle" /\ Moves(k, task'[t])
        /\ \A x \in Tasks : x # t => task'[x] = task[x]
    BY HandlerMoves
  <2>2. k \in Task /\ WellFormed(k) /\ FlagTask(k) /\ HostTask(k)
    BY <2>1, BusyTask DEF FlagInv, HostInv
  <2>3. task'[t].pc = "register" /\ task'[t].is_broadcast => task'[t].hosts = backends
    <3> SUFFICES ASSUME task'[t].pc = "register", task'[t].is_broadcast
                 PROVE  task'[t].hosts = backends
      OBVIOUS
    <3>1. CASE k.pc = "fan_out"
      BY <1>0, <2>2, <3>1, HandlerAt DEF At, FanOut, Become, Task
    <3>2. CASE Advances(k, task'[t]) /\ task'[t].is_broadcast = k.is_broadcast
      <4>1. k.pc \in {"place", "lookup", "unmap", "owner"}
        BY <3>2 DEF Advances
      <4>2. k.msg.kind = "request" /\ k.pc \notin SendSteps
        BY <2>2, <4>1 DEF WellFormed, RouteSteps, IsSmfRequest, SendSteps
      <4> QED BY <2>2, <3>2, <4>1, <4>2 DEF FlagTask
    <3> QED BY <2>1, <3>1, <3>2 DEF Moves, ResponseSteps
  <2>4. task'[t].pc = "broadcast" => Distinct(task'[t].hosts)
    <3> SUFFICES ASSUME task'[t].pc = "broadcast" PROVE Distinct(task'[t].hosts)
      OBVIOUS
    <3>1. k.pc \in {"register", "broadcast"}
      BY <2>1 DEF Moves, Advances, ResponseSteps
    <3>2. CASE k.pc = "register"
      <4>1. task'[t].hosts = k.hosts /\ k.is_broadcast
        <5> DEFINE pc == IF k.is_broadcast THEN "broadcast" ELSE "forward"
        <5>1. task'[t] = [k EXCEPT !.pc = pc, !.n = 0]
          BY <1>0, <3>2, HandlerAt DEF At, Register, Become
        <5> HIDE DEF pc
        <5>2. task'[t].pc = pc /\ task'[t].hosts = k.hosts
          BY <2>2, <5>1 DEF Task
        <5> QED BY <5>2 DEF pc
      <4> QED BY <2>2, <3>2, <4>1 DEF HostTask
    <3>3. CASE k.pc = "broadcast"
      <4>1. k.hosts # << >> /\ task'[t].hosts = Tail(k.hosts)
        <5>1. BroadcastOne(t) \/ BroadcastOneFails(t) \/ EndBroadcast(t)
          BY <3>3, HandlerAt DEF At
        <5>2. CASE BroadcastOne(t) \/ BroadcastOneFails(t)
          BY <1>0, <2>2, <5>2 DEF BroadcastOne, BroadcastOneFails, Become, Task
        <5>3. CASE EndBroadcast(t)
          BY <1>0, <2>2, <5>3 DEF EndBroadcast, Become, Goto, Finish, IdleTask, Task
        <5> QED BY <5>1, <5>2, <5>3
      <4>2. k.hosts \in Seq(Upfs) /\ Distinct(k.hosts)
        BY <2>2, <3>3 DEF Task, HostTask
      <4> QED BY <4>1, <4>2, TailOf DEF Distinct
    <3> QED BY <3>1, <3>2, <3>3
  <2> QED BY <1>2, <2>1, <2>3, <2>4
<1>4. CASE ReceiveSome
  <2> PICK t \in Tasks, m \in inbox : Receive(t, m)
    BY <1>4 DEF ReceiveSome
  <2>1. m \in Message
    BY DEF TypeInv, TypeOK
  <2>2. \A x \in Tasks : task'[x] = task[x] \/ task'[x].pc = FirstStep(m)
    BY <1>0 DEF Receive, Become, IdleTask
  <2>3. FirstStep(m) \notin {"register", "broadcast"}
    BY <2>1, FirstStepFacts
  <2> QED BY <1>2, <2>2, <2>3
<1>5. CASE \/ \E q \in Seqs : GrowOld(q) \/ CleanupStale(q)
           \/ \E c \in commands : ApplyCommand(c)
           \/ \E r \in Requests : SendRequest(r)
           \/ PeerStep
           \/ Lose
           \/ UNCHANGED vars
  <2>1. UNCHANGED task
    BY <1>5 DEF GrowOld, CleanupStale, ApplyCommand, SendRequest, PeerStep, PeerHandles,
       PeerGetsResponse, Lose, vars
  <2> QED BY <1>2, <2>1
<1> QED BY <1>3, <1>4, <1>5 DEF Next, Wait

-----------------------------------------------------------------------------
LEMMA AnswersGrow ==
    ASSUME PoolGrows, TypeInv, HostInv, [Next]_vars, NEW r \in Requests
    PROVE  /\ Answers(r) \in Nat \ {0} /\ Answers(r)' \in Nat
           /\ Answers(r) <= Answers(r)'
<1>1. backends \in Seq(Upfs) /\ backends # << >>
  BY DEF TypeInv, TypeOK, UpfPoolTypeOK, HostInv
<1>2. Len(backends) \in Nat \ {0}
  BY <1>1
<1>3. Len(backends') \in Nat /\ Len(backends) <= Len(backends')
  BY PoolKept DEF HostInv
<1> QED BY <1>2, <1>3 DEF Answers, IsBroadcast

\* What is said of the number of answers stays true while none becomes due, the
\* entry keeps its count, and no task counts.
LEMMA CountsKept ==
    ASSUME PoolGrows, TypeInv, HostInv, [Next]_vars, NEW r \in Requests, Tracked(r),
           Outstanding(r)' \subseteq Outstanding(r),
           IsPending(r.seq)' =>
               /\ IsPending(r.seq)
               /\ pending'[r.seq].responses = pending[r.seq].responses,
           IsPending(r.seq) => \/ IsPending(r.seq)'
                               \/ r.seq \in expired'
                               \/ Outstanding(r)' = {},
           expired \subseteq expired',
           \A t \in Tasks : Counted(t, r)' =>
               /\ Counted(t, r)
               /\ task'[t].n = task[t].n
               /\ task'[t].pc = "retire" => task[t].pc = "retire" \/ Outstanding(r)' = {}
    PROVE  /\ Outstanding(r)' # {} => IsPending(r.seq)' \/ r.seq \in expired'
           /\ IsFiniteSet(Outstanding(r)')
           /\ IsPending(r.seq)' =>
                 Cardinality(Outstanding(r)') + pending'[r.seq].responses <= Answers(r)'
           /\ \A t \in Tasks : Counted(t, r)' =>
                 /\ task'[t].n >= 1
                 /\ Cardinality(Outstanding(r)') + task'[t].n <= Answers(r)'
                 /\ task'[t].pc = "retire" => Outstanding(r)' = {}
<1> DEFINE W == Outstanding(r)
           V == Outstanding(r)'
<1>1. IsFiniteSet(W) /\ V \in SUBSET W
  BY DEF Tracked
<1>2. /\ IsFiniteSet(V) /\ Cardinality(V) \in Nat /\ Cardinality(W) \in Nat
      /\ Cardinality(V) <= Cardinality(W)
  BY <1>1, FS_Subset, FS_CardinalityType
<1>3. Answers(r) \in Nat /\ Answers(r)' \in Nat /\ Answers(r) <= Answers(r)'
  BY AnswersGrow
<1>4. V # {} => IsPending(r.seq)' \/ r.seq \in expired'
  <2>1. W # {} => IsPending(r.seq) \/ r.seq \in expired
    BY DEF Tracked
  <2> QED BY <1>1, <2>1
<1>5. IsPending(r.seq)' => Cardinality(V) + pending'[r.seq].responses <= Answers(r)'
  <2> SUFFICES ASSUME IsPending(r.seq)'
               PROVE  Cardinality(V) + pending'[r.seq].responses <= Answers(r)'
    OBVIOUS
  <2>1. Cardinality(W) + pending[r.seq].responses <= Answers(r)
    BY DEF Tracked
  <2>2. pending[r.seq].responses \in Nat
    BY RequestFacts, PendingIs DEF RequestInfo
  <2> HIDE DEF W, V
  <2> QED BY <1>2, <1>3, <2>1, <2>2
<1>6. ASSUME NEW t \in Tasks, Counted(t, r)'
      PROVE  /\ task'[t].n >= 1
             /\ Cardinality(V) + task'[t].n <= Answers(r)'
             /\ task'[t].pc = "retire" => V = {}
  <2>1. /\ task[t].n >= 1 /\ Cardinality(W) + task[t].n <= Answers(r)
        /\ task[t].pc = "retire" => W = {}
    BY <1>6 DEF Tracked, At
  <2>2. task[t].n \in Nat
    BY DEF TypeInv, TypeOK, Task
  <2>3. task'[t].pc = "retire" => V = {}
    BY <1>1, <1>6, <2>1
  <2>4. task'[t].n = task[t].n
    BY <1>6
  <2> HIDE DEF W, V
  <2> QED BY <1>2, <1>3, <2>1, <2>2, <2>3, <2>4
<1> QED BY <1>2, <1>4, <1>5, <1>6

\* Tracked(r)', with its parts as the lemmas have them.
LEMMA TrackedFrom ==
    ASSUME NEW r \in Requests,
           \A u \in Addr : OnePlace(r, u)',
           Early(r)' => Silent(r)' /\ ~ IsPending(r.seq)',
           \A t \in Tasks : Unsent(t, r)' => Silent(r)',
           Outstanding(r)' # {} => IsPending(r.seq)' \/ r.seq \in expired',
           IsFiniteSet(Outstanding(r)'),
           IsPending(r.seq)' =>
               Cardinality(Outstanding(r)') + pending'[r.seq].responses <= Answers(r)',
           \A t \in Tasks : Counted(t, r)' =>
               /\ task'[t].n >= 1
               /\ Cardinality(Outstanding(r)') + task'[t].n <= Answers(r)'
               /\ task'[t].pc = "retire" => Outstanding(r)' = {}
    PROVE  Tracked(r)'
BY DEF Tracked, At

\* Nothing new is under way for r.
Fewer(r) ==
    \A u \in Addr :
        /\ Underway(r, u)' => Underway(r, u)
        /\ Returning(r, u)' => Returning(r, u)
        /\ \A t \in Tasks : /\ Sending(t, r, u)' => Sending(t, r, u)
                            /\ Arrived(t, r, u)' => Arrived(t, r, u)

LEMMA FewerDue ==
    ASSUME NEW r \in Requests, Fewer(r), \A u \in Addr : OnePlace(r, u)
    PROVE  (\A u \in Addr : OnePlace(r, u)') /\ Outstanding(r)' \subseteq Outstanding(r)
<1>1. ASSUME NEW u \in Addr PROVE OnePlace(r, u)'
  <2>1. OnePlace(r, u)
    OBVIOUS
  <2> QED BY <2>1 DEF Fewer, OnePlace
<1>2. ASSUME NEW u \in Addr, Due(r, u)' PROVE Due(r, u)
  BY <1>2 DEF Fewer, Due
<1> QED BY <1>1, <1>2 DEF Outstanding

\* A task that has not come to sending r, or has nothing to do with it.
Aside(k, r) ==
    \/ k.pc = "idle"
    \/ k.msg.req # r
    \/ k.msg.kind = "request" /\ k.pc \notin {"forward", "broadcast", "unregister"}

LEMMA AsideTask ==
    ASSUME NEW t \in Tasks, NEW r \in Requests, Aside(task'[t], r)
    PROVE  /\ \A u \in Addr : ~ Sending(t, r, u)' /\ ~ Arrived(t, r, u)'
           /\ ~ Unsent(t, r)' /\ ~ Counted(t, r)' /\ ~ Reacting(t, r)'
BY DEF Aside, Sending, Arrived, Unsent, Counted, Reacting, Carries, At, Msg,
       RequestMsg, ResponseMsg, ResponseSteps

\* Steps that have to do with other requests, or end what is done for r.
LEMMA TrackedFrame ==
    ASSUME PoolGrows, TypeInv, HostInv, [Next]_vars, NEW r \in Requests, Tracked(r),
           \A u \in Addr : /\ Underway(r, u)' => Underway(r, u)
                           /\ Returning(r, u)' => Returning(r, u),
           \A t \in Tasks : task'[t] = task[t] \/ Aside(task'[t], r),
           Early(r)' => Early(r),
           IsPending(r.seq)' =>
               /\ IsPending(r.seq)
               /\ pending'[r.seq].responses = pending[r.seq].responses,
           IsPending(r.seq) => IsPending(r.seq)' \/ r.seq \in expired',
           expired \subseteq expired'
    PROVE  Tracked(r)'
<1>1. ASSUME NEW t \in Tasks
      PROVE  /\ \A u \in Addr : /\ Sending(t, r, u)' => Sending(t, r, u)
                                /\ Arrived(t, r, u)' => Arrived(t, r, u)
             /\ Unsent(t, r)' => Unsent(t, r)
             /\ Reacting(t, r)' => Reacting(t, r)
             /\ Counted(t, r)' => Counted(t, r) /\ task'[t] = task[t]
  <2>1. CASE task'[t] = task[t]
    BY <2>1 DEF Sending, Arrived, Unsent, Counted, Reacting, Carries, At, Msg
  <2>2. CASE Aside(task'[t], r)
    BY <2>2, AsideTask
  <2> QED BY <2>1, <2>2
<1>2. Fewer(r)
  BY <1>1 DEF Fewer
<1>3. (\A u \in Addr : OnePlace(r, u)') /\ Outstanding(r)' \subseteq Outstanding(r)
  BY <1>2, FewerDue DEF Tracked
<1>4. Silent(r) => Silent(r)'
  BY <1>1 DEF Silent
<1>5. Early(r)' => Silent(r)' /\ ~ IsPending(r.seq)'
  BY <1>4 DEF Tracked
<1>6. \A t \in Tasks : Unsent(t, r)' => Silent(r)'
  BY <1>1, <1>4 DEF Tracked
<1>7. \A t \in Tasks : Counted(t, r)' =>
          /\ Counted(t, r) /\ task'[t].n = task[t].n
          /\ task'[t].pc = "retire" => task[t].pc = "retire"
  BY <1>1
<1> QED BY <1>3, <1>5, <1>6, <1>7, CountsKept, TrackedFrom

-----------------------------------------------------------------------------
\* The invariant that the steps below keep, and the conditions they need.
TrackInv ==
    TypeInv /\ MessageInv /\ ArmInv /\ OnceInv /\ FlagInv /\ HostInv /\ AnswerInv

Unambiguous == OneRequestPerSeq /\ SentOnce /\ PoolGrows

\* A request in a task is nowhere else.
LEMMA CarriedAlone ==
    ASSUME SentOnce, TypeInv, MessageInv, OnceInv, NEW t \in Tasks, NEW r \in Requests,
           Carries(t, r)
    PROVE  /\ Requested(r) /\ RequestMsg(r) \notin inbox
           /\ \A x \in Tasks : Carries(x, r) => x = t
           /\ task[t].pc \in {"forward", "broadcast", "unregister"} => ~ Early(r)
<1>1. Requested(r)
  BY DEF MessageInv, Caused, Carries, RequestMsg
<1>2. RequestMsg(r) \notin inbox /\ \A x \in Tasks : Carries(x, r) => x = t
  BY DEF OnceInv, SentOnce
<1> QED BY <1>1, <1>2 DEF Early

\* What the step of a task means for the request it is about, or another.
LEMMA HandlerTask ==
    ASSUME TrackInv, NEW t \in Tasks, HandleMessage(t)
    PROVE  /\ task[t] \in Task /\ WellFormed(task[t]) /\ ~ At(t, "idle")
           /\ FlagTask(task[t]) /\ HostTask(task[t])
           /\ Msg(t) = task[t].msg /\ Msg(t) \in Message /\ Msg(t).req \in Requests
           /\ Msg(t).req.seq = SeqNo(t) /\ SeqNo(t) \in Seqs
           /\ Msg(t).kind = "request" => Carries(t, Msg(t).req)
           /\ Msg(t).kind = "response" => /\ Msg(t) = ResponseMsg(Msg(t).req, Msg(t).by)
                                          /\ Reacting(t, Msg(t).req)
           /\ Msg(t).kind \in {"request", "response"}
           /\ Msg(t).by \in Addr
           /\ Tracked(Msg(t).req)
<1>1. task[t].pc # "idle"
  BY HandlerMoves DEF TrackInv
<1>2. /\ task[t] \in Task /\ WellFormed(task[t]) /\ FromSource(Msg(t))
      /\ Msg(t) = task[t].msg /\ Msg(t) \in Message /\ Msg(t).req \in Requests
      /\ SeqNo(t) \in Seqs /\ Msg(t).by \in Addr
  BY <1>1, BusyTask DEF TrackInv
<1>3. FlagTask(task[t]) /\ HostTask(task[t]) /\ Tracked(Msg(t).req)
  BY <1>2 DEF TrackInv, FlagInv, HostInv, AnswerInv
<1>4. Msg(t).kind = "request" => Carries(t, Msg(t).req)
  BY <1>1, <1>2, RequestIs DEF Carries, At
<1>5. Msg(t).kind = "response" => /\ Msg(t) = ResponseMsg(Msg(t).req, Msg(t).by)
                                  /\ Reacting(t, Msg(t).req)
  BY <1>1, <1>2 DEF Message, ResponseMsg, Reacting, At
<1>6. Msg(t).kind \in {"request", "response"}
  BY <1>2 DEF Message
<1> QED BY <1>1, <1>2, <1>3, <1>4, <1>5, <1>6 DEF SeqNo, At

\* A task leaves the entries of other requests alone.
LEMMA OtherPending ==
    ASSUME OneRequestPerSeq, TrackInv, NEW t \in Tasks, HandleMessage(t),
           NEW r \in Requests, Msg(t).req # r
    PROVE  pending'[r.seq] = pending[r.seq]
<1>1. /\ r.seq \in Seqs /\ SeqNo(t) \in Seqs /\ r.seq # SeqNo(t)
      /\ TypeInv
  BY HandlerTask, RequestFacts DEF OneRequestPerSeq, TrackInv
<1>2. ASSUME PendingInsert(SeqNo(t), Msg(t).by, task[t].is_broadcast)
      PROVE  pending'[r.seq] = pending[r.seq]
  BY <1>1, <1>2, PendingInserted
<1> QED BY <1>1, <1>2, PendingIs, HandlerPends

\* Steps about other requests, and steps that do not come to sending.
LEMMA HandlerAside ==
    ASSUME Unambiguous, TrackInv, NEW t \in Tasks, HandleMessage(t), NEW r \in Requests,
           \/ Msg(t).req # r
           \/ /\ task'[t].pc \notin {"forward", "broadcast", "unregister"} \cup ResponseSteps
              /\ UNCHANGED pending
              /\ ~ (\/ Forward(t) \/ BroadcastOne(t))
    PROVE  Tracked(r)'
<1> DEFINE k == task[t]
<1>1. /\ k.pc # "idle" /\ Moves(k, task'[t])
      /\ \A x \in Tasks : x # t => task'[x] = task[x]
  BY HandlerMoves DEF TrackInv
<1>2. /\ k \in Task /\ WellFormed(k) /\ Msg(t) = k.msg
      /\ Msg(t).req.seq = SeqNo(t) /\ SeqNo(t) \in Seqs
      /\ Msg(t).req \in Requests
  BY HandlerTask
<1>3. /\ UNCHANGED <<inbox, sends>>
      /\ \A d \in outbox' : d \in outbox \/ d.msg = Msg(t)
  BY HandlerShares DEF TrackInv
<1>4. UNCHANGED <<backends, commands, expired>>
  BY HandlerPends
<1>6. Aside(task'[t], r)
  <2>1. CASE Msg(t).req # r
    BY <1>1, <1>2, <2>1 DEF Moves, Aside
  <2>2. CASE task'[t].pc \notin {"forward", "broadcast", "unregister"} \cup ResponseSteps
    <3>1. CASE k.pc \in {"match", "reply", "tally"}
      BY <1>1, <2>2, <3>1 DEF Moves, Aside, Advances
    <3>2. CASE k.pc = "fan_out"
      BY <1>1, <1>2, <2>2, <3>2 DEF Moves, Aside, WellFormed, RouteSteps, IsSmfRequest
    <3>3. CASE Advances(k, task'[t]) /\ task'[t].msg = k.msg
      <4>1. k.msg.kind = "request"
        BY <1>2, <3>3 DEF Advances, WellFormed, RouteSteps, PoolSteps, IsSmfRequest
      <4> QED BY <2>2, <3>3, <4>1 DEF Aside
    <3>4. CASE task'[t].pc = "idle"
      BY <3>4 DEF Aside
    <3> QED BY <1>1, <3>1, <3>2, <3>3, <3>4 DEF Moves
  <2> QED BY <2>1, <2>2
<1>7. ASSUME NEW u \in Addr
      PROVE  /\ Underway(r, u)' => Underway(r, u)
             /\ Returning(r, u)' => Returning(r, u)
  <2>1. CASE Msg(t).req # r
    BY <1>3, <2>1 DEF Underway, Returning, RequestMsg
  <2>2. CASE ~ (Forward(t) \/ BroadcastOne(t))
    <3>1. \A d \in outbox' : d \in outbox \/ d.msg.kind = "response"
      <4>1. ASSUME NEW d \in outbox', d \notin outbox PROVE d.msg.kind = "response"
        <5>1. d.msg = Msg(t) /\ (At(t, "broadcast") \/ At(t, "forward") \/ At(t, "reply"))
          BY <4>1, HandlerShares DEF TrackInv
        <5>2. ~ At(t, "broadcast") /\ ~ At(t, "forward")
          <6>1. ASSUME At(t, "broadcast") \/ At(t, "forward") PROVE FALSE
            <7>1. ForwardFails(t) \/ BroadcastOneFails(t) \/ EndBroadcast(t)
              BY <2>2, <6>1, HandlerAt
            <7>2. UNCHANGED outbox
              BY <7>1 DEF ForwardFails, BroadcastOneFails, EndBroadcast, netVars
            <7> QED BY <4>1, <7>2
          <6> QED BY <6>1
        <5>3. k.pc = "reply"
          BY <5>1, <5>2 DEF At
        <5> QED BY <1>2, <5>1, <5>3 DEF WellFormed
      <4> QED BY <4>1
    <3> QED BY <1>3, <3>1 DEF Underway, Returning, RequestMsg
  <2> QED BY <2>1, <2>2
<1>8. Early(r)' => Early(r)
  <2> SUFFICES ASSUME NEW x \in Tasks, Carries(x, r)',
                      task'[x].pc \notin {"forward", "broadcast", "unregister"}
               PROVE  Early(r)
    BY <1>3 DEF Early, Requested
  <2>1. CASE x # t
    BY <1>1, <2>1 DEF Early, Carries, At, Msg
  <2>2. CASE x = t
    <3>1. task'[t].pc # "idle" /\ task'[t].msg = k.msg /\ k.msg = RequestMsg(r)
      BY <1>1, <2>2 DEF Carries, At, Msg, Moves
    <3>2. k.pc \notin {"forward", "broadcast", "unregister"}
      BY <1>1, <2>2, <3>1 DEF Moves, Advances
    <3> QED BY <1>1, <2>2, <3>1, <3>2 DEF Early, Carries, At, Msg
  <2> QED BY <2>1, <2>2
<1>9. pending'[r.seq] = pending[r.seq]
  <2>1. CASE UNCHANGED pending
    BY <2>1
  <2>2. CASE Msg(t).req # r
    BY <2>2, OtherPending DEF Unambiguous
  <2> QED BY <2>1, <2>2
<1>10. \A x \in Tasks : task'[x] = task[x] \/ Aside(task'[x], r)
  BY <1>1, <1>6
<1>11. [Next]_vars /\ Tracked(r) /\ PoolGrows /\ TypeInv /\ HostInv
  BY DEF Next, TrackInv, AnswerInv, Unambiguous
<1> QED BY <1>4, <1>7, <1>8, <1>9, <1>10, <1>11, TrackedFrame DEF IsPending

-----------------------------------------------------------------------------
LEMMA NotEarly ==
    ASSUME Unambiguous, TrackInv, NEW t \in Tasks, HandleMessage(t),
           task[t].pc \in SendSteps \cup ResponseSteps,
           NEW r \in Requests, r = Msg(t).req
    PROVE  ~ Early(r)'
<1> DEFINE k == task[t]
<1>1. /\ Moves(k, task'[t]) /\ \A x \in Tasks : x # t => task'[x] = task[x]
  BY HandlerMoves DEF TrackInv
<1>2. /\ k \in Task /\ WellFormed(k) /\ FlagTask(k) /\ Msg(t) = k.msg
      /\ Msg(t).kind = "request" => Carries(t, r)
      /\ Msg(t).kind = "response" => Reacting(t, r)
      /\ Tracked(r)
  BY HandlerTask
<1>3. UNCHANGED <<inbox, sends>>
  BY HandlerShares DEF TrackInv
<1>4. CASE k.pc \in SendSteps
  <2>1. k.msg.kind = "request"
    BY <1>2, <1>4 DEF WellFormed, SendSteps
  <2>2. /\ Requested(r) /\ RequestMsg(r) \notin inbox
        /\ \A x \in Tasks : Carries(x, r) => x = t
    BY <1>2, <2>1, CarriedAlone DEF Unambiguous, TrackInv
  <2>3. task'[t].pc \in {"idle", "forward", "broadcast", "unregister"}
    BY <1>1, <1>4 DEF Moves, Advances, SendSteps, PoolSteps
  <2>4. ASSUME NEW x \in Tasks, Carries(x, r)'
        PROVE  task'[x].pc \in {"forward", "broadcast", "unregister"}
    <3>1. CASE x # t
      <4>1. Carries(x, r)
        BY <1>1, <2>4, <3>1 DEF Carries, At, Msg
      <4> QED BY <2>2, <3>1, <4>1
    <3>2. CASE x = t
      BY <2>3, <2>4, <3>2 DEF Carries, At
    <3> QED BY <3>1, <3>2
  <2> QED BY <1>3, <2>2, <2>4 DEF Early, Requested
<1>5. CASE k.pc \in ResponseSteps
  <2>1. k.msg.kind = "response" /\ Reacting(t, r)
    BY <1>2, <1>5 DEF FlagTask
  <2>2. ~ Early(r)
    BY <1>2, <2>1 DEF Tracked, Silent
  <2>3. task'[t].pc = "idle" \/ task'[t].msg = k.msg
    BY <1>1 DEF Moves
  <2>4. ~ Carries(t, r)'
    BY <2>1, <2>3 DEF Carries, At, Msg, RequestMsg
  <2>5. \A x \in Tasks : Carries(x, r)' => Carries(x, r) /\ task'[x] = task[x]
    <3> SUFFICES ASSUME NEW x \in Tasks, Carries(x, r)'
                 PROVE  Carries(x, r) /\ task'[x] = task[x]
      OBVIOUS
    <3>1. task'[x] = task[x]
      BY <1>1, <2>4
    <3> QED BY <3>1 DEF Carries, At, Msg
  <2>6. Early(r)' => Early(r)
    BY <1>3, <2>5 DEF Early, Requested
  <2> QED BY <2>2, <2>6
<1> QED BY <1>4, <1>5

\* A step for r by which no answer becomes due.
LEMMA TrackedMove ==
    ASSUME Unambiguous, TrackInv, NEW t \in Tasks, HandleMessage(t),
           NEW r \in Requests, r = Msg(t).req,
           task[t].pc \in SendSteps \cup ResponseSteps,
           \A u \in Addr : OnePlace(r, u)',
           Outstanding(r)' \subseteq Outstanding(r),
           \A x \in Tasks : Unsent(x, r)' => Silent(r)',
           \/ UNCHANGED pending
           \/ PendingRemove(SeqNo(t)) /\ Outstanding(r)' = {},
           Counted(t, r)' => /\ Counted(t, r)
                             /\ task'[t].n = task[t].n
                             /\ \/ task'[t].pc # "retire" \/ task[t].pc = "retire"
                                \/ Outstanding(r)' = {}
    PROVE  Tracked(r)'
<1>1. \A x \in Tasks : x # t => task'[x] = task[x]
  BY HandlerMoves DEF TrackInv
<1>2. ~ Early(r)'
  BY NotEarly
<1>3. r.seq = SeqNo(t) /\ r.seq \in Seqs /\ Tracked(r)
  BY HandlerTask
<1>4. /\ IsPending(r.seq)' => pending' = pending
      /\ UNCHANGED expired
      /\ IsPending(r.seq) => IsPending(r.seq)' \/ Outstanding(r)' = {}
  <2>1. PendingRemove(r.seq) => pending'[r.seq] = None
    BY <1>3, PendingIs DEF TrackInv
  <2> QED BY <1>3, <2>1, HandlerPends DEF IsPending
<1>5. \A x \in Tasks : Counted(x, r)' =>
          /\ Counted(x, r) /\ task'[x].n = task[x].n
          /\ task'[x].pc = "retire" => task[x].pc = "retire" \/ Outstanding(r)' = {}
  <2> SUFFICES ASSUME NEW x \in Tasks, x # t, Counted(x, r)'
               PROVE  Counted(x, r) /\ task'[x] = task[x]
    OBVIOUS
  <2> QED BY <1>1 DEF Counted, Reacting, At, Msg
<1>6. [Next]_vars /\ PoolGrows /\ TypeInv /\ HostInv
  BY DEF Next, TrackInv, Unambiguous
<1>7. /\ Outstanding(r)' # {} => IsPending(r.seq)' \/ r.seq \in expired'
      /\ IsFiniteSet(Outstanding(r)')
      /\ IsPending(r.seq)' =>
            Cardinality(Outstanding(r)') + pending'[r.seq].responses <= Answers(r)'
      /\ \A x \in Tasks : Counted(x, r)' =>
            /\ task'[x].n >= 1
            /\ Cardinality(Outstanding(r)') + task'[x].n <= Answers(r)'
            /\ task'[x].pc = "retire" => Outstanding(r)' = {}
  BY <1>3, <1>4, <1>5, <1>6, CountsKept DEF IsPending
<1> QED BY <1>2, <1>7, TrackedFrom

\* A task replies, counts, and removes the entry.
LEMMA RespondingMove ==
    ASSUME Unambiguous, TrackInv, NEW t \in Tasks, HandleMessage(t),
           NEW r \in Requests, r = Msg(t).req,
           task[t].pc \in {"reply", "tally", "retire"},
           \/ task'[t].pc = "idle"
           \/ task'[t].pc \in {"tally", "retire"} /\ task'[t].n = task[t].n,
           task'[t].pc = "retire" => Outstanding(r) = {},
           UNCHANGED pending \/ (PendingRemove(SeqNo(t)) /\ At(t, "retire"))
    PROVE  Tracked(r)'
<1> DEFINE k == task[t]
<1>1. /\ Moves(k, task'[t]) /\ \A x \in Tasks : x # t => task'[x] = task[x]
  BY HandlerMoves DEF TrackInv
<1>2. /\ k \in Task /\ FlagTask(k) /\ Msg(t) = k.msg
      /\ Msg(t).kind = "response" => Reacting(t, r)
      /\ Tracked(r)
  BY HandlerTask
<1>3. /\ UNCHANGED inbox
      /\ \A d \in outbox' : d \in outbox \/ d.msg = Msg(t)
  BY HandlerShares DEF TrackInv
<1>4. k.msg.kind = "response" /\ Reacting(t, r) /\ k.pc \in ResponseSteps
  BY <1>2 DEF FlagTask, ResponseSteps
<1>5. task'[t].pc = "idle" \/ task'[t].msg = k.msg
  BY <1>1 DEF Moves
<1>6. ASSUME NEW x \in Tasks
      PROVE  /\ \A u \in Addr : /\ Sending(x, r, u)' => Sending(x, r, u)
                                /\ Arrived(x, r, u)' => Arrived(x, r, u)
             /\ Unsent(x, r)' => Unsent(x, r)
  <2>1. CASE x # t
    <3>1. task'[x] = task[x]
      BY <1>1, <2>1
    <3> QED BY <3>1 DEF Sending, Arrived, Unsent, Carries, At, Msg
  <2>2. CASE x = t
    BY <1>4, <1>5, <2>2 DEF Sending, Arrived, Unsent, Carries, At, Msg, RequestMsg
  <2> QED BY <2>1, <2>2
<1>7. Fewer(r)
  BY <1>2, <1>3, <1>4, <1>6 DEF Fewer, Underway, Returning, RequestMsg
<1>8. (\A u \in Addr : OnePlace(r, u)') /\ Outstanding(r)' \subseteq Outstanding(r)
  BY <1>2, <1>7, FewerDue DEF Tracked
<1>9. \A x \in Tasks : ~ Unsent(x, r)'
  BY <1>2, <1>4, <1>6 DEF Tracked, Silent
<1>10. Counted(t, r)
  BY <1>4 DEF Counted
<1>11. At(t, "retire") => Outstanding(r)' = {}
  BY <1>2, <1>8, <1>10 DEF Tracked
<1>12. task'[t].pc = "retire" => Outstanding(r)' = {}
  BY <1>8
<1>13. Counted(t, r)' => task'[t].n = k.n
  BY DEF Counted, Reacting, At
<1> QED BY <1>4, <1>8, <1>9, <1>10, <1>11, <1>12, <1>13, TrackedMove

\* A task gives up on sending r to a peer, or ends.
LEMMA SendingMove ==
    ASSUME Unambiguous, TrackInv, NEW t \in Tasks, HandleMessage(t),
           NEW r \in Requests, r = Msg(t).req,
           task[t].pc \in {"forward", "broadcast", "unregister"},
           UNCHANGED outbox,
           task'[t].pc \in {"idle", "broadcast", "unregister"},
           task'[t].pc = "broadcast" =>
               /\ At(t, "broadcast") /\ task'[t].n = task[t].n
               /\ \A i \in 1 .. Len(task'[t].hosts) :
                     \E j \in 1 .. Len(task[t].hosts) : task[t].hosts[j] = task'[t].hosts[i],
           task'[t].pc = "unregister" => At(t, "forward") \/ task[t].n = 0,
           UNCHANGED pending \/ (PendingRemove(SeqNo(t)) /\ At(t, "unregister"))
    PROVE  Tracked(r)'
<1> DEFINE k == task[t]
<1>1. /\ Moves(k, task'[t]) /\ \A x \in Tasks : x # t => task'[x] = task[x]
  BY HandlerMoves DEF TrackInv
<1>2. /\ k \in Task /\ WellFormed(k) /\ Msg(t) = k.msg
      /\ Msg(t).kind = "request" => Carries(t, r)
      /\ Tracked(r)
  BY HandlerTask
<1>3. UNCHANGED inbox
  BY HandlerShares DEF TrackInv
<1>4. k.msg.kind = "request" /\ Carries(t, r) /\ k.pc \in SendSteps
  BY <1>2 DEF WellFormed, SendSteps
<1>5. task'[t].pc = "idle" \/ task'[t].msg = k.msg
  BY <1>1 DEF Moves
<1>6. ASSUME NEW x \in Tasks
      PROVE  /\ \A u \in Addr : /\ Sending(x, r, u)' => Sending(x, r, u)
                                /\ Arrived(x, r, u)' => Arrived(x, r, u)
             /\ Unsent(x, r)' => Unsent(x, r)
             /\ Reacting(x, r)' => Reacting(x, r)
  <2>1. CASE x # t
    <3>1. task'[x] = task[x]
      BY <1>1, <2>1
    <3> QED BY <3>1 DEF Sending, Arrived, Unsent, Reacting, Carries, At, Msg
  <2>2. CASE x = t
    <3>1. ~ Reacting(t, r)' /\ \A u \in Addr : ~ Arrived(t, r, u)'
      BY <1>4, <1>5 DEF Reacting, Arrived, At, Msg, ResponseMsg
    <3>2. Unsent(t, r)' => Unsent(t, r)
      BY <1>4 DEF Unsent, At
    <3>3. \A u \in Addr : Sending(t, r, u)' => Sending(t, r, u)
      BY <1>4 DEF Sending, At
    <3> QED BY <2>2, <3>1, <3>2, <3>3
  <2> QED BY <2>1, <2>2
<1>7. Fewer(r) /\ (Silent(r) => Silent(r)')
  BY <1>3, <1>6 DEF Fewer, Silent, Underway, Returning
<1>8. (\A u \in Addr : OnePlace(r, u)') /\ Outstanding(r)' \subseteq Outstanding(r)
  BY <1>2, <1>7, FewerDue DEF Tracked
<1>9. \A x \in Tasks : Unsent(x, r)' => Silent(r)'
  BY <1>2, <1>6, <1>7 DEF Tracked
<1>10. ~ Counted(t, r)'
  BY <1>4, <1>5 DEF Counted, Reacting, At, Msg
<1>11. At(t, "unregister") => Outstanding(r)' = {}
  <2> SUFFICES ASSUME At(t, "unregister") PROVE Outstanding(r) = {}
    BY <1>8
  <2>1. Silent(r) /\ \A x \in Tasks : Carries(x, r) => x = t
    BY <1>2, <1>4, CarriedAlone DEF At, Tracked, Unsent, TrackInv, Unambiguous
  <2>2. \A u \in Addr : ~ Due(r, u)
    BY <2>1 DEF Due, Silent, Sending, Arrived, Reacting, At, ResponseMsg
  <2> QED BY <2>2 DEF Outstanding
<1> QED BY <1>4, <1>8, <1>9, <1>10, <1>11, TrackedMove

-----------------------------------------------------------------------------
\* As many elements as places, if the elements are distinct.
LEMMA ElementsOf ==
    ASSUME NEW S, NEW s \in Seq(S)
    PROVE  LET E == {s[i] : i \in 1 .. Len(s)}
           IN  /\ IsFiniteSet(E) /\ Cardinality(E) \in Nat
               /\ Cardinality(E) <= Len(s)
               /\ Distinct(s) => Cardinality(E) = Len(s)
<1> DEFINE D == 1 .. Len(s)
           E == {s[i] : i \in D}
           f == [i \in D |-> s[i]]
<1>1. Len(s) \in Nat /\ IsFiniteSet(D) /\ Cardinality(D) = Len(s)
  <2>1. Len(s) \in Nat
    OBVIOUS
  <2>2. IsFiniteSet(1 .. Len(s))
        /\ Cardinality(1 .. Len(s)) = IF 1 > Len(s) THEN 0 ELSE Len(s) - 1 + 1
    BY <2>1, FS_Interval
  <2> QED BY <2>1, <2>2
<1>2. f \in Surjection(D, E)
  BY DEF Surjection
<1>3. Distinct(s) => f \in Injection(D, E)
  BY DEF Distinct, Injection, IsInjective
<1> HIDE DEF f
<1>4. /\ IsFiniteSet(E) /\ Cardinality(E) <= Len(s)
      /\ Distinct(s) => Cardinality(E) = Len(s)
  BY <1>1, <1>2, <1>3, FS_Surjection
<1> QED BY <1>4, FS_CardinalityType

\* The answers that become due when r gets its entry.
Expected(k) == IF k.is_broadcast THEN {k.hosts[i] : i \in 1 .. Len(k.hosts)} ELSE {k.dest}

LEMMA ExpectedCount ==
    ASSUME TrackInv, NEW t \in Tasks, HandleMessage(t), At(t, "register"),
           NEW r \in Requests, r = Msg(t).req
    PROVE  /\ IsFiniteSet(Expected(task[t])) /\ Cardinality(Expected(task[t])) \in Nat
           /\ Cardinality(Expected(task[t])) <= Answers(r)
           /\ task[t].is_broadcast /\ task[t].hosts = backends =>
                 Cardinality(Expected(task[t])) = Answers(r)
           /\ ~ task[t].is_broadcast => Cardinality(Expected(task[t])) = Answers(r)
<1> DEFINE k == task[t]
<1>1. /\ k \in Task /\ WellFormed(k) /\ FlagTask(k) /\ HostTask(k) /\ k.pc = "register"
      /\ Msg(t) = k.msg
  BY HandlerTask DEF At
<1>2. k.is_broadcast <=> IsBroadcast(r)
  BY <1>1 DEF FlagTask, WellFormed, SendSteps
<1>3. CASE k.is_broadcast
  <2>1. k.hosts \in Seq(Upfs) /\ Distinct(k.hosts) /\ Len(k.hosts) <= Len(backends)
    BY <1>1, <1>3 DEF Task, HostTask
  <2>2. Answers(r) = Len(backends) /\ Len(backends) \in Nat /\ Len(k.hosts) \in Nat
    BY <1>2, <1>3, <2>1 DEF Answers, TrackInv, TypeInv, TypeOK, UpfPoolTypeOK
  <2>3. /\ IsFiniteSet(Expected(k)) /\ Cardinality(Expected(k)) \in Nat
        /\ Cardinality(Expected(k)) = Len(k.hosts)
    BY <1>3, <2>1, ElementsOf DEF Expected
  <2> QED BY <1>3, <2>1, <2>2, <2>3
<1>4. CASE ~ k.is_broadcast
  <2>1. Answers(r) = 1
    BY <1>2, <1>4 DEF Answers
  <2>2. IsFiniteSet(Expected(k)) /\ Cardinality(Expected(k)) = 1
    BY <1>4, FS_Singleton DEF Expected
  <2> QED BY <1>4, <2>1, <2>2
<1> QED BY <1>3, <1>4

LEMMA RegisterFacts ==
    ASSUME Unambiguous, TrackInv, NEW t \in Tasks, HandleMessage(t), At(t, "register"),
           NEW r \in Requests, r = Msg(t).req
    PROVE  /\ Silent(r)'
           /\ \A u \in Addr : Due(r, u)' <=> u \in Expected(task[t])
           /\ Outstanding(r)' = Expected(task[t])
           /\ pending'[r.seq].responses = 0
<1> DEFINE k == task[t]
           pc == IF k.is_broadcast THEN "broadcast" ELSE "forward"
<1>1. /\ k \in Task /\ WellFormed(k) /\ k.pc = "register" /\ k.msg.kind = "request"
      /\ Msg(t) = k.msg /\ Carries(t, r) /\ Tracked(r)
      /\ r.seq = SeqNo(t) /\ r.seq \in Seqs
      /\ task \in [Tasks -> Task]
  BY HandlerTask DEF At, WellFormed, TrackInv, TypeInv, TypeOK
<1>2. Register(t)
  BY HandlerAt
<1>3. task' = [task EXCEPT ![t] = [k EXCEPT !.pc = pc, !.n = 0]]
  BY <1>2 DEF Register, Become
<1>4. UNCHANGED <<inbox, outbox>>
  BY <1>2 DEF Register, netVars
<1>5. /\ task'[t].pc = pc /\ task'[t].msg = k.msg /\ task'[t].dest = k.dest
      /\ task'[t].hosts = k.hosts
      /\ \A x \in Tasks : x # t => task'[x] = task[x]
  <2> HIDE DEF pc
  <2> QED BY <1>1, <1>3 DEF Task
<1>6. Early(r) /\ Silent(r)
  BY <1>1 DEF Early, Tracked
<1>7. \A x \in Tasks : ~ Reacting(x, r)'
  BY <1>1, <1>5, <1>6 DEF Silent, Reacting, At, Msg
<1>8. Silent(r)'
  BY <1>4, <1>6, <1>7 DEF Silent, Underway, Returning
<1>9. ASSUME NEW u \in Addr PROVE Due(r, u)' <=> u \in Expected(k)
  <2>1. \A x \in Tasks : Carries(x, r) => x = t
    BY <1>1, CarriedAlone DEF Unambiguous, TrackInv
  <2>2. \A x \in Tasks : Sending(x, r, u)' => x = t
    BY <1>5, <2>1 DEF Sending, Carries, At, Msg
  <2>3. Due(r, u)' <=> Sending(t, r, u)'
    BY <1>8, <2>2 DEF Due, Silent, Arrived, Reacting, At, Msg, ResponseMsg
  <2>4. Sending(t, r, u)' <=> u \in Expected(k)
    BY <1>1, <1>5 DEF Sending, Carries, At, Msg, Expected
  <2> QED BY <2>3, <2>4
<1>10. Expected(k) \subseteq Addr
  <2>1. CASE k.is_broadcast
    BY <1>1, <2>1 DEF Expected, Task, Addr
  <2>2. CASE ~ k.is_broadcast
    BY <1>1, <2>2 DEF Expected, WellFormed, Routed
  <2> QED BY <2>1, <2>2
<1>11. Outstanding(r)' = Expected(k)
  BY <1>9, <1>10 DEF Outstanding
<1>12. pending'[r.seq].responses = 0
  <2>1. PendingInsert(SeqNo(t), Msg(t).by, k.is_broadcast)
    BY <1>2 DEF Register
  <2>2. pending'[r.seq] = [origin |-> Msg(t).by, is_broadcast |-> k.is_broadcast,
                           responses |-> 0, old |-> FALSE]
    BY <1>1, <2>1, PendingInserted DEF TrackInv
  <2> QED BY <2>2
<1> QED BY <1>8, <1>9, <1>11, <1>12

LEMMA RegisterTracked ==
    ASSUME Unambiguous, TrackInv, NEW t \in Tasks, HandleMessage(t), At(t, "register"),
           NEW r \in Requests, r = Msg(t).req
    PROVE  Tracked(r)'
<1>1. Silent(r)' /\ Outstanding(r)' = Expected(task[t]) /\ pending'[r.seq].responses = 0
  BY RegisterFacts
<1>2. /\ IsFiniteSet(Expected(task[t])) /\ Cardinality(Expected(task[t])) \in Nat
      /\ Cardinality(Expected(task[t])) <= Answers(r)
  BY ExpectedCount
<1>3. Answers(r) \in Nat /\ Answers(r)' \in Nat /\ Answers(r) <= Answers(r)'
  <2>1. [Next]_vars
    BY DEF Next
  <2> QED BY <2>1, AnswersGrow DEF TrackInv, Unambiguous
<1>4. ~ Early(r)'
  BY NotEarly DEF At, SendSteps
<1>5. \A u \in Addr : OnePlace(r, u)'
  BY <1>1 DEF OnePlace, Silent, Arrived, Reacting, At, ResponseMsg
<1>6. IsPending(r.seq)'
  <2>1. PendingInsert(SeqNo(t), Msg(t).by, task[t].is_broadcast) /\ r.seq = SeqNo(t)
        /\ SeqNo(t) \in Seqs /\ Msg(t).by \in Addr /\ task[t].is_broadcast \in BOOLEAN
    BY HandlerAt, HandlerTask DEF Register, Task
  <2>2. pending'[r.seq] = [origin |-> Msg(t).by, is_broadcast |-> task[t].is_broadcast,
                           responses |-> 0, old |-> FALSE]
    BY <2>1, PendingInserted DEF TrackInv
  <2>3. pending'[r.seq] \in RequestInfo
    BY <2>1, <2>2 DEF RequestInfo
  <2> QED BY <2>3, NoRequestAssumption DEF IsPending
<1>7. \A x \in Tasks : ~ Counted(x, r)'
  BY <1>1 DEF Silent, Counted
<1>8. Cardinality(Outstanding(r)') + pending'[r.seq].responses <= Answers(r)'
  BY <1>1, <1>2, <1>3
<1> QED BY <1>1, <1>2, <1>4, <1>5, <1>6, <1>7, <1>8, TrackedFrom

-----------------------------------------------------------------------------
\* A task sends r to u0: the answer of u0 is with the peer now.
LEMMA SendTracked ==
    ASSUME Unambiguous, TrackInv, NEW t \in Tasks, HandleMessage(t),
           NEW r \in Requests, r = Msg(t).req,
           task[t].pc \in {"forward", "broadcast"},
           NEW u0 \in Addr, Sending(t, r, u0),
           outbox' = outbox \cup {[to |-> u0, msg |-> Msg(t)]},
           UNCHANGED pending,
           \A u \in Addr : Sending(t, r, u)' => Sending(t, r, u) /\ u # u0,
           ~ Unsent(t, r)'
    PROVE  Tracked(r)' /\ Outstanding(r)' \subseteq Outstanding(r)
<1> DEFINE k == task[t]
<1>1. /\ Moves(k, task'[t]) /\ \A x \in Tasks : x # t => task'[x] = task[x]
  BY HandlerMoves DEF TrackInv
<1>2. /\ k \in Task /\ WellFormed(k) /\ Msg(t) = k.msg /\ Tracked(r)
      /\ Msg(t).kind = "request" => Carries(t, r)
  BY HandlerTask
<1>3. UNCHANGED inbox
  BY HandlerShares DEF TrackInv
<1>4. k.msg.kind = "request" /\ Carries(t, r) /\ k.pc \in SendSteps
  BY <1>2 DEF WellFormed, SendSteps
<1>5. /\ Msg(t) = RequestMsg(r)
      /\ \A x \in Tasks : Carries(x, r) => x = t
  BY <1>4, CarriedAlone DEF Carries, Unambiguous, TrackInv
<1>6. task'[t].pc = "idle" \/ task'[t].msg = k.msg
  BY <1>1 DEF Moves
<1>7. ASSUME NEW x \in Tasks
      PROVE  /\ \A u \in Addr : /\ Sending(x, r, u)' => x = t /\ Sending(t, r, u) /\ u # u0
                                /\ Arrived(x, r, u)' => Arrived(x, r, u)
             /\ ~ Unsent(x, r)'
             /\ Counted(x, r)' => Counted(x, r) /\ x # t
  <2>1. CASE x # t
    <3>1. task'[x] = task[x] /\ ~ Carries(x, r)
      BY <1>1, <1>5, <2>1
    <3> QED BY <2>1, <3>1 DEF Sending, Arrived, Unsent, Carries, Counted, Reacting, At, Msg
  <2>2. CASE x = t
    <3>1. ~ Reacting(t, r)' /\ \A u \in Addr : ~ Arrived(t, r, u)'
      BY <1>4, <1>6 DEF Reacting, Arrived, At, Msg, ResponseMsg
    <3> QED BY <2>2, <3>1 DEF Counted
  <2> QED BY <2>1, <2>2
<1>8. \A u \in Addr : /\ Underway(r, u)' <=> Underway(r, u) \/ u = u0
                      /\ Returning(r, u)' <=> Returning(r, u)
  BY <1>3, <1>5 DEF Underway, Returning
<1>9. OnePlace(r, u0) /\ Sending(t, r, u0)
  BY <1>2 DEF Tracked
<1>10. ASSUME NEW u \in Addr PROVE OnePlace(r, u)'
  <2>1. OnePlace(r, u)
    BY <1>2 DEF Tracked
  <2>2. CASE u = u0
    BY <1>7, <1>8, <1>9, <2>2 DEF OnePlace
  <2>3. CASE u # u0
    BY <1>7, <1>8, <2>1, <2>3 DEF OnePlace
  <2> QED BY <2>2, <2>3
<1>11. ASSUME NEW u \in Addr, Due(r, u)' PROVE Due(r, u)
  BY <1>7, <1>8, <1>9, <1>11 DEF Due
<1>12. Outstanding(r)' \subseteq Outstanding(r)
  BY <1>11 DEF Outstanding
<1> QED BY <1>4, <1>7, <1>10, <1>12, TrackedMove

LEMMA ForwardTracked ==
    ASSUME Unambiguous, TrackInv, NEW t \in Tasks, Forward(t),
           NEW r \in Requests, r = Msg(t).req
    PROVE  Tracked(r)' /\ Outstanding(r)' \subseteq Outstanding(r)
<1> DEFINE k == task[t]
<1>0. HandleMessage(t)
  BY DEF HandleMessage
<1>1. /\ k \in Task /\ WellFormed(k) /\ k.pc = "forward" /\ Msg(t) = k.msg
      /\ Msg(t).kind = "request" => Carries(t, r)
      /\ task \in [Tasks -> Task]
  BY <1>0, HandlerTask DEF Forward, At, TrackInv, TypeInv, TypeOK
<1>2. Carries(t, r) /\ k.dest \in Addr
  BY <1>1 DEF WellFormed, Routed
<1>3. Sending(t, r, k.dest)
  BY <1>1, <1>2 DEF Sending, At
<1>4. outbox' = outbox \cup {[to |-> k.dest, msg |-> Msg(t)]} /\ UNCHANGED pending
  BY DEF Forward, Send, tableVars
<1>5. task'[t].pc = "idle"
  BY <1>1 DEF Forward, Finish, Become, IdleTask
<1>6. ~ Unsent(t, r)' /\ \A u \in Addr : ~ Sending(t, r, u)'
  BY <1>5 DEF Unsent, Sending, Carries, At
<1> QED BY <1>0, <1>1, <1>2, <1>3, <1>4, <1>6, SendTracked

LEMMA BroadcastTracked ==
    ASSUME Unambiguous, TrackInv, NEW t \in Tasks, BroadcastOne(t),
           NEW r \in Requests, r = Msg(t).req
    PROVE  Tracked(r)' /\ Outstanding(r)' \subseteq Outstanding(r)
<1> DEFINE k == task[t]
           u0 == Head(k.hosts)
<1>0. HandleMessage(t)
  BY DEF HandleMessage
<1>1. /\ k \in Task /\ WellFormed(k) /\ k.pc = "broadcast" /\ Msg(t) = k.msg
      /\ Msg(t).kind = "request" => Carries(t, r)
      /\ task \in [Tasks -> Task]
      /\ Distinct(k.hosts) /\ k.hosts # << >>
  BY <1>0, HandlerTask DEF BroadcastOne, At, TrackInv, TypeInv, TypeOK, HostTask
<1>2. Carries(t, r)
  BY <1>1 DEF WellFormed
<1>3. /\ k.hosts \in Seq(Upfs) /\ u0 \in Upfs /\ u0 = k.hosts[1]
      /\ Len(k.hosts) \in Nat \ {0} /\ Len(Tail(k.hosts)) = Len(k.hosts) - 1
      /\ \A i \in 1 .. Len(k.hosts) - 1 : Tail(k.hosts)[i] = k.hosts[i + 1]
  <2>1. k.hosts \in Seq(Upfs)
    BY <1>1 DEF Task
  <2> QED BY <1>1, <2>1, TailOf
<1>4. Sending(t, r, u0) /\ u0 \in Addr
  BY <1>1, <1>2, <1>3 DEF Sending, At, Addr
<1>5. outbox' = outbox \cup {[to |-> u0, msg |-> Msg(t)]} /\ UNCHANGED pending
  BY DEF BroadcastOne, Send, tableVars
<1>6. /\ task'[t].pc = "broadcast" /\ task'[t].hosts = Tail(k.hosts)
      /\ task'[t].n = k.n + 1
  BY <1>1 DEF BroadcastOne, Become, Task
<1>7. ~ Unsent(t, r)'
  <2>1. k.n \in Nat
    BY <1>1 DEF Task
  <2>2. task'[t].n # 0
    BY <1>6, <2>1
  <2> QED BY <1>6, <2>2 DEF Unsent
<1> HIDE DEF u0
<1>8. ASSUME NEW u \in Addr, Sending(t, r, u)'
      PROVE  Sending(t, r, u) /\ u # u0
  <2>1. PICK i \in 1 .. Len(Tail(k.hosts)) : Tail(k.hosts)[i] = u
    BY <1>6, <1>8 DEF Sending, At
  <2>2. i + 1 \in 1 .. Len(k.hosts) /\ k.hosts[i + 1] = u /\ i + 1 # 1
        /\ 1 \in 1 .. Len(k.hosts)
    BY <1>3, <2>1
  <2>3. u # u0
    BY <1>1, <1>3, <2>2 DEF Distinct
  <2> QED BY <1>1, <1>2, <2>2, <2>3 DEF Sending, At
<1> QED BY <1>0, <1>1, <1>4, <1>5, <1>7, <1>8, SendTracked

\* A response finds its entry: the answer of its sender is counted.
LEMMA MatchFacts ==
    ASSUME Unambiguous, TrackInv, NEW t \in Tasks, MatchFound(t),
           NEW r \in Requests, r = Msg(t).req
    PROVE  /\ \A x \in Tasks : x # t => task'[x] = task[x]
           /\ task'[t].pc = "reply" /\ task'[t].n = pending[r.seq].responses + 1
           /\ task'[t].msg = Msg(t) /\ Reacting(t, r)
           /\ Arrived(t, r, Msg(t).by) /\ Msg(t).by \in Addr
           /\ IsPending(r.seq) /\ IsPending(r.seq)'
           /\ pending'[r.seq].responses = pending[r.seq].responses + 1
           /\ pending[r.seq].responses \in Nat
           /\ Fewer(r)
           /\ Outstanding(r)' = Outstanding(r) \ {Msg(t).by}
           /\ Msg(t).by \in Outstanding(r)
<1> DEFINE k == task[t]
<1>0. HandleMessage(t) /\ At(t, "match")
  BY DEF HandleMessage, MatchFound
<1> PICK u0 \in Addr : u0 = Msg(t).by
  BY <1>0, HandlerTask
<1>1. /\ k \in Task /\ FlagTask(k) /\ k.pc = "match" /\ Msg(t) = k.msg /\ u0 \in Addr
      /\ Msg(t).kind = "response" => Reacting(t, r) /\ Msg(t) = ResponseMsg(r, u0)
      /\ r.seq = SeqNo(t) /\ r.seq \in Seqs /\ Tracked(r)
      /\ task \in [Tasks -> Task]
  BY <1>0, HandlerTask DEF At, TrackInv, TypeInv, TypeOK
<1>2. k.msg.kind = "response" /\ Reacting(t, r) /\ Arrived(t, r, u0)
  BY <1>0, <1>1 DEF FlagTask, ResponseSteps, Arrived
<1>3. /\ IsPending(r.seq) /\ pending[r.seq] \in RequestInfo
      /\ PendingIncrement(r.seq)
  BY <1>1, PendingIs DEF MatchFound, TrackInv
<1>4. pending[r.seq].responses \in Nat
  BY <1>3 DEF RequestInfo
<1>5. pending'[r.seq] = [pending[r.seq] EXCEPT !.responses = pending[r.seq].responses + 1]
  BY <1>1, <1>3, PendingIs DEF TrackInv
<1>6. /\ pending'[r.seq].responses = pending[r.seq].responses + 1
      /\ pending'[r.seq] \in RequestInfo
  BY <1>3, <1>4, <1>5 DEF RequestInfo
<1>7. IsPending(r.seq)'
  BY <1>6, NoRequestAssumption DEF IsPending
<1>8. /\ task'[t].pc = "reply" /\ task'[t].n = pending[r.seq].responses + 1
      /\ task'[t].msg = Msg(t)
      /\ \A x \in Tasks : x # t => task'[x] = task[x]
  <2> DEFINE info == pending[SeqNo(t)]
             new == [k EXCEPT !.pc = "reply", !.dest = info.origin,
                              !.n = info.responses + 1, !.is_broadcast = info.is_broadcast]
  <2>1. task' = [task EXCEPT ![t] = new]
    BY DEF MatchFound, Become
  <2>2. new.pc = "reply" /\ new.n = info.responses + 1 /\ new.msg = k.msg
    BY <1>1 DEF Task
  <2> HIDE DEF new
  <2> QED BY <1>1, <2>1, <2>2
<1>9. UNCHANGED <<inbox, outbox>>
  BY DEF MatchFound, netVars
<1>10. ASSUME NEW x \in Tasks, NEW u \in Addr
       PROVE  /\ Sending(x, r, u)' <=> Sending(x, r, u)
              /\ Arrived(x, r, u)' <=> Arrived(x, r, u) /\ x # t
  <2>1. CASE x # t
    <3>1. task'[x] = task[x]
      BY <1>8, <2>1
    <3> QED BY <2>1, <3>1 DEF Sending, Arrived, Carries, At, Msg
  <2>2. CASE x = t
    BY <1>1, <1>2, <1>8, <2>2 DEF Sending, Arrived, Carries, At, Msg, RequestMsg
  <2> QED BY <2>1, <2>2
<1>11. Fewer(r)
  BY <1>9, <1>10 DEF Fewer, Underway, Returning
<1>12. OnePlace(r, u0)
  BY <1>1 DEF Tracked
<1>13. ~ Due(r, u0)'
  BY <1>1, <1>2, <1>9, <1>10, <1>12 DEF Due, OnePlace, Underway, Returning
<1>14. ASSUME NEW u \in Addr, u # u0 PROVE Due(r, u)' <=> Due(r, u)
  <2>1. ~ Arrived(t, r, u)
    BY <1>2, <1>14 DEF Arrived, ResponseMsg
  <2> QED BY <1>9, <1>10, <2>1 DEF Due, Underway, Returning
<1>15. Outstanding(r)' = Outstanding(r) \ {u0}
  BY <1>13, <1>14 DEF Outstanding
<1>16. u0 \in Outstanding(r)
  BY <1>1, <1>2 DEF Outstanding, Due
<1> QED BY <1>1, <1>2, <1>3, <1>4, <1>6, <1>7, <1>8, <1>11, <1>15, <1>16

LEMMA MatchTracked ==
    ASSUME Unambiguous, TrackInv, NEW t \in Tasks, MatchFound(t),
           NEW r \in Requests, r = Msg(t).req
    PROVE  Tracked(r)'
<1> DEFINE W == Outstanding(r)
           V == Outstanding(r)'
<1>0. HandleMessage(t) /\ task[t].pc = "match"
  BY DEF HandleMessage, MatchFound, At
<1>1. /\ \A x \in Tasks : x # t => task'[x] = task[x]
      /\ task'[t].pc = "reply" /\ task'[t].n = pending[r.seq].responses + 1
      /\ task'[t].msg = Msg(t) /\ Reacting(t, r)
      /\ IsPending(r.seq) /\ IsPending(r.seq)'
      /\ pending'[r.seq].responses = pending[r.seq].responses + 1
      /\ pending[r.seq].responses \in Nat
      /\ Fewer(r)
      /\ V = W \ {Msg(t).by} /\ Msg(t).by \in W
  BY MatchFacts
<1>2. Tracked(r)
  BY <1>0, HandlerTask
<1>3. /\ IsFiniteSet(W) /\ IsFiniteSet(V) /\ Cardinality(W) \in Nat
      /\ Cardinality(V) \in Nat /\ Cardinality(V) = Cardinality(W) - 1
  <2>1. IsFiniteSet(W)
    BY <1>2 DEF Tracked
  <2> QED BY <1>1, <2>1, FS_RemoveElement, FS_CardinalityType
<1>4. Answers(r) \in Nat /\ Answers(r)' \in Nat /\ Answers(r) <= Answers(r)'
  <2>1. [Next]_vars
    BY <1>0 DEF Next
  <2> QED BY <2>1, AnswersGrow DEF TrackInv, Unambiguous
<1>5. Cardinality(W) + pending[r.seq].responses <= Answers(r)
  BY <1>1, <1>2 DEF Tracked
<1>6. \A u \in Addr : OnePlace(r, u)'
  BY <1>1, <1>2, FewerDue DEF Tracked
<1>7. ~ Early(r)'
  BY <1>0, NotEarly DEF ResponseSteps
<1>8. ASSUME NEW x \in Tasks, Unsent(x, r)' PROVE FALSE
  <2>1. x # t
    BY <1>1, <1>8 DEF Unsent
  <2>2. Unsent(x, r)
    <3>1. task'[x] = task[x]
      BY <1>1, <2>1
    <3> QED BY <1>8, <3>1 DEF Unsent, Carries, At, Msg
  <2>3. Silent(r)
    BY <1>2, <2>2 DEF Tracked
  <2> QED BY <1>1, <2>3 DEF Silent
<1> HIDE DEF W, V
<1>9. Cardinality(V) + pending'[r.seq].responses <= Answers(r)'
  BY <1>1, <1>3, <1>4, <1>5
<1>10. ASSUME NEW x \in Tasks, Counted(x, r)'
       PROVE  /\ task'[x].n >= 1
              /\ Cardinality(V) + task'[x].n <= Answers(r)'
              /\ task'[x].pc = "retire" => V = {}
  <2>1. CASE x = t
    BY <1>1, <1>3, <1>4, <1>5, <2>1
  <2>2. CASE x # t
    <3>1. task'[x] = task[x]
      BY <1>1, <2>2
    <3>2. Counted(x, r)
      BY <1>10, <3>1 DEF Counted, Reacting, At, Msg
    <3>3. /\ task[x].n >= 1 /\ Cardinality(W) + task[x].n <= Answers(r)
          /\ task[x].pc = "retire" => W = {}
      BY <1>2, <3>2 DEF Tracked, At, W
    <3>4. task[x].n \in Nat
      BY DEF TrackInv, TypeInv, TypeOK, Task
    <3> QED BY <1>1, <1>3, <1>4, <3>1, <3>3, <3>4
  <2> QED BY <2>1, <2>2
<1> QED BY <1>1, <1>3, <1>6, <1>7, <1>8, <1>9, <1>10, TrackedFrom DEF V

-----------------------------------------------------------------------------
\* Who has counted as many responses as there are answers waits for no more.
LEMMA AllCounted ==
    ASSUME TrackInv, NEW t \in Tasks, NEW r \in Requests, Counted(t, r),
           task[t].n >= Answers(r)
    PROVE  Outstanding(r) = {}
<1>1. /\ IsFiniteSet(Outstanding(r)) /\ Cardinality(Outstanding(r)) \in Nat
      /\ Cardinality(Outstanding(r)) + task[t].n <= Answers(r)
  BY FS_CardinalityType DEF TrackInv, AnswerInv, Tracked
<1>2. task[t].n \in Nat /\ Answers(r) \in Nat
  BY DEF TrackInv, TypeInv, TypeOK, Task, UpfPoolTypeOK, Answers
<1>3. Cardinality(Outstanding(r)) = 0
  BY <1>1, <1>2
<1> QED BY <1>1, <1>3, FS_EmptySet

LEMMA RespondingTracked ==
    ASSUME Unambiguous, TrackInv, NEW t \in Tasks,
           Reply(t) \/ ReplyFails(t) \/ Tally(t) \/ Retire(t),
           NEW r \in Requests, r = Msg(t).req
    PROVE  Tracked(r)'
<1> DEFINE k == task[t]
<1>0. HandleMessage(t) /\ k.pc \in {"reply", "tally", "retire"}
  BY DEF HandleMessage, Reply, ReplyFails, Tally, Retire, At
<1>1. /\ k \in Task /\ FlagTask(k) /\ Msg(t) = k.msg
      /\ Msg(t).kind = "response" => Reacting(t, r)
      /\ Tracked(r)
      /\ task \in [Tasks -> Task]
  BY <1>0, HandlerTask DEF TrackInv, TypeInv, TypeOK
<1>2. Counted(t, r)
  BY <1>0, <1>1 DEF FlagTask, ResponseSteps, Counted
<1>g. ASSUME NEW pc, Goto(t, pc) PROVE task'[t].pc = pc /\ task'[t].n = k.n
  <2>1. task'[t] = [k EXCEPT !.pc = pc]
    BY <1>1, <1>g, GotoIsBecome DEF Become
  <2> QED BY <1>1, <2>1 DEF Task
<1>i. Finish(t) => task'[t].pc = "idle"
  BY <1>1 DEF Finish, Become, IdleTask
<1>3. CASE Reply(t)
  <2>1. /\ k.pc = "reply" /\ UNCHANGED pending
        /\ task'[t].pc = (IF k.is_broadcast THEN "tally" ELSE "retire")
        /\ task'[t].n = k.n
    BY <1>3, <1>g DEF Reply, At, tableVars
  <2>2. ~ k.is_broadcast => Outstanding(r) = {}
    <3> SUFFICES ASSUME ~ k.is_broadcast PROVE Outstanding(r) = {}
      OBVIOUS
    <3>1. Answers(r) = 1
      BY <1>1, <2>1 DEF FlagTask, Answers
    <3>2. k.n >= 1
      BY <1>1, <1>2 DEF Tracked
    <3> QED BY <1>2, <3>1, <3>2, AllCounted
  <2>3. \/ task'[t].pc = "idle"
        \/ task'[t].pc \in {"tally", "retire"} /\ task'[t].n = task[t].n
    BY <2>1
  <2>4. task'[t].pc = "retire" => Outstanding(r) = {}
    BY <2>1, <2>2
  <2>5. UNCHANGED pending \/ (PendingRemove(SeqNo(t)) /\ At(t, "retire"))
    BY <2>1
  <2> QED BY <1>0, <2>3, <2>4, <2>5, RespondingMove
<1>4. CASE ReplyFails(t)
  <2>1. task'[t].pc = "idle"
    BY <1>4, <1>i DEF ReplyFails
  <2>2. UNCHANGED pending \/ (PendingRemove(SeqNo(t)) /\ At(t, "retire"))
    BY <1>4 DEF ReplyFails, tableVars
  <2>3. task'[t].pc = "retire" => Outstanding(r) = {}
    BY <2>1
  <2> QED BY <1>0, <2>1, <2>2, <2>3, RespondingMove
<1>5. CASE Tally(t)
  <2>1. /\ k.pc = "tally" /\ UNCHANGED pending
        /\ \/ task'[t].pc = "idle"
           \/ /\ task'[t].pc = "retire" /\ task'[t].n = k.n
              /\ k.n >= Len(backends)
    BY <1>5, <1>g, <1>i DEF Tally, At, tableVars
  <2>2. Answers(r) = Len(backends)
    BY <1>1, <2>1 DEF FlagTask, Answers
  <2>3. k.n >= Len(backends) => Outstanding(r) = {}
    BY <1>2, <2>2, AllCounted
  <2>4. \/ task'[t].pc = "idle"
        \/ task'[t].pc \in {"tally", "retire"} /\ task'[t].n = task[t].n
    BY <2>1
  <2>5. task'[t].pc = "retire" => Outstanding(r) = {}
    BY <2>1, <2>3
  <2>6. UNCHANGED pending \/ (PendingRemove(SeqNo(t)) /\ At(t, "retire"))
    BY <2>1
  <2> QED BY <1>0, <2>4, <2>5, <2>6, RespondingMove
<1>6. CASE Retire(t)
  <2>1. task'[t].pc = "idle"
    BY <1>6, <1>i DEF Retire
  <2>2. UNCHANGED pending \/ (PendingRemove(SeqNo(t)) /\ At(t, "retire"))
    BY <1>6 DEF Retire
  <2>3. task'[t].pc = "retire" => Outstanding(r) = {}
    BY <2>1
  <2> QED BY <1>0, <2>1, <2>2, <2>3, RespondingMove
<1> QED BY <1>3, <1>4, <1>5, <1>6

LEMMA SendingTracked ==
    ASSUME Unambiguous, TrackInv, NEW t \in Tasks,
           ForwardFails(t) \/ BroadcastOneFails(t) \/ EndBroadcast(t) \/ Unregister(t),
           NEW r \in Requests, r = Msg(t).req
    PROVE  Tracked(r)'
<1> DEFINE k == task[t]
<1>0. HandleMessage(t) /\ k.pc \in {"forward", "broadcast", "unregister"}
  BY DEF HandleMessage, ForwardFails, BroadcastOneFails, EndBroadcast, Unregister, At
<1>1. k \in Task /\ task \in [Tasks -> Task]
  BY <1>0, HandlerTask DEF TrackInv, TypeInv, TypeOK
<1>2. UNCHANGED outbox
  BY DEF ForwardFails, BroadcastOneFails, EndBroadcast, Unregister, netVars
<1>g. ASSUME NEW pc, Goto(t, pc) PROVE task'[t].pc = pc
  <2>1. task'[t] = [k EXCEPT !.pc = pc]
    BY <1>1, <1>g, GotoIsBecome DEF Become
  <2> QED BY <1>1, <2>1 DEF Task
<1>i. Finish(t) => task'[t].pc = "idle"
  BY <1>1 DEF Finish, Become, IdleTask
<1>3. CASE ForwardFails(t)
  <2>1. task'[t].pc = "unregister" /\ At(t, "forward")
    BY <1>3, <1>g DEF ForwardFails
  <2>2. UNCHANGED pending \/ (PendingRemove(SeqNo(t)) /\ At(t, "unregister"))
    BY <1>3 DEF ForwardFails, tableVars
  <2>3. task'[t].pc # "broadcast" /\ task'[t].pc \in {"idle", "broadcast", "unregister"}
    BY <2>1
  <2> QED BY <1>0, <1>2, <2>1, <2>2, <2>3, SendingMove
<1>4. CASE BroadcastOneFails(t)
  <2>1. /\ At(t, "broadcast") /\ k.pc = "broadcast" /\ k.hosts # << >> /\ UNCHANGED pending
        /\ task' = [task EXCEPT ![t] = [k EXCEPT !.hosts = Tail(k.hosts)]]
    BY <1>4 DEF BroadcastOneFails, Become, tableVars, At
  <2>2. task'[t].pc = "broadcast" /\ task'[t].n = k.n /\ task'[t].hosts = Tail(k.hosts)
    BY <1>1, <2>1 DEF Task
  <2>3. /\ Len(k.hosts) \in Nat \ {0} /\ Len(Tail(k.hosts)) = Len(k.hosts) - 1
        /\ \A i \in 1 .. Len(k.hosts) - 1 : Tail(k.hosts)[i] = k.hosts[i + 1]
    <3>1. k.hosts \in Seq(Upfs)
      BY <1>1 DEF Task
    <3> QED BY <2>1, <3>1, TailOf
  <2>4. \A i \in 1 .. Len(task'[t].hosts) :
            \E j \in 1 .. Len(k.hosts) : k.hosts[j] = task'[t].hosts[i]
    <3> SUFFICES ASSUME NEW i \in 1 .. Len(Tail(k.hosts))
                 PROVE  \E j \in 1 .. Len(k.hosts) : k.hosts[j] = Tail(k.hosts)[i]
      BY <2>2
    <3>1. i + 1 \in 1 .. Len(k.hosts) /\ k.hosts[i + 1] = Tail(k.hosts)[i]
      BY <2>3
    <3> QED BY <3>1
  <2>5. UNCHANGED pending \/ (PendingRemove(SeqNo(t)) /\ At(t, "unregister"))
    BY <2>1
  <2>6. task'[t].pc # "unregister" /\ task'[t].pc \in {"idle", "broadcast", "unregister"}
    BY <2>2
  <2>7. task'[t].pc = "broadcast" =>
            /\ At(t, "broadcast") /\ task'[t].n = task[t].n
            /\ \A i \in 1 .. Len(task'[t].hosts) :
                  \E j \in 1 .. Len(task[t].hosts) : task[t].hosts[j] = task'[t].hosts[i]
    BY <2>1, <2>2, <2>4
  <2> QED BY <1>0, <1>2, <2>5, <2>6, <2>7, SendingMove
<1>5. CASE EndBroadcast(t)
  <2>1. k.n = 0 => task'[t].pc = "unregister"
    BY <1>5, <1>g DEF EndBroadcast
  <2>2. k.n # 0 => task'[t].pc = "idle"
    BY <1>5, <1>i DEF EndBroadcast
  <2>3. /\ task'[t].pc # "broadcast" /\ task'[t].pc \in {"idle", "broadcast", "unregister"}
        /\ task'[t].pc = "unregister" => At(t, "forward") \/ task[t].n = 0
    BY <2>1, <2>2
  <2>4. UNCHANGED pending \/ (PendingRemove(SeqNo(t)) /\ At(t, "unregister"))
    BY <1>5 DEF EndBroadcast, tableVars
  <2> QED BY <1>0, <1>2, <2>3, <2>4, SendingMove
<1>6. CASE Unregister(t)
  <2>1. task'[t].pc = "idle"
    BY <1>6, <1>i DEF Unregister
  <2>2. UNCHANGED pending \/ (PendingRemove(SeqNo(t)) /\ At(t, "unregister"))
    BY <1>6 DEF Unregister
  <2> QED BY <1>0, <1>2, <2>1, <2>2, SendingMove
<1> QED BY <1>3, <1>4, <1>5, <1>6

LEMMA HandlerTracked ==
    ASSUME Unambiguous, TrackInv, NEW t \in Tasks, HandleMessage(t), NEW r \in Requests
    PROVE  Tracked(r)'
<1> DEFINE k == task[t]
<1>1. CASE Msg(t).req # r
  BY <1>1, HandlerAside
<1>2. CASE Msg(t).req = r
  <2>1. k.pc \in Steps \ {"idle"} /\ Moves(k, task'[t])
    BY HandlerMoves, HandlerTask DEF TrackInv, Task, At
  <2>2. CASE k.pc \in SendSteps
    <3>1. CASE At(t, "register")
      BY <1>2, <3>1, RegisterTracked
    <3>2. CASE Forward(t)
      BY <1>2, <3>2, ForwardTracked
    <3>3. CASE BroadcastOne(t)
      BY <1>2, <3>3, BroadcastTracked
    <3>4. CASE ForwardFails(t) \/ BroadcastOneFails(t) \/ EndBroadcast(t) \/ Unregister(t)
      BY <1>2, <3>4, SendingTracked
    <3> QED BY <2>2, <3>1, <3>2, <3>3, <3>4, HandlerAt DEF SendSteps, At
  <2>3. CASE k.pc \in ResponseSteps
    <3>1. CASE MatchFound(t)
      BY <1>2, <3>1, MatchTracked
    <3>2. CASE MatchMissed(t)
      <4>1. task'[t].pc = "idle" /\ UNCHANGED pending
        BY <3>2 DEF MatchMissed, Finish, Become, IdleTask, tableVars, TrackInv, TypeInv, TypeOK
      <4>2. ~ (Forward(t) \/ BroadcastOne(t))
        BY <3>2 DEF MatchMissed, Forward, BroadcastOne, At
      <4> QED BY <4>1, <4>2, HandlerAside DEF ResponseSteps
    <3>3. CASE Reply(t) \/ ReplyFails(t) \/ Tally(t) \/ Retire(t)
      BY <1>2, <3>3, RespondingTracked
    <3> QED BY <2>3, <3>1, <3>2, <3>3, HandlerAt DEF ResponseSteps, At
  <2>4. CASE k.pc \notin SendSteps \cup ResponseSteps
    <3>1. task'[t].pc \notin {"forward", "broadcast", "unregister"} \cup ResponseSteps
      BY <2>1, <2>4 DEF Moves, Advances, SendSteps, ResponseSteps
    <3>2. UNCHANGED pending
      BY <2>4, HandlerPends DEF SendSteps, ResponseSteps, At
    <3>3. ~ (Forward(t) \/ BroadcastOne(t))
      BY <2>4 DEF Forward, BroadcastOne, SendSteps, At
    <3> QED BY <3>1, <3>2, <3>3, HandlerAside
  <2> QED BY <2>1, <2>2, <2>3, <2>4
<1> QED BY <1>1, <1>2


-----------------------------------------------------------------------------
(***************************************************************************)
(* The network and the peers: an answer moves on, or is lost.              *)
(***************************************************************************)
LEMMA TrackedPass ==
    ASSUME PoolGrows, TrackInv, [Next]_vars, NEW r \in Requests, ~ Silent(r),
           Early(r)' => Early(r),
           \A x \in Tasks : /\ Unsent(x, r)' => Unsent(x, r)
                            /\ Counted(x, r)' => Counted(x, r) /\ task'[x] = task[x],
           \A u \in Addr : OnePlace(r, u)' /\ (Due(r, u)' => Due(r, u)),
           UNCHANGED <<pending, expired>>
    PROVE  Tracked(r)'
<1>1. Tracked(r) /\ TypeInv /\ HostInv
  BY DEF TrackInv, AnswerInv
<1>2. Outstanding(r)' \subseteq Outstanding(r)
  BY DEF Outstanding
<1>3. ~ Early(r)' /\ \A x \in Tasks : ~ Unsent(x, r)'
  BY <1>1 DEF Tracked
<1>4. \A x \in Tasks : Counted(x, r)' =>
          /\ Counted(x, r) /\ task'[x].n = task[x].n
          /\ task'[x].pc = "retire" => task[x].pc = "retire" \/ Outstanding(r)' = {}
  OBVIOUS
<1>5. IsPending(r.seq)' <=> IsPending(r.seq)
  BY DEF IsPending
<1>6. /\ Outstanding(r)' # {} => IsPending(r.seq)' \/ r.seq \in expired'
      /\ IsFiniteSet(Outstanding(r)')
      /\ IsPending(r.seq)' =>
            Cardinality(Outstanding(r)') + pending'[r.seq].responses <= Answers(r)'
      /\ \A x \in Tasks : Counted(x, r)' =>
            /\ task'[x].n >= 1
            /\ Cardinality(Outstanding(r)') + task'[x].n <= Answers(r)'
            /\ task'[x].pc = "retire" => Outstanding(r)' = {}
  BY <1>1, <1>2, <1>4, <1>5, CountsKept
<1> QED BY <1>3, <1>6, TrackedFrom

LEMMA ReceiveFacts ==
    ASSUME TrackInv, NEW t \in Tasks, NEW m \in inbox, Receive(t, m)
    PROVE  /\ m \in Message /\ m.req \in Requests /\ m.by \in Addr
           /\ m.kind = "request" => m = RequestMsg(m.req)
           /\ m.kind # "request" => m = ResponseMsg(m.req, m.by) /\ m.kind = "response"
           /\ At(t, "idle")
           /\ \A x \in Tasks : x # t => task'[x] = task[x]
           /\ m.kind = "request" =>
                 \/ task'[t] = task[t]
                 \/ /\ task'[t].msg = m
                    /\ task'[t].pc \notin {"forward", "broadcast", "unregister"}
           /\ m.kind # "request" => task'[t].pc = "match" /\ task'[t].msg = m
           /\ inbox' = inbox \ {m}
           /\ UNCHANGED <<outbox, pending, backends, commands, sends, expired>>
<1>1. m \in Message /\ FromSource(m) /\ task \in [Tasks -> Task]
  BY DEF TrackInv, TypeInv, TypeOK
<1>2. m.kind \in {"request", "response"} /\ m.req \in Requests /\ m.by \in Addr
  BY <1>1 DEF Message
<1>3. m.kind = "request" => m = RequestMsg(m.req)
  BY <1>1, RequestIs
<1>4. m.kind # "request" => m = ResponseMsg(m.req, m.by) /\ m.kind = "response"
  BY <1>1, <1>2 DEF Message, ResponseMsg
<1>5. FirstStep(m) \notin {"forward", "broadcast", "unregister"}
  BY <1>1, FirstStepFacts
<1>6. m.kind = "response" => FirstStep(m) = "match"
  BY DEF FirstStep
<1>7. /\ At(t, "idle") /\ inbox' = inbox \ {m}
      /\ UNCHANGED <<outbox, pending, backends, commands, sends, expired>>
  BY DEF Receive, tableVars, poolVars, peerVars
<1> DEFINE pc == FirstStep(m)
           new == [IdleTask EXCEPT !.pc = pc, !.msg = m]
<1>8. /\ pc = "idle" => UNCHANGED task
      /\ pc # "idle" => Become(t, new)
  BY DEF Receive
<1>9. new.pc = pc /\ new.msg = m
  BY DEF IdleTask
<1> HIDE DEF pc, new
<1>10. /\ \A x \in Tasks : x # t => task'[x] = task[x]
       /\ IF pc = "idle" THEN task'[t] = task[t] ELSE task'[t].pc = pc /\ task'[t].msg = m
  BY <1>1, <1>8, <1>9 DEF Become
<1> QED BY <1>1, <1>2, <1>3, <1>4, <1>5, <1>6, <1>7, <1>10 DEF pc

\* A response reaches the proxy, and a task takes it up.
LEMMA ResponseTracked ==
    ASSUME PoolGrows, TrackInv, NEW t \in Tasks, NEW m \in inbox, Receive(t, m),
           m.kind # "request", NEW r \in Requests, r = m.req
    PROVE  Tracked(r)'
<1> PICK u0 \in Addr : u0 = m.by
  BY ReceiveFacts
<1>1. /\ m = ResponseMsg(r, u0) /\ m.kind = "response" /\ At(t, "idle")
      /\ \A x \in Tasks : x # t => task'[x] = task[x]
      /\ task'[t].pc = "match" /\ task'[t].msg = m
      /\ inbox' = inbox \ {m}
      /\ UNCHANGED <<outbox, pending, sends, expired>>
  BY ReceiveFacts
<1>2. Tracked(r) /\ [Next]_vars
  BY DEF TrackInv, AnswerInv, Next, ReceiveSome
<1>3. Returning(r, u0) /\ ~ Silent(r)
  BY <1>1 DEF Returning, Silent
<1>4. ASSUME NEW u \in Addr
      PROVE  /\ Underway(r, u)' <=> Underway(r, u)
             /\ Returning(r, u)' <=> Returning(r, u) /\ u # u0
  BY <1>1 DEF Underway, Returning, ResponseMsg
<1>5. ASSUME NEW x \in Tasks
      PROVE  /\ \A u \in Addr :
                    /\ Sending(x, r, u)' <=> Sending(x, r, u)
                    /\ Arrived(x, r, u)' <=> Arrived(x, r, u) \/ (x = t /\ u = u0)
             /\ Unsent(x, r)' => Unsent(x, r)
             /\ Counted(x, r)' => Counted(x, r) /\ task'[x] = task[x]
             /\ Carries(x, r)' => Carries(x, r) /\ task'[x] = task[x]
  <2>1. CASE x # t
    <3>1. task'[x] = task[x]
      BY <1>1, <2>1
    <3> QED BY <2>1, <3>1 DEF Sending, Arrived, Unsent, Carries, Counted, Reacting, At, Msg
  <2>2. CASE x = t
    <3>1. ~ Carries(t, r)'
      BY <1>1 DEF Carries, Msg, RequestMsg
    <3>2. ~ Unsent(t, r)' /\ ~ Counted(t, r)' /\ \A u \in Addr : ~ Sending(t, r, u)'
      BY <1>1, <3>1 DEF Unsent, Counted, Sending, At
    <3>3. \A u \in Addr : ~ Sending(t, r, u) /\ ~ Arrived(t, r, u)
      BY <1>1 DEF Sending, Carries, Arrived, At
    <3>4. \A u \in Addr : Arrived(t, r, u)' <=> u = u0
      BY <1>1 DEF Arrived, At, Msg, ResponseMsg
    <3> QED BY <2>2, <3>1, <3>2, <3>3, <3>4
  <2> QED BY <2>1, <2>2
<1>6. Early(r)' => Early(r)
  BY <1>1, <1>5 DEF Early, Requested
<1>7. OnePlace(r, u0) /\ Returning(r, u0)
  BY <1>2, <1>3 DEF Tracked
<1>8. ASSUME NEW u \in Addr PROVE OnePlace(r, u)' /\ (Due(r, u)' => Due(r, u))
  <2>1. OnePlace(r, u)
    BY <1>2 DEF Tracked
  <2>2. CASE u = u0
    BY <1>4, <1>5, <1>7, <2>2 DEF OnePlace, Due
  <2>3. CASE u # u0
    BY <1>4, <1>5, <2>1, <2>3 DEF OnePlace, Due
  <2> QED BY <2>2, <2>3
<1> QED BY <1>1, <1>2, <1>3, <1>5, <1>6, <1>8, TrackedPass

LEMMA ReceiveTracked ==
    ASSUME PoolGrows, TrackInv, NEW t \in Tasks, NEW m \in inbox, Receive(t, m),
           NEW r \in Requests
    PROVE  Tracked(r)'
<1>1. CASE m.kind # "request" /\ r = m.req
  BY <1>1, ResponseTracked
<1>2. CASE m.kind = "request" \/ r # m.req
  <2>1. /\ m.kind = "request" => m = RequestMsg(m.req)
        /\ m.kind # "request" => m = ResponseMsg(m.req, m.by) /\ m.kind = "response"
        /\ At(t, "idle")
        /\ \A x \in Tasks : x # t => task'[x] = task[x]
        /\ m.kind = "request" =>
              \/ task'[t] = task[t]
              \/ /\ task'[t].msg = m
                 /\ task'[t].pc \notin {"forward", "broadcast", "unregister"}
        /\ m.kind # "request" => task'[t].pc = "match" /\ task'[t].msg = m
        /\ inbox' = inbox \ {m}
        /\ UNCHANGED <<outbox, pending, sends, expired>>
    BY ReceiveFacts
  <2>2. \A x \in Tasks : task'[x] = task[x] \/ Aside(task'[x], r)
    BY <1>2, <2>1 DEF Aside
  <2>3. \A u \in Addr : /\ Underway(r, u)' => Underway(r, u)
                        /\ Returning(r, u)' => Returning(r, u)
    BY <2>1 DEF Underway, Returning
  <2>4. Early(r)' => Early(r)
    <3>1. CASE m = RequestMsg(r)
      BY <3>1 DEF Early
    <3>2. CASE m # RequestMsg(r)
      <4>1. ASSUME NEW x \in Tasks, Carries(x, r)' PROVE Carries(x, r) /\ task'[x] = task[x]
        <5>1. task'[x] = task[x]
          BY <2>1, <3>2, <4>1 DEF Carries, Msg
        <5> QED BY <4>1, <5>1 DEF Carries, At, Msg
      <4> QED BY <2>1, <3>2, <4>1 DEF Early, Requested
    <3> QED BY <3>1, <3>2
  <2>5. Tracked(r) /\ [Next]_vars /\ TypeInv /\ HostInv
    BY DEF TrackInv, AnswerInv, Next, ReceiveSome
  <2> QED BY <2>1, <2>2, <2>3, <2>4, <2>5, TrackedFrame DEF IsPending
<1> QED BY <1>1, <1>2


\* A peer gets r, and answers it if it answers requests of that type.
LEMMA PeerTracked ==
    ASSUME PoolGrows, TrackInv, NEW d \in outbox, PeerHandles(d), NEW r \in Requests
    PROVE  Tracked(r)'
<1> PICK u0 \in Addr, e \in Requests : u0 = d.to /\ d = [to |-> u0, msg |-> RequestMsg(e)]
  <2>1. d \in Datagram /\ FromSource(d.msg) /\ d.msg.kind = "request"
    BY DEF TrackInv, TypeInv, TypeOK, AnswerInv, PeerHandles
  <2>2. d.msg \in Message /\ d.to \in Addr /\ d = [to |-> d.to, msg |-> d.msg]
    BY <2>1 DEF Datagram
  <2>3. d.msg = RequestMsg(d.msg.req) /\ d.msg.req \in Requests
    BY <2>1, <2>2, RequestIs DEF Message
  <2> QED BY <2>2, <2>3
<1>1. /\ outbox' = outbox \ {d}
      /\ inbox' = inbox \cup {m \in {ResponseMsg(e, u0)} : e.type \in AnsweredTypes}
      /\ UNCHANGED <<task, pending, sends, expired>>
  BY DEF PeerHandles, RequestMsg, tableVars
<1>2. Tracked(r) /\ [Next]_vars /\ TypeInv /\ HostInv
  BY DEF TrackInv, AnswerInv, Next, PeerStep
<1>3. ASSUME NEW x \in Tasks
      PROVE  /\ \A u \in Addr : /\ Sending(x, r, u)' <=> Sending(x, r, u)
                                /\ Arrived(x, r, u)' <=> Arrived(x, r, u)
             /\ Unsent(x, r)' <=> Unsent(x, r)
             /\ Counted(x, r)' <=> Counted(x, r)
             /\ task'[x] = task[x]
  BY <1>1 DEF Sending, Arrived, Unsent, Counted, Reacting, Carries, At, Msg
<1>4. Early(r)' => Early(r)
  <2>1. RequestMsg(r) \in inbox' => RequestMsg(r) \in inbox
    BY <1>1 DEF RequestMsg, ResponseMsg
  <2> QED BY <1>1, <2>1 DEF Early, Requested, Carries, At, Msg
<1>5. CASE r # e
  <2>1. \A u \in Addr : /\ Underway(r, u)' => Underway(r, u)
                        /\ Returning(r, u)' => Returning(r, u)
    BY <1>1, <1>5 DEF Underway, Returning, ResponseMsg
  <2> QED BY <1>1, <1>2, <1>4, <2>1, TrackedFrame DEF IsPending
<1>6. CASE r = e
  <2>1. Underway(r, u0) /\ ~ Silent(r)
    BY <1>6 DEF Underway, Silent
  <2>2. ASSUME NEW u \in Addr
        PROVE  /\ Underway(r, u)' <=> Underway(r, u) /\ u # u0
               /\ Returning(r, u)' => Returning(r, u) \/ u = u0
               /\ Returning(r, u) => Returning(r, u)'
    BY <1>1, <1>6 DEF Underway, Returning, ResponseMsg
  <2>3. OnePlace(r, u0)
    BY <1>2 DEF Tracked
  <2>4. ASSUME NEW u \in Addr PROVE OnePlace(r, u)' /\ (Due(r, u)' => Due(r, u))
    <3>1. OnePlace(r, u)
      BY <1>2 DEF Tracked
    <3>2. CASE u = u0
      BY <1>3, <2>1, <2>2, <2>3, <3>2 DEF OnePlace, Due
    <3>3. CASE u # u0
      BY <1>3, <2>2, <3>1, <3>3 DEF OnePlace, Due
    <3> QED BY <3>2, <3>3
  <2> QED BY <1>1, <1>2, <1>3, <1>4, <2>1, <2>4, TrackedPass
<1> QED BY <1>5, <1>6

\* The other steps lose what is under way, or leave it.
LEMMA OutsideTracked ==
    ASSUME Unambiguous, TrackInv, NEW r \in Requests,
           \/ \E q \in Seqs : GrowOld(q) \/ CleanupStale(q)
           \/ \E c \in commands : ApplyCommand(c)
           \/ \E e \in Requests : SendRequest(e)
           \/ \E d \in outbox : PeerGetsResponse(d)
           \/ Lose
           \/ UNCHANGED vars
    PROVE  Tracked(r)'
<1> USE DEF tableVars, poolVars, netVars, peerVars
<1>1. Tracked(r) /\ [Next]_vars /\ TypeInv /\ HostInv /\ r.seq \in Seqs
  BY RequestFacts DEF TrackInv, AnswerInv, Next, PeerStep
<1>p. PoolGrows
  BY DEF Unambiguous
<1>2. /\ UNCHANGED task
      /\ outbox' \subseteq outbox
      /\ \A u \in Addr : Returning(r, u)' => Returning(r, u)
  BY DEF GrowOld, CleanupStale, ApplyCommand, SendRequest, PeerGetsResponse, Lose, vars,
     Returning, ResponseMsg, RequestMsg
<1>3. \A u \in Addr : Underway(r, u)' => Underway(r, u)
  BY <1>2 DEF Underway
<1>4. Early(r)' => Early(r)
  <2>1. CASE \E e \in Requests : SendRequest(e)
    <3> PICK e \in Requests : SendRequest(e)
      BY <2>1
    <3>1. sends' = [sends EXCEPT ![e] = @ + 1] /\ inbox' = inbox \cup {RequestMsg(e)}
          /\ sends[e] < Copies[e]
      BY DEF SendRequest
    <3>2. sends \in [Requests -> Nat]
      BY DEF TrackInv, TypeInv, TypeOK
    <3>3. CASE e = r
      <4>1. sends[r] = 0
        BY <3>1, <3>2, <3>3, ProxyAssumption DEF Unambiguous, SentOnce
      <4> QED BY <4>1 DEF Early, Requested
    <3>4. CASE e # r
      <4>1. RequestMsg(r) # RequestMsg(e) /\ sends'[r] = sends[r]
        BY <3>1, <3>2, <3>4 DEF RequestMsg
      <4> QED BY <1>2, <3>1, <4>1 DEF Early, Requested, Carries, At, Msg
    <3> QED BY <3>3, <3>4
  <2>2. CASE ~ \E e \in Requests : SendRequest(e)
    <3>1. UNCHANGED sends /\ inbox' \subseteq inbox
      BY <2>2 DEF GrowOld, CleanupStale, ApplyCommand, PeerGetsResponse, Lose, vars
    <3> QED BY <1>2, <3>1 DEF Early, Requested, Carries, At, Msg
  <2> QED BY <2>1, <2>2
<1>5. /\ IsPending(r.seq)' =>
             /\ IsPending(r.seq)
             /\ pending'[r.seq].responses = pending[r.seq].responses
      /\ IsPending(r.seq) => IsPending(r.seq)' \/ r.seq \in expired'
      /\ expired \subseteq expired'
  <2>1. CASE \E q \in Seqs : GrowOld(q)
    <3> PICK q \in Seqs : GrowOld(q)
      BY <2>1
    <3>1. IsPending(q) /\ pending[q] \in RequestInfo
      BY <1>1, PendingIs DEF GrowOld, PendingGrowOld
    <3>2. pending'[r.seq] = IF r.seq = q THEN [pending[q] EXCEPT !.old = TRUE]
                                         ELSE pending[r.seq]
      BY <1>1, PendingIs DEF GrowOld
    <3>3. [pending[q] EXCEPT !.old = TRUE] \in RequestInfo
          /\ [pending[q] EXCEPT !.old = TRUE].responses = pending[q].responses
      BY <3>1 DEF RequestInfo
    <3> QED BY <3>1, <3>2, <3>3, NoRequestAssumption DEF IsPending, GrowOld
  <2>2. CASE \E q \in Seqs : CleanupStale(q)
    <3> PICK q \in Seqs : CleanupStale(q)
      BY <2>2
    <3>1. pending'[r.seq] = IF r.seq = q THEN None ELSE pending[r.seq]
      BY <1>1, PendingIs DEF CleanupStale, PendingCleanup
    <3> QED BY <3>1 DEF IsPending, CleanupStale
  <2>3. CASE UNCHANGED <<pending, expired>>
    BY <2>3 DEF IsPending
  <2>4. \/ \E q \in Seqs : GrowOld(q)
        \/ \E q \in Seqs : CleanupStale(q)
        \/ UNCHANGED <<pending, expired>>
    BY DEF ApplyCommand, SendRequest, PeerGetsResponse, Lose, vars
  <2> QED BY <2>1, <2>2, <2>3, <2>4
<1> QED BY <1>p, <1>1, <1>2, <1>3, <1>4, <1>5, TrackedFrame

-----------------------------------------------------------------------------
LEMMA AnswerInit == Init => AnswerInv
<1> SUFFICES ASSUME Init PROVE AnswerInv
  OBVIOUS
<1>1. /\ \A t \in Tasks : At(t, "idle")
      /\ inbox = {} /\ outbox = {} /\ \A q \in Seqs : ~ IsPending(q)
  BY DEF Init, At, IdleTask, PendingInit, IsPending
<1>2. ASSUME NEW r \in Requests PROVE Tracked(r)
  <2>1. r.seq \in Seqs
    BY RequestFacts
  <2>2. Silent(r) /\ \A t \in Tasks : ~ Carries(t, r)
    BY <1>1 DEF Silent, Underway, Returning, Reacting, Carries
  <2>3. \A u \in Addr : ~ Due(r, u)
    BY <2>2 DEF Due, Sending, Arrived, Reacting, Silent, At, ResponseMsg
  <2>4. Outstanding(r) = {}
    BY <2>3 DEF Outstanding
  <2>5. IsFiniteSet(Outstanding(r))
    BY <2>4, FS_EmptySet
  <2>6. \A u \in Addr : OnePlace(r, u)
    BY <2>3 DEF OnePlace, Due
  <2>7. \A t \in Tasks : ~ Counted(t, r) /\ ~ Unsent(t, r)
    BY <2>2 DEF Counted, Unsent, Silent
  <2> QED BY <1>1, <2>1, <2>2, <2>4, <2>5, <2>6, <2>7 DEF Tracked
<1> QED BY <1>1, <1>2 DEF AnswerInv

LEMMA AnswerStep ==
    ASSUME Unambiguous, TrackInv, [Next]_vars
    PROVE  AnswerInv'
<1>1. ASSUME NEW r \in Requests PROVE Tracked(r)'
  <2>1. CASE \E t \in Tasks : HandleMessage(t)
    BY <2>1, HandlerTracked
  <2>2. CASE ReceiveSome
    BY <2>2, ReceiveTracked DEF ReceiveSome, Unambiguous
  <2>3. CASE \E d \in outbox : PeerHandles(d)
    BY <2>3, PeerTracked DEF Unambiguous
  <2>4. CASE \/ \E q \in Seqs : GrowOld(q) \/ CleanupStale(q)
             \/ \E c \in commands : ApplyCommand(c)
             \/ \E e \in Requests : SendRequest(e)
             \/ \E d \in outbox : PeerGetsResponse(d)
             \/ Lose
             \/ UNCHANGED vars
    BY <2>4, OutsideTracked
  <2> QED BY <2>1, <2>2, <2>3, <2>4 DEF Next, Wait, PeerStep
<1>2. ASSUME NEW d \in outbox' PROVE FromSource(d.msg)
  <2>1. CASE d \in outbox
    BY <2>1 DEF TrackInv, AnswerInv
  <2>2. CASE \E t \in Tasks : HandleMessage(t) /\ d.msg = Msg(t)
    <3> PICK t \in Tasks : HandleMessage(t) /\ d.msg = Msg(t)
      BY <2>2
    <3>1. task[t].pc # "idle"
      BY HandlerMoves DEF TrackInv
    <3> QED BY <3>1, BusyTask DEF TrackInv
  <2>3. d \in outbox \/ \E t \in Tasks : HandleMessage(t) /\ d.msg = Msg(t)
    <3>1. CASE \E t \in Tasks : HandleMessage(t)
      BY <3>1, HandlerShares DEF TrackInv
    <3>2. CASE ~ \E t \in Tasks : HandleMessage(t)
      BY <3>2 DEF Next, Wait, ReceiveSome, Receive, PeerStep, PeerHandles, PeerGetsResponse,
         GrowOld, CleanupStale, ApplyCommand, SendRequest, Lose, vars, netVars
    <3> QED BY <3>1, <3>2
  <2> QED BY <2>1, <2>2, <2>3
<1>3. (\A d \in outbox : FromSource(d.msg))'
  BY <1>2 DEF FromSource
<1> QED BY <1>1, <1>3 DEF AnswerInv

LEMMA TrackInit == Init => TrackInv
BY InitTypes, MessageInit, ArmInit, OnceInit, FlagInit, HostInit, AnswerInit DEF TrackInv

LEMMA TrackStep ==
    ASSUME Unambiguous, TrackInv, [Next]_vars
    PROVE  TrackInv'
<1>1. TypeInv' /\ MessageInv' /\ ArmInv' /\ OnceInv' /\ FlagInv' /\ HostInv'
  BY StepTypes, MessageStep, ArmStep, OnceStep, FlagStep, HostStep
     DEF TrackInv, Unambiguous
<1>2. AnswerInv'
  BY AnswerStep
<1> QED BY <1>1, <1>2 DEF TrackInv


\* At its lookup a response has an entry, or cleanup_stale removed that.
LEMMA MatchedOrExpired ==
    ASSUME TrackInv, NEW t \in Tasks, At(t, "match")
    PROVE  IsPending(SeqNo(t)) \/ SeqNo(t) \in expired
<1>1. /\ Msg(t) = task[t].msg /\ Msg(t) \in Message
      /\ Msg(t).req \in Requests /\ Msg(t).by \in Addr
  BY BusyTask DEF At, TrackInv
<1>2. Msg(t).kind = "response"
  BY <1>1 DEF TrackInv, FlagInv, FlagTask, At, ResponseSteps
<1> PICK r \in Requests, u \in Addr : r = Msg(t).req /\ u = Msg(t).by
  BY <1>1
<1>3. Msg(t) = ResponseMsg(r, u)
  BY <1>1, <1>2 DEF Message, ResponseMsg
<1>4. u \in Outstanding(r)
  BY <1>3 DEF Outstanding, Due, Arrived
<1>5. Tracked(r) /\ SeqNo(t) = r.seq
  BY DEF TrackInv, AnswerInv, SeqNo
<1> QED BY <1>4, <1>5 DEF Tracked

\* handle_response counts a response as dropped only if cleanup_stale had
\* removed the pending request, when sequence numbers are unique, requests are
\* not sent again, and no backend is removed while the proxy runs.
THEOREM DropsCorrect ==
    ASSUME OneRequestPerSeq, SentOnce, PoolGrows
    PROVE  Spec => DropsOnlyAfterTimeout
<1> DEFINE Dropped(t) ==
        /\ At(t, "match")
        /\ stats'.responses_dropped > stats.responses_dropped
        /\ task'[t] # task[t]
<1>0. Unambiguous
  BY DEF Unambiguous
<1>1. Init => TrackInv
  BY TrackInit
<1>2. TrackInv /\ [Next]_vars => TrackInv'
  BY <1>0, TrackStep
<1>3. ASSUME TrackInv, [Next]_vars, NEW t \in Tasks, Dropped(t)
      PROVE  SeqNo(t) \in expired
  <2>1. HandleMessage(t)
    <3>1. CASE \E x \in Tasks : HandleMessage(x)
      BY <1>3, <3>1, HandlerMoves DEF TrackInv
    <3>2. CASE ReceiveSome
      BY <1>3, <3>2, ReceiveFacts DEF ReceiveSome, At
    <3>3. CASE \/ \E q \in Seqs : GrowOld(q) \/ CleanupStale(q)
               \/ \E c \in commands : ApplyCommand(c)
               \/ \E e \in Requests : SendRequest(e)
               \/ PeerStep
               \/ Lose
               \/ UNCHANGED vars
      BY <1>3, <3>3 DEF GrowOld, CleanupStale, ApplyCommand, SendRequest, PeerStep,
         PeerHandles, PeerGetsResponse, Lose, vars
    <3> QED BY <1>3, <3>1, <3>2, <3>3 DEF Next, Wait
  <2>2. ~ MatchFound(t)
    <3>1. stats.responses_dropped \in Nat
      BY <1>3 DEF TrackInv, TypeInv, TypeOK, StatisticsTypeOK, Counters
    <3> QED BY <1>3, <3>1 DEF MatchFound
  <2>3. ~ IsPending(SeqNo(t))
    BY <1>3, <2>1, <2>2, HandlerAt DEF MatchMissed
  <2> QED BY <1>3, <2>3, MatchedOrExpired
<1>4. TrackInv /\ [Next]_vars => [\A t \in Tasks : Dropped(t) => SeqNo(t) \in expired]_vars
  BY <1>3
<1> QED BY <1>1, <1>2, <1>4, PTL DEF Spec, DropsOnlyAfterTimeout


-----------------------------------------------------------------------------
(***************************************************************************)
(* No answer is lost, and each is counted.                                 *)
(***************************************************************************)
LEMMA SettledFrame ==
    ASSUME TrackInv, TrackInv', UNCHANGED backends, NEW r \in Requests, Settled(r),
           r.type \in AnsweredTypes =>
               /\ \A u \in Addr : Due(r, u) => Due(r, u)'
               /\ \A x \in Tasks : Counted(x, r) /\ task[x].n = Answers(r) =>
                      Counted(x, r)' /\ task'[x].n = task[x].n,
           IsPending(r.seq)' =>
               /\ IsPending(r.seq)
               /\ pending'[r.seq].responses = pending[r.seq].responses
    PROVE  Settled(r)'
<1> SUFFICES ASSUME r.type \in AnsweredTypes, IsPending(r.seq)'
             PROVE  /\ Cardinality(Outstanding(r)') + pending'[r.seq].responses = Answers(r)'
                    /\ pending'[r.seq].responses = Answers(r)' =>
                          \E t \in Tasks : Counted(t, r)' /\ task'[t].n = Answers(r)'
  BY DEF Settled
<1> DEFINE W == Outstanding(r)
           V == Outstanding(r)'
<1>1. Answers(r)' = Answers(r) /\ Answers(r) \in Nat
  BY DEF Answers, IsBroadcast, TrackInv, TypeInv, TypeOK, UpfPoolTypeOK
<1>2. W \in SUBSET V
  BY DEF Outstanding
<1>3. Tracked(r)'
  BY DEF TrackInv, AnswerInv
<1>4. IsFiniteSet(V) /\ Cardinality(V) + pending'[r.seq].responses <= Answers(r)'
  BY <1>3 DEF Tracked
<1>5. /\ Cardinality(V) \in Nat /\ Cardinality(W) \in Nat
      /\ Cardinality(W) <= Cardinality(V)
  BY <1>2, <1>4, FS_Subset, FS_CardinalityType
<1>6. /\ Cardinality(W) + pending[r.seq].responses = Answers(r)
      /\ pending[r.seq].responses = Answers(r) =>
            \E t \in Tasks : Counted(t, r) /\ task[t].n = Answers(r)
  BY DEF Settled
<1>7. pending[r.seq].responses \in Nat
  BY RequestFacts, PendingIs DEF RequestInfo, TrackInv
<1> HIDE DEF W, V
<1>8. Cardinality(V) + pending'[r.seq].responses = Answers(r)'
  BY <1>1, <1>4, <1>5, <1>6, <1>7
<1>9. pending'[r.seq].responses = Answers(r)' =>
          \E t \in Tasks : Counted(t, r)' /\ task'[t].n = Answers(r)'
  BY <1>1, <1>6
<1> QED BY <1>8, <1>9 DEF V

\* The tasks, when every send succeeds.
LEMMA SettledTasks ==
    ASSUME FixedPool, NothingIsLost, TrackInv, SettledInv, [Next]_vars
    PROVE  UNCHANGED backends /\ \A x \in Tasks : SettledTask(task[x])'
<1> USE DEF tableVars, poolVars, netVars, peerVars
<1>0. task \in [Tasks -> Task] /\ commands = {} /\ InitialPool # << >>
  BY PoolAssumption DEF TrackInv, TypeInv, TypeOK, FixedPool
<1>1. CASE \E t \in Tasks : HandleMessage(t)
  <2> PICK t \in Tasks : HandleMessage(t)
    BY <1>1
  <2> DEFINE k == task[t]
  <2>1. UNCHANGED backends
    BY HandlerPends
  <2>2. /\ k.pc # "idle" /\ Moves(k, task'[t])
        /\ \A x \in Tasks : x # t => task'[x] = task[x]
    BY HandlerMoves DEF TrackInv
  <2>3. k \in Task /\ WellFormed(k) /\ FlagTask(k) /\ SettledTask(k)
    BY HandlerTask DEF SettledInv
  <2>4. ASSUME k.pc = "fan_out" PROVE SettledTask(task'[t])
    <3>1. task'[t] = [k EXCEPT !.pc = "register", !.hosts = backends, !.is_broadcast = TRUE]
      BY <1>0, <2>4, HandlerAt DEF At, FanOut, Become
    <3>2. task'[t].pc = "register" /\ task'[t].hosts = InitialPool
      BY <2>3, <3>1 DEF Task, SettledInv
    <3> QED BY <3>2 DEF SettledTask
  <2>5. ASSUME k.pc = "register" PROVE SettledTask(task'[t])
    <3> DEFINE pc == IF k.is_broadcast THEN "broadcast" ELSE "forward"
    <3>1. task'[t] = [k EXCEPT !.pc = pc, !.n = 0]
      BY <1>0, <2>5, HandlerAt DEF At, Register, Become
    <3> HIDE DEF pc
    <3>2. task'[t].pc = pc /\ task'[t].hosts = k.hosts
      BY <2>3, <3>1 DEF Task
    <3> QED BY <1>0, <2>3, <2>5, <3>2 DEF pc, SettledTask
  <2>6. ASSUME k.pc = "forward" PROVE SettledTask(task'[t])
    <3>1. Forward(t)
      BY <2>6, HandlerAt DEF At, ForwardFails, NothingIsLost
    <3>2. task'[t].pc = "idle"
      BY <1>0, <3>1 DEF Forward, Finish, Become, IdleTask
    <3> QED BY <3>2 DEF SettledTask
  <2>7. ASSUME k.pc = "broadcast" PROVE SettledTask(task'[t])
    <3>1. BroadcastOne(t) \/ EndBroadcast(t)
      BY <2>7, HandlerAt DEF At, BroadcastOneFails, NothingIsLost
    <3>2. CASE BroadcastOne(t)
      <4>1. task'[t].pc = "broadcast" /\ task'[t].n = k.n + 1 /\ k.n \in Nat
        BY <1>0, <2>3, <2>7, <3>2 DEF BroadcastOne, Become, Task
      <4>2. task'[t].n # 0
        BY <4>1
      <4> QED BY <4>1, <4>2 DEF SettledTask
    <3>3. CASE EndBroadcast(t)
      <4>1. k.n # 0 /\ Finish(t)
        BY <2>3, <2>7, <3>3 DEF EndBroadcast, SettledTask
      <4>2. task'[t].pc = "idle"
        BY <1>0, <4>1 DEF Finish, Become, IdleTask
      <4> QED BY <4>2 DEF SettledTask
    <3> QED BY <3>1, <3>2, <3>3
  <2>8. ASSUME k.pc \notin {"fan_out", "register", "forward", "broadcast"} PROVE SettledTask(task'[t])
    <3>1. CASE task'[t].pc # "register"
      <4>1. task'[t].pc \notin {"unregister", "broadcast"}
        BY <2>2, <2>8 DEF Moves, Advances, ResponseSteps
      <4> QED BY <3>1, <4>1 DEF SettledTask
    <3>2. CASE task'[t].pc = "register"
      <4>1. k.pc \in {"place", "lookup", "unmap", "owner"}
            /\ task'[t].is_broadcast = k.is_broadcast
        BY <2>2, <2>8, <3>2 DEF Moves, Advances, ResponseSteps
      <4>2. ~ k.is_broadcast
        <5>1. k.msg.kind = "request" /\ k.pc \notin SendSteps
          BY <2>3, <4>1 DEF WellFormed, RouteSteps, IsSmfRequest, SendSteps
        <5>2. k.is_broadcast \in BOOLEAN
          BY <2>3 DEF Task
        <5> QED BY <2>2, <2>3, <5>1, <5>2 DEF FlagTask
      <4> QED BY <3>2, <4>1, <4>2 DEF SettledTask
    <3> QED BY <3>1, <3>2
  <2>9. SettledTask(task'[t])
    BY <2>4, <2>5, <2>6, <2>7, <2>8
  <2> QED BY <2>1, <2>2, <2>9 DEF SettledTask, SettledInv
<1>2. CASE ReceiveSome
  <2> PICK t \in Tasks, m \in inbox : Receive(t, m)
    BY <1>2 DEF ReceiveSome
  <2>1. m \in Message /\ UNCHANGED backends
    BY ReceiveFacts
  <2>2. \A x \in Tasks : task'[x] = task[x] \/ task'[x].pc = FirstStep(m)
    BY <1>0 DEF Receive, Become, IdleTask
  <2>3. FirstStep(m) \notin {"register", "broadcast", "unregister"}
    BY <2>1, FirstStepFacts
  <2> QED BY <2>1, <2>2, <2>3 DEF SettledTask, SettledInv
<1>3. CASE \/ \E q \in Seqs : GrowOld(q) \/ CleanupStale(q)
           \/ \E e \in Requests : SendRequest(e)
           \/ PeerStep
           \/ Lose
           \/ UNCHANGED vars
  <2>1. UNCHANGED <<task, backends>>
    BY <1>3 DEF GrowOld, CleanupStale, SendRequest, PeerStep, PeerHandles,
       PeerGetsResponse, Lose, vars
  <2> QED BY <2>1 DEF SettledTask, SettledInv
<1> QED BY <1>0, <1>1, <1>2, <1>3 DEF Next, Wait


\* A step of t loses no answer if none gets lost in t.
LEMMA SettledByTask ==
    ASSUME TrackInv, TrackInv', SettledInv, NEW t \in Tasks, HandleMessage(t),
           NEW r \in Requests,
           \A u \in Addr : Sending(t, r, u) \/ Arrived(t, r, u) => Due(r, u)',
           Counted(t, r) /\ task[t].n = Answers(r) =>
               Counted(t, r)' /\ task'[t].n = task[t].n,
           pending'[r.seq] = pending[r.seq]
    PROVE  Settled(r)'
<1>1. \A x \in Tasks : x # t => task'[x] = task[x]
  BY HandlerMoves DEF TrackInv
<1>2. UNCHANGED inbox /\ outbox \subseteq outbox'
  BY HandlerShares DEF TrackInv
<1>3. UNCHANGED backends /\ Settled(r)
  BY HandlerPends DEF SettledInv
<1>4. \A x \in Tasks : x # t =>
          /\ \A u \in Addr : /\ Sending(x, r, u) => Sending(x, r, u)'
                             /\ Arrived(x, r, u) => Arrived(x, r, u)'
          /\ Counted(x, r) => Counted(x, r)'
  BY <1>1 DEF Sending, Arrived, Counted, Reacting, Carries, At, Msg
<1>5. \A u \in Addr : /\ Underway(r, u) => Underway(r, u)'
                      /\ Returning(r, u) => Returning(r, u)'
  BY <1>2 DEF Underway, Returning
<1>6. \A u \in Addr : Due(r, u) => Due(r, u)'
  BY <1>4, <1>5 DEF Due
<1>7. \A x \in Tasks : Counted(x, r) /\ task[x].n = Answers(r) =>
          Counted(x, r)' /\ task'[x].n = task[x].n
  BY <1>1, <1>4
<1> QED BY <1>3, <1>6, <1>7, SettledFrame DEF IsPending

\* The entry has just been made, and every answer is yet to come.
LEMMA SettledRegister ==
    ASSUME Unambiguous, TrackInv, SettledInv, NEW t \in Tasks, HandleMessage(t),
           At(t, "register"), NEW r \in Requests, r = Msg(t).req
    PROVE  Settled(r)'
<1>1. Outstanding(r)' = Expected(task[t]) /\ pending'[r.seq].responses = 0
  BY RegisterFacts
<1>2. UNCHANGED backends
  BY HandlerPends
<1>3. Cardinality(Expected(task[t])) = Answers(r)
  <2>1. task[t].is_broadcast => task[t].hosts = backends
    BY DEF SettledInv, SettledTask, At
  <2> QED BY <2>1, ExpectedCount
<1>4. Answers(r)' = Answers(r) /\ Answers(r) \in Nat \ {0}
  <2>1. Answers(r) \in Nat \ {0}
    BY AnswersGrow DEF TrackInv, Unambiguous, Next
  <2> QED BY <1>2, <2>1 DEF Answers, IsBroadcast
<1>5. /\ Cardinality(Outstanding(r)') + pending'[r.seq].responses = Answers(r)'
      /\ pending'[r.seq].responses # Answers(r)'
  BY <1>1, <1>3, <1>4
<1> QED BY <1>5 DEF Settled

\* A counted answer is no longer due; the task that counts the last one goes on.
LEMMA SettledMatch ==
    ASSUME Unambiguous, TrackInv, SettledInv, NEW t \in Tasks, MatchFound(t),
           NEW r \in Requests, r = Msg(t).req
    PROVE  Settled(r)'
<1> DEFINE W == Outstanding(r)
           V == Outstanding(r)'
<1> SUFFICES ASSUME r.type \in AnsweredTypes
             PROVE  /\ Cardinality(V) + pending'[r.seq].responses = Answers(r)'
                    /\ pending'[r.seq].responses = Answers(r)' =>
                          \E x \in Tasks : Counted(x, r)' /\ task'[x].n = Answers(r)'
  BY DEF Settled
<1>0. HandleMessage(t)
  BY DEF HandleMessage
<1>1. /\ task'[t].pc = "reply" /\ task'[t].n = pending[r.seq].responses + 1
      /\ task'[t].msg = Msg(t) /\ Reacting(t, r)
      /\ IsPending(r.seq)
      /\ pending'[r.seq].responses = pending[r.seq].responses + 1
      /\ pending[r.seq].responses \in Nat
      /\ V = W \ {Msg(t).by} /\ Msg(t).by \in W
  BY MatchFacts
<1>2. IsFiniteSet(W)
  BY <1>0, HandlerTask DEF Tracked
<1>3. Cardinality(W) \in Nat /\ Cardinality(V) = Cardinality(W) - 1
  <2>1. Cardinality(W) \in Nat
    BY <1>2, FS_CardinalityType
  <2>2. Cardinality(W \ {Msg(t).by}) = Cardinality(W) - 1
    BY <1>1, <1>2, FS_RemoveElement
  <2> HIDE DEF W, V
  <2> QED BY <1>1, <2>1, <2>2
<1>4. Answers(r)' = Answers(r)
  BY <1>0, HandlerPends DEF Answers, IsBroadcast
<1>5. Cardinality(W) + pending[r.seq].responses = Answers(r)
  BY <1>1 DEF SettledInv, Settled
<1>6. Counted(t, r)' /\ task'[t].n = pending'[r.seq].responses
  BY <1>1 DEF Counted, Reacting, At, Msg
<1> HIDE DEF W, V
<1>7. Cardinality(V) + pending'[r.seq].responses = Answers(r)'
  BY <1>1, <1>3, <1>4, <1>5
<1> QED BY <1>6, <1>7

LEMMA SettledSending ==
    ASSUME TrackInv, TrackInv', SettledInv, NEW t \in Tasks,
           Forward(t) \/ BroadcastOne(t) \/ (EndBroadcast(t) /\ Finish(t)),
           NEW r \in Requests, r = Msg(t).req
    PROVE  Settled(r)'
<1> DEFINE k == task[t]
<1>0. /\ HandleMessage(t) /\ UNCHANGED pending
      /\ k.pc \in {"forward", "broadcast"}
  BY DEF HandleMessage, Forward, BroadcastOne, EndBroadcast, tableVars, At
<1>1. /\ k \in Task /\ WellFormed(k) /\ Msg(t) = k.msg
      /\ Msg(t).kind = "request" => Carries(t, r)
      /\ task \in [Tasks -> Task]
  BY <1>0, HandlerTask DEF TrackInv, TypeInv, TypeOK
<1>2. Carries(t, r) /\ Msg(t) = RequestMsg(r)
  BY <1>0, <1>1 DEF WellFormed, Carries
<1>3. ~ Counted(t, r) /\ \A u \in Addr : ~ Arrived(t, r, u)
  BY <1>2 DEF Counted, Reacting, Arrived, RequestMsg, ResponseMsg
<1>4. ASSUME NEW u \in Addr, Sending(t, r, u) PROVE Underway(r, u)' \/ Sending(t, r, u)'
  <2>1. CASE Forward(t)
    <3>1. k.dest = u
      BY <1>4, <2>1 DEF Sending, Forward, At
    <3> QED BY <1>2, <2>1, <3>1 DEF Underway, Forward, Send
  <2>2. CASE BroadcastOne(t)
    <3>1. k.pc = "broadcast" /\ k.hosts # << >> /\ k.hosts \in Seq(Upfs)
      BY <1>1, <2>2 DEF BroadcastOne, At, Task
    <3>2. /\ Len(k.hosts) \in Nat \ {0} /\ Head(k.hosts) = k.hosts[1]
          /\ Len(Tail(k.hosts)) = Len(k.hosts) - 1
          /\ \A i \in 1 .. Len(k.hosts) - 1 : Tail(k.hosts)[i] = k.hosts[i + 1]
      BY <3>1, TailOf
    <3>3. PICK i \in 1 .. Len(k.hosts) : k.hosts[i] = u
      BY <1>4, <3>1 DEF Sending, At
    <3>4. CASE i = 1
      BY <1>2, <2>2, <3>2, <3>3, <3>4 DEF Underway, BroadcastOne, Send
    <3>5. CASE i # 1
      <4>1. i - 1 \in 1 .. Len(Tail(k.hosts)) /\ Tail(k.hosts)[i - 1] = u
        BY <3>2, <3>3, <3>5
      <4>2. /\ task'[t].pc = "broadcast" /\ task'[t].hosts = Tail(k.hosts)
            /\ task'[t].msg = k.msg
        BY <1>1, <2>2, <3>1 DEF BroadcastOne, Become, Task
      <4> QED BY <1>1, <1>2, <4>1, <4>2 DEF Sending, Carries, At, Msg
    <3> QED BY <3>4, <3>5
  <2>3. CASE EndBroadcast(t)
    <3>1. k.pc = "broadcast" /\ k.hosts = << >>
      BY <2>3 DEF EndBroadcast, At
    <3> QED BY <1>4, <3>1 DEF Sending, At
  <2> QED BY <2>1, <2>2, <2>3
<1>5. \A u \in Addr : Sending(t, r, u) \/ Arrived(t, r, u) => Due(r, u)'
  BY <1>3, <1>4 DEF Due
<1> QED BY <1>0, <1>3, <1>5, SettledByTask

\* Who has counted the last answer comes to removing the entry.
LEMMA SettledReplying ==
    ASSUME TrackInv, TrackInv', SettledInv, NEW t \in Tasks, Reply(t) \/ Tally(t),
           NEW r \in Requests, r = Msg(t).req
    PROVE  Settled(r)'
<1> DEFINE k == task[t]
<1>0. /\ HandleMessage(t) /\ UNCHANGED pending
      /\ k.pc \in {"reply", "tally"}
  BY DEF HandleMessage, Reply, Tally, tableVars, At
<1>1. /\ k \in Task /\ FlagTask(k) /\ Msg(t) = k.msg
      /\ task \in [Tasks -> Task]
  BY <1>0, HandlerTask DEF TrackInv, TypeInv, TypeOK
<1>2. \A u \in Addr : ~ Sending(t, r, u) /\ ~ Arrived(t, r, u)
  BY <1>0 DEF Sending, Arrived, At
<1>g. ASSUME NEW pc, Goto(t, pc)
      PROVE  task'[t].pc = pc /\ task'[t].n = k.n /\ task'[t].msg = k.msg
  <2>1. task'[t] = [k EXCEPT !.pc = pc]
    BY <1>1, <1>g, GotoIsBecome DEF Become
  <2> QED BY <1>1, <2>1 DEF Task
<1>3. ASSUME Counted(t, r), k.n = Answers(r)
      PROVE  Counted(t, r)' /\ task'[t].n = k.n
  <2>1. CASE Reply(t)
    <3> DEFINE pc == IF k.is_broadcast THEN "tally" ELSE "retire"
    <3>1. Goto(t, pc)
      BY <2>1 DEF Reply
    <3> HIDE DEF pc
    <3>2. task'[t].pc = pc /\ task'[t].n = k.n /\ task'[t].msg = k.msg
      BY <1>g, <3>1
    <3> QED BY <1>3, <3>2 DEF pc, Counted, Reacting, At, Msg
  <2>2. CASE Tally(t)
    <3>1. Answers(r) = Len(backends) /\ Len(backends) \in Nat
      BY <1>1, <2>2 DEF Tally, FlagTask, At, Answers, TrackInv, TypeInv, TypeOK,
         UpfPoolTypeOK
    <3>2. k.n >= Len(backends)
      BY <1>3, <3>1
    <3>3. Goto(t, "retire")
      BY <2>2, <3>2 DEF Tally
    <3>4. task'[t].pc = "retire" /\ task'[t].n = k.n /\ task'[t].msg = k.msg
      BY <1>g, <3>3
    <3> QED BY <1>3, <3>4 DEF Counted, Reacting, At, Msg
  <2> QED BY <2>1, <2>2
<1> QED BY <1>0, <1>2, <1>3, SettledByTask

LEMMA SettledHandler ==
    ASSUME Unambiguous, NothingIsLost, TrackInv, TrackInv', SettledInv,
           NEW t \in Tasks, HandleMessage(t), NEW r \in Requests
    PROVE  Settled(r)'
<1> DEFINE k == task[t]
<1>0. ASSUME pending'[r.seq] = None PROVE Settled(r)'
  BY <1>0 DEF Settled, IsPending
<1>1. CASE Msg(t).req # r
  <2>1. /\ ~ Counted(t, r)
        /\ \A u \in Addr : ~ Sending(t, r, u) /\ ~ Arrived(t, r, u)
    BY <1>1 DEF Counted, Reacting, Sending, Carries, Arrived, RequestMsg, ResponseMsg
  <2>2. pending'[r.seq] = pending[r.seq]
    BY <1>1, OtherPending DEF Unambiguous
  <2> QED BY <2>1, <2>2, SettledByTask
<1>2. CASE Msg(t).req = r
  <2>1. /\ k \in Task /\ WellFormed(k) /\ Msg(t) = k.msg /\ SeqNo(t) = r.seq /\ ~ At(t, "idle")
        /\ Msg(t).kind = "request" => Carries(t, r)
        /\ Tracked(r) /\ r.seq \in Seqs /\ TypeInv /\ SettledTask(k)
    BY <1>2, HandlerTask DEF TrackInv, SettledInv
  <2>2. CASE k.pc \notin SendSteps \cup ResponseSteps
    <3>1. k.pc \in RouteSteps \cup {"owner"}
      BY <2>1, <2>2 DEF Task, Steps, At
    <3>2. k.msg.kind = "request"
      BY <2>1, <3>1 DEF WellFormed, IsSmfRequest
    <3>3. Early(r)
      BY <2>1, <2>2, <3>2 DEF Early, SendSteps
    <3>4. UNCHANGED pending
      BY <2>2, HandlerPends DEF SendSteps, ResponseSteps, At
    <3> QED BY <1>0, <2>1, <3>3, <3>4 DEF Tracked, IsPending
  <2>3. CASE At(t, "register")
    BY <1>2, <2>3, SettledRegister
  <2>4. CASE At(t, "forward")
    <3>1. Forward(t)
      BY <2>4, HandlerAt DEF ForwardFails, NothingIsLost
    <3> QED BY <1>2, <3>1, SettledSending
  <2>5. CASE At(t, "broadcast")
    <3>1. BroadcastOne(t) \/ EndBroadcast(t)
      BY <2>5, HandlerAt DEF BroadcastOneFails, NothingIsLost
    <3>2. EndBroadcast(t) => Finish(t)
      BY <2>1, <2>5 DEF EndBroadcast, SettledTask, At
    <3> QED BY <1>2, <3>1, <3>2, SettledSending
  <2>6. CASE At(t, "match")
    <3>1. CASE MatchFound(t)
      BY <1>2, <3>1, SettledMatch
    <3>2. CASE MatchMissed(t)
      BY <1>0, <2>1, <3>2 DEF MatchMissed, IsPending, tableVars
    <3> QED BY <2>6, <3>1, <3>2, HandlerAt
  <2>7. CASE At(t, "reply") \/ At(t, "tally")
    <3>1. Reply(t) \/ Tally(t)
      BY <2>7, HandlerAt DEF ReplyFails, NothingIsLost
    <3> QED BY <1>2, <3>1, SettledReplying
  <2>8. CASE At(t, "retire")
    <3>1. PendingRemove(r.seq)
      BY <2>1, <2>8, HandlerAt DEF Retire
    <3>2. pending'[r.seq] = None
      BY <2>1, <3>1, PendingIs
    <3> QED BY <1>0, <3>2
  <2>9. ~ At(t, "unregister")
    BY <2>1 DEF SettledTask, At
  <2> QED BY <2>2, <2>3, <2>4, <2>5, <2>6, <2>7, <2>8, <2>9
          DEF SendSteps, ResponseSteps, At
<1> QED BY <1>1, <1>2


LEMMA SettledOutside ==
    ASSUME NothingIsLost, FixedPool, TrackInv, TrackInv', SettledInv, UNCHANGED backends,
           \/ ReceiveSome
           \/ \E q \in Seqs : GrowOld(q) \/ CleanupStale(q)
           \/ \E e \in Requests : SendRequest(e)
           \/ PeerStep
           \/ UNCHANGED vars,
           NEW r \in Requests
    PROVE  Settled(r)'
<1> USE DEF tableVars, poolVars, netVars, peerVars
<1>0. Settled(r) /\ r.seq \in Seqs /\ TypeInv
  BY RequestFacts DEF SettledInv, TrackInv
<1>1. CASE ReceiveSome
  <2> PICK t \in Tasks, m \in inbox : Receive(t, m)
    BY <1>1 DEF ReceiveSome
  <2>1. /\ m.kind = "request" => m = RequestMsg(m.req)
        /\ m.kind # "request" => m = ResponseMsg(m.req, m.by) /\ m.kind = "response"
        /\ At(t, "idle")
        /\ \A x \in Tasks : x # t => task'[x] = task[x]
        /\ m.kind # "request" => task'[t].pc = "match" /\ task'[t].msg = m
        /\ inbox' = inbox \ {m}
        /\ UNCHANGED <<outbox, pending>>
    BY ReceiveFacts
  <2>2. ASSUME NEW x \in Tasks
        PROVE  /\ \A u \in Addr : /\ Sending(x, r, u) => Sending(x, r, u)'
                                  /\ Arrived(x, r, u) => Arrived(x, r, u)'
               /\ Counted(x, r) => Counted(x, r)' /\ task'[x].n = task[x].n
    <3>1. CASE x # t
      <4>1. task'[x] = task[x]
        BY <2>1, <3>1
      <4> QED BY <4>1 DEF Sending, Arrived, Carries, Counted, Reacting, At, Msg
    <3>2. CASE x = t
      BY <2>1, <3>2 DEF Sending, Arrived, Carries, Counted, Reacting, At
    <3> QED BY <3>1, <3>2
  <2>3. ASSUME NEW u \in Addr
        PROVE  /\ Underway(r, u) => Underway(r, u)'
               /\ Returning(r, u) => Returning(r, u)' \/ Arrived(t, r, u)'
    <3>1. CASE m = ResponseMsg(r, u)
      <4>1. m.kind # "request"
        BY <3>1 DEF ResponseMsg
      <4> QED BY <2>1, <3>1, <4>1 DEF Underway, Arrived, At, Msg
    <3>2. CASE m # ResponseMsg(r, u)
      BY <2>1, <3>2 DEF Underway, Returning
    <3> QED BY <3>1, <3>2
  <2>4. \A u \in Addr : Due(r, u) => Due(r, u)'
    BY <2>2, <2>3 DEF Due
  <2> QED BY <1>0, <2>1, <2>2, <2>4, SettledFrame DEF IsPending
<1>2. CASE \/ \E q \in Seqs : GrowOld(q) \/ CleanupStale(q)
           \/ UNCHANGED vars
  <2>1. UNCHANGED <<task, inbox, outbox>>
    BY <1>2 DEF GrowOld, CleanupStale, vars
  <2>2. \A u \in Addr : Due(r, u) => Due(r, u)'
    BY <2>1 DEF Due, Sending, Arrived, Underway, Returning, Carries, At, Msg
  <2>3. \A x \in Tasks : Counted(x, r) => Counted(x, r)' /\ task'[x].n = task[x].n
    BY <2>1 DEF Counted, Reacting, At, Msg
  <2>4. IsPending(r.seq)' =>
            /\ IsPending(r.seq)
            /\ pending'[r.seq].responses = pending[r.seq].responses
    <3>1. CASE \E q \in Seqs : GrowOld(q)
      <4> PICK q \in Seqs : GrowOld(q)
        BY <3>1
      <4>1. IsPending(q) /\ pending[q] \in RequestInfo
        BY <1>0, PendingIs DEF GrowOld, PendingGrowOld
      <4>2. pending'[r.seq] = IF r.seq = q THEN [pending[q] EXCEPT !.old = TRUE]
                                           ELSE pending[r.seq]
        BY <1>0, PendingIs DEF GrowOld
      <4>3. [pending[q] EXCEPT !.old = TRUE].responses = pending[q].responses
        BY <4>1 DEF RequestInfo
      <4> QED BY <4>1, <4>2, <4>3 DEF IsPending
    <3>2. CASE \E q \in Seqs : CleanupStale(q)
      <4> PICK q \in Seqs : CleanupStale(q)
        BY <3>2
      <4>1. pending'[r.seq] = IF r.seq = q THEN None ELSE pending[r.seq]
        BY <1>0, PendingIs DEF CleanupStale, PendingCleanup
      <4> QED BY <4>1 DEF IsPending
    <3>3. CASE UNCHANGED vars
      BY <3>3 DEF IsPending, vars
    <3> QED BY <1>2, <3>1, <3>2, <3>3
  <2> QED BY <1>0, <2>2, <2>3, <2>4, SettledFrame
<1>3. CASE \/ \E e \in Requests : SendRequest(e)
           \/ PeerStep
  <2>1. UNCHANGED <<task, pending>>
    BY <1>3 DEF SendRequest, PeerStep, PeerHandles, PeerGetsResponse
  <2>2. inbox \subseteq inbox'
    BY <1>3 DEF SendRequest, PeerStep, PeerHandles, PeerGetsResponse
  <2>3. \A x \in Tasks : /\ \A u \in Addr : /\ Sending(x, r, u) => Sending(x, r, u)'
                                            /\ Arrived(x, r, u) => Arrived(x, r, u)'
                         /\ Counted(x, r) => Counted(x, r)' /\ task'[x].n = task[x].n
    BY <2>1 DEF Sending, Arrived, Carries, Counted, Reacting, At, Msg
  <2>4. ASSUME r.type \in AnsweredTypes, NEW u \in Addr, Underway(r, u)
        PROVE  Underway(r, u)' \/ Returning(r, u)'
    <3> DEFINE d0 == [to |-> u, msg |-> RequestMsg(r)]
    <3>1. d0.msg.kind = "request" /\ d0.msg.req = r /\ d0.to = u /\ d0 \in outbox
      BY <2>4 DEF RequestMsg, Underway
    <3>2. CASE PeerHandles(d0)
      BY <2>4, <3>1, <3>2 DEF PeerHandles, Returning
    <3>3. CASE ~ PeerHandles(d0)
      <4>1. d0 \in outbox'
        <5> HIDE DEF d0
        <5> QED BY <1>3, <3>1, <3>3 DEF SendRequest, PeerStep, PeerHandles, PeerGetsResponse
      <4> QED BY <4>1 DEF Underway
    <3> QED BY <3>2, <3>3
  <2>5. r.type \in AnsweredTypes => \A u \in Addr : Due(r, u) => Due(r, u)'
    BY <2>2, <2>3, <2>4 DEF Due, Returning
  <2> QED BY <1>0, <2>1, <2>3, <2>5, SettledFrame DEF IsPending
<1> QED BY <1>1, <1>2, <1>3

LEMMA SettledInit == Init => SettledInv
<1>1. Init => /\ backends = InitialPool
              /\ \A t \in Tasks : task[t].pc = "idle"
              /\ \A q \in Seqs : ~ IsPending(q)
  BY DEF Init, UpfPoolInit, IdleTask, PendingInit, IsPending
<1> QED BY <1>1, RequestFacts DEF SettledInv, SettledTask, Settled

LEMMA SettledStep ==
    ASSUME OneRequestPerSeq, SentOnce, FixedPool, NothingIsLost,
           TrackInv, SettledInv, [Next]_vars
    PROVE  SettledInv'
<1>1. Unambiguous
  BY DEF Unambiguous, PoolGrows, FixedPool
<1>2. TrackInv'
  BY <1>1, TrackStep
<1>3. UNCHANGED backends /\ \A x \in Tasks : SettledTask(task[x])'
  BY SettledTasks
<1>4. ~ Lose /\ ~ \E c \in commands : ApplyCommand(c)
  BY DEF Lose, NothingIsLost, TrackInv, TypeInv, TypeOK, FixedPool
<1>5. \A r \in Requests : Settled(r)'
  BY <1>1, <1>2, <1>3, <1>4, SettledHandler, SettledOutside DEF Next, Wait
<1> QED BY <1>3, <1>5 DEF SettledInv

\* handle_response removes the entry of every request that is answered: with the
\* network at rest those left are of requests that no peer answers, when sequence
\* numbers are unique, requests are not sent again, the pool is fixed, and nothing
\* is lost.
THEOREM SettledCorrect ==
    ASSUME OneRequestPerSeq, SentOnce, FixedPool, NothingIsLost
    PROVE  Spec => []SettledEntriesLeave
<1>1. Init => TrackInv /\ SettledInv
  BY TrackInit, SettledInit
<1>2. TrackInv /\ SettledInv /\ [Next]_vars => (TrackInv /\ SettledInv)'
  <2>1. Unambiguous
    BY DEF Unambiguous, PoolGrows, FixedPool
  <2> QED BY <2>1, TrackStep, SettledStep
<1>3. TrackInv /\ SettledInv => SettledEntriesLeave
  <2> SUFFICES ASSUME TrackInv, SettledInv, Quiet, NEW q \in Seqs, IsPending(q),
                      NEW r \in Requests, r.seq = q, r.type \in AnsweredTypes
               PROVE  FALSE
    BY DEF SettledEntriesLeave, Seqs
  <2>1. \A u \in Addr : ~ Due(r, u)
    BY DEF Quiet, Due, Sending, Arrived, Underway, Returning, At
  <2>2. Outstanding(r) = {}
    BY <2>1 DEF Outstanding
  <2>3. Cardinality(Outstanding(r)) = 0
    BY <2>2, FS_EmptySet
  <2>4. pending[r.seq].responses \in Nat
    BY PendingIs DEF TrackInv, RequestInfo
  <2>5. \E t \in Tasks : Counted(t, r)
    BY <2>3, <2>4 DEF SettledInv, Settled
  <2> QED BY <2>5 DEF Quiet, Counted, Reacting
<1> QED BY <1>1, <1>2, <1>3, PTL DEF Spec

=============================================================================
