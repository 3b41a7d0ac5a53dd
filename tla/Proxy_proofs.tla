---------------------------- MODULE Proxy_proofs ----------------------------
(***************************************************************************)
(* Theorems about Proxy, for all values of its constants: any SMFs, UPFs,  *)
(* requests and pools, any number of concurrent tasks, retransmissions and *)
(* faults.                                                                 *)
(***************************************************************************)
EXTENDS ProxyProperties, FiniteSetTheorems, TLAPS

-----------------------------------------------------------------------------
(***************************************************************************)
(* Type correctness needs to know what a task holds at each step.          *)
(***************************************************************************)

\* A request arrives from the address that made it.
FromSource(m) == m.kind = "request" => m.by = m.req.src

\* The destination suits the message: a UPF, if it is an SMF's request.
Routed(k) == k.dest \in Addr /\ (IsSmfRequest(k.msg) => k.dest \in Upfs)

WellFormed(k) ==
    /\ k.pc # "idle" => k.msg \in Message /\ FromSource(k.msg)
    /\ k.pc \in RouteSteps => IsSmfRequest(k.msg)
    /\ k.pc \in {"owner", "register", "forward", "broadcast", "unregister"} =>
          k.msg.kind = "request"
    /\ k.pc = "owner" => ~ IsSmfRequest(k.msg)
    /\ k.pc \in {"lookup", "unmap", "owner"} => k.msg.req.seid \in Seids
    /\ k.pc \in {"turn", "count"} => k.hosts # << >>
    /\ k.pc \in {"lookup", "select", "count"} => k.dest \in Upfs \cup {None}
    /\ k.pc \in {"place", "unmap"} => k.dest \in Upfs
    /\ k.pc = "register" => k.is_broadcast \/ Routed(k)
    /\ k.pc = "forward" => Routed(k)
    /\ k.pc = "reply" => k.dest \in Addr
    /\ k.pc \in {"match", "reply"} => k.msg.kind = "response"

TypeInv ==
    /\ TypeOK
    /\ \A u \in Upfs : health[u] = "Unknown"
    /\ \A t \in Tasks : WellFormed(task[t])
    /\ \A m \in inbox : FromSource(m)
    /\ \A d \in outbox : IsSmfRequest(d.msg) => d.to \in Upfs

\* Each message type has one arm of route_message.
LEMMA TypesDisjoint ==
    /\ SmfRequestTypes \cap UpfRequestTypes = {}
    /\ BroadcastTypes \cap (EstablishmentTypes \cup AffinityTypes \cup OtherTypes) = {}
    /\ EstablishmentTypes \cap (AffinityTypes \cup OtherTypes) = {}
    /\ AffinityTypes \cap OtherTypes = {}
BY DEF SmfRequestTypes, UpfRequestTypes, BroadcastTypes, EstablishmentTypes,
       AffinityTypes, DeletionTypes, OtherTypes

\* What a request is, given the assumption on the constant.
LEMMA RequestFacts ==
    ASSUME NEW r \in Requests
    PROVE  /\ r.type \in SmfRequestTypes \cup UpfRequestTypes
           /\ r.seq \in Seqs
           /\ r.seid # None => r.seid \in Seids
           /\ r.src \in Addr
           /\ r.type \in SmfRequestTypes => r.src \in Smfs
           /\ r.type \in UpfRequestTypes => r.src \in Upfs
<1>1. r \in Request /\ r.src \in (IF r.type \in UpfRequestTypes THEN Upfs ELSE Smfs)
  BY RequestAssumption
<1> QED BY <1>1, TypesDisjoint DEF Request, Seqs, Seids, Addr

LEMMA ModRange ==
    \A a \in Nat, b \in Nat \ {0} : (a % b) + 1 \in 1 .. b
OBVIOUS

\* The number of sessions of a UPF is a number.
LEMMA CountType == \A u : CountByUpf(u) \in Nat
<1> DEFINE T == {r.seid : r \in Requests}
           f == [r \in Requests |-> r.seid]
<1>1. f \in Surjection(Requests, T)
  BY DEF Surjection
<1>2. IsFiniteSet(T)
  BY <1>1, RequestAssumption, FS_Surjection
<1>3. ASSUME NEW u PROVE CountByUpf(u) \in Nat
  <2>1. SessionsOf(u) \in SUBSET T
    BY DEF SessionsOf, Seids
  <2>2. IsFiniteSet(SessionsOf(u))
    BY <1>2, <2>1, FS_Subset
  <2> QED BY <2>2, FS_CardinalityType DEF CountByUpf
<1> QED BY <1>3

-----------------------------------------------------------------------------
\* A step of one task keeps the tasks well formed if it leaves that one so.
LEMMA TaskStep ==
    ASSUME NEW t \in Tasks, NEW new, new \in Task, WellFormed(new),
           task \in [Tasks -> Task],
           \A x \in Tasks : WellFormed(task[x]),
           Become(t, new)
    PROVE  /\ task' \in [Tasks -> Task]
           /\ \A x \in Tasks : WellFormed(task[x])'
<1>1. task' = [task EXCEPT ![t] = new]
  BY DEF Become
<1>2. \A x \in Tasks : task'[x] = IF x = t THEN new ELSE task[x]
  BY <1>1
<1>3. \A x \in Tasks : WellFormed(task'[x])
  BY <1>2
<1>4. \A x \in Tasks : WellFormed(task[x])' <=> WellFormed(task'[x])
  BY DEF WellFormed, Routed, FromSource, IsSmfRequest, Addr, Seids, Message
<1> QED BY <1>1, <1>3, <1>4

\* Goto changes one field.
LEMMA GotoIsBecome ==
    ASSUME NEW t \in Tasks, NEW pc, task \in [Tasks -> Task], Goto(t, pc)
    PROVE  Become(t, [task[t] EXCEPT !.pc = pc])
BY DEF Goto, Become

LEMMA IdleWellFormed == IdleTask \in Task /\ WellFormed(IdleTask)
BY DEF IdleTask, Task, Steps, WellFormed, RouteSteps, PoolSteps

-----------------------------------------------------------------------------
\* The operations of the components keep their types.
LEMMA RecordType ==
    ASSUME NEW C, StatisticsTypeOK, Record(C)
    PROVE  StatisticsTypeOK'
BY DEF Record, StatisticsTypeOK

LEMMA SessionTypes ==
    ASSUME SessionTableTypeOK, NEW s \in Seids
    PROVE  /\ \A u \in Upfs, a \in Smfs : SessionInsert(s, u, a) => SessionTableTypeOK'
           /\ SessionRemove(s) => SessionTableTypeOK'
           /\ HasSession(s) => sessions[s].upf \in Upfs /\ sessions[s].smf \in Smfs
BY DEF SessionTableTypeOK, SessionInsert, SessionRemove, SessionInfo, HasSession

LEMMA PendingTypes ==
    ASSUME PendingTypeOK, NEW q \in Seqs
    PROVE  /\ \A a \in Addr, b \in BOOLEAN : PendingInsert(q, a, b) => PendingTypeOK'
           /\ PendingRemove(q) => PendingTypeOK'
           /\ IsPending(q) /\ PendingIncrement(q) => PendingTypeOK'
           /\ PendingGrowOld(q) => PendingTypeOK'
           /\ PendingCleanup(q) => PendingTypeOK'
           /\ IsPending(q) => pending[q] \in RequestInfo
<1>1. ASSUME NEW e \in RequestInfo \cup {None}, pending' = [pending EXCEPT ![q] = e]
      PROVE  PendingTypeOK'
  BY <1>1 DEF PendingTypeOK
<1>2. \A a \in Addr, b \in BOOLEAN : PendingInsert(q, a, b) => PendingTypeOK'
  <2> SUFFICES ASSUME NEW a \in Addr, NEW b \in BOOLEAN, PendingInsert(q, a, b)
               PROVE  PendingTypeOK'
    OBVIOUS
  <2>1. [origin |-> a, is_broadcast |-> b, responses |-> 0, old |-> FALSE]
            \in RequestInfo
    BY DEF RequestInfo
  <2> QED BY <1>1, <2>1 DEF PendingInsert
<1>3. PendingRemove(q) => PendingTypeOK'
  BY <1>1 DEF PendingRemove
<1>4. IsPending(q) => pending[q] \in RequestInfo
  BY DEF PendingTypeOK, IsPending
<1>5. IsPending(q) /\ PendingIncrement(q) => PendingTypeOK'
  <2> SUFFICES ASSUME IsPending(q), PendingIncrement(q) PROVE PendingTypeOK'
    OBVIOUS
  <2>1. [pending[q] EXCEPT !.responses = @ + 1] \in RequestInfo
    BY <1>4 DEF RequestInfo
  <2>2. pending' = [pending EXCEPT ![q] = [pending[q] EXCEPT !.responses = @ + 1]]
    BY DEF PendingIncrement, PendingTypeOK
  <2> QED BY <1>1, <2>1, <2>2
<1>6. PendingGrowOld(q) => PendingTypeOK'
  <2> SUFFICES ASSUME PendingGrowOld(q) PROVE PendingTypeOK'
    OBVIOUS
  <2>1. [pending[q] EXCEPT !.old = TRUE] \in RequestInfo
    BY <1>4 DEF RequestInfo, PendingGrowOld
  <2>2. pending' = [pending EXCEPT ![q] = [pending[q] EXCEPT !.old = TRUE]]
    BY DEF PendingGrowOld, PendingTypeOK
  <2> QED BY <1>1, <2>1, <2>2
<1> QED BY <1>2, <1>3, <1>4, <1>5, <1>6 DEF PendingCleanup

\* What every step of a task has in common: its own record changes, it may
\* send its message, and the tables it touches keep their types.
LEMMA HandlerStep ==
    ASSUME TypeInv,
           NEW t \in Tasks, NEW new \in Task, WellFormed(new), Become(t, new),
           SessionTableTypeOK', PendingTypeOK', StatisticsTypeOK',
           nextIndex' \in 0 .. IndexRange - 1,
           UNCHANGED <<backends, strategy, health, inbox, commands, sends,
                       answered, handled, expired>>,
           \/ outbox' = outbox
           \/ \E a \in Addr : /\ Send(a, Msg(t))
                              /\ Msg(t) \in Message
                              /\ IsSmfRequest(Msg(t)) => a \in Upfs
    PROVE  TypeInv'
<1>1. task' \in [Tasks -> Task] /\ \A x \in Tasks : WellFormed(task[x])'
  BY TaskStep DEF TypeInv, TypeOK
<1>2. outbox' \subseteq Datagram
  BY DEF TypeInv, TypeOK, Send, Datagram
<1>3. \A d \in outbox' : IsSmfRequest(d.msg) => d.to \in Upfs
  BY DEF TypeInv, Send
<1>4. (\A d \in outbox : IsSmfRequest(d.msg) => d.to \in Upfs)'
  BY <1>3 DEF IsSmfRequest
<1>5. (\A m \in inbox : FromSource(m))'
  BY DEF TypeInv, FromSource
<1>6. TypeOK'
  BY <1>1, <1>2 DEF TypeInv, TypeOK, UpfPoolTypeOK
<1>7. (\A u \in Upfs : health[u] = "Unknown")'
  BY DEF TypeInv
<1> QED BY <1>1, <1>4, <1>5, <1>6, <1>7 DEF TypeInv

\* With no backend marked otherwise all of them are selectable.
LEMMA AllHealthy == TypeInv => HealthyBackends = backends
BY DEF TypeInv, HealthyBackends, Selectable

-----------------------------------------------------------------------------
\* What a task that is at work holds.
LEMMA BusyTask ==
    ASSUME TypeInv, NEW t \in Tasks, task[t].pc # "idle"
    PROVE  /\ task[t] \in Task
           /\ WellFormed(task[t])
           /\ Msg(t) = task[t].msg
           /\ Msg(t) \in Message
           /\ SeqNo(t) \in Seqs
           /\ Msg(t).by \in Addr
           /\ FromSource(Msg(t))
           /\ Msg(t).req \in Requests
<1>1. task[t] \in Task /\ WellFormed(task[t])
  BY DEF TypeInv, TypeOK
<1>2. Msg(t) = task[t].msg /\ Msg(t) \in Message /\ FromSource(Msg(t))
  BY <1>1 DEF WellFormed, Msg
<1> QED BY <1>1, <1>2, RequestFacts DEF Message, SeqNo, Msg

\* Where a received message starts suits its kind.
LEMMA FirstStepFacts ==
    ASSUME NEW m \in Message
    PROVE  LET pc == FirstStep(m)
           IN  /\ pc \in {"idle", "match", "owner", "fan_out", "select", "lookup"}
               /\ pc = "match" => m.kind = "response"
               /\ pc = "owner" => ~ IsSmfRequest(m) /\ m.kind = "request"
               /\ pc \in {"fan_out", "select", "lookup"} => IsSmfRequest(m)
               /\ pc \in {"owner", "lookup"} => m.req.seid \in Seids
<1>1. m.req \in Requests /\ m.kind \in {"request", "response"}
  BY DEF Message
<1>2. /\ m.req.type \in SmfRequestTypes \cup UpfRequestTypes
      /\ m.req.seid # None => m.req.seid \in Seids
  BY <1>1, RequestFacts
<1>3. CASE m.kind = "response"
  BY <1>3 DEF FirstStep
<1>4. CASE m.kind = "request"
  <2>1. m.kind # "response"
    BY <1>4
  <2>2. CASE m.req.type \in UpfRequestTypes
    <3>1. FirstStep(m) = IF m.req.seid # None THEN "owner" ELSE "idle"
      BY <2>1, <2>2, TypesDisjoint DEF FirstStep, SmfRequestTypes
    <3>2. ~ IsSmfRequest(m)
      BY <2>2, TypesDisjoint DEF IsSmfRequest
    <3> QED BY <1>2, <1>4, <3>1, <3>2
  <2>3. CASE m.req.type \in SmfRequestTypes
    <3>1. /\ IsSmfRequest(m)
          /\ m.req.type \notin UpfRequestTypes
      BY <1>4, <2>3, TypesDisjoint DEF IsSmfRequest
    <3>2. CASE m.req.type \in BroadcastTypes
      <4>1. FirstStep(m) = "fan_out"
        BY <2>1, <3>1, <3>2, TypesDisjoint DEF FirstStep
      <4> QED BY <1>2, <3>1, <4>1
    <3>3. CASE m.req.type \in EstablishmentTypes
      <4>1. FirstStep(m) = "select"
        BY <2>1, <3>1, <3>3, TypesDisjoint DEF FirstStep
      <4> QED BY <1>2, <3>1, <4>1
    <3>4. CASE m.req.type \in AffinityTypes
      <4>1. FirstStep(m) = IF m.req.seid # None THEN "lookup" ELSE "idle"
        BY <2>1, <3>1, <3>4, TypesDisjoint DEF FirstStep
      <4> QED BY <1>2, <3>1, <4>1
    <3>5. CASE m.req.type \in OtherTypes
      <4>1. FirstStep(m) = IF m.req.seid # None THEN "lookup" ELSE "select"
        BY <2>1, <3>1, <3>5, TypesDisjoint DEF FirstStep
      <4> QED BY <1>2, <3>1, <4>1
    <3> QED BY <2>3, <3>2, <3>3, <3>4, <3>5 DEF SmfRequestTypes
  <2> QED BY <1>2, <2>2, <2>3
<1> QED BY <1>1, <1>3, <1>4

-----------------------------------------------------------------------------
\* Every action of a handler task preserves the invariant.
LEMMA HandlerTypes ==
    ASSUME TypeInv, NEW t \in Tasks, HandleMessage(t)
    PROVE  TypeInv'
<1> DEFINE k == task[t]
<1> USE DEF tableVars, poolVars, netVars, peerVars
<1>0. task \in [Tasks -> Task] /\ SessionTableTypeOK /\ PendingTypeOK
      /\ UpfPoolTypeOK /\ StatisticsTypeOK /\ nextIndex \in 0 .. IndexRange - 1
  BY DEF TypeInv, TypeOK, UpfPoolTypeOK
<1>u. /\ UNCHANGED sessions => SessionTableTypeOK'
      /\ UNCHANGED pending => PendingTypeOK'
      /\ UNCHANGED stats => StatisticsTypeOK'
      /\ UNCHANGED nextIndex => nextIndex' \in 0 .. IndexRange - 1
  BY <1>0 DEF SessionTableTypeOK, PendingTypeOK, StatisticsTypeOK
<1>i. ASSUME Finish(t) PROVE Become(t, IdleTask)
  BY <1>i DEF Finish
<1>g. ASSUME NEW pc, Goto(t, pc) PROVE Become(t, [k EXCEPT !.pc = pc])
  BY <1>0, <1>g, GotoIsBecome
<1>1. ASSUME FanOut(t) PROVE TypeInv'
  <2> DEFINE new == [k EXCEPT !.pc = "register", !.hosts = backends,
                              !.is_broadcast = TRUE]
  <2>1. k.pc = "fan_out"
    BY <1>1 DEF FanOut, At
  <2>2. k \in Task /\ WellFormed(k)
    BY <2>1, BusyTask
  <2>3. new \in Task
    BY <1>0, <2>2 DEF Task, UpfPoolTypeOK, Steps, SendSteps
  <2>4. WellFormed(new)
    BY <2>1, <2>2 DEF WellFormed, Task, RouteSteps, PoolSteps, IsSmfRequest
  <2> QED BY <1>0, <1>1, <1>u, <2>3, <2>4, HandlerStep, RecordType DEF FanOut
<1>2. ASSUME Select(t) PROVE TypeInv'
  <2>1. k.pc = "select"
    BY <1>2 DEF Select, At
  <2>2. k \in Task /\ WellFormed(k)
    BY <2>1, BusyTask
  <2>3. HealthyBackends = backends
    BY AllHealthy
  <2>4. CASE backends = << >>
    BY <1>2, <1>i, <1>u, <2>3, <2>4, IdleWellFormed, HandlerStep DEF Select
  <2>5. CASE backends # << >>
    <3> DEFINE new == [k EXCEPT
           !.pc = IF strategy = "least-sessions" THEN "count" ELSE "turn",
           !.hosts = backends]
    <3>1. new \in Task
      BY <1>0, <2>2 DEF Task, UpfPoolTypeOK, Steps, RouteSteps, PoolSteps
    <3>2. new.pc \in {"count", "turn"}
      BY <2>2 DEF Task
    <3>3. new.hosts # << >> /\ new.msg = k.msg /\ new.dest = k.dest
      BY <2>2, <2>5 DEF Task
    <3>4. WellFormed(new)
      BY <2>1, <2>2, <3>2, <3>3 DEF WellFormed, RouteSteps, PoolSteps
    <3>5. Become(t, new)
      BY <1>2, <2>3, <2>5 DEF Select
    <3> QED BY <1>2, <1>u, <3>1, <3>4, <3>5, HandlerStep DEF Select
  <2> QED BY <2>4, <2>5
<1>3. ASSUME Turn(t) PROVE TypeInv'
  <2> DEFINE u == BackendAtTurn(k.hosts)
             new == [k EXCEPT !.pc = "place", !.hosts = << >>, !.dest = u]
  <2>1. k.pc = "turn"
    BY <1>3 DEF Turn, At
  <2>2. k \in Task /\ WellFormed(k)
    BY <2>1, BusyTask
  <2>3. k.hosts \in Seq(Upfs) /\ k.hosts # << >>
    BY <2>1, <2>2 DEF Task, WellFormed
  <2>4. u \in Upfs
    <3>1. nextIndex \in Nat /\ Len(k.hosts) \in Nat \ {0}
      BY <1>0, <2>3, PoolAssumption
    <3>2. (nextIndex % Len(k.hosts)) + 1 \in 1 .. Len(k.hosts)
      BY <3>1, ModRange
    <3> QED BY <2>3, <3>2 DEF BackendAtTurn
  <2> HIDE DEF u
  <2>5. new \in Task
    <3>1. << >> \in Seq(Upfs) /\ "place" \in Steps /\ u \in Addr
      BY <2>4 DEF Steps, RouteSteps, Addr
    <3> QED BY <2>2, <3>1 DEF Task
  <2>6. WellFormed(new)
    BY <2>1, <2>2, <2>4 DEF WellFormed, Task, RouteSteps, PoolSteps
  <2>7. nextIndex' \in 0 .. IndexRange - 1
    BY <1>0, <1>3, PoolAssumption DEF Turn, TakeTurn
  <2>8. Become(t, new)
    BY <1>3 DEF Turn, u
  <2> QED BY <1>3, <1>u, <2>5, <2>6, <2>7, <2>8, HandlerStep DEF Turn
<1>4. ASSUME CountBackend(t) PROVE TypeInv'
  <2> DEFINE u == Head(k.hosts)
             rest == Tail(k.hosts)
             less == k.dest = None \/ CountByUpf(u) < k.n
             new == [k EXCEPT
                !.pc = IF rest = << >> THEN "place" ELSE "count",
                !.hosts = rest,
                !.dest = IF less THEN u ELSE @,
                !.n = IF less THEN CountByUpf(u) ELSE @]
  <2>1. k.pc = "count"
    BY <1>4 DEF CountBackend, At
  <2>2. k \in Task /\ WellFormed(k)
    BY <2>1, BusyTask
  <2>3. k.hosts \in Seq(Upfs) /\ k.hosts # << >>
    BY <2>1, <2>2 DEF Task, WellFormed
  <2>4. u \in Upfs /\ rest \in Seq(Upfs)
    BY <2>3
  <2>5. k.dest \in Upfs \cup {None}
    BY <2>1, <2>2 DEF WellFormed
  <2>6. CountByUpf(u) \in Nat
    BY CountType
  <2> HIDE DEF u, rest
  <2>7. new \in Task
    BY <2>2, <2>4, <2>6 DEF Task, Steps, RouteSteps, PoolSteps, Addr
  <2>8. new.dest \in Upfs /\ new.msg = k.msg /\ new.hosts = rest
        /\ new.pc = (IF rest = << >> THEN "place" ELSE "count")
    BY <2>2, <2>4, <2>5 DEF Task
  <2>9. WellFormed(new)
    BY <2>1, <2>2, <2>8 DEF WellFormed, RouteSteps, PoolSteps
  <2>10. Become(t, new)
    BY <1>4 DEF CountBackend, u, rest
  <2> QED BY <1>4, <1>u, <2>7, <2>9, <2>10, HandlerStep DEF CountBackend
<1>5. ASSUME Place(t) PROVE TypeInv'
  <2> DEFINE m == k.msg
             new == [k EXCEPT !.pc = "register"]
  <2>1. k.pc = "place"
    BY <1>5 DEF Place, At
  <2>2. k \in Task /\ WellFormed(k) /\ Msg(t) = m /\ m \in Message /\ FromSource(m)
    BY <2>1, BusyTask
  <2>3. IsSmfRequest(m) /\ k.dest \in Upfs
    BY <2>1, <2>2 DEF WellFormed, RouteSteps
  <2>4. m.by \in Smfs /\ (m.req.seid # None => m.req.seid \in Seids)
    BY <2>2, <2>3, RequestFacts DEF Message, FromSource, IsSmfRequest
  <2>5. new \in Task /\ new.pc = "register" /\ new.msg = k.msg /\ new.dest = k.dest
    BY <2>2 DEF Task, Steps, SendSteps
  <2>6. WellFormed(new)
    BY <2>2, <2>3, <2>5
       DEF WellFormed, Routed, RouteSteps, PoolSteps, Addr, IsSmfRequest
  <2>7. SessionTableTypeOK'
    BY <1>0, <1>5, <1>u, <2>2, <2>3, <2>4, SessionTypes DEF Place, Seid
  <2>8. Become(t, new) /\ StatisticsTypeOK'
    BY <1>0, <1>5, <1>g, RecordType DEF Place
  <2> QED BY <1>5, <1>u, <2>5, <2>6, <2>7, <2>8, HandlerStep DEF Place
<1>6. ASSUME LookupFound(t) PROVE TypeInv'
  <2> DEFINE pc == IF k.msg.req.type \in DeletionTypes THEN "unmap" ELSE "register"
             u == sessions[k.msg.req.seid].upf
             new == [k EXCEPT !.pc = pc, !.dest = u]
  <2>1. k.pc = "lookup"
    BY <1>6 DEF LookupFound, At
  <2>2. k \in Task /\ WellFormed(k) /\ Msg(t) = k.msg
    BY <2>1, BusyTask
  <2>3. k.msg.req.seid \in Seids /\ IsSmfRequest(k.msg)
    BY <2>1, <2>2 DEF WellFormed, RouteSteps
  <2>4. u \in Upfs
    BY <1>0, <1>6, <2>2, <2>3, SessionTypes DEF LookupFound, Seid
  <2>5. Become(t, new) /\ StatisticsTypeOK'
    BY <1>0, <1>6, <2>2, RecordType DEF LookupFound, Seid
  <2> HIDE DEF u
  <2>6. pc \in {"unmap", "register"}
    OBVIOUS
  <2> HIDE DEF pc
  <2>7. new \in Task /\ new.pc = pc /\ new.msg = k.msg /\ new.dest = u
    BY <2>2, <2>4, <2>6 DEF Task, Steps, RouteSteps, SendSteps, Addr
  <2>8. WellFormed(new)
    BY <2>1, <2>2, <2>3, <2>4, <2>6, <2>7
       DEF WellFormed, Routed, RouteSteps, PoolSteps, Addr, IsSmfRequest
  <2> QED BY <1>6, <1>u, <2>5, <2>7, <2>8, HandlerStep DEF LookupFound
<1>7. ASSUME LookupMissed(t) PROVE TypeInv'
  <2> DEFINE new == [k EXCEPT !.pc = "select"]
  <2>1. k.pc = "lookup"
    BY <1>7 DEF LookupMissed, At
  <2>2. k \in Task /\ WellFormed(k)
    BY <2>1, BusyTask
  <2>3. new \in Task /\ new.pc = "select" /\ new.msg = k.msg /\ new.dest = k.dest
    BY <2>2 DEF Task, Steps, RouteSteps, PoolSteps
  <2>4. WellFormed(new)
    BY <2>1, <2>2, <2>3 DEF WellFormed, RouteSteps, PoolSteps
  <2>5. CASE Finish(t)
    BY <1>7, <1>i, <1>u, <2>5, IdleWellFormed, HandlerStep DEF LookupMissed
  <2>6. CASE Goto(t, "select")
    BY <1>7, <1>g, <1>u, <2>3, <2>4, <2>6, HandlerStep DEF LookupMissed
  <2> QED BY <1>7, <2>5, <2>6 DEF LookupMissed
<1>8. ASSUME Unmap(t) PROVE TypeInv'
  <2> DEFINE new == [k EXCEPT !.pc = "register"]
  <2>1. k.pc = "unmap"
    BY <1>8 DEF Unmap, At
  <2>2. k \in Task /\ WellFormed(k) /\ Msg(t) = k.msg
    BY <2>1, BusyTask
  <2>3. k.msg.req.seid \in Seids /\ k.dest \in Upfs /\ IsSmfRequest(k.msg)
    BY <2>1, <2>2 DEF WellFormed, RouteSteps
  <2>4. new \in Task /\ new.pc = "register" /\ new.msg = k.msg /\ new.dest = k.dest
    BY <2>2 DEF Task, Steps, SendSteps
  <2>5. WellFormed(new)
    BY <2>1, <2>2, <2>3, <2>4
       DEF WellFormed, Routed, RouteSteps, PoolSteps, Addr, IsSmfRequest
  <2>6. SessionTableTypeOK'
    BY <1>0, <1>8, <2>2, <2>3, SessionTypes DEF Unmap, Seid
  <2> QED BY <1>8, <1>g, <1>u, <2>4, <2>5, <2>6, HandlerStep DEF Unmap
<1>9. ASSUME OwnerOf(t) PROVE TypeInv'
  <2> DEFINE a == sessions[k.msg.req.seid].smf
             new == [k EXCEPT !.pc = "register", !.dest = a]
  <2>1. k.pc = "owner"
    BY <1>9 DEF OwnerOf, At
  <2>2. k \in Task /\ WellFormed(k) /\ Msg(t) = k.msg
    BY <2>1, BusyTask
  <2>3. CASE Finish(t)
    BY <1>9, <1>i, <1>u, <2>3, IdleWellFormed, HandlerStep DEF OwnerOf
  <2>4. ASSUME HasSession(k.msg.req.seid), Become(t, new) PROVE TypeInv'
    <3>1. a \in Smfs
      BY <1>0, <2>1, <2>2, <2>4, SessionTypes DEF WellFormed
    <3> HIDE DEF a
    <3>2. ~ IsSmfRequest(k.msg)
      BY <2>1, <2>2 DEF WellFormed
    <3>3. new \in Task /\ new.pc = "register" /\ new.msg = k.msg /\ new.dest = a
      BY <2>2, <3>1 DEF Task, Steps, SendSteps, Addr
    <3>4. WellFormed(new)
      BY <2>1, <2>2, <3>1, <3>2, <3>3
         DEF WellFormed, Routed, RouteSteps, PoolSteps, Addr
    <3> QED BY <1>9, <1>u, <2>4, <3>3, <3>4, HandlerStep DEF OwnerOf
  <2> QED BY <1>9, <2>2, <2>3, <2>4 DEF OwnerOf, Seid
<1>10. ASSUME Register(t) PROVE TypeInv'
  <2> DEFINE pc == IF k.is_broadcast THEN "broadcast" ELSE "forward"
             new == [k EXCEPT !.pc = pc, !.n = 0]
  <2>1. k.pc = "register"
    BY <1>10 DEF Register, At
  <2>2. /\ k \in Task /\ WellFormed(k) /\ Msg(t) = k.msg
        /\ SeqNo(t) \in Seqs /\ Msg(t).by \in Addr
    BY <2>1, BusyTask
  <2>3. k.is_broadcast \in BOOLEAN /\ (k.is_broadcast \/ Routed(k))
    BY <2>1, <2>2 DEF Task, WellFormed
  <2>4. PendingTypeOK'
    BY <1>0, <1>10, <2>2, <2>3, PendingTypes DEF Register
  <2>5. /\ new \in Task /\ new.pc = pc /\ new.msg = k.msg /\ new.dest = k.dest
        /\ pc \in {"broadcast", "forward"}
    BY <2>2 DEF Task, Steps, SendSteps
  <2>6. pc = "forward" => Routed(new)
    BY <2>3, <2>5 DEF Routed
  <2> HIDE DEF pc
  <2>7. WellFormed(new)
    BY <2>1, <2>2, <2>5, <2>6 DEF WellFormed, RouteSteps, PoolSteps
  <2>8. Become(t, new)
    BY <1>10 DEF Register, pc
  <2> QED BY <1>10, <1>u, <2>4, <2>5, <2>7, <2>8, HandlerStep DEF Register
<1>11. ASSUME Forward(t) PROVE TypeInv'
  <2>1. k.pc = "forward"
    BY <1>11 DEF Forward, At
  <2>2. WellFormed(k) /\ Msg(t) = k.msg /\ Msg(t) \in Message
    BY <2>1, BusyTask
  <2>3. k.dest \in Addr /\ (IsSmfRequest(Msg(t)) => k.dest \in Upfs)
    BY <2>1, <2>2 DEF WellFormed, Routed
  <2>4. StatisticsTypeOK'
    BY <1>0, <1>11, <1>u, RecordType DEF Forward
  <2> QED BY <1>11, <1>i, <1>u, <2>2, <2>3, <2>4, IdleWellFormed, HandlerStep
          DEF Forward
<1>12. ASSUME NEW pc \in {"unregister", "retire", "tally"}, k.pc # "idle",
              pc = "unregister" => k.pc \in {"forward", "broadcast"}
       PROVE  [k EXCEPT !.pc = pc] \in Task /\ WellFormed([k EXCEPT !.pc = pc])
  <2>1. k \in Task /\ WellFormed(k)
    BY <1>12, BusyTask
  <2>2. /\ [k EXCEPT !.pc = pc] \in Task
        /\ [k EXCEPT !.pc = pc].pc = pc /\ [k EXCEPT !.pc = pc].msg = k.msg
    BY <2>1 DEF Task, Steps, SendSteps, ResponseSteps
  <2> QED BY <1>12, <2>1, <2>2 DEF WellFormed, RouteSteps, PoolSteps
<1>13. ASSUME ForwardFails(t) PROVE TypeInv'
  <2>1. k.pc = "forward"
    BY <1>13 DEF ForwardFails, At
  <2> QED BY <1>12, <1>13, <1>g, <1>u, <2>1, HandlerStep DEF ForwardFails
<1>14. ASSUME BroadcastOne(t) PROVE TypeInv'
  <2> DEFINE new == [k EXCEPT !.hosts = Tail(@), !.n = @ + 1]
  <2>1. k.pc = "broadcast" /\ k.hosts # << >>
    BY <1>14 DEF BroadcastOne, At
  <2>2. k \in Task /\ WellFormed(k) /\ Msg(t) = k.msg /\ Msg(t) \in Message
    BY <2>1, BusyTask
  <2>3. Head(k.hosts) \in Upfs /\ Tail(k.hosts) \in Seq(Upfs)
    BY <2>1, <2>2 DEF Task
  <2>4. new \in Task /\ new.pc = "broadcast" /\ new.msg = k.msg
    <3>1. k.n + 1 \in Nat
      BY <2>2 DEF Task
    <3> QED BY <2>1, <2>2, <2>3, <3>1 DEF Task
  <2>5. WellFormed(new)
    BY <2>1, <2>2, <2>4 DEF WellFormed, RouteSteps, PoolSteps
  <2>6. Head(k.hosts) \in Addr
    BY <2>3 DEF Addr
  <2>7. StatisticsTypeOK'
    BY <1>0, <1>14, RecordType DEF BroadcastOne
  <2>8. Become(t, new) /\ Send(Head(k.hosts), Msg(t))
    BY <1>14 DEF BroadcastOne
  <2> QED BY <1>14, <1>u, <2>2, <2>3, <2>4, <2>5, <2>6, <2>7, <2>8, HandlerStep
          DEF BroadcastOne
<1>15. ASSUME BroadcastOneFails(t) PROVE TypeInv'
  <2> DEFINE new == [k EXCEPT !.hosts = Tail(@)]
  <2>1. k.pc = "broadcast" /\ k.hosts # << >>
    BY <1>15 DEF BroadcastOneFails, At
  <2>2. k \in Task /\ WellFormed(k)
    BY <2>1, BusyTask
  <2>3. Tail(k.hosts) \in Seq(Upfs)
    BY <2>1, <2>2 DEF Task
  <2>4. new \in Task /\ new.pc = "broadcast" /\ new.msg = k.msg
    BY <2>1, <2>2, <2>3 DEF Task
  <2>5. WellFormed(new)
    BY <2>1, <2>2, <2>4 DEF WellFormed, RouteSteps, PoolSteps
  <2> QED BY <1>15, <1>u, <2>4, <2>5, HandlerStep DEF BroadcastOneFails
<1>16. ASSUME EndBroadcast(t) PROVE TypeInv'
  <2>1. k.pc = "broadcast"
    BY <1>16 DEF EndBroadcast, At
  <2>2. CASE Finish(t)
    BY <1>16, <1>i, <1>u, <2>2, IdleWellFormed, HandlerStep DEF EndBroadcast
  <2>3. CASE Goto(t, "unregister")
    BY <1>12, <1>16, <1>g, <1>u, <2>1, <2>3, HandlerStep DEF EndBroadcast
  <2> QED BY <1>16, <2>2, <2>3 DEF EndBroadcast
<1>17. ASSUME Unregister(t) \/ Retire(t) PROVE TypeInv'
  <2>1. k.pc # "idle" /\ PendingRemove(SeqNo(t)) /\ Finish(t)
    BY <1>17 DEF Unregister, Retire, At
  <2>2. PendingTypeOK'
    BY <1>0, <2>1, BusyTask, PendingTypes
  <2> QED BY <1>17, <1>i, <1>u, <2>1, <2>2, IdleWellFormed, HandlerStep
          DEF Unregister, Retire
<1>18. ASSUME MatchFound(t) PROVE TypeInv'
  <2> DEFINE info == pending[SeqNo(t)]
             new == [k EXCEPT
                !.pc = "reply", !.dest = info.origin, !.n = info.responses + 1,
                !.is_broadcast = info.is_broadcast]
  <2>1. k.pc = "match"
    BY <1>18 DEF MatchFound, At
  <2>2. k \in Task /\ WellFormed(k) /\ SeqNo(t) \in Seqs
    BY <2>1, BusyTask
  <2>3. info \in RequestInfo /\ PendingTypeOK'
    BY <1>0, <1>18, <2>2, PendingTypes DEF MatchFound
  <2>4. Become(t, new)
    BY <1>18 DEF MatchFound
  <2> HIDE DEF info
  <2>5. new \in Task /\ new.pc = "reply" /\ new.msg = k.msg /\ new.dest \in Addr
    <3>1. /\ info.origin \in Addr /\ info.is_broadcast \in BOOLEAN
          /\ info.responses + 1 \in Nat
      BY <2>3 DEF RequestInfo
    <3>2. "reply" \in Steps
      BY DEF Steps, ResponseSteps
    <3> HIDE DEF new
    <3>3. new = [k EXCEPT !.pc = "reply", !.dest = info.origin,
                          !.n = info.responses + 1,
                          !.is_broadcast = info.is_broadcast]
      BY DEF new
    <3> QED BY <2>2, <3>1, <3>2, <3>3 DEF Task
  <2>6. WellFormed(new)
    BY <2>1, <2>2, <2>5 DEF WellFormed, RouteSteps, PoolSteps
  <2> QED BY <1>18, <1>u, <2>3, <2>4, <2>5, <2>6, HandlerStep DEF MatchFound
<1>19. ASSUME MatchMissed(t) PROVE TypeInv'
  BY <1>0, <1>19, <1>i, <1>u, IdleWellFormed, RecordType, HandlerStep
     DEF MatchMissed
<1>20. ASSUME Reply(t) PROVE TypeInv'
  <2> DEFINE pc == IF k.is_broadcast THEN "tally" ELSE "retire"
  <2>1. k.pc = "reply"
    BY <1>20 DEF Reply, At
  <2>2. WellFormed(k) /\ Msg(t) = k.msg /\ Msg(t) \in Message
    BY <2>1, BusyTask
  <2>3. k.dest \in Addr /\ ~ IsSmfRequest(Msg(t))
    BY <2>1, <2>2 DEF WellFormed, IsSmfRequest
  <2>4. StatisticsTypeOK' /\ Goto(t, pc) /\ pc \in {"tally", "retire"}
    BY <1>0, <1>20, RecordType DEF Reply
  <2> HIDE DEF pc
  <2>5. [k EXCEPT !.pc = pc] \in Task /\ WellFormed([k EXCEPT !.pc = pc])
    BY <1>12, <2>1, <2>4
  <2> QED BY <1>20, <1>g, <1>u, <2>2, <2>3, <2>4, <2>5, HandlerStep DEF Reply
<1>21. ASSUME ReplyFails(t) PROVE TypeInv'
  BY <1>21, <1>i, <1>u, IdleWellFormed, HandlerStep DEF ReplyFails
<1>22. ASSUME Tally(t) PROVE TypeInv'
  <2>1. k.pc = "tally"
    BY <1>22 DEF Tally, At
  <2>2. CASE Finish(t)
    BY <1>22, <1>i, <1>u, <2>2, IdleWellFormed, HandlerStep DEF Tally
  <2>3. CASE Goto(t, "retire")
    BY <1>12, <1>22, <1>g, <1>u, <2>1, <2>3, HandlerStep DEF Tally
  <2> QED BY <1>22, <2>2, <2>3 DEF Tally
<1> QED
  BY <1>1, <1>2, <1>3, <1>4, <1>5, <1>6, <1>7, <1>8, <1>9, <1>10, <1>11, <1>13,
     <1>14, <1>15, <1>16, <1>17, <1>18, <1>19, <1>20, <1>21, <1>22
     DEF HandleMessage

-----------------------------------------------------------------------------
\* A backend taken out of the pool leaves a sequence of backends.
LEMMA RemoveAtType ==
    ASSUME NEW s \in Seq(Upfs), NEW i \in 1 .. Len(s)
    PROVE  RemoveAt(s, i) \in Seq(Upfs)
<1>1. SubSeq(s, 1, i - 1) \in Seq(Upfs) /\ SubSeq(s, i + 1, Len(s)) \in Seq(Upfs)
  OBVIOUS
<1> QED BY <1>1 DEF RemoveAt

\* What a step of the network, a peer or another task of the proxy keeps.
LEMMA OutsideStep ==
    ASSUME TypeInv,
           UNCHANGED <<sessions, stats, task>>,
           PendingTypeOK', UpfPoolTypeOK',
           \A u \in Upfs : health'[u] = "Unknown",
           inbox' \subseteq Message, \A m \in inbox' : FromSource(m),
           outbox' \subseteq outbox,
           commands' \subseteq Commands, sends' \in [Requests -> Nat],
           answered' \subseteq Answer, handled' \subseteq Handled,
           expired' \subseteq Seqs
    PROVE  TypeInv'
<1>1. (\A t \in Tasks : WellFormed(task[t]))'
  BY DEF TypeInv, WellFormed, Routed, FromSource, IsSmfRequest
<1>2. (\A d \in outbox : IsSmfRequest(d.msg) => d.to \in Upfs)'
  BY DEF TypeInv, IsSmfRequest
<1>3. (\A m \in inbox : FromSource(m))'
  BY DEF FromSource
<1>4. outbox' \subseteq Datagram /\ task' \in [Tasks -> Task]
  BY DEF TypeInv, TypeOK
<1>5. SessionTableTypeOK' /\ StatisticsTypeOK'
  BY DEF TypeInv, TypeOK, SessionTableTypeOK, StatisticsTypeOK
<1>6. TypeOK'
  BY <1>4, <1>5 DEF TypeOK
<1> QED BY <1>1, <1>2, <1>3, <1>6 DEF TypeInv

LEMMA InitTypes == Init => TypeInv
<1> SUFFICES ASSUME Init PROVE TypeInv
  OBVIOUS
<1>1. SessionTableTypeOK /\ PendingTypeOK /\ StatisticsTypeOK
  BY DEF Init, SessionTableInit, SessionTableTypeOK, PendingInit, PendingTypeOK,
         StatisticsInit, StatisticsTypeOK
<1>2. UpfPoolTypeOK /\ \A u \in Upfs : health[u] = "Unknown"
  BY PoolAssumption DEF Init, UpfPoolInit, UpfPoolTypeOK, HealthStatus
<1>3. task \in [Tasks -> Task] /\ \A t \in Tasks : WellFormed(task[t])
  BY IdleWellFormed DEF Init
<1>4. TypeOK
  BY <1>1, <1>2, <1>3 DEF Init, TypeOK
<1> QED BY <1>2, <1>3, <1>4 DEF Init, TypeInv

LEMMA ReceiveTypes ==
    ASSUME TypeInv, NEW t \in Tasks, NEW m \in inbox, Receive(t, m)
    PROVE  TypeInv'
<1> DEFINE new == [IdleTask EXCEPT !.pc = FirstStep(m), !.msg = m]
<1>1. m \in Message /\ FromSource(m) /\ task \in [Tasks -> Task]
  BY DEF TypeInv, TypeOK
<1>2. /\ FirstStep(m) \in Steps /\ new \in Task
      /\ new.pc = FirstStep(m) /\ new.msg = m /\ new.dest = None
  BY <1>1, FirstStepFacts, IdleWellFormed
     DEF IdleTask, Task, Steps, RouteSteps, PoolSteps, ResponseSteps
<1>3. WellFormed(new)
  BY <1>1, <1>2, FirstStepFacts DEF WellFormed, RouteSteps, PoolSteps
<1>4. task' \in [Tasks -> Task] /\ \A x \in Tasks : WellFormed(task[x])'
  <2>1. CASE UNCHANGED task
    BY <2>1 DEF TypeInv, TypeOK, WellFormed, Routed, FromSource, IsSmfRequest
  <2>2. CASE Become(t, new)
    BY <1>2, <1>3, <2>2, TaskStep DEF TypeInv, TypeOK
  <2> QED BY <2>1, <2>2 DEF Receive
<1>5. StatisticsTypeOK'
  BY RecordType DEF TypeInv, TypeOK, Receive
<1>6. inbox' \subseteq inbox /\ outbox' = outbox
  BY DEF Receive
<1>7. /\ (\A x \in inbox : FromSource(x))'
      /\ (\A d \in outbox : IsSmfRequest(d.msg) => d.to \in Upfs)'
  BY <1>6 DEF TypeInv, FromSource, IsSmfRequest
<1>8. TypeOK'
  BY <1>4, <1>5, <1>6 DEF Receive, TypeInv, TypeOK, tableVars, poolVars, peerVars,
     SessionTableTypeOK, PendingTypeOK, UpfPoolTypeOK
<1> QED BY <1>4, <1>7, <1>8 DEF TypeInv, Receive, poolVars

\* The cleanup task, the control commands, the peers and the network.
LEMMA OutsideTypes ==
    ASSUME TypeInv,
           \/ \E q \in Seqs : GrowOld(q) \/ CleanupStale(q)
           \/ \E c \in commands : ApplyCommand(c)
           \/ \E r \in Requests : SendRequest(r)
           \/ PeerStep
           \/ Lose
    PROVE  TypeInv'
<1> USE DEF tableVars, poolVars, netVars, peerVars
<1>0. /\ PendingTypeOK /\ UpfPoolTypeOK
      /\ \A u \in Upfs : health[u] = "Unknown"
      /\ inbox \subseteq Message /\ \A m \in inbox : FromSource(m)
      /\ outbox \subseteq Datagram
      /\ \A d \in outbox : IsSmfRequest(d.msg) => d.to \in Upfs
      /\ commands \subseteq Commands
      /\ sends \in [Requests -> Nat]
      /\ answered \subseteq Answer
      /\ handled \subseteq Handled
      /\ expired \subseteq Seqs
  BY DEF TypeInv, TypeOK
<1>p. UNCHANGED pending => PendingTypeOK'
  BY <1>0 DEF PendingTypeOK
<1>q. UNCHANGED poolVars => /\ UpfPoolTypeOK'
                            /\ \A u \in Upfs : health'[u] = "Unknown"
  BY <1>0 DEF UpfPoolTypeOK
<1>1. ASSUME NEW q \in Seqs, GrowOld(q) \/ CleanupStale(q) PROVE TypeInv'
  <2>1. PendingTypeOK'
    BY <1>0, <1>1, PendingTypes DEF GrowOld, CleanupStale
  <2>2. expired' \subseteq Seqs
    BY <1>0, <1>1 DEF GrowOld, CleanupStale
  <2> QED BY <1>0, <1>1, <1>q, <2>1, <2>2, OutsideStep DEF GrowOld, CleanupStale
<1>2. ASSUME NEW c \in commands, ApplyCommand(c) PROVE TypeInv'
  <2>1. c[2] \in Upfs
    BY <1>0, ProxyAssumption
  <2>2. backends \in Seq(Upfs)
    BY <1>0 DEF UpfPoolTypeOK
  <2>3. UpfPoolTypeOK' /\ \A u \in Upfs : health'[u] = "Unknown"
    <3>1. CASE UNCHANGED poolVars
      BY <1>q, <3>1
    <3>2. CASE AddBackend(c[2])
      BY <1>0, <2>1, <2>2, <3>2 DEF AddBackend, UpfPoolTypeOK, HealthStatus
    <3>3. CASE RemoveBackend(c[2])
      BY <1>0, <2>1, <2>2, <3>3, RemoveAtType
         DEF RemoveBackend, UpfPoolTypeOK
    <3> QED BY <1>2, <3>1, <3>2, <3>3 DEF ApplyCommand
  <2> QED BY <1>0, <1>2, <1>p, <2>3, OutsideStep DEF ApplyCommand
<1>3. ASSUME NEW r \in Requests, SendRequest(r) PROVE TypeInv'
  <2>1. RequestMsg(r) \in Message /\ FromSource(RequestMsg(r))
    BY RequestFacts DEF RequestMsg, Message, FromSource
  <2>2. sends' \in [Requests -> Nat]
    BY <1>0, <1>3 DEF SendRequest
  <2>3. inbox' = inbox \cup {RequestMsg(r)}
    BY <1>3 DEF SendRequest
  <2> QED BY <1>0, <1>3, <1>p, <1>q, <2>1, <2>2, <2>3, OutsideStep DEF SendRequest
<1>4. ASSUME NEW d \in outbox, PeerHandles(d) PROVE TypeInv'
  <2> DEFINE r == d.msg.req
  <2>1. d.to \in Addr /\ d.msg \in Message /\ r \in Requests
    BY <1>0 DEF Datagram, Message
  <2>2. ResponseMsg(r, d.to) \in Message /\ FromSource(ResponseMsg(r, d.to))
    BY <2>1 DEF ResponseMsg, Message, FromSource
  <2>3. inbox' \subseteq inbox \cup {ResponseMsg(r, d.to)}
    BY <1>4 DEF PeerHandles
  <2>4. IsSmfRequest(d.msg) /\ r.seid # None =>
            [upf |-> d.to, seid |-> r.seid, type |-> r.type] \in Handled
    BY <1>0, <2>1, RequestFacts DEF Handled, IsSmfRequest
  <2>5. handled' \subseteq Handled
    BY <1>0, <1>4, <2>4 DEF PeerHandles
  <2>6. outbox' \subseteq outbox
    BY <1>4 DEF PeerHandles
  <2> QED BY <1>0, <1>4, <1>p, <1>q, <2>2, <2>3, <2>5, <2>6, OutsideStep
          DEF PeerHandles
<1>5. ASSUME NEW d \in outbox, PeerGetsResponse(d) PROVE TypeInv'
  <2>1. [req |-> d.msg.req, by |-> d.msg.by] \in Answer
    BY <1>0 DEF Datagram, Message, Answer
  <2>2. answered' \subseteq Answer /\ outbox' \subseteq outbox
    BY <1>0, <1>5, <2>1 DEF PeerGetsResponse
  <2> QED BY <1>0, <1>5, <1>p, <1>q, <2>2, OutsideStep DEF PeerGetsResponse
<1>6. ASSUME Lose PROVE TypeInv'
  <2>1. inbox' \subseteq inbox /\ outbox' \subseteq outbox
    BY <1>6 DEF Lose
  <2> QED BY <1>0, <1>6, <1>p, <1>q, <2>1, OutsideStep DEF Lose
<1> QED BY <1>1, <1>2, <1>3, <1>4, <1>5, <1>6 DEF PeerStep

LEMMA StutterTypes == TypeInv /\ UNCHANGED vars => TypeInv'
BY OutsideStep DEF TypeInv, TypeOK, vars, PendingTypeOK, UpfPoolTypeOK

LEMMA StepTypes == TypeInv /\ [Next]_vars => TypeInv'
BY ReceiveTypes, HandlerTypes, OutsideTypes, StutterTypes
   DEF Next, ReceiveSome, Wait

\* Every variable keeps its type, and each task holds what its step needs: in
\* particular no handler indexes an empty pool snapshot or sends to nowhere.
THEOREM TypeCorrect == Spec => []TypeOK
<1>1. Init => TypeInv
  BY InitTypes
<1>2. TypeInv /\ [Next]_vars => TypeInv'
  BY StepTypes
<1>3. TypeInv => TypeOK
  BY DEF TypeInv
<1> QED BY <1>1, <1>2, <1>3, PTL DEF Spec

-----------------------------------------------------------------------------
(***************************************************************************)
(* If no two senders use the same sequence number, whatever else the tasks *)
(* do to the table of pending requests, a response goes where its request  *)
(* came from.  The invariant follows the origin from the request through   *)
(* the table into the task that forwards the response.                     *)
(***************************************************************************)
OriginInv ==
    /\ \A r \in Requests : IsPending(r.seq) => pending[r.seq].origin = r.src
    /\ \A t \in Tasks : At(t, "reply") => task[t].dest = task[t].msg.req.src
    /\ RepliesReachTheirOrigin

\* A step that makes no entry, matches none and sends no response.
LEMMA OriginFrame ==
    ASSUME OriginInv, TypeInv,
           \A q \in Seqs : \/ pending'[q] = None
                           \/ /\ pending[q] # None
                              /\ pending'[q].origin = pending[q].origin,
           \A t \in Tasks : \/ task'[t] = task[t]
                            \/ task'[t].pc # "reply",
           \A d \in outbox' : d \in outbox \/ d.msg.kind = "request"
    PROVE  OriginInv'
<1>1. \A r \in Requests : IsPending(r.seq)' => pending'[r.seq].origin = r.src
  BY RequestFacts DEF OriginInv, IsPending
<1>2. \A t \in Tasks : At(t, "reply")' => task'[t].dest = task'[t].msg.req.src
  BY DEF OriginInv, At
<1>3. RepliesReachTheirOrigin'
  BY DEF OriginInv, RepliesReachTheirOrigin
<1> QED BY <1>1, <1>2, <1>3 DEF OriginInv

LEMMA OriginHandler ==
    ASSUME OneOwnerPerSeq, OriginInv, TypeInv, NEW t \in Tasks, HandleMessage(t)
    PROVE  OriginInv'
<1> DEFINE k == task[t]
<1> USE DEF tableVars, poolVars, netVars, peerVars
<1>0. task \in [Tasks -> Task] /\ pending \in [Seqs -> RequestInfo \cup {None}]
  BY DEF TypeInv, TypeOK, PendingTypeOK
<1>1. ASSUME NEW new, Become(t, new) PROVE \A x \in Tasks :
          task'[x] = IF x = t THEN new ELSE task[x]
  BY <1>0, <1>1 DEF Become
<1>2. ASSUME NEW pc, Goto(t, pc) PROVE \A x \in Tasks :
          IF x = t THEN task'[x].pc = pc ELSE task'[x] = task[x]
  <2>1. task' = [task EXCEPT ![t] = [task[t] EXCEPT !.pc = pc]]
    BY <1>2, <1>0 DEF Goto
  <2>2. task[t] \in Task
    BY <1>0
  <2> QED BY <1>0, <2>1, <2>2 DEF Task
<1>3. ASSUME Register(t) PROVE OriginInv'
  <2>1. k.pc = "register"
    BY <1>3 DEF Register, At
  <2>2. /\ k \in Task /\ Msg(t) \in Message /\ Msg(t).kind = "request"
        /\ Msg(t).by = Msg(t).req.src /\ Msg(t).req \in Requests
    BY <2>1, BusyTask DEF WellFormed, FromSource
  <2>3. \A r \in Requests : r.seq = SeqNo(t) => Msg(t).by = r.src
    BY <2>2 DEF OneOwnerPerSeq, SeqNo
  <2>4. \A r \in Requests : IsPending(r.seq)' => pending'[r.seq].origin = r.src
    <3> SUFFICES ASSUME NEW r \in Requests, pending'[r.seq] # None
                 PROVE  pending'[r.seq].origin = r.src
      BY DEF IsPending
    <3>1. r.seq \in Seqs /\ SeqNo(t) \in Seqs
      BY <2>2, RequestFacts DEF SeqNo
    <3>2. CASE r.seq = SeqNo(t)
      BY <1>0, <1>3, <2>3, <3>1, <3>2 DEF Register, PendingInsert
    <3>3. CASE r.seq # SeqNo(t)
      <4>1. pending'[r.seq] = pending[r.seq]
        BY <1>0, <1>3, <3>1, <3>3 DEF Register, PendingInsert
      <4> QED BY <4>1 DEF OriginInv, IsPending
    <3> QED BY <3>2, <3>3
  <2>5. \A x \in Tasks : x # t => task'[x] = task[x]
    BY <1>0, <1>3 DEF Register, Become
  <2>6. task'[t].pc # "reply"
    BY <1>0, <1>3, <2>2 DEF Register, Become, Task
  <2>7. \A x \in Tasks : At(x, "reply")' => task'[x].dest = task'[x].msg.req.src
    BY <2>5, <2>6 DEF OriginInv, At
  <2>8. RepliesReachTheirOrigin'
    BY <1>3 DEF Register, OriginInv, RepliesReachTheirOrigin
  <2> QED BY <2>4, <2>7, <2>8 DEF OriginInv
<1>4. ASSUME MatchFound(t) PROVE OriginInv'
  <2> DEFINE info == pending[SeqNo(t)]
             new == [k EXCEPT
                !.pc = "reply", !.dest = info.origin, !.n = info.responses + 1,
                !.is_broadcast = info.is_broadcast]
  <2>1. k.pc = "match"
    BY <1>4 DEF MatchFound, At
  <2>2. /\ k \in Task /\ Msg(t) = k.msg /\ Msg(t).req \in Requests
        /\ SeqNo(t) \in Seqs
    BY <2>1, BusyTask
  <2>3. pending[Msg(t).req.seq].origin = Msg(t).req.src
    BY <1>4, <2>2 DEF OriginInv, MatchFound, SeqNo
  <2>4. \A x \in Tasks : task'[x] = IF x = t THEN new ELSE task[x]
    BY <1>1, <1>4 DEF MatchFound
  <2>5. new.dest = info.origin /\ new.msg = k.msg
    BY <2>2 DEF Task
  <2>6. \A x \in Tasks : At(x, "reply")' => task'[x].dest = task'[x].msg.req.src
    BY <2>2, <2>3, <2>4, <2>5 DEF OriginInv, At, SeqNo
  <2>7. \A q \in Seqs : pending'[q] # None =>
            pending[q] # None /\ pending'[q].origin = pending[q].origin
    <3> SUFFICES ASSUME NEW q \in Seqs, pending'[q] # None
                 PROVE  pending[q] # None /\ pending'[q].origin = pending[q].origin
      OBVIOUS
    <3>1. pending' = [pending EXCEPT ![SeqNo(t)] =
                         [pending[SeqNo(t)] EXCEPT !.responses = @ + 1]]
      BY <1>0, <1>4 DEF MatchFound, PendingIncrement
    <3>2. pending[SeqNo(t)] # None /\ pending[SeqNo(t)] \in RequestInfo
      BY <1>0, <1>4, <2>2 DEF MatchFound, IsPending
    <3> QED BY <1>0, <3>1, <3>2 DEF RequestInfo
  <2>8. \A r \in Requests : IsPending(r.seq)' => pending'[r.seq].origin = r.src
    BY <2>7, RequestFacts DEF OriginInv, IsPending
  <2>9. RepliesReachTheirOrigin'
    BY <1>4 DEF MatchFound, OriginInv, RepliesReachTheirOrigin
  <2> QED BY <2>6, <2>8, <2>9 DEF OriginInv
<1>5. ASSUME Reply(t) PROVE OriginInv'
  <2>1. k.pc = "reply"
    BY <1>5 DEF Reply, At
  <2>2. k.dest = Msg(t).req.src
    BY <2>1, BusyTask DEF OriginInv, At
  <2>3. RepliesReachTheirOrigin'
    BY <1>5, <2>2 DEF Reply, Send, OriginInv, RepliesReachTheirOrigin
  <2>4. \A x \in Tasks : IF x = t THEN task'[x].pc # "reply"
                                  ELSE task'[x] = task[x]
    BY <1>2, <1>5 DEF Reply
  <2>5. \A x \in Tasks : At(x, "reply")' => task'[x].dest = task'[x].msg.req.src
    BY <2>4 DEF OriginInv, At
  <2>6. \A r \in Requests : IsPending(r.seq)' => pending'[r.seq].origin = r.src
    BY <1>5 DEF Reply, OriginInv, IsPending
  <2> QED BY <2>3, <2>5, <2>6 DEF OriginInv
<1>6. \A x \in Tasks : Finish(t) =>
          IF x = t THEN task'[x].pc # "reply" ELSE task'[x] = task[x]
  BY <1>1 DEF Finish, IdleTask
<1>7. ASSUME PendingRemove(SeqNo(t)), NEW q \in Seqs
      PROVE  pending'[q] = None \/ pending'[q] = pending[q]
  BY <1>0, <1>7 DEF PendingRemove
<1>8. ASSUME \/ FanOut(t) \/ Select(t) \/ Turn(t) \/ CountBackend(t)
             \/ LookupFound(t) \/ OwnerOf(t) \/ BroadcastOne(t)
             \/ BroadcastOneFails(t)
      PROVE  OriginInv'
  <2>1. k.pc \in {"fan_out", "select", "turn", "count", "lookup", "owner", "broadcast"}
    BY <1>8 DEF FanOut, Select, Turn, CountBackend, LookupFound, OwnerOf,
            BroadcastOne, BroadcastOneFails, At
  <2>2. k \in Task /\ Msg(t) = k.msg
    BY <2>1, BusyTask
  <2>3. \A x \in Tasks : task'[x] = task[x] \/ task'[x].pc # "reply"
    <3>0. ASSUME NEW new, Become(t, new), new.pc # "reply"
          PROVE  \A x \in Tasks : task'[x] = task[x] \/ task'[x].pc # "reply"
      BY <1>1, <3>0
    <3>1. CASE FanOut(t)
      <4> DEFINE new == [k EXCEPT !.pc = "register", !.hosts = backends,
                                  !.is_broadcast = TRUE]
      <4>1. Become(t, new)
        BY <3>1 DEF FanOut
      <4>2. new.pc = "register"
        BY <2>2 DEF Task
      <4> QED BY <3>0, <4>1, <4>2
    <3>2. CASE Select(t)
      <4> DEFINE new == [k EXCEPT
              !.pc = IF strategy = "least-sessions" THEN "count" ELSE "turn",
              !.hosts = HealthyBackends]
      <4>1. Finish(t) \/ Become(t, new)
        BY <3>2 DEF Select
      <4>2. new.pc # "reply"
        BY <2>2 DEF Task
      <4> HIDE DEF new
      <4> QED BY <1>6, <3>0, <4>1, <4>2
    <3>3. CASE Turn(t)
      <4> DEFINE new == [k EXCEPT !.pc = "place", !.hosts = << >>,
                                  !.dest = BackendAtTurn(k.hosts)]
      <4>1. Become(t, new)
        BY <3>3 DEF Turn
      <4>2. new.pc # "reply"
        BY <2>2 DEF Task
      <4> HIDE DEF new
      <4> QED BY <3>0, <4>1, <4>2
    <3>4. CASE CountBackend(t)
      <4> DEFINE u    == Head(k.hosts)
                 less == k.dest = None \/ CountByUpf(u) < k.n
                 new  == [k EXCEPT
                    !.pc = IF Tail(k.hosts) = << >> THEN "place" ELSE "count",
                    !.hosts = Tail(k.hosts),
                    !.dest = IF less THEN u ELSE @,
                    !.n = IF less THEN CountByUpf(u) ELSE @]
      <4>1. Become(t, new)
        BY <3>4 DEF CountBackend
      <4>2. new.pc # "reply"
        BY <2>2 DEF Task
      <4> HIDE DEF new
      <4> QED BY <3>0, <4>1, <4>2
    <3>5. CASE LookupFound(t)
      <4> DEFINE new == [k EXCEPT
              !.pc = IF Msg(t).req.type \in DeletionTypes THEN "unmap"
                                                          ELSE "register",
              !.dest = sessions[Seid(t)].upf]
      <4>1. Become(t, new)
        BY <3>5 DEF LookupFound
      <4>2. new.pc # "reply"
        BY <2>2 DEF Task
      <4> HIDE DEF new
      <4> QED BY <3>0, <4>1, <4>2
    <3>6. CASE OwnerOf(t)
      <4> DEFINE new == [k EXCEPT !.pc = "register", !.dest = sessions[Seid(t)].smf]
      <4>1. Finish(t) \/ Become(t, new)
        BY <3>6 DEF OwnerOf
      <4>2. new.pc # "reply"
        BY <2>2 DEF Task
      <4> HIDE DEF new
      <4> QED BY <1>6, <3>0, <4>1, <4>2
    <3>7. CASE BroadcastOne(t)
      <4> DEFINE new == [k EXCEPT !.hosts = Tail(@), !.n = @ + 1]
      <4>1. Become(t, new) /\ k.pc = "broadcast"
        BY <3>7 DEF BroadcastOne, At
      <4>2. new.pc # "reply"
        BY <2>2, <4>1 DEF Task
      <4> HIDE DEF new
      <4> QED BY <3>0, <4>1, <4>2
    <3>8. CASE BroadcastOneFails(t)
      <4> DEFINE new == [k EXCEPT !.hosts = Tail(@)]
      <4>1. Become(t, new) /\ k.pc = "broadcast"
        BY <3>8 DEF BroadcastOneFails, At
      <4>2. new.pc # "reply"
        BY <2>2, <4>1 DEF Task
      <4> HIDE DEF new
      <4> QED BY <3>0, <4>1, <4>2
    <3> QED BY <1>8, <3>1, <3>2, <3>3, <3>4, <3>5, <3>6, <3>7, <3>8
  <2>4. \A d \in outbox' : d \in outbox \/ d.msg.kind = "request"
    <3>1. CASE BroadcastOne(t)
      <4>1. Msg(t).kind = "request"
        BY <3>1, BusyTask DEF BroadcastOne, At, WellFormed
      <4> QED BY <3>1, <4>1 DEF BroadcastOne, Send
    <3>2. CASE ~ BroadcastOne(t)
      BY <1>8, <3>2 DEF FanOut, Select, Turn, CountBackend, LookupFound, OwnerOf,
         BroadcastOneFails
    <3> QED BY <3>1, <3>2
  <2>5. UNCHANGED pending
    BY <1>8 DEF FanOut, Select, Turn, CountBackend, LookupFound, OwnerOf,
       BroadcastOne, BroadcastOneFails
  <2> QED BY <2>3, <2>4, <2>5, OriginFrame
<1>9. ASSUME \/ Place(t) \/ LookupMissed(t) \/ Unmap(t) \/ ForwardFails(t)
             \/ EndBroadcast(t) \/ MatchMissed(t) \/ ReplyFails(t) \/ Tally(t)
             \/ Unregister(t) \/ Retire(t)
      PROVE  OriginInv'
  <2>1. \A x \in Tasks : task'[x] = task[x] \/ task'[x].pc # "reply"
    BY <1>2, <1>6, <1>9
       DEF Place, LookupMissed, Unmap, ForwardFails, EndBroadcast, MatchMissed,
           ReplyFails, Tally, Unregister, Retire
  <2>2. outbox' = outbox
    BY <1>9 DEF Place, LookupMissed, Unmap, ForwardFails, EndBroadcast,
       MatchMissed, ReplyFails, Tally, Unregister, Retire
  <2>3. \A q \in Seqs : pending'[q] = None \/ pending'[q] = pending[q]
    BY <1>7, <1>9
       DEF Place, LookupMissed, Unmap, ForwardFails, EndBroadcast, MatchMissed,
           ReplyFails, Tally, Unregister, Retire
  <2> QED BY <2>1, <2>2, <2>3, OriginFrame
<1>10. ASSUME Forward(t) PROVE OriginInv'
  <2>1. Msg(t).kind = "request"
    BY <1>10, BusyTask DEF Forward, At, WellFormed
  <2>2. \A d \in outbox' : d \in outbox \/ d.msg.kind = "request"
    BY <1>10, <2>1 DEF Forward, Send
  <2>3. \A x \in Tasks : task'[x] = task[x] \/ task'[x].pc # "reply"
    BY <1>6, <1>10 DEF Forward
  <2> QED BY <1>10, <2>2, <2>3, OriginFrame DEF Forward
<1> QED
  BY <1>3, <1>4, <1>5, <1>8, <1>9, <1>10 DEF HandleMessage

LEMMA OriginOutside ==
    ASSUME OriginInv, TypeInv,
           \/ ReceiveSome
           \/ \E q \in Seqs : GrowOld(q) \/ CleanupStale(q)
           \/ \E c \in commands : ApplyCommand(c)
           \/ \E r \in Requests : SendRequest(r)
           \/ PeerStep
           \/ Lose
           \/ UNCHANGED vars
    PROVE  OriginInv'
<1> USE DEF tableVars, poolVars, netVars, peerVars
<1>0. /\ task \in [Tasks -> Task]
      /\ pending \in [Seqs -> RequestInfo \cup {None}]
  BY DEF TypeInv, TypeOK, PendingTypeOK
<1>1. CASE ReceiveSome
  <2> PICK t \in Tasks, m \in inbox : Receive(t, m)
    BY <1>1 DEF ReceiveSome
  <2>1. m \in Message
    BY DEF TypeInv, TypeOK
  <2>2. FirstStep(m) # "reply"
    BY <2>1, FirstStepFacts
  <2>3. \A x \in Tasks : task'[x] = task[x] \/ task'[x].pc # "reply"
    BY <1>0, <2>2 DEF Receive, Become, IdleTask
  <2> QED BY <2>3, OriginFrame DEF Receive
<1>2. CASE \E q \in Seqs : GrowOld(q) \/ CleanupStale(q)
  <2> PICK q \in Seqs : GrowOld(q) \/ CleanupStale(q)
    BY <1>2
  <2>1. \A p \in Seqs : \/ pending'[p] = None
                        \/ /\ pending[p] # None
                           /\ pending'[p].origin = pending[p].origin
    <3>1. CASE GrowOld(q)
      <4>1. pending' = [pending EXCEPT ![q] = [pending[q] EXCEPT !.old = TRUE]]
            /\ pending[q] # None /\ pending[q] \in RequestInfo
        BY <1>0, <3>1 DEF GrowOld, PendingGrowOld, IsPending
      <4> QED BY <1>0, <4>1 DEF RequestInfo
    <3>2. CASE CleanupStale(q)
      BY <1>0, <3>2 DEF CleanupStale, PendingCleanup, PendingRemove
    <3> QED BY <3>1, <3>2
  <2>2. UNCHANGED <<task, outbox>>
    BY DEF GrowOld, CleanupStale
  <2> QED BY <2>1, <2>2, OriginFrame
<1>3. CASE \/ \E c \in commands : ApplyCommand(c)
           \/ \E r \in Requests : SendRequest(r)
           \/ PeerStep
           \/ Lose
           \/ UNCHANGED vars
  <2>1. UNCHANGED <<pending, task>> /\ outbox' \subseteq outbox
    BY <1>3 DEF ApplyCommand, SendRequest, PeerStep, PeerHandles,
       PeerGetsResponse, Lose, vars
  <2> QED BY <2>1, OriginFrame
<1> QED BY <1>1, <1>2, <1>3

\* A response is forwarded to the peer whose request it answers, provided that
\* no two senders use the same sequence number; run doc_origin shows that it
\* need not be without that.
THEOREM RepliesCorrect ==
    ASSUME OneOwnerPerSeq
    PROVE  Spec => []RepliesReachTheirOrigin
<1>1. Init => TypeInv /\ OriginInv
  <2> SUFFICES ASSUME Init PROVE OriginInv
    BY InitTypes
  <2>1. \A r \in Requests : ~ IsPending(r.seq)
    BY RequestFacts DEF Init, PendingInit, IsPending
  <2>2. \A t \in Tasks : ~ At(t, "reply")
    BY DEF Init, IdleTask, At
  <2> QED BY <2>1, <2>2 DEF Init, OriginInv, RepliesReachTheirOrigin
<1>2. TypeInv /\ OriginInv /\ [Next]_vars => (TypeInv /\ OriginInv)'
  <2> SUFFICES ASSUME TypeInv, OriginInv, [Next]_vars PROVE OriginInv'
    BY StepTypes
  <2> QED BY OriginHandler, OriginOutside DEF Next, Wait
<1>3. OriginInv => RepliesReachTheirOrigin
  BY DEF OriginInv
<1> QED BY <1>1, <1>2, <1>3, PTL DEF Spec

=============================================================================
