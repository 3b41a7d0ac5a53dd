--------------------------- MODULE Balance_proofs ---------------------------
(***************************************************************************)
(* Theorems about how Proxy spreads sessions over a pool that does not     *)
(* change, for any number of backends, tasks and sessions: round robin is  *)
(* even, and least-sessions drifts by no more than there are tasks.        *)
(***************************************************************************)
EXTENDS Sessions_proofs

-----------------------------------------------------------------------------
(***************************************************************************)
(* Conditions                                                              *)
(***************************************************************************)
FixedPool == Commands = {}

\* What is balanced is an establishment, and establishes a session.
OnlySessionsBalanced ==
    \A r \in Requests : /\ r.type \notin OtherTypes
                        /\ r.type \in EstablishmentTypes => r.seid # None

\* Sessions are not deleted: nothing in the code evens out what is left.
SessionsStay == \A r \in Requests : r.type \notin DeletionTypes

\* The cursor is as wide as it takes to count the requests; it has 64 bits.
CursorSuffices == Cardinality(Requests) <= IndexRange

-----------------------------------------------------------------------------
(***************************************************************************)
(* Selecting: what a task holds on its way from Select to Place.           *)
(***************************************************************************)
SelectTask(k) ==
    /\ k.pc \in {"lookup", "select"} => k.dest = None
    /\ k.pc = "turn" => strategy # "least-sessions" /\ k.hosts = InitialPool
    /\ k.pc = "count" => strategy = "least-sessions"
    /\ k.pc = "place" => k.hosts = << >>

SelectInv ==
    /\ backends = InitialPool
    /\ commands = {}
    /\ \A t \in Tasks : SelectTask(task[t])

-----------------------------------------------------------------------------
(***************************************************************************)
(* Round robin: the turns taken are the sessions mapped or about to be,    *)
(* and the backends before the cursor have one more than those after it.   *)
(***************************************************************************)
Placing == {t \in Tasks : At(t, "place")}

Claimed == Mapped \cup {Seid(t) : t \in Placing}

Turns == Cardinality(Claimed)

PoolSize == Len(InitialPool)

TurnInv ==
    strategy # "least-sessions" =>
        /\ IsFiniteSet(Placing)
        /\ nextIndex = Turns % IndexRange
        /\ \E q \in Nat : \A i \in 1 .. PoolSize :
              Load(InitialPool[i]) = IF i <= Turns % PoolSize THEN q + 1 ELSE q

-----------------------------------------------------------------------------
(***************************************************************************)
(* Least sessions: a task has its choice among the backends it has read,   *)
(* and no backend has fewer sessions now than it had then.  While some     *)
(* backend has at most m sessions, only tasks that read at most m at u     *)
(* bring sessions to u.                                                    *)
(***************************************************************************)
Chooses(k, u, m) == k.pc \in {"count", "place"} /\ k.dest = u /\ k.n <= m

Choosers(u, m) == {t \in Tasks : Chooses(task[t], u, m)}

Unread(k, v) == \E i \in 1 .. Len(k.hosts) : k.hosts[i] = v

ReadTask(k) ==
    k.pc \in {"count", "place"} =>
        \A v \in PoolMembers : \/ Unread(k, v)
                               \/ k.dest # None /\ k.n <= CountByUpf(v)

ReadInv == strategy = "least-sessions" => \A t \in Tasks : ReadTask(task[t])

SpreadInv ==
    strategy = "least-sessions" =>
        \A u \in PoolMembers, m \in Nat :
            (\E v \in PoolMembers : CountByUpf(v) <= m)
            => CountByUpf(u) + Cardinality(Choosers(u, m)) <= m + Cardinality(Tasks)


-----------------------------------------------------------------------------
(***************************************************************************)
(* Which steps of a handler bear on the choice of a backend.               *)
(***************************************************************************)
Choosing == {"turn", "count", "place"}

LEMMA OtherHandlers ==
    ASSUME TypeInv, NEW t \in Tasks, HandleMessage(t),
           ~ (Select(t) \/ Turn(t) \/ CountBackend(t) \/ Place(t) \/ Unmap(t))
    PROVE  /\ UNCHANGED <<sessions, poolVars, commands>>
           /\ task[t].pc \notin Choosing \cup {"select", "unmap"}
           /\ task'[t].pc \notin Choosing
           /\ task'[t].pc = "select" =>
                  task[t].pc = "lookup" /\ task'[t].dest = task[t].dest
           /\ task'[t].pc # "lookup"
<1> DEFINE k == task[t]
<1> USE DEF tableVars, poolVars, netVars, peerVars
<1>0. task \in [Tasks -> Task] /\ k \in Task
  BY DEF TypeInv, TypeOK
<1>1. /\ UNCHANGED <<sessions, poolVars, commands>>
      /\ k.pc \notin Choosing \cup {"select", "unmap"}
  BY DEF HandleMessage, At, FanOut, LookupFound, LookupMissed, OwnerOf, Register,
     Forward, ForwardFails, Unregister, BroadcastOne, BroadcastOneFails, EndBroadcast,
     MatchFound, MatchMissed, Reply, ReplyFails, Tally, Retire, Choosing
<1>2. Moves(k, task'[t])
  BY HandlerMoves
<1>3. task'[t].pc \notin Choosing \cup {"lookup"}
  BY <1>1, <1>2 DEF Moves, Advances, ResponseSteps, Choosing
<1>4. ASSUME task'[t].pc = "select"
      PROVE  k.pc = "lookup" /\ task'[t].dest = k.dest
  <2>1. k.pc = "lookup" /\ ~ HasSession(k.msg.req.seid)
    BY <1>2, <1>4 DEF Moves, Advances, ResponseSteps
  <2>2. LookupMissed(t)
    BY <2>1 DEF HandleMessage, At, FanOut, Select, Turn, CountBackend, Place,
       LookupFound, Unmap, OwnerOf, Register, Forward, ForwardFails, Unregister,
       BroadcastOne, BroadcastOneFails, EndBroadcast, MatchFound, MatchMissed, Reply,
       ReplyFails, Tally, Retire, Msg, Seid
  <2>3. Finish(t) \/ Goto(t, "select")
    BY <2>2 DEF LookupMissed
  <2>4. ~ Finish(t)
    BY <1>0, <1>4 DEF Finish, Become, IdleTask
  <2>5. task'[t] = [k EXCEPT !.pc = "select"]
    BY <1>0, <2>3, <2>4, GotoIsBecome DEF Become
  <2> QED BY <1>0, <2>1, <2>5 DEF Task
<1> QED BY <1>1, <1>3, <1>4

\* What the steps of select_upf, and what follows it, do to the task.
LEMMA SelectFacts ==
    ASSUME TypeInv, SelectInv, NEW t \in Tasks, Select(t)
    PROVE  /\ task[t].pc = "select"
           /\ \/ task'[t].pc = "idle"
              \/ /\ task'[t].pc = IF strategy = "least-sessions" THEN "count" ELSE "turn"
                 /\ task'[t].hosts = InitialPool
                 /\ task'[t].dest = None
<1>0. task \in [Tasks -> Task] /\ task[t] \in Task
  BY DEF TypeInv, TypeOK
<1>1. /\ HealthyBackends = InitialPool
      /\ task[t].pc = "select"
      /\ task[t].dest = None
  BY AllHealthy DEF SelectInv, SelectTask, Select, At
<1> DEFINE pc  == IF strategy = "least-sessions" THEN "count" ELSE "turn"
           new == [task[t] EXCEPT !.pc = pc, !.hosts = InitialPool]
<1>2. task'[t] = IdleTask \/ task'[t] = new
  BY <1>0, <1>1 DEF Select, Finish, Become
<1>3. new.pc = pc /\ new.hosts = InitialPool /\ new.dest = None
  BY <1>0, <1>1 DEF Task
<1> HIDE DEF new
<1> QED BY <1>1, <1>2, <1>3 DEF IdleTask

LEMMA TurnFacts ==
    ASSUME TypeInv, SelectInv, NEW t \in Tasks, Turn(t)
    PROVE  /\ task[t].pc = "turn"
           /\ task'[t].pc = "place"
           /\ task'[t].msg = task[t].msg
           /\ task'[t].dest = InitialPool[(nextIndex % PoolSize) + 1]
           /\ task'[t].hosts = << >>
           /\ strategy # "least-sessions"
           /\ nextIndex' = (nextIndex + 1) % IndexRange
<1>0. task \in [Tasks -> Task] /\ task[t] \in Task
  BY DEF TypeInv, TypeOK
<1>1. task[t].pc = "turn" /\ SelectTask(task[t])
  BY DEF Turn, At, SelectInv
<1>2. task[t].hosts = InitialPool /\ strategy # "least-sessions"
  BY <1>1 DEF SelectTask
<1>3. task'[t] = [task[t] EXCEPT !.pc = "place", !.hosts = << >>,
                                 !.dest = BackendAtTurn(InitialPool)]
  BY <1>0, <1>2 DEF Turn, Become
<1> QED
  BY <1>0, <1>1, <1>2, <1>3 DEF Turn, TakeTurn, BackendAtTurn, PoolSize, Task

LEMMA CountFacts ==
    ASSUME TypeInv, SelectInv, NEW t \in Tasks, CountBackend(t)
    PROVE  LET k    == task[t]
               u    == Head(k.hosts)
               less == k.dest = None \/ CountByUpf(u) < k.n
           IN  /\ k.pc = "count"
               /\ strategy = "least-sessions"
               /\ k.hosts # << >>
               /\ task'[t].pc = IF Tail(k.hosts) = << >> THEN "place" ELSE "count"
               /\ task'[t].hosts = Tail(k.hosts)
               /\ task'[t].dest = IF less THEN u ELSE k.dest
               /\ task'[t].n = IF less THEN CountByUpf(u) ELSE k.n
<1> DEFINE k == task[t]
           u == Head(k.hosts)
           less == k.dest = None \/ CountByUpf(u) < k.n
<1>0. task \in [Tasks -> Task] /\ k \in Task
  BY DEF TypeInv, TypeOK
<1>1. k.pc = "count" /\ SelectTask(k) /\ WellFormed(k)
  BY DEF CountBackend, At, SelectInv, TypeInv
<1>2. task'[t] = [k EXCEPT !.pc = IF Tail(k.hosts) = << >> THEN "place" ELSE "count",
                           !.hosts = Tail(k.hosts),
                           !.dest = IF less THEN u ELSE @,
                           !.n = IF less THEN CountByUpf(u) ELSE @]
  BY <1>0 DEF CountBackend, Become
<1> HIDE DEF less, u
<1>3. /\ task'[t].pc = IF Tail(k.hosts) = << >> THEN "place" ELSE "count"
      /\ task'[t].hosts = Tail(k.hosts)
      /\ task'[t].dest = IF less THEN u ELSE k.dest
      /\ task'[t].n = IF less THEN CountByUpf(u) ELSE k.n
  BY <1>0, <1>2 DEF Task
<1> QED BY <1>1, <1>3 DEF SelectTask, WellFormed, less, u

LEMMA PlaceFacts ==
    ASSUME TypeInv, NEW t \in Tasks, Place(t)
    PROVE  task[t].pc = "place" /\ task'[t].pc = "register"
<1>0. task \in [Tasks -> Task] /\ task[t] \in Task
  BY DEF TypeInv, TypeOK
<1>1. task'[t] = [task[t] EXCEPT !.pc = "register"]
  BY <1>0, GotoIsBecome DEF Place, Become
<1> QED BY <1>0, <1>1 DEF Place, At, Task

\* Nothing is unmapped.
LEMMA NoUnmap ==
    ASSUME SessionsStay, TypeInv, ArmInv, NEW t \in Tasks
    PROVE  task[t].pc # "unmap"
<1> SUFFICES ASSUME task[t].pc = "unmap" PROVE FALSE
  OBVIOUS
<1>1. Msg(t).req \in Requests /\ Msg(t) = task[t].msg
  BY BusyTask
<1>2. Msg(t).req.type \in DeletionTypes
  BY <1>1 DEF ArmInv, ArmTask
<1> QED BY <1>1, <1>2 DEF SessionsStay

\* What is placed is a session that was not.
LEMMA ChoosingIsNew ==
    ASSUME OneOpenerPerSession, OnlySessionsBalanced, SessionInv,
           NEW t \in Tasks, task[t].pc \in Choosing
    PROVE  /\ Seid(t) \in Seids
           /\ ~ HasSession(Seid(t))
           /\ \A x \in Tasks : task[x].pc \in Choosing /\ Seid(x) = Seid(t) => x = t
<1> DEFINE s == Seid(t)
<1>1. ASSUME NEW x \in Tasks, task[x].pc \in Choosing
      PROVE  /\ Msg(x) = RequestMsg(Msg(x).req) /\ Msg(x).req \in Openers
             /\ Seid(x) \in Seids /\ About(Msg(x), Seid(x)) /\ Carries(x, Msg(x).req)
             /\ Msg(x) = task[x].msg
  <2>1. /\ task[x].pc # "idle" /\ task[x].pc \in RouteSteps
        /\ task[x].pc \in {"place"} \cup PoolSteps
    BY <1>1 DEF Choosing, RouteSteps, PoolSteps
  <2>2. /\ Msg(x) \in Message /\ FromSource(Msg(x)) /\ IsSmfRequest(Msg(x))
        /\ Msg(x).req \in Requests /\ Msg(x) = task[x].msg /\ ArmTask(task[x])
    BY <2>1, BusyTask DEF SessionInv, ArmInv, WellFormed
  <2>3. Msg(x).req.type \in EstablishmentTypes /\ Msg(x).req.seid # None
    BY <2>1, <2>2 DEF ArmTask, OnlySessionsBalanced
  <2>4. Seid(x) \in Seids /\ Seid(x) = Msg(x).req.seid
    BY <2>2, <2>3, RequestFacts DEF Seid
  <2>5. Msg(x) = RequestMsg(Msg(x).req)
    BY <2>2, RequestIs DEF IsSmfRequest
  <2> QED
    BY <2>1, <2>2, <2>3, <2>4, <2>5 DEF Openers, About, Carries, At, SmfRequestTypes
<1>2. s \in Seids /\ About(task[t].msg, s) /\ task[t].msg.kind = "request"
  BY <1>1 DEF RequestMsg
<1>3. ~ HasSession(s)
  <2>1. ASSUME NEW u, Homed(s, u) PROVE FALSE
    <3>1. HomedTask(task[t], s, u)
      BY <2>1 DEF Homed
    <3> QED BY <1>2, <3>1 DEF HomedTask, Choosing
  <2> QED BY <1>2, <2>1 DEF SessionInv, PlacementInv, Unplaced
<1>4. ASSUME NEW x \in Tasks, task[x].pc \in Choosing, Seid(x) = s
      PROVE  x = t
  <2>1. Msg(x).req \in Openers /\ Msg(t).req \in Openers
        /\ Msg(x).req.seid = Msg(t).req.seid
    BY <1>1, <1>4 DEF Seid
  <2>2. Msg(x).req = Msg(t).req /\ Copies[Msg(t).req] <= 1 /\ Msg(t).req \in Requests
    BY <2>1 DEF OneOpenerPerSession, Openers
  <2>3. Carries(x, Msg(t).req) /\ Carries(t, Msg(t).req)
    BY <1>1, <1>4, <2>2
  <2> QED BY <2>2, <2>3 DEF SessionInv, OnceInv
<1> QED BY <1>2, <1>3, <1>4

LEMMA SelectInit == FixedPool /\ Init => SelectInv
BY DEF FixedPool, Init, UpfPoolInit, SelectInv, SelectTask, IdleTask

LEMMA SelectStep ==
    ASSUME TypeInv, SelectInv, [Next]_vars
    PROVE  SelectInv'
<1> USE DEF tableVars, poolVars, netVars, peerVars
<1>0. task \in [Tasks -> Task]
  BY DEF TypeInv, TypeOK
<1>1. UNCHANGED <<backends, commands, strategy>>
  <2>1. ~ \E c \in commands : ApplyCommand(c)
    BY DEF SelectInv
  <2> QED
    BY <2>1 DEF Next, ReceiveSome, Receive, HandleMessage, FanOut, Select, Turn,
       CountBackend, Place, LookupFound, LookupMissed, Unmap, OwnerOf, Register,
       Forward, ForwardFails, Unregister, BroadcastOne, BroadcastOneFails,
       EndBroadcast, MatchFound, MatchMissed, Reply, ReplyFails, Tally, Retire,
       GrowOld, CleanupStale, SendRequest, PeerStep, PeerHandles, PeerGetsResponse,
       Lose, Wait, vars
<1>2. ASSUME \A x \in Tasks : task'[x] = task[x] \/ SelectTask(task'[x])
      PROVE  SelectInv'
  BY <1>1, <1>2 DEF SelectInv, SelectTask
<1>3. CASE \E t \in Tasks : HandleMessage(t)
  <2> PICK t \in Tasks : HandleMessage(t)
    BY <1>3
  <2>1. \A x \in Tasks : x # t => task'[x] = task[x]
    BY HandlerMoves
  <2>2. SelectTask(task[t])
    BY DEF SelectInv
  <2>3. ASSUME Select(t) PROVE SelectTask(task'[t])
    BY <2>3, SelectFacts DEF SelectTask
  <2>4. ASSUME Turn(t) PROVE SelectTask(task'[t])
    BY <2>4, TurnFacts DEF SelectTask
  <2>5. ASSUME CountBackend(t) PROVE SelectTask(task'[t])
    BY <2>5, CountFacts DEF SelectTask
  <2>6. ASSUME Place(t) PROVE SelectTask(task'[t])
    BY <2>6, PlaceFacts DEF SelectTask
  <2>7. ASSUME Unmap(t) PROVE SelectTask(task'[t])
    <3>1. Moves(task[t], task'[t]) /\ task[t].pc = "unmap"
      BY <2>7, HandlerMoves DEF Unmap, At
    <3> QED BY <3>1 DEF Moves, Advances, SelectTask
  <2>8. ASSUME ~ (Select(t) \/ Turn(t) \/ CountBackend(t) \/ Place(t) \/ Unmap(t))
        PROVE  SelectTask(task'[t])
    BY <2>2, <2>8, OtherHandlers DEF SelectTask, Choosing
  <2>9. SelectTask(task'[t])
    BY <2>3, <2>4, <2>5, <2>6, <2>7, <2>8
  <2> QED BY <1>2, <2>1, <2>9
<1>4. CASE ReceiveSome
  <2> PICK t \in Tasks, m \in inbox : Receive(t, m)
    BY <1>4 DEF ReceiveSome
  <2>1. m \in Message
    BY DEF TypeInv, TypeOK
  <2>2. /\ \A x \in Tasks : x # t => task'[x] = task[x]
        /\ \/ task'[t] = task[t]
           \/ task'[t].pc = FirstStep(m) /\ task'[t].dest = None
    BY <1>0 DEF Receive, Become, IdleTask
  <2>3. FirstStep(m) \notin Choosing
    BY <2>1, FirstStepFacts DEF Choosing
  <2> QED BY <1>2, <2>2, <2>3 DEF SelectTask, Choosing
<1>5. CASE \/ \E q \in Seqs : GrowOld(q) \/ CleanupStale(q)
           \/ \E c \in commands : ApplyCommand(c)
           \/ \E r \in Requests : SendRequest(r)
           \/ PeerStep
           \/ Lose
           \/ UNCHANGED vars
  BY <1>2, <1>5 DEF GrowOld, CleanupStale, ApplyCommand, SendRequest, PeerStep,
     PeerHandles, PeerGetsResponse, Lose, vars
<1> QED BY <1>3, <1>4, <1>5 DEF Next, Wait


-----------------------------------------------------------------------------
(***************************************************************************)
(* Round robin                                                             *)
(***************************************************************************)
LEMMA ModIs ==
    ASSUME NEW n \in Nat \ {0}, NEW q \in Int, NEW r \in 0 .. n - 1
    PROVE  (n * q + r) % n = r
OBVIOUS

LEMMA DivMod ==
    ASSUME NEW k \in Nat, NEW n \in Nat \ {0}
    PROVE  /\ k \div n \in Nat
           /\ k % n \in 0 .. n - 1
           /\ k = n * (k \div n) + (k % n)
OBVIOUS

\* The turn after the last is the first.
LEMMA NextTurn ==
    ASSUME NEW k \in Nat, NEW n \in Nat \ {0}
    PROVE  (k + 1) % n = IF k % n = n - 1 THEN 0 ELSE (k % n) + 1
<1> DEFINE q == k \div n
           r == k % n
<1>1. k = n * q + r /\ r \in 0 .. n - 1 /\ q \in Nat
  BY DivMod
<1> HIDE DEF q, r
<1>2. CASE r # n - 1
  <2>1. k + 1 = n * q + (r + 1) /\ r + 1 \in 0 .. n - 1
    BY <1>1, <1>2
  <2>2. (n * q + (r + 1)) % n = r + 1
    BY <1>1, <2>1, ModIs
  <2> QED BY <1>2, <2>1, <2>2 DEF r
<1>3. CASE r = n - 1
  <2>1. k + 1 = n * (q + 1) + 0 /\ 0 \in 0 .. n - 1 /\ q + 1 \in Int
    BY <1>1, <1>3
  <2>2. (n * (q + 1) + 0) % n = 0
    BY <2>1, ModIs
  <2> QED BY <1>3, <2>1, <2>2 DEF r
<1> QED BY <1>2, <1>3

\* There are no more sessions than requests.
LEMMA SeidsFinite ==
    IsFiniteSet(Seids) /\ Cardinality(Seids) <= Cardinality(Requests)
<1> DEFINE T == {r.seid : r \in Requests}
           f == [r \in Requests |-> r.seid]
<1>1. f \in Surjection(Requests, T)
  BY DEF Surjection
<1>2. IsFiniteSet(T) /\ Cardinality(T) <= Cardinality(Requests)
  BY <1>1, RequestAssumption, FS_Surjection
<1>3. Seids \in SUBSET T
  BY DEF Seids
<1>4. IsFiniteSet(Seids) /\ Cardinality(Seids) <= Cardinality(T)
  BY <1>2, <1>3, FS_Subset
<1> QED
  BY <1>2, <1>4, RequestAssumption, FS_CardinalityType

LEMMA SessionsOfFinite == \A u : IsFiniteSet(SessionsOf(u))
<1> SUFFICES ASSUME NEW u PROVE IsFiniteSet(SessionsOf(u))
  OBVIOUS
<1>1. SessionsOf(u) \in SUBSET Seids
  BY DEF SessionsOf
<1> QED BY <1>1, SeidsFinite, FS_Subset

LEMMA LoadType ==
    ASSUME IsFiniteSet(Placing), NEW u
    PROVE  /\ IsFiniteSet(PlacingAt(u)) /\ IsFiniteSet(SessionsOf(u))
           /\ Cardinality(SessionsOf(u)) \in Nat /\ Cardinality(PlacingAt(u)) \in Nat
           /\ Load(u) \in Nat
<1>1. PlacingAt(u) \in SUBSET Placing
  BY DEF PlacingAt, Placing
<1>2. IsFiniteSet(PlacingAt(u))
  BY <1>1, FS_Subset
<1> QED BY <1>2, SessionsOfFinite, FS_CardinalityType DEF Load

LEMMA PoolFacts ==
    /\ PoolSize \in Nat \ {0}
    /\ \A i \in 1 .. PoolSize : InitialPool[i] \in Upfs
    /\ \A i, j \in 1 .. PoolSize : InitialPool[i] = InitialPool[j] => i = j
BY PoolAssumption DEF PoolSize

LEMMA ClaimedFinite ==
    ASSUME OneOpenerPerSession, OnlySessionsBalanced, SessionInv
    PROVE  Claimed \subseteq Seids /\ IsFiniteSet(Claimed) /\ Turns \in Nat
<1>1. \A t \in Placing : Seid(t) \in Seids
  BY ChoosingIsNew DEF Placing, At, Choosing
<1>2. Claimed \in SUBSET Seids
  BY <1>1 DEF Claimed, Mapped
<1> QED BY <1>2, SeidsFinite, FS_Subset, FS_CardinalityType DEF Turns

\* Steps that neither take a turn nor place a session.
LEMMA TurnFrame ==
    ASSUME TurnInv, UNCHANGED <<sessions, strategy, nextIndex>>,
           \A x \in Tasks : \/ task'[x] = task[x]
                            \/ task[x].pc # "place" /\ task'[x].pc # "place"
    PROVE  TurnInv'
<1>1. Placing' = Placing
  BY DEF Placing, At
<1>2. \A x \in Placing : Seid(x)' = Seid(x)
  BY DEF Placing, At, Seid, Msg
<1>3. Mapped' = Mapped
  BY DEF Mapped, HasSession
<1>4. Claimed' = Claimed
  BY <1>1, <1>2, <1>3 DEF Claimed
<1>5. ASSUME NEW u PROVE Load(u)' = Load(u)
  <2>1. SessionsOf(u)' = SessionsOf(u)
    BY DEF SessionsOf, HasSession
  <2>2. PlacingAt(u)' = PlacingAt(u)
    BY DEF PlacingAt, At
  <2> QED BY <2>1, <2>2 DEF Load
<1>6. \A i : Load(InitialPool[i])' = Load(InitialPool[i])
  BY <1>5
<1> QED BY <1>1, <1>4, <1>6 DEF TurnInv, Turns

LEMMA TurnTurn ==
    ASSUME OneOpenerPerSession, OnlySessionsBalanced, CursorSuffices,
           SessionInv, SessionInv', SelectInv, TurnInv,
           NEW t \in Tasks, Turn(t), HandleMessage(t)
    PROVE  TurnInv'
<1> DEFINE s == Seid(t)
           j == (Turns % PoolSize) + 1
           w == InitialPool[j]
<1> USE DEF tableVars
<1>1. /\ task[t].pc = "turn" /\ task'[t].pc = "place" /\ task'[t].msg = task[t].msg
      /\ task'[t].dest = InitialPool[(nextIndex % PoolSize) + 1]
      /\ strategy # "least-sessions"
      /\ nextIndex' = (nextIndex + 1) % IndexRange
      /\ UNCHANGED <<sessions, strategy>>
      /\ \A x \in Tasks : x # t => task'[x] = task[x]
  BY TurnFacts, HandlerMoves DEF SessionInv, Turn
<1>2. PICK q \in Nat :
          \A i \in 1 .. PoolSize :
              Load(InitialPool[i]) = IF i <= Turns % PoolSize THEN q + 1 ELSE q
  BY <1>1 DEF TurnInv
<1>3. IsFiniteSet(Placing) /\ nextIndex = Turns % IndexRange
  BY <1>1 DEF TurnInv
<1>4. Placing' = Placing \cup {t} /\ t \notin Placing
  BY <1>1 DEF Placing, At
<1>5. \A x \in Placing \cup {t} : Seid(x)' = Seid(x)
  BY <1>1 DEF Placing, Seid, Msg
<1>6. s \in Seids /\ ~ HasSession(s)
      /\ \A x \in Tasks : task[x].pc \in Choosing /\ Seid(x) = s => x = t
  BY <1>1, ChoosingIsNew DEF Choosing
<1>7. Claimed' = Claimed \cup {s} /\ s \notin Claimed
  <2>1. Mapped' = Mapped /\ s \notin Mapped
    BY <1>1, <1>6 DEF Mapped, HasSession
  <2>2. \A x \in Placing : Seid(x) # s
    BY <1>4, <1>6 DEF Placing, At, Choosing
  <2> QED BY <1>4, <1>5, <2>1, <2>2 DEF Claimed
<1>8. Turns' = Turns + 1 /\ Turns \in Nat
  BY <1>7, ClaimedFinite, FS_AddElement DEF Turns
<1>9. Turns + 1 <= IndexRange
  <2>1. Claimed \cup {s} \in SUBSET Seids
    BY <1>6, ClaimedFinite
  <2>2. Turns + 1 <= Cardinality(Seids)
    BY <1>7, <1>8, <2>1, SeidsFinite, FS_Subset DEF Turns
  <2> QED
    BY <1>8, <2>2, SeidsFinite, RequestAssumption, PoolAssumption, FS_CardinalityType
       DEF CursorSuffices
<1>10. nextIndex = Turns /\ nextIndex' = Turns' % IndexRange
  <2>1. nextIndex = Turns
    <3>1. Turns \in 0 .. IndexRange - 1 /\ IndexRange \in Nat \ {0}
      BY <1>8, <1>9, PoolAssumption
    <3>2. (IndexRange * 0 + Turns) % IndexRange = Turns
      BY <3>1, ModIs
    <3>3. IndexRange * 0 + Turns = Turns
      BY <3>1
    <3> QED BY <1>3, <3>2, <3>3
  <2> QED BY <1>1, <1>8, <2>1
<1>11. j \in 1 .. PoolSize /\ task'[t].dest = w
  BY <1>1, <1>8, <1>10, DivMod, PoolFacts
<1>12. IsFiniteSet(Placing')
  BY <1>3, <1>4, FS_AddElement
<1>13. ASSUME NEW i \in 1 .. PoolSize
       PROVE  Load(InitialPool[i])' = IF i = j THEN Load(InitialPool[i]) + 1
                                               ELSE Load(InitialPool[i])
  <2> DEFINE u == InitialPool[i]
  <2>1. SessionsOf(u)' = SessionsOf(u)
    BY <1>1 DEF SessionsOf, HasSession
  <2>2. u = w <=> i = j
    BY <1>11, PoolFacts
  <2>3. PlacingAt(u)' = IF u = w THEN PlacingAt(u) \cup {t} ELSE PlacingAt(u)
    BY <1>1, <1>11 DEF PlacingAt, At
  <2>4. t \notin PlacingAt(u)
    BY <1>1 DEF PlacingAt, At
  <2>5. Cardinality(PlacingAt(u) \cup {t}) = Cardinality(PlacingAt(u)) + 1
    BY <1>3, <2>4, LoadType, FS_AddElement
  <2>6. Cardinality(PlacingAt(u)) \in Nat /\ Cardinality(SessionsOf(u)) \in Nat
    BY <1>3, LoadType
  <2> HIDE DEF u, w, j
  <2>7. Load(u)' = IF i = j THEN Load(u) + 1 ELSE Load(u)
    BY <2>1, <2>2, <2>3, <2>5, <2>6 DEF Load
  <2> QED BY <2>7 DEF u
<1>14. \E p \in Nat : \A i \in 1 .. PoolSize :
           Load(InitialPool[i])' = IF i <= Turns' % PoolSize THEN p + 1 ELSE p
  <2> DEFINE c == Turns % PoolSize
             n == PoolSize
  <2>1. /\ c \in 0 .. n - 1 /\ n \in Nat \ {0} /\ j = c + 1
        /\ Turns' % n = IF c = n - 1 THEN 0 ELSE c + 1
    BY <1>8, DivMod, NextTurn, PoolFacts
  <2>2. \A i \in 1 .. n : Load(InitialPool[i]) = IF i <= c THEN q + 1 ELSE q
    BY <1>2
  <2>3. \A i \in 1 .. n : Load(InitialPool[i])' = IF i <= c + 1 THEN q + 1 ELSE q
    BY <1>13, <2>1, <2>2
  <2> HIDE DEF c, n, j
  <2>4. CASE c = n - 1
    <3>1. \A i \in 1 .. n : i <= c + 1 /\ ~ (i <= 0)
      BY <2>1, <2>4
    <3>2. \A i \in 1 .. n :
              Load(InitialPool[i])' = IF i <= Turns' % n THEN (q + 1) + 1 ELSE q + 1
      BY <2>1, <2>3, <2>4, <3>1
    <3> QED BY <3>2 DEF n
  <2>5. CASE c # n - 1
    <3>1. \A i \in 1 .. n : Load(InitialPool[i])' = IF i <= Turns' % n THEN q + 1 ELSE q
      BY <2>1, <2>3, <2>5
    <3> QED BY <3>1 DEF n
  <2> QED BY <2>4, <2>5
<1> QED BY <1>10, <1>12, <1>14 DEF TurnInv


\* A session is placed: its UPF has one more, and no other UPF has one less.
LEMMA PlaceCounts ==
    ASSUME OneOpenerPerSession, OnlySessionsBalanced, SessionInv,
           NEW t \in Tasks, Place(t), NEW u
    PROVE  /\ SessionsOf(u)' = IF u = task[t].dest THEN SessionsOf(u) \cup {Seid(t)}
                                                   ELSE SessionsOf(u)
           /\ CountByUpf(u)' = IF u = task[t].dest THEN CountByUpf(u) + 1
                                                   ELSE CountByUpf(u)
           /\ Mapped' = Mapped \cup {Seid(t)}
<1> DEFINE k == task[t]
           s == Seid(t)
           e == [upf |-> k.dest, smf |-> Msg(t).by]
<1>1. k.pc = "place" /\ sessions \in [Seids -> SessionInfo \cup {None}]
  BY DEF Place, At, SessionInv, TypeInv, TypeOK, SessionTableTypeOK
<1>2. s \in Seids /\ ~ HasSession(s) /\ s # None
  BY <1>1, ChoosingIsNew DEF Choosing, Seids
<1>3. \A x \in Seids : sessions'[x] = IF x = s THEN e ELSE sessions[x]
  BY <1>1, <1>2 DEF Place, SessionInsert
<1>4. e # None
  <2>1. /\ k.dest \in Upfs /\ IsSmfRequest(Msg(t)) /\ FromSource(Msg(t))
        /\ Msg(t).req \in Requests
    BY <1>1, BusyTask DEF SessionInv, WellFormed, RouteSteps
  <2>2. Msg(t).by \in Smfs
    BY <2>1, RequestFacts DEF IsSmfRequest, FromSource
  <2> QED BY <2>1, <2>2, NoEntryAssumption DEF SessionInfo
<1>5. \A x \in Seids : sessions'[x] # None <=> x = s \/ sessions[x] # None
  BY <1>3, <1>4
<1>6. Mapped' = Mapped \cup {s}
  BY <1>2, <1>5 DEF Mapped, HasSession
<1>7. e.upf = k.dest
  OBVIOUS
<1> HIDE DEF e
<1>8. SessionsOf(u)' = IF u = k.dest THEN SessionsOf(u) \cup {s} ELSE SessionsOf(u)
  BY <1>2, <1>3, <1>5, <1>7 DEF SessionsOf, HasSession
<1>9. s \notin SessionsOf(u)
  BY <1>2 DEF SessionsOf
<1>10. Cardinality(SessionsOf(u) \cup {s}) = Cardinality(SessionsOf(u)) + 1
  BY <1>9, SessionsOfFinite, FS_AddElement
<1> QED BY <1>6, <1>8, <1>10 DEF CountByUpf

LEMMA TurnPlace ==
    ASSUME OneOpenerPerSession, OnlySessionsBalanced,
           SessionInv, TurnInv, NEW t \in Tasks, Place(t), HandleMessage(t)
    PROVE  TurnInv'
<1> DEFINE k == task[t]
           s == Seid(t)
<1> USE DEF poolVars
<1>1. /\ k.pc = "place" /\ task'[t].pc = "register" /\ UNCHANGED <<strategy, nextIndex>>
      /\ \A x \in Tasks : x # t => task'[x] = task[x]
  BY PlaceFacts, HandlerMoves DEF SessionInv, Place
<1> SUFFICES ASSUME strategy # "least-sessions"
             PROVE  /\ IsFiniteSet(Placing')
                    /\ nextIndex' = Turns' % IndexRange
                    /\ \E q \in Nat : \A i \in 1 .. PoolSize :
                          Load(InitialPool[i])'
                              = IF i <= Turns' % PoolSize THEN q + 1 ELSE q
  BY <1>1 DEF TurnInv
<1>2. IsFiniteSet(Placing) /\ t \in Placing /\ Placing' = Placing \ {t}
  BY <1>1 DEF TurnInv, Placing, At
<1>3. IsFiniteSet(Placing')
  BY <1>2, FS_RemoveElement
<1>4. \A x \in Placing \ {t} : Seid(x)' = Seid(x)
  BY <1>1 DEF Placing, Seid, Msg
<1>5. Mapped' = Mapped \cup {s}
  BY PlaceCounts
<1>6. Claimed' = Claimed
  BY <1>2, <1>4, <1>5 DEF Claimed
<1>7. ASSUME NEW u PROVE Load(u)' = Load(u)
  <2>1. CountByUpf(u)' = IF u = k.dest THEN CountByUpf(u) + 1 ELSE CountByUpf(u)
    BY PlaceCounts
  <2>2. PlacingAt(u)' = PlacingAt(u) \ {t}
    BY <1>1 DEF PlacingAt, At
  <2>3. t \in PlacingAt(u) <=> u = k.dest
    BY <1>1 DEF PlacingAt, At
  <2>4. IsFiniteSet(PlacingAt(u)) /\ Cardinality(PlacingAt(u)) \in Nat
        /\ CountByUpf(u) \in Nat
    BY <1>2, LoadType, CountType
  <2>5. Cardinality(PlacingAt(u) \ {t}) = IF u = k.dest
                                             THEN Cardinality(PlacingAt(u)) - 1
                                             ELSE Cardinality(PlacingAt(u))
    BY <2>3, <2>4, FS_RemoveElement
  <2>6. Load(u) = CountByUpf(u) + Cardinality(PlacingAt(u))
        /\ Load(u)' = CountByUpf(u)' + Cardinality(PlacingAt(u)')
    BY DEF Load, CountByUpf
  <2> QED BY <2>1, <2>2, <2>4, <2>5, <2>6
<1>8. \A i : Load(InitialPool[i])' = Load(InitialPool[i])
  BY <1>7
<1> QED BY <1>1, <1>3, <1>6, <1>8 DEF TurnInv, Turns

LEMMA TurnStep ==
    ASSUME OneOpenerPerSession, OnlySessionsBalanced, SessionsStay, CursorSuffices,
           SessionInv, SessionInv', SelectInv, TurnInv, [Next]_vars
    PROVE  TurnInv'
<1> USE DEF tableVars, poolVars, netVars, peerVars
<1>0. task \in [Tasks -> Task] /\ TypeInv
  BY DEF SessionInv, TypeInv, TypeOK
<1>1. ASSUME NEW t \in Tasks, HandleMessage(t)
      PROVE  TurnInv'
  <2>1. \A x \in Tasks : x # t => task'[x] = task[x]
    BY <1>0, <1>1, HandlerMoves
  <2>2. CASE Select(t)
    <3>1. task[t].pc # "place" /\ task'[t].pc # "place"
      BY <1>0, <2>2, SelectFacts
    <3> QED BY <2>1, <2>2, <3>1, TurnFrame DEF Select
  <2>3. CASE Turn(t)
    BY <1>1, <2>3, TurnTurn
  <2>4. CASE CountBackend(t)
    <3>1. strategy = "least-sessions" /\ UNCHANGED strategy
      BY <1>0, <2>4, CountFacts DEF CountBackend
    <3> QED BY <3>1 DEF TurnInv
  <2>5. CASE Place(t)
    BY <1>1, <2>5, TurnPlace
  <2>6. CASE Unmap(t)
    BY <2>6, NoUnmap DEF SessionInv, Unmap, At
  <2>7. CASE ~ (Select(t) \/ Turn(t) \/ CountBackend(t) \/ Place(t) \/ Unmap(t))
    BY <1>0, <1>1, <2>1, <2>7, OtherHandlers, TurnFrame DEF Choosing
  <2> QED BY <2>2, <2>3, <2>4, <2>5, <2>6, <2>7
<1>2. CASE ReceiveSome
  <2> PICK t \in Tasks, m \in inbox : Receive(t, m)
    BY <1>2 DEF ReceiveSome
  <2>1. m \in Message
    BY DEF SessionInv, TypeInv, TypeOK
  <2>2. /\ \A x \in Tasks : x # t => task'[x] = task[x]
        /\ task'[t] = task[t] \/ task'[t].pc = FirstStep(m)
        /\ task[t].pc = "idle"
    BY <1>0 DEF Receive, Become, IdleTask, At
  <2>3. FirstStep(m) # "place"
    BY <2>1, FirstStepFacts
  <2> QED BY <2>2, <2>3, TurnFrame DEF Receive
<1>3. CASE \/ \E q \in Seqs : GrowOld(q) \/ CleanupStale(q)
           \/ \E c \in commands : ApplyCommand(c)
           \/ \E r \in Requests : SendRequest(r)
           \/ PeerStep
           \/ Lose
           \/ UNCHANGED vars
  <2>1. ~ \E c \in commands : ApplyCommand(c)
    BY DEF SelectInv
  <2>2. UNCHANGED <<sessions, strategy, nextIndex, task>>
    BY <1>3, <2>1 DEF GrowOld, CleanupStale, SendRequest, PeerStep,
       PeerHandles, PeerGetsResponse, Lose, vars
  <2> QED BY <2>2, TurnFrame
<1> QED BY <1>1, <1>2, <1>3 DEF Next, Wait

LEMMA TurnInit == Init => TurnInv
<1> SUFFICES ASSUME Init PROVE TurnInv
  OBVIOUS
<1>1. Placing = {} /\ Mapped = {}
  BY DEF Init, IdleTask, At, Placing, Mapped, SessionTableInit, HasSession
<1>2. \A u : PlacingAt(u) = {} /\ SessionsOf(u) = {}
  BY <1>1 DEF Placing, PlacingAt, SessionsOf, Mapped
<1>3. \A u : Load(u) = 0
  BY <1>2, FS_EmptySet DEF Load
<1>4. Turns = 0
  BY <1>1, FS_EmptySet DEF Turns, Claimed
<1>5. 0 % IndexRange = 0 /\ 0 % PoolSize = 0
  BY PoolFacts, PoolAssumption
<1>6. \A i \in 1 .. PoolSize : Load(InitialPool[i]) = IF i <= 0 THEN 0 + 1 ELSE 0
  BY <1>3
<1>7. \E q \in Nat : \A i \in 1 .. PoolSize :
          Load(InitialPool[i]) = IF i <= Turns % PoolSize THEN q + 1 ELSE q
  BY <1>4, <1>5, <1>6
<1> QED
  BY <1>1, <1>4, <1>5, <1>7, FS_EmptySet DEF TurnInv, Init, UpfPoolInit

\* Round robin puts on any two backends of a fixed pool numbers of sessions
\* that differ by one at most, however many tasks select at the same time: the
\* cursor's fetch_add gives each session a turn of its own.
THEOREM EvenPlacementCorrect ==
    ASSUME OneOpenerPerSession, NodeMessagesHaveNoSeid, FixedPool,
           OnlySessionsBalanced, SessionsStay, CursorSuffices
    PROVE  Spec => []EvenPlacement
<1> DEFINE Inv == SessionInv /\ SelectInv /\ TurnInv
<1>1. Init => Inv
  BY SessionInit, SelectInit, TurnInit
<1>2. Inv /\ [Next]_vars => Inv'
  BY SessionStep, SelectStep, TurnStep DEF SessionInv
<1>3. Inv => EvenPlacement
  <2> SUFFICES ASSUME Inv, strategy # "least-sessions",
                      NEW u \in PoolMembers, NEW v \in PoolMembers
               PROVE  Load(u) <= Load(v) + 1
    BY DEF EvenPlacement
  <2>1. PICK q \in Nat :
            \A i \in 1 .. PoolSize :
                Load(InitialPool[i]) = IF i <= Turns % PoolSize THEN q + 1 ELSE q
    BY DEF TurnInv
  <2>2. PICK i \in 1 .. PoolSize : u = InitialPool[i]
    BY DEF PoolMembers, SelectInv, PoolSize
  <2>3. PICK j \in 1 .. PoolSize : v = InitialPool[j]
    BY DEF PoolMembers, SelectInv, PoolSize
  <2>4. Load(u) \in {q, q + 1} /\ Load(v) \in {q, q + 1}
    BY <2>1, <2>2, <2>3
  <2> QED BY <2>4
<1> QED BY <1>1, <1>2, <1>3, PTL DEF Spec


-----------------------------------------------------------------------------
(***************************************************************************)
(* Least sessions                                                          *)
(***************************************************************************)

\* So that their number is one.
FiniteTasks == IsFiniteSet(Tasks)

LEMMA ChoosersFinite ==
    ASSUME FiniteTasks, NEW u, NEW m
    PROVE  /\ IsFiniteSet(Choosers(u, m))
           /\ Cardinality(Choosers(u, m)) \in Nat
           /\ Cardinality(Tasks) \in Nat
           /\ Cardinality(Choosers(u, m)) <= Cardinality(Tasks)
<1>1. Choosers(u, m) \in SUBSET Tasks
  BY DEF Choosers
<1> QED BY <1>1, FS_Subset, FS_CardinalityType DEF FiniteTasks

\* A state in which as much is mapped, and no task more chooses.
LEMMA SpreadFrame ==
    ASSUME FiniteTasks, SpreadInv, UNCHANGED <<sessions, strategy, backends>>,
           strategy = "least-sessions" =>
               \A x \in Tasks : \A u \in PoolMembers, m \in Nat :
                   Chooses(task'[x], u, m) => Chooses(task[x], u, m)
    PROVE  SpreadInv'
<1> SUFFICES ASSUME strategy = "least-sessions",
                    NEW u \in PoolMembers, NEW m \in Nat,
                    NEW v \in PoolMembers, CountByUpf(v)' <= m
             PROVE  CountByUpf(u)' + Cardinality(Choosers(u, m)') <= m + Cardinality(Tasks)
  BY DEF SpreadInv, PoolMembers
<1>1. \A w : CountByUpf(w)' = CountByUpf(w)
  BY DEF CountByUpf, SessionsOf, HasSession
<1>2. CountByUpf(u) + Cardinality(Choosers(u, m)) <= m + Cardinality(Tasks)
  BY <1>1 DEF SpreadInv
<1>3. Choosers(u, m)' \in SUBSET Choosers(u, m)
  BY DEF Choosers, Chooses
<1>4. /\ Cardinality(Choosers(u, m)') <= Cardinality(Choosers(u, m))
      /\ Cardinality(Choosers(u, m)') \in Nat /\ Cardinality(Choosers(u, m)) \in Nat
  BY <1>3, ChoosersFinite, FS_Subset, FS_CardinalityType
<1> QED BY <1>1, <1>2, <1>4, ChoosersFinite, CountType

LEMMA ReadFrame ==
    ASSUME ReadInv, UNCHANGED <<strategy, backends>>,
           \A v \in PoolMembers : CountByUpf(v)' \in Nat /\ CountByUpf(v)' >= CountByUpf(v),
           strategy = "least-sessions" =>
               \A x \in Tasks : \/ task'[x] = task[x] /\ task[x] \in Task
                                \/ ReadTask(task[x])'
    PROVE  ReadInv'
<1> SUFFICES ASSUME strategy = "least-sessions", NEW x \in Tasks
             PROVE  ReadTask(task[x])'
  BY DEF ReadInv, ReadTask, PoolMembers, Unread
<1>1. CASE ReadTask(task[x])'
  BY <1>1
<1>2. CASE task'[x] = task[x] /\ task[x] \in Task
  <2>1. ReadTask(task[x]) /\ task[x].n \in Nat
    BY <1>2 DEF ReadInv, Task
  <2>2. ASSUME NEW v \in PoolMembers, task[x].n <= CountByUpf(v)
        PROVE  task[x].n <= CountByUpf(v)'
    BY <2>1, <2>2, CountType
  <2>3. PoolMembers' = PoolMembers
    BY DEF PoolMembers
  <2> QED BY <1>2, <2>1, <2>2, <2>3 DEF ReadTask, Unread
<1> QED BY <1>1, <1>2

\* Reading one backend: it is the choice from then on, or no better than it.
LEMMA CountReads ==
    ASSUME SessionInv, SelectInv, ReadInv, NEW t \in Tasks, CountBackend(t),
           HandleMessage(t)
    PROVE  ReadInv'
<1> DEFINE k == task[t]
           u == Head(k.hosts)
           new == task'[t]
           less == k.dest = None \/ CountByUpf(u) < k.n
<1> USE DEF tableVars, poolVars
<1>0. task \in [Tasks -> Task] /\ TypeInv /\ k \in Task
  BY DEF SessionInv, TypeInv, TypeOK
<1>1. /\ k.pc = "count" /\ strategy = "least-sessions" /\ k.hosts # << >>
      /\ new.hosts = Tail(k.hosts)
      /\ new.dest = (IF less THEN u ELSE k.dest)
      /\ new.n = (IF less THEN CountByUpf(u) ELSE k.n)
  BY <1>0, CountFacts
<1>2. UNCHANGED <<sessions, strategy, backends>>
      /\ \A x \in Tasks : x # t => task'[x] = task[x]
  BY <1>0, HandlerMoves DEF CountBackend
<1>3. \A v : CountByUpf(v)' = CountByUpf(v) /\ CountByUpf(v) \in Nat
  BY <1>2, CountType DEF CountByUpf, SessionsOf, HasSession
<1>4. k.hosts \in Seq(Upfs) /\ k.n \in Nat /\ u \in Upfs /\ u # None
  BY <1>0, <1>1, AddressAssumption DEF Task, Addr
<1>5. ReadTask(k)
  BY <1>1 DEF ReadInv
<1>6. \A v : Unread(k, v) => Unread(new, v) \/ v = u
  <2> SUFFICES ASSUME NEW v, NEW i \in 1 .. Len(k.hosts), k.hosts[i] = v, i # 1
               PROVE  Unread(new, v)
    BY <1>1, <1>4 DEF Unread
  <2>1. i - 1 \in 1 .. Len(Tail(k.hosts)) /\ Tail(k.hosts)[i - 1] = v
    BY <1>1, <1>4
  <2> QED BY <1>1, <2>1 DEF Unread
<1> HIDE DEF u, new
<1>7. new.dest # None /\ new.n <= CountByUpf(u)
      /\ \A v : k.dest # None /\ k.n <= CountByUpf(v) => new.n <= CountByUpf(v)
  BY <1>1, <1>3, <1>4
<1>8. \A v \in PoolMembers : Unread(new, v) \/ new.n <= CountByUpf(v)
  BY <1>1, <1>5, <1>6, <1>7 DEF ReadTask
<1>9. ReadTask(task[t])'
  <2>1. PoolMembers' = PoolMembers
    BY <1>2 DEF PoolMembers
  <2> QED BY <1>3, <1>7, <1>8, <2>1 DEF ReadTask, Unread, new
<1> QED BY <1>0, <1>2, <1>3, <1>9, ReadFrame DEF new


LEMMA CountSpreads ==
    ASSUME FiniteTasks, SessionInv, SelectInv, SpreadInv,
           NEW t \in Tasks, CountBackend(t), HandleMessage(t)
    PROVE  SpreadInv'
<1> DEFINE k == task[t]
           w == Head(k.hosts)
           new == task'[t]
           less == k.dest = None \/ CountByUpf(w) < k.n
<1> USE DEF tableVars, poolVars
<1>0. task \in [Tasks -> Task] /\ TypeInv /\ k \in Task
  BY DEF SessionInv, TypeInv, TypeOK
<1>1. /\ k.pc = "count" /\ strategy = "least-sessions"
      /\ new.dest = (IF less THEN w ELSE k.dest)
      /\ new.n = (IF less THEN CountByUpf(w) ELSE k.n)
  BY <1>0, CountFacts
<1>2. UNCHANGED <<sessions, strategy, backends>>
      /\ \A x \in Tasks : x # t => task'[x] = task[x]
  BY <1>0, HandlerMoves DEF CountBackend
<1> HIDE DEF w, new
<1> SUFFICES ASSUME NEW u \in PoolMembers, NEW m \in Nat,
                    NEW v \in PoolMembers, CountByUpf(v)' <= m
             PROVE  CountByUpf(u)' + Cardinality(Choosers(u, m)') <= m + Cardinality(Tasks)
  BY <1>2 DEF SpreadInv, PoolMembers
<1>3. \A x : CountByUpf(x)' = CountByUpf(x) /\ CountByUpf(x) \in Nat
  BY <1>2, CountType DEF CountByUpf, SessionsOf, HasSession
<1>4. CountByUpf(u) + Cardinality(Choosers(u, m)) <= m + Cardinality(Tasks)
  BY <1>1, <1>3 DEF SpreadInv
<1>5. Choosers(u, m)' \in SUBSET Tasks
  BY DEF Choosers
<1>6. /\ Cardinality(Choosers(u, m)') <= Cardinality(Tasks)
      /\ Cardinality(Choosers(u, m)') \in Nat
  BY <1>5, FS_Subset, FS_CardinalityType DEF FiniteTasks
<1>7. CASE CountByUpf(u) <= m
  BY <1>3, <1>6, <1>7, ChoosersFinite
<1>8. CASE ~ (CountByUpf(u) <= m)
  <2>1. Chooses(new, u, m) => Chooses(k, u, m)
    BY <1>1, <1>3, <1>8 DEF Chooses
  <2>2. Choosers(u, m)' \in SUBSET Choosers(u, m)
    BY <1>2, <2>1 DEF Choosers, new
  <2>3. Cardinality(Choosers(u, m)') <= Cardinality(Choosers(u, m))
    BY <2>2, ChoosersFinite, FS_Subset
  <2> QED BY <1>3, <1>4, <1>6, <2>3, ChoosersFinite
<1> QED BY <1>7, <1>8

\* The task that places was one of those that may: its choice had no more
\* sessions than the least loaded backend has now.
LEMMA PlaceSpreads ==
    ASSUME OneOpenerPerSession, OnlySessionsBalanced, FiniteTasks,
           SessionInv, SelectInv, ReadInv, SpreadInv,
           NEW t \in Tasks, Place(t), HandleMessage(t)
    PROVE  ReadInv' /\ SpreadInv'
<1> DEFINE k == task[t]
<1> USE DEF tableVars, poolVars
<1>0. task \in [Tasks -> Task] /\ TypeInv /\ k \in Task
  BY DEF SessionInv, TypeInv, TypeOK
<1>1. /\ k.pc = "place" /\ task'[t].pc = "register"
      /\ UNCHANGED <<strategy, backends>>
      /\ \A x \in Tasks : x # t => task'[x] = task[x]
      /\ k.hosts = << >>
  BY <1>0, PlaceFacts, HandlerMoves DEF Place, SelectInv, SelectTask
<1>2. \A x : CountByUpf(x)' = IF x = k.dest THEN CountByUpf(x) + 1 ELSE CountByUpf(x)
  BY PlaceCounts
<1>3. \A x : CountByUpf(x)' \in Nat /\ CountByUpf(x)' >= CountByUpf(x)
             /\ CountByUpf(x) \in Nat
  BY <1>2, CountType
<1>4. ReadInv'
  <2>1. ReadTask(task[t])'
    BY <1>1 DEF ReadTask
  <2>2. \A x \in Tasks : x # t => task[x] \in Task
    BY <1>0
  <2> QED BY <1>1, <1>3, <2>1, <2>2, ReadFrame
<1>5. SpreadInv'
  <2> SUFFICES ASSUME strategy = "least-sessions",
                      NEW u \in PoolMembers, NEW m \in Nat,
                      NEW v \in PoolMembers, CountByUpf(v)' <= m
               PROVE  CountByUpf(u)' + Cardinality(Choosers(u, m)')
                          <= m + Cardinality(Tasks)
    BY <1>1 DEF SpreadInv, PoolMembers
  <2>1. CountByUpf(v) <= m
    BY <1>3
  <2>2. CountByUpf(u) + Cardinality(Choosers(u, m)) <= m + Cardinality(Tasks)
    BY <2>1 DEF SpreadInv
  <2>3. k.n <= m
    <3>1. ReadTask(k)
      BY DEF ReadInv
    <3>2. ~ Unread(k, v)
      BY <1>1 DEF Unread
    <3>3. k.n <= CountByUpf(v) /\ k.n \in Nat
      BY <1>0, <1>1, <3>1, <3>2 DEF ReadTask, Task
    <3> QED BY <1>3, <2>1, <3>3
  <2>4. Choosers(u, m)' = Choosers(u, m) \ {t}
    BY <1>1 DEF Choosers, Chooses
  <2>5. t \in Choosers(u, m) <=> u = k.dest
    BY <1>1, <2>3 DEF Choosers, Chooses
  <2>6. Cardinality(Choosers(u, m)') = IF u = k.dest THEN Cardinality(Choosers(u, m)) - 1
                                                     ELSE Cardinality(Choosers(u, m))
    BY <2>4, <2>5, ChoosersFinite, FS_RemoveElement
  <2> QED BY <1>2, <1>3, <2>2, <2>6, ChoosersFinite
<1> QED BY <1>4, <1>5

LEMMA SpreadStep ==
    ASSUME OneOpenerPerSession, OnlySessionsBalanced, SessionsStay, FiniteTasks,
           SessionInv, SelectInv, ReadInv, SpreadInv, [Next]_vars
    PROVE  ReadInv' /\ SpreadInv'
<1> USE DEF tableVars, poolVars, netVars, peerVars
<1>0. task \in [Tasks -> Task] /\ TypeInv /\ (\A x \in Tasks : task[x] \in Task)
  BY DEF SessionInv, TypeInv, TypeOK
<1>1. ASSUME UNCHANGED <<sessions, strategy, backends>>,
             strategy = "least-sessions" =>
                 \A x \in Tasks : \/ task'[x] = task[x]
                                  \/ task'[x].pc \notin {"count", "place"}
      PROVE  ReadInv' /\ SpreadInv'
  <2>1. \A v : CountByUpf(v)' = CountByUpf(v) /\ CountByUpf(v) \in Nat
    BY <1>1, CountType DEF CountByUpf, SessionsOf, HasSession
  <2>2. ASSUME NEW x \in Tasks, task'[x].pc \notin {"count", "place"}
        PROVE  ReadTask(task[x])' /\ \A u, m : ~ Chooses(task'[x], u, m)
    BY <2>2 DEF ReadTask, Chooses
  <2>3. ReadInv'
    BY <1>0, <1>1, <2>1, <2>2, ReadFrame
  <2>4. SpreadInv'
    BY <1>1, <2>2, SpreadFrame
  <2> QED BY <2>3, <2>4
<1>2. ASSUME NEW t \in Tasks, HandleMessage(t)
      PROVE  ReadInv' /\ SpreadInv'
  <2>1. \A x \in Tasks : x # t => task'[x] = task[x]
    BY <1>0, <1>2, HandlerMoves
  <2>2. CASE Select(t)
    <3>1. UNCHANGED <<sessions, strategy, backends>>
      BY <2>2 DEF Select
    <3>2. CASE task'[t].pc \notin {"count", "place"}
      BY <1>1, <2>1, <3>1, <3>2
    <3>3. CASE task'[t].pc \in {"count", "place"}
      <4>1. task'[t].hosts = InitialPool /\ task'[t].dest = None
        BY <1>0, <2>2, <3>3, SelectFacts
      <4>2. backends = InitialPool /\ backends' = InitialPool
        BY <3>1 DEF SelectInv
      <4>3. \A u \in PoolMembers : u # None
        BY <4>2, PoolFacts, AddressAssumption DEF PoolMembers, PoolSize, Addr
      <4>4. \A v \in PoolMembers' : Unread(task'[t], v)
        BY <4>1, <4>2 DEF PoolMembers, Unread
      <4>5. ReadTask(task[t])'
        BY <4>4 DEF ReadTask, Unread
      <4>6. \A u \in PoolMembers, m \in Nat : ~ Chooses(task'[t], u, m)
        BY <4>1, <4>3 DEF Chooses
      <4>7. \A v : CountByUpf(v)' = CountByUpf(v) /\ CountByUpf(v) \in Nat
        BY <3>1, CountType DEF CountByUpf, SessionsOf, HasSession
      <4>8. ReadInv'
        BY <1>0, <2>1, <3>1, <4>5, <4>7, ReadFrame
      <4>9. SpreadInv'
        BY <2>1, <3>1, <4>6, SpreadFrame
      <4> QED BY <4>8, <4>9
    <3> QED BY <3>2, <3>3
  <2>3. CASE Turn(t)
    <3>1. strategy # "least-sessions" /\ UNCHANGED strategy
      BY <1>0, <2>3, TurnFacts DEF Turn
    <3> QED BY <3>1 DEF ReadInv, SpreadInv
  <2>4. CASE CountBackend(t)
    BY <1>2, <2>4, CountReads, CountSpreads
  <2>5. CASE Place(t)
    BY <1>2, <2>5, PlaceSpreads
  <2>6. CASE Unmap(t)
    BY <2>6, NoUnmap DEF SessionInv, Unmap, At
  <2>7. CASE ~ (Select(t) \/ Turn(t) \/ CountBackend(t) \/ Place(t) \/ Unmap(t))
    BY <1>0, <1>1, <1>2, <2>1, <2>7, OtherHandlers DEF Choosing
  <2> QED BY <2>2, <2>3, <2>4, <2>5, <2>6, <2>7
<1>3. CASE ReceiveSome
  <2> PICK t \in Tasks, m \in inbox : Receive(t, m)
    BY <1>3 DEF ReceiveSome
  <2>1. m \in Message
    BY DEF SessionInv, TypeInv, TypeOK
  <2>2. /\ \A x \in Tasks : x # t => task'[x] = task[x]
        /\ task'[t] = task[t] \/ task'[t].pc = FirstStep(m)
    BY <1>0 DEF Receive, Become, IdleTask
  <2>3. FirstStep(m) \notin {"count", "place"}
    BY <2>1, FirstStepFacts
  <2> QED BY <1>1, <2>2, <2>3 DEF Receive
<1>4. CASE \/ \E q \in Seqs : GrowOld(q) \/ CleanupStale(q)
           \/ \E c \in commands : ApplyCommand(c)
           \/ \E r \in Requests : SendRequest(r)
           \/ PeerStep
           \/ Lose
           \/ UNCHANGED vars
  <2>1. ~ \E c \in commands : ApplyCommand(c)
    BY DEF SelectInv
  <2>2. UNCHANGED <<sessions, strategy, backends, task>>
    BY <1>4, <2>1 DEF GrowOld, CleanupStale, SendRequest, PeerStep,
       PeerHandles, PeerGetsResponse, Lose, vars
  <2> QED BY <1>1, <2>2
<1> QED BY <1>2, <1>3, <1>4 DEF Next, Wait

LEMMA SpreadInit == FiniteTasks /\ Init => ReadInv /\ SpreadInv
<1> SUFFICES ASSUME FiniteTasks, Init PROVE ReadInv /\ SpreadInv
  OBVIOUS
<1>1. \A u : SessionsOf(u) = {}
  BY DEF Init, SessionTableInit, SessionsOf, HasSession
<1>2. \A u, m : CountByUpf(u) = 0
  BY <1>1, FS_EmptySet DEF CountByUpf
<1>3. ReadInv
  BY DEF Init, IdleTask, ReadInv, ReadTask
<1>4. SpreadInv
  BY <1>2, ChoosersFinite DEF SpreadInv
<1> QED BY <1>3, <1>4

\* Under least-sessions no backend of a fixed pool has more sessions than
\* another and, on top, one for each task: that many may have read its count
\* before it went up.
THEOREM LeastSessionsCorrect ==
    ASSUME OneOpenerPerSession, NodeMessagesHaveNoSeid, FixedPool,
           OnlySessionsBalanced, SessionsStay, FiniteTasks
    PROVE  Spec => []LeastSessionsSpread
<1> DEFINE Inv == SessionInv /\ SelectInv /\ ReadInv /\ SpreadInv
<1>1. Init => Inv
  BY SessionInit, SelectInit, SpreadInit
<1>2. Inv /\ [Next]_vars => Inv'
  BY SessionStep, SelectStep, SpreadStep DEF SessionInv
<1>3. Inv => LeastSessionsSpread
  <2> SUFFICES ASSUME Inv, strategy = "least-sessions",
                      NEW u \in PoolMembers, NEW v \in PoolMembers
               PROVE  CountByUpf(u) <= CountByUpf(v) + Cardinality(Tasks)
    BY DEF LeastSessionsSpread, CountByUpf
  <2> DEFINE m == CountByUpf(v)
  <2>1. m \in Nat /\ m <= m /\ CountByUpf(u) \in Nat
    BY CountType
  <2>2. CountByUpf(u) + Cardinality(Choosers(u, m)) <= m + Cardinality(Tasks)
    BY <2>1 DEF SpreadInv
  <2> QED BY <2>1, <2>2, ChoosersFinite
<1> QED BY <1>1, <1>2, <1>3, PTL DEF Spec

=============================================================================
