--------------------------- MODULE TestSmf_proofs ---------------------------
(***************************************************************************)
(* Theorems about TestSmf: the test client counts datagrams without        *)
(* looking at them, and still a phase is over only when each of its        *)
(* requests was answered.  The proof follows every request of the client   *)
(* through the one place where it, or its response, can be.                *)
(***************************************************************************)
EXTENDS TestSmf, Sessions_proofs

-----------------------------------------------------------------------------
(***************************************************************************)
(* Types                                                                   *)
(***************************************************************************)

\* The client is an SMF, and a script consists of its requests.
LEMMA ScriptFacts ==
    ASSUME script \in Scripts
    PROVE  /\ Client \in Smfs /\ Client \in Addr /\ Client \notin Upfs
           /\ script \in Seq(Seq({r \in Requests : r.src = Client}))
           /\ Len(script) \in Nat
           /\ \A i \in 1 .. Len(script) : Len(script[i]) \in Nat
           /\ \A i \in 1 .. Len(script) : \A k \in 1 .. Len(script[i]) :
                 script[i][k] \in Requests /\ script[i][k].src = Client
<1> DEFINE R == {r \in Requests : r.src = Client}
<1>1. script \in Seq(Seq(R)) /\ Client \in Smfs
  BY ClientAssumption
<1>2. \A i \in 1 .. Len(script) : script[i] \in Seq(R)
  BY <1>1
<1>3. ASSUME NEW i \in 1 .. Len(script), NEW k \in 1 .. Len(script[i])
      PROVE  script[i][k] \in R
  <2> DEFINE p == script[i]
  <2>1. p \in Seq(R) /\ k \in 1 .. Len(p)
    BY <1>2
  <2> HIDE DEF p, R
  <2>2. p[k] \in R
    BY <2>1
  <2> QED BY <2>2 DEF p
<1> QED BY <1>1, <1>2, <1>3, AddressAssumption DEF Addr

\* What the steps of TestSmf are for the proxy: the client sends, or a datagram
\* to it leaves the network, or it is a step of Proxy.
LEMMA TestSteps ==
    ASSUME [TestNext]_testVars
    PROVE  \/ ClientSends
           \/ \E d \in outbox : ClientReceives(d)
           \/ \E d \in outbox : ClientIsGone(d)
           \/ ClientTimesOut
           \/ /\ ProxyStep \/ OthersReceive \/ OthersSend \/ Lose \/ UNCHANGED vars
              /\ [Next]_vars
              /\ UNCHANGED clientVars
<1>1. ProxyStep \/ OthersReceive \/ OthersSend \/ Lose => Next
  BY DEF ProxyStep, OthersReceive, OthersSend, Next, PeerStep
<1> QED BY <1>1 DEF TestNext, ClientStep, TestIsOver, testVars, clientVars

\* The client sends its next request.
LEMMA SendsFacts ==
    ASSUME TestTypeOK, ClientSends
    PROVE  \E r \in Requests :
              /\ r = script[phase][sent + 1] /\ r.src = Client
              /\ phase \in 1 .. Len(script) /\ sent + 1 \in 1 .. Len(script[phase])
              /\ inbox' = inbox \cup {RequestMsg(r)}
              /\ sends' = [sends EXCEPT ![r] = sends[r] + 1]
              /\ sent' = sent + 1
              /\ UNCHANGED <<tableVars, poolVars, stats, task, outbox, commands,
                             answered, handled, expired, script, phase, received,
                             timeouts>>
<1>1. phase \in 1 .. Len(script) /\ script \in Scripts
  BY ScriptFacts DEF TestTypeOK, ClientSends, Finished
<1>2. sent \in Nat /\ sent < Len(script[phase])
  BY <1>1, ScriptFacts DEF TestTypeOK, ClientSends, Finished, Expected
<1>3. sent + 1 \in 1 .. Len(script[phase])
  BY <1>1, <1>2, ScriptFacts
<1>4. script[phase][sent + 1] \in Requests /\ script[phase][sent + 1].src = Client
  BY <1>1, <1>3, ScriptFacts
<1> QED BY <1>1, <1>3, <1>4 DEF ClientSends

\* A datagram to the client is read, or lost with the socket.
Takes(d) ==
    /\ d \in outbox /\ d.to = Client
    /\ outbox' = outbox \ {d}
    /\ \/ answered' = answered
       \/ /\ d.msg.kind = "response" /\ d.msg.req.src = Client
          /\ answered' = answered \cup {[req |-> d.msg.req, by |-> d.msg.by]}
    /\ UNCHANGED <<tableVars, poolVars, stats, task, inbox, commands, sends,
                   handled, expired, script, timeouts>>

LEMMA TakesFacts ==
    ASSUME NEW d, ClientReceives(d) \/ ClientIsGone(d)
    PROVE  Takes(d)
BY DEF ClientReceives, ClientIsGone, Reads, Takes, peerVars, clientVars

LEMMA ClientTypes ==
    ASSUME TypeInv, TestTypeOK, ClientSends \/ \E d \in outbox : Takes(d)
    PROVE  TypeInv'
<1> USE DEF tableVars, poolVars, netVars, peerVars
<1>0. /\ PendingTypeOK /\ UpfPoolTypeOK
      /\ \A u \in Upfs : health[u] = "Unknown"
      /\ inbox \subseteq Message /\ \A m \in inbox : FromSource(m)
      /\ outbox \subseteq Datagram
      /\ commands \subseteq Commands
      /\ sends \in [Requests -> Nat]
      /\ answered \subseteq Answer
      /\ handled \subseteq Handled
      /\ expired \subseteq Seqs
  BY DEF TypeInv, TypeOK
<1>1. UNCHANGED <<pending, poolVars>> =>
          PendingTypeOK' /\ UpfPoolTypeOK' /\ \A u \in Upfs : health'[u] = "Unknown"
  BY <1>0 DEF PendingTypeOK, UpfPoolTypeOK
<1>2. CASE ClientSends
  <2> PICK r \in Requests :
          /\ inbox' = inbox \cup {RequestMsg(r)}
          /\ sends' = [sends EXCEPT ![r] = sends[r] + 1]
          /\ UNCHANGED <<tableVars, poolVars, stats, task, outbox, commands,
                         answered, handled, expired>>
    BY <1>2, SendsFacts
  <2>1. RequestMsg(r) \in Message /\ FromSource(RequestMsg(r))
    BY RequestFacts DEF RequestMsg, Message, FromSource
  <2>2. sends' \in [Requests -> Nat]
    BY <1>0
  <2> QED BY <1>0, <1>1, <2>1, <2>2, OutsideStep
<1>3. ASSUME NEW d \in outbox, Takes(d) PROVE TypeInv'
  <2>1. [req |-> d.msg.req, by |-> d.msg.by] \in Answer
    BY <1>0 DEF Datagram, Message, Answer
  <2>2. answered' \subseteq Answer /\ outbox' \subseteq outbox
    BY <1>0, <1>3, <2>1 DEF Takes
  <2> QED BY <1>0, <1>1, <1>3, <2>2, OutsideStep DEF Takes
<1> QED BY <1>2, <1>3

\* The counts of the client stay within its script.
LEMMA ClientCounts ==
    ASSUME TestTypeOK, [TestNext]_testVars
    PROVE  /\ script' \in Scripts
           /\ phase' \in 1 .. Len(script') + 1
           /\ sent' \in 0 .. (IF Finished' THEN 0 ELSE Expected')
           /\ received' \in 0 .. sent'
           /\ timeouts' \in 0 .. MaxTimeouts
<1>1. /\ script \in Scripts /\ Len(script) \in Nat
      /\ phase \in 1 .. Len(script) + 1
      /\ sent \in 0 .. (IF Finished THEN 0 ELSE Expected)
      /\ received \in 0 .. sent
      /\ timeouts \in 0 .. MaxTimeouts
      /\ MaxTimeouts \in Nat
      /\ ~ Finished => phase \in 1 .. Len(script) /\ Expected \in Nat
  BY ScriptFacts, ClientAssumption DEF TestTypeOK, Finished, Expected
<1>2. CASE ClientSends
  <2>1. /\ ~ Finished /\ sent < Expected /\ sent' = sent + 1
        /\ UNCHANGED <<script, phase, received, timeouts>>
    BY <1>2 DEF ClientSends
  <2>2. Finished' = Finished /\ Expected' = Expected
    BY <2>1 DEF Finished, Expected
  <2> QED BY <1>1, <2>1, <2>2
<1>3. ASSUME ~ Finished, NextPhase, script' = script, timeouts' \in 0 .. MaxTimeouts
      PROVE  /\ phase' \in 1 .. Len(script') + 1
             /\ sent' \in 0 .. (IF Finished' THEN 0 ELSE Expected')
             /\ received' \in 0 .. sent'
  <2>1. phase' = phase + 1 /\ sent' = 0 /\ received' = 0
    BY <1>3 DEF NextPhase
  <2>2. phase' \in 1 .. Len(script') + 1
    BY <1>1, <1>3, <2>1
  <2>3. ~ Finished' => Expected' \in Nat
    <3>1. ~ Finished' => phase' \in 1 .. Len(script')
      BY <1>1, <1>3, <2>1 DEF Finished
    <3> QED BY <1>1, <1>3, <3>1, ScriptFacts DEF Expected
  <2> QED BY <2>1, <2>2, <2>3
<1>4. CASE \E d \in outbox : ClientReceives(d)
  <2> PICK d \in outbox : ClientReceives(d)
    BY <1>4
  <2>1. ~ Finished /\ sent = Expected /\ UNCHANGED <<script, timeouts>>
    BY DEF ClientReceives, Waiting, Reads
  <2>2. CASE NextPhase
    BY <1>1, <1>3, <2>1, <2>2
  <2>3. CASE received + 1 < Expected /\ received' = received + 1 /\ UNCHANGED <<phase, sent>>
    <3>1. Finished' = Finished /\ Expected' = Expected
      BY <2>1, <2>3 DEF Finished, Expected
    <3> QED BY <1>1, <2>1, <2>3, <3>1
  <2> QED BY <1>1, <2>1, <2>2, <2>3 DEF ClientReceives
<1>5. CASE ClientTimesOut
  <2>1. /\ ~ Finished /\ NextPhase /\ script' = script
        /\ timeouts < MaxTimeouts /\ timeouts' = timeouts + 1
    BY <1>5 DEF ClientTimesOut, Waiting
  <2> QED BY <1>1, <1>3, <2>1
<1>6. CASE UNCHANGED clientVars
  BY <1>1, <1>6 DEF clientVars, Finished, Expected
<1>7. (\E d \in outbox : ClientIsGone(d)) => UNCHANGED clientVars
  BY DEF ClientIsGone
<1> QED BY <1>2, <1>4, <1>5, <1>6, <1>7, TestSteps

LEMMA TestTypes ==
    ASSUME TypeInv, TestTypeOK, [TestNext]_testVars
    PROVE  TypeInv' /\ TestTypeOK'
<1>1. ClientSends => TypeInv'
  BY ClientTypes
<1>2. ASSUME NEW d \in outbox, ClientReceives(d) \/ ClientIsGone(d) PROVE TypeInv'
  BY <1>2, TakesFacts, ClientTypes
<1>3. ClientTimesOut => [Next]_vars
  BY DEF ClientTimesOut, vars
<1>4. [Next]_vars => TypeInv'
  BY StepTypes
<1>5. TypeInv'
  BY <1>1, <1>2, <1>3, <1>4, TestSteps
<1> QED BY <1>5, ClientCounts DEF TestTypeOK, TypeInv

LEMMA TestInitTypes == TestInit => TypeInv /\ TestTypeOK
<1> SUFFICES ASSUME TestInit PROVE TypeInv /\ TestTypeOK
  OBVIOUS
<1>1. /\ TypeInv /\ script \in Scripts /\ Len(script) \in Nat
      /\ phase = 1 /\ sent = 0 /\ received = 0 /\ timeouts = 0 /\ MaxTimeouts \in Nat
  BY InitTypes, ScriptFacts, ClientAssumption DEF TestInit
<1>2. ~ Finished => Expected \in Nat
  BY <1>1, ScriptFacts DEF Finished, Expected
<1> QED BY <1>1, <1>2 DEF TestTypeOK, TypeInv

\* The variables of proxy and client keep their types; in particular the client
\* never sends beyond its script and never counts more answers in a phase than
\* it sent requests, whatever arrives and however often it gives up.
THEOREM TestTypesCorrect == TestSpec => []TestTypeOK
<1>1. TestInit => TypeInv /\ TestTypeOK
  BY TestInitTypes
<1>2. TypeInv /\ TestTypeOK /\ [TestNext]_testVars => (TypeInv /\ TestTypeOK)'
  BY TestTypes
<1> QED BY <1>1, <1>2, PTL DEF TestSpec

-----------------------------------------------------------------------------
(***************************************************************************)
(* Conditions                                                              *)
(***************************************************************************)

\* A broadcast has one answer.
OneBackend == Commands = {} /\ Len(InitialPool) = 1

\* The client's SEIDs are its own: no other SMF chooses one of them, and no UPF
\* reports on such a session.
OwnSessions ==
    \A r1, r2 \in Requests :
        r1.src = Client /\ r1.seid # None /\ r2.seid = r1.seid => r2.src = Client

\* A script has no request twice, and deletes only what it opened before.
WellMade(s) ==
    /\ \A i, j \in 1 .. Len(s) : \A k \in 1 .. Len(s[i]), l \in 1 .. Len(s[j]) :
          s[i][k] = s[j][l] => i = j /\ k = l
    /\ \A i, j \in 1 .. Len(s) : \A e \in Elements(s[i]), d \in Elements(s[j]) :
          d.type \in DeletionTypes =>
            /\ d.seid # None
            /\ e.seid = d.seid /\ e.type \in EstablishmentTypes \cup OtherTypes => i < j

-----------------------------------------------------------------------------
(***************************************************************************)
(* Where a request of the client, or its response, is.                     *)
(***************************************************************************)

\* t has r, or the response to it, and has yet to send it on.
Holds(t, r) ==
    /\ task[t].pc \notin {"idle", "unregister", "tally", "retire"}
    /\ At(t, "broadcast") => task[t].hosts # << >>
    /\ Msg(t).req = r

Places(r) ==
    {<<"inbox", m>> : m \in {m \in inbox : m.req = r}}
    \cup {<<"task", t>> : t \in {t \in Tasks : Holds(t, r)}}
    \cup {<<"outbox", d>> : d \in {d \in outbox : d.msg.req = r}}
    \cup {<<"answered", a>> : a \in {a \in answered : a.req = r}}

Single(r) == \A p, q \in Places(r) : p = q

SingleInv == \A r \in Requests : r.src = Client => Single(r)

HostsInv ==
    /\ backends = InitialPool
    /\ \A t \in Tasks : Len(task[t].hosts) <= 1

\* No report is on its way to the client.
OthersTask(k) ==
    k.pc # "idle" /\ IsUpfRequest(k.msg) =>
        /\ k.pc \in {"owner", "register", "forward", "unregister"}
        /\ ~ k.is_broadcast
        /\ k.pc \in {"register", "forward"} => k.dest # Client

OthersInv ==
    /\ \A s \in Seids : HasSession(s) /\ sessions[s].smf = Client =>
          \E r \in Requests : r.src = Client /\ r.seid = s
    /\ \A t \in Tasks : OthersTask(task[t])
    /\ \A d \in outbox : IsUpfRequest(d.msg) => d.to # Client

\* A message goes back to a request that was sent, and the answer to a deletion
\* to a UPF that received it.
Traced(m) ==
    /\ Requested(m.req)
    /\ m.kind = "response" /\ m.req.type \in DeletionTypes /\ m.req.seid # None =>
          HasHandled(m.by, m.req.seid, DeletionTypes)

TraceInv ==
    /\ \A m \in inbox : Traced(m)
    /\ \A t \in Tasks : ~ At(t, "idle") => Traced(Msg(t))
    /\ \A d \in outbox : Traced(d.msg)
    /\ \A a \in answered : Traced(ResponseMsg(a.req, a.by))

\* The client got as far as r in its script.
SentBy(r) ==
    \E i \in 1 .. Len(script) : \E k \in 1 .. Len(script[i]) :
        script[i][k] = r /\ (i < phase \/ (i = phase /\ k <= sent))

SentInv == \A r \in Requests : r.src = Client /\ Requested(r) => SentBy(r)

\* The requests of phase i that were answered.
AnsweredOf(i) == {r \in Elements(script[i]) : IsAnswered(r)}

\* The count of the client is that of the answered requests.
PhaseInv ==
    ~ GaveUp => /\ PhasesComplete
                /\ ~ Finished => received = Cardinality(AnsweredOf(phase))

-----------------------------------------------------------------------------
\* What is true of an element of Places.
LEMMA PlacesAre ==
    ASSUME NEW r, NEW p
    PROVE  p \in Places(r) <=>
              \/ \E m \in inbox : p = <<"inbox", m>> /\ m.req = r
              \/ \E t \in Tasks : p = <<"task", t>> /\ Holds(t, r)
              \/ \E d \in outbox : p = <<"outbox", d>> /\ d.msg.req = r
              \/ \E a \in answered : p = <<"answered", a>> /\ a.req = r
BY DEF Places

\* A step that moves r from p to q, and brings it nowhere else.
LEMMA SingleMoved ==
    ASSUME NEW r, Single(r), NEW p \in Places(r), NEW q,
           \A m \in inbox' : \/ m \in inbox /\ p # <<"inbox", m>>
                             \/ m.req # r \/ q = <<"inbox", m>>,
           \A t \in Tasks : Holds(t, r)' => \/ Holds(t, r) /\ p # <<"task", t>>
                                            \/ q = <<"task", t>>,
           \A d \in outbox' : \/ d \in outbox /\ p # <<"outbox", d>>
                              \/ d.msg.req # r \/ q = <<"outbox", d>>,
           \A a \in answered' : \/ a \in answered /\ p # <<"answered", a>>
                                \/ a.req # r \/ q = <<"answered", a>>
    PROVE  Single(r)'
<1>1. ASSUME NEW x \in Places(r)' PROVE x = q
  <2>1. \/ \E m \in inbox' : x = <<"inbox", m>> /\ m.req = r
        \/ \E t \in Tasks : x = <<"task", t>> /\ Holds(t, r)'
        \/ \E d \in outbox' : x = <<"outbox", d>> /\ d.msg.req = r
        \/ \E a \in answered' : x = <<"answered", a>> /\ a.req = r
    BY DEF Places
  <2>2. x = q \/ (x \in Places(r) /\ x # p)
    BY <2>1, PlacesAre
  <2> QED BY <2>2 DEF Single
<1> QED BY <1>1 DEF Single

\* A step that brings r nowhere.
LEMMA SingleKept ==
    ASSUME NEW r, Single(r),
           \A m \in inbox' : m \in inbox \/ m.req # r,
           \A t \in Tasks : Holds(t, r)' => Holds(t, r),
           \A d \in outbox' : d \in outbox \/ d.msg.req # r,
           \A a \in answered' : a \in answered \/ a.req # r
    PROVE  Single(r)'
<1>1. ASSUME NEW x \in Places(r)' PROVE x \in Places(r)
  <2>1. \/ \E m \in inbox' : x = <<"inbox", m>> /\ m.req = r
        \/ \E t \in Tasks : x = <<"task", t>> /\ Holds(t, r)'
        \/ \E d \in outbox' : x = <<"outbox", d>> /\ d.msg.req = r
        \/ \E a \in answered' : x = <<"answered", a>> /\ a.req = r
    BY DEF Places
  <2> QED BY <2>1, PlacesAre
<1> QED BY <1>1 DEF Single

-----------------------------------------------------------------------------
\* With a pool of one no task has more than one host to walk.
LEMMA HandlerHosts ==
    ASSUME TypeInv, NEW t \in Tasks, HandleMessage(t)
    PROVE  \/ task'[t].hosts \in {task[t].hosts, backends, << >>}
           \/ task[t].hosts # << >> /\ task'[t].hosts = Tail(task[t].hosts)
<1> DEFINE k == task[t]
<1>0. task \in [Tasks -> Task] /\ k \in Task
  BY DEF TypeInv, TypeOK
<1>1. k.pc # "idle"
  BY HandlerMoves
<1>2. WellFormed(k)
  BY DEF TypeInv
<1>3. ASSUME Finish(t) PROVE task'[t].hosts = << >>
  BY <1>0, <1>3 DEF Finish, Become, IdleTask
<1>4. ASSUME NEW pc, Goto(t, pc) PROVE task'[t].hosts = k.hosts
  BY <1>0, <1>4 DEF Goto, Task
<1>5. CASE FanOut(t)
  BY <1>0, <1>5 DEF FanOut, Become, Task
<1>6. CASE Select(t)
  BY <1>0, <1>3, <1>6, AllHealthy DEF Select, Become, Task
<1>7. CASE Turn(t)
  BY <1>0, <1>7 DEF Turn, Become, Task
<1>8. CASE CountBackend(t)
  <2>1. k.hosts # << >>
    BY <1>2, <1>8 DEF CountBackend, At, WellFormed
  <2> QED BY <1>0, <1>8, <2>1 DEF CountBackend, Become, Task
<1>9. CASE \/ LookupFound(t) \/ OwnerOf(t) \/ Register(t) \/ MatchFound(t)
  <2>1. CASE LookupFound(t)
    BY <1>0, <2>1 DEF LookupFound, Become, Task
  <2>2. CASE OwnerOf(t)
    BY <1>0, <1>3, <2>2 DEF OwnerOf, Become, Task
  <2>3. CASE Register(t)
    BY <1>0, <2>3 DEF Register, Become, Task
  <2>4. CASE MatchFound(t)
    BY <1>0, <2>4 DEF MatchFound, Become, Task
  <2> QED BY <1>9, <2>1, <2>2, <2>3, <2>4
<1>10. CASE \/ BroadcastOne(t) \/ BroadcastOneFails(t)
  BY <1>0, <1>10 DEF BroadcastOne, BroadcastOneFails, Become, Task
<1>11. CASE \/ Place(t) \/ LookupMissed(t) \/ Unmap(t) \/ Forward(t) \/ ForwardFails(t)
            \/ EndBroadcast(t) \/ Unregister(t) \/ MatchMissed(t) \/ Reply(t)
            \/ ReplyFails(t) \/ Tally(t) \/ Retire(t)
  BY <1>3, <1>4, <1>11 DEF Place, LookupMissed, Unmap, Forward, ForwardFails,
     EndBroadcast, Unregister, MatchMissed, Reply, ReplyFails, Tally, Retire
<1> QED BY <1>5, <1>6, <1>7, <1>8, <1>9, <1>10, <1>11 DEF HandleMessage

\* Whatever is not a handler leaves the tasks alone, but one that gets a message.
LEMMA OthersKeepTasks ==
    ASSUME TypeInv, [Next]_vars
    PROVE  \/ \E t \in Tasks : HandleMessage(t)
           \/ /\ \A t \in Tasks :
                   \/ task'[t] = task[t]
                   \/ \E m \in inbox : /\ Receive(t, m)
                                       /\ FirstStep(m) # "idle"
                                       /\ task'[t] = [IdleTask EXCEPT !.pc = FirstStep(m),
                                                                      !.msg = m]
              /\ UNCHANGED sessions
              /\ outbox' \subseteq outbox
<1>0. task \in [Tasks -> Task]
  BY DEF TypeInv, TypeOK
<1> USE DEF tableVars, poolVars, netVars, peerVars
<1>1. CASE ReceiveSome
  <2> PICK t \in Tasks, m \in inbox : Receive(t, m)
    BY <1>1 DEF ReceiveSome
  <2>1. UNCHANGED task \/
        /\ task' = [task EXCEPT ![t] = [IdleTask EXCEPT !.pc = FirstStep(m), !.msg = m]]
        /\ FirstStep(m) # "idle"
    BY DEF Receive, Become
  <2>2. \A x \in Tasks : \/ task'[x] = task[x]
                         \/ /\ x = t /\ FirstStep(m) # "idle"
                            /\ task'[x] = [IdleTask EXCEPT !.pc = FirstStep(m), !.msg = m]
    BY <1>0, <2>1
  <2> QED BY <2>2 DEF Receive
<1>2. CASE \/ \E q \in Seqs : GrowOld(q) \/ CleanupStale(q)
           \/ \E c \in commands : ApplyCommand(c)
           \/ \E r \in Requests : SendRequest(r)
           \/ PeerStep \/ Lose \/ UNCHANGED vars
  <2>1. UNCHANGED <<task, sessions>> /\ outbox' \subseteq outbox
    BY <1>2 DEF GrowOld, CleanupStale, ApplyCommand, SendRequest, PeerStep,
       PeerHandles, PeerGetsResponse, Lose, vars
  <2> QED BY <2>1
<1> QED BY <1>1, <1>2 DEF Next, Wait

LEMMA HostsStep ==
    ASSUME OneBackend, TypeInv, HostsInv, [Next]_vars
    PROVE  HostsInv'
<1> USE DEF tableVars, poolVars, netVars, peerVars
<1>1. task \in [Tasks -> Task] /\ commands = {}
  BY DEF OneBackend, TypeInv, TypeOK
<1>2. backends' = backends
  <2>1. (\E t \in Tasks : HandleMessage(t)) => backends' = backends
    BY DEF HandleMessage, FanOut, Select, Turn, CountBackend, Place, LookupFound,
       LookupMissed, Unmap, OwnerOf, Register, Forward, ForwardFails, Unregister,
       BroadcastOne, BroadcastOneFails, EndBroadcast, MatchFound, MatchMissed,
       Reply, ReplyFails, Tally, Retire
  <2>2. \/ ReceiveSome \/ (\E q \in Seqs : GrowOld(q) \/ CleanupStale(q))
        \/ (\E r \in Requests : SendRequest(r)) \/ PeerStep \/ Lose \/ UNCHANGED vars
        => backends' = backends
    BY DEF ReceiveSome, Receive, GrowOld, CleanupStale, SendRequest, PeerStep,
       PeerHandles, PeerGetsResponse, Lose, vars
  <2> QED BY <1>1, <2>1, <2>2 DEF Next, Wait
<1>3. ASSUME NEW t \in Tasks PROVE Len(task'[t].hosts) <= 1
  <2>1. /\ Len(task[t].hosts) <= 1 /\ Len(backends) <= 1
        /\ task[t].hosts \in Seq(Upfs)
    <3>1. Len(task[t].hosts) <= 1
      BY DEF HostsInv
    <3>2. Len(backends) = 1
      BY DEF HostsInv, OneBackend
    <3>3. task[t].hosts \in Seq(Upfs)
      BY <1>1 DEF Task
    <3> QED BY <3>1, <3>2, <3>3
  <2>2. CASE task'[t] = task[t]
    BY <2>1, <2>2
  <2>3. ASSUME NEW m, task'[t] = [IdleTask EXCEPT !.pc = FirstStep(m), !.msg = m]
        PROVE  Len(task'[t].hosts) <= 1
    BY <2>3 DEF IdleTask
  <2>4. ASSUME NEW x \in Tasks, HandleMessage(x)
        PROVE  Len(task'[t].hosts) <= 1
    <3>1. CASE x # t
      BY <2>2, <2>4, <3>1, HandlerMoves
    <3>2. CASE x = t
      <4>1. \/ task'[t].hosts \in {task[t].hosts, backends, << >>}
            \/ task[t].hosts # << >> /\ task'[t].hosts = Tail(task[t].hosts)
        BY <2>4, <3>2, HandlerHosts
      <4>2. ASSUME NEW h \in Seq(Upfs), h # << >>, Len(h) <= 1 PROVE Len(Tail(h)) <= 1
        BY <4>2
      <4>3. Len(<< >>) <= 1
        OBVIOUS
      <4>4. CASE task[t].hosts # << >> /\ task'[t].hosts = Tail(task[t].hosts)
        BY <2>1, <4>2, <4>4
      <4>5. CASE task'[t].hosts \in {task[t].hosts, backends, << >>}
        BY <2>1, <4>3, <4>5
      <4> QED BY <4>1, <4>4, <4>5
    <3> QED BY <3>1, <3>2
  <2> QED BY <2>2, <2>3, <2>4, OthersKeepTasks
<1> QED BY <1>2, <1>3 DEF HostsInv

-----------------------------------------------------------------------------
\* A handler that sends nothing holds nothing new; one that sends its message
\* has let go of it.
LEMMA HandlerHolds ==
    ASSUME TypeInv, HostsInv, NEW t \in Tasks, HandleMessage(t), NEW r
    PROVE  \/ outbox' = outbox /\ (Holds(t, r)' => Holds(t, r))
           \/ /\ \E a : Send(a, Msg(t))
              /\ ~ Holds(t, r)'
              /\ Msg(t).req = r => Holds(t, r)
<1> DEFINE k == task[t]
<1> USE DEF netVars
<1>0. task \in [Tasks -> Task] /\ k \in Task
  BY DEF TypeInv, TypeOK
<1>1. ASSUME Finish(t) PROVE ~ Holds(t, r)'
  BY <1>0, <1>1 DEF Finish, Become, IdleTask, Holds
<1>2. ASSUME NEW pc, Goto(t, pc), pc \in {"unregister", "tally", "retire"}
      PROVE  ~ Holds(t, r)'
  <2>1. task'[t].pc = pc
    BY <1>0, <1>2 DEF Goto, Task
  <2> QED BY <1>2, <2>1 DEF Holds
<1>3. ASSUME k.pc \notin {"broadcast", "unregister", "tally", "retire"}
      PROVE  Holds(t, r)' => Holds(t, r)
  <2>1. k.pc # "idle" /\ (task'[t].pc = "idle" \/ task'[t].msg = k.msg)
    BY HandlerMoves DEF Moves
  <2> QED BY <1>3, <2>1 DEF Holds, Msg, At
<1>4. CASE \/ FanOut(t) \/ Select(t) \/ Turn(t) \/ CountBackend(t) \/ Place(t)
           \/ LookupFound(t) \/ LookupMissed(t) \/ Unmap(t) \/ OwnerOf(t)
           \/ Register(t) \/ ForwardFails(t) \/ MatchFound(t) \/ MatchMissed(t)
           \/ ReplyFails(t)
  BY <1>3, <1>4 DEF FanOut, Select, Turn, CountBackend, Place, LookupFound,
     LookupMissed, Unmap, OwnerOf, Register, ForwardFails, MatchFound, MatchMissed,
     ReplyFails, At
<1>5. CASE Unregister(t) \/ Tally(t) \/ Retire(t)
  BY <1>1, <1>2, <1>5 DEF Unregister, Tally, Retire
<1>6. CASE Forward(t) \/ Reply(t)
  <2>1. (\E a : Send(a, Msg(t))) /\ k.pc \in {"forward", "reply"}
    BY <1>6 DEF Forward, Reply, At
  <2>2. ~ Holds(t, r)'
    BY <1>1, <1>2, <1>6 DEF Forward, Reply
  <2> QED BY <2>1, <2>2 DEF Holds, At
<1>7. CASE EndBroadcast(t)
  BY <1>1, <1>2, <1>7 DEF EndBroadcast
<1>8. CASE BroadcastOneFails(t) \/ BroadcastOne(t)
  <2>1. k.pc = "broadcast" /\ k.hosts # << >>
    BY <1>8 DEF BroadcastOneFails, BroadcastOne, At
  <2>2. /\ task'[t].pc = "broadcast" /\ task'[t].msg = k.msg
        /\ task'[t].hosts = Tail(k.hosts)
    BY <1>0, <1>8, <2>1 DEF BroadcastOneFails, BroadcastOne, Become, Task
  <2>3. Msg(t).req = r => Holds(t, r)
    BY <2>1 DEF Holds, At
  <2>4. Tail(k.hosts) = << >>
    <3>1. k.hosts \in Seq(Upfs) /\ Len(k.hosts) <= 1
      BY <1>0 DEF Task, HostsInv
    <3> QED BY <2>1, <3>1
  <2>5. ~ Holds(t, r)'
    BY <2>2, <2>4 DEF Holds, At
  <2>6. outbox' = outbox \/ \E a : Send(a, Msg(t))
    BY <1>8 DEF BroadcastOneFails, BroadcastOne
  <2> QED BY <2>3, <2>5, <2>6
<1> QED BY <1>4, <1>5, <1>6, <1>7, <1>8 DEF HandleMessage, Unregister, Tally, Retire,
        EndBroadcast

LEMMA SingleHandler ==
    ASSUME TypeInv, HostsInv, NEW t \in Tasks, HandleMessage(t), NEW r, Single(r)
    PROVE  Single(r)'
<1>1. UNCHANGED <<inbox, answered>> /\ \A x \in Tasks : x # t => task'[x] = task[x]
  BY HandlerShares, HandlerMoves
<1>2. \A x \in Tasks : x # t => (Holds(x, r)' <=> Holds(x, r))
  BY <1>1 DEF Holds, At, Msg
<1>3. CASE outbox' = outbox /\ (Holds(t, r)' => Holds(t, r))
  BY <1>1, <1>2, <1>3, SingleKept
<1>4. CASE /\ \E a : Send(a, Msg(t))
           /\ ~ Holds(t, r)'
           /\ Msg(t).req = r => Holds(t, r)
  <2> PICK a : Send(a, Msg(t))
    BY <1>4
  <2> DEFINE d == [to |-> a, msg |-> Msg(t)]
  <2>1. outbox' = outbox \cup {d} /\ d.msg = Msg(t)
    BY DEF Send
  <2> HIDE DEF d
  <2>2. CASE Msg(t).req # r
    BY <1>1, <1>2, <1>4, <2>1, <2>2, SingleKept
  <2>3. CASE Msg(t).req = r
    <3>1. <<"task", t>> \in Places(r)
      BY <1>4, <2>3, PlacesAre
    <3>2. \A x \in Tasks : Holds(x, r)' => Holds(x, r) /\ <<"task", t>> # <<"task", x>>
      BY <1>2, <1>4
    <3> QED BY <1>1, <2>1, <3>1, <3>2, SingleMoved
  <2> QED BY <2>2, <2>3
<1> QED BY <1>3, <1>4, HandlerHolds

-----------------------------------------------------------------------------
\* A request that was not sent is nowhere.
LEMMA NotSentYet ==
    ASSUME TraceInv, NEW r, ~ Requested(r)
    PROVE  Places(r) = {}
<1> SUFFICES ASSUME NEW p \in Places(r) PROVE FALSE
  OBVIOUS
<1>1. \A t \in Tasks : Holds(t, r) => Traced(Msg(t)) /\ Msg(t).req = r
  BY DEF Holds, At, TraceInv
<1>2. \A a \in answered : Requested(a.req)
  BY DEF TraceInv, Traced, ResponseMsg
<1> QED BY <1>1, <1>2, PlacesAre DEF TraceInv, Traced

\* The next request of the script is a new one.
LEMMA NextIsNew ==
    ASSUME TestTypeOK, SentInv, WellMade(script), NEW r \in Requests,
           phase \in 1 .. Len(script), sent + 1 \in 1 .. Len(script[phase]),
           r = script[phase][sent + 1], r.src = Client
    PROVE  ~ Requested(r)
<1> SUFFICES ASSUME Requested(r) PROVE FALSE
  OBVIOUS
<1>1. PICK i \in 1 .. Len(script) : \E k \in 1 .. Len(script[i]) :
          script[i][k] = r /\ (i < phase \/ (i = phase /\ k <= sent))
  BY DEF SentInv, SentBy
<1>2. PICK k \in 1 .. Len(script[i]) :
          script[i][k] = r /\ (i < phase \/ (i = phase /\ k <= sent))
  BY <1>1
<1>3. i = phase /\ k = sent + 1
  BY <1>2 DEF WellMade
<1>4. i \in Nat /\ phase \in Nat /\ sent \in Int /\ k \in Int
  BY <1>3 DEF TestTypeOK
<1> QED BY <1>2, <1>3, <1>4

\* Reading a datagram makes an answer of it, or loses it.
LEMMA SingleTaken ==
    ASSUME NEW d, Takes(d), NEW r, Single(r)
    PROVE  Single(r)'
<1> DEFINE a == [req |-> d.msg.req, by |-> d.msg.by]
<1>1. /\ d \in outbox /\ outbox' = outbox \ {d} /\ answered' \subseteq answered \cup {a}
      /\ a.req = d.msg.req /\ inbox' = inbox /\ \A t \in Tasks : Holds(t, r)' <=> Holds(t, r)
  BY DEF Takes, Holds, At, Msg
<1> HIDE DEF a
<1>2. CASE d.msg.req # r
  BY <1>1, <1>2, SingleKept
<1>3. CASE d.msg.req = r
  <2> DEFINE p == <<"outbox", d>>
             q == <<"answered", a>>
  <2>1. p \in Places(r)
    BY <1>1, <1>3, PlacesAre
  <2>2. \A m \in inbox' : \/ m \in inbox /\ p # <<"inbox", m>>
                          \/ m.req # r \/ q = <<"inbox", m>>
    BY <1>1
  <2>3. \A t \in Tasks : Holds(t, r)' => \/ Holds(t, r) /\ p # <<"task", t>>
                                         \/ q = <<"task", t>>
    BY <1>1
  <2>4. \A x \in outbox' : \/ x \in outbox /\ p # <<"outbox", x>>
                           \/ x.msg.req # r \/ q = <<"outbox", x>>
    BY <1>1
  <2>5. \A x \in answered' : \/ x \in answered /\ p # <<"answered", x>>
                             \/ x.req # r \/ q = <<"answered", x>>
    BY <1>1
  <2> HIDE DEF p, q
  <2> QED BY <2>1, <2>2, <2>3, <2>4, <2>5, SingleMoved
<1> QED BY <1>2, <1>3

LEMMA SingleReceived ==
    ASSUME TypeInv, NEW t \in Tasks, NEW m \in inbox, Receive(t, m), NEW r, Single(r)
    PROVE  Single(r)'
<1>0. task \in [Tasks -> Task]
  BY DEF TypeInv, TypeOK
<1>1. /\ inbox' = inbox \ {m} /\ UNCHANGED <<outbox, answered>>
      /\ \A x \in Tasks : x # t => task'[x] = task[x]
      /\ task'[t] = task[t] \/ task'[t].msg = m
  BY <1>0 DEF Receive, Become, IdleTask, peerVars
<1>2. \A x \in Tasks : x # t => (Holds(x, r)' <=> Holds(x, r))
  BY <1>1 DEF Holds, At, Msg
<1>3. Holds(t, r)' => m.req = r
  BY <1>1 DEF Holds, At, Msg, Receive
<1>4. CASE m.req # r
  BY <1>1, <1>2, <1>3, <1>4, SingleKept
<1>5. CASE m.req = r
  <2> DEFINE p == <<"inbox", m>>
             q == <<"task", t>>
  <2>1. p \in Places(r)
    BY <1>5, PlacesAre
  <2>2. \A x \in inbox' : \/ x \in inbox /\ p # <<"inbox", x>>
                          \/ x.req # r \/ q = <<"inbox", x>>
    BY <1>1, <1>2
  <2>3. \A x \in Tasks : Holds(x, r)' => \/ Holds(x, r) /\ p # <<"task", x>>
                                         \/ q = <<"task", x>>
    BY <1>1, <1>2
  <2>4. \A x \in outbox' : \/ x \in outbox /\ p # <<"outbox", x>>
                           \/ x.msg.req # r \/ q = <<"outbox", x>>
    BY <1>1, <1>2
  <2>5. \A x \in answered' : \/ x \in answered /\ p # <<"answered", x>>
                             \/ x.req # r \/ q = <<"answered", x>>
    BY <1>1, <1>2
  <2> HIDE DEF p, q
  <2> QED BY <2>1, <2>2, <2>3, <2>4, <2>5, SingleMoved
<1> QED BY <1>4, <1>5

LEMMA SinglePeer ==
    ASSUME NEW d \in outbox, PeerHandles(d) \/ PeerGetsResponse(d), NEW r, Single(r)
    PROVE  Single(r)'
<1> DEFINE m == ResponseMsg(d.msg.req, d.to)
           a == [req |-> d.msg.req, by |-> d.msg.by]
<1>1. \A t \in Tasks : Holds(t, r)' <=> Holds(t, r)
  BY DEF PeerHandles, PeerGetsResponse, Holds, At, Msg
<1>2. /\ outbox' = outbox \ {d}
      /\ \/ inbox' \subseteq inbox \cup {m} /\ answered' = answered
         \/ answered' \subseteq answered \cup {a} /\ inbox' = inbox
      /\ m.req = d.msg.req /\ a.req = d.msg.req
  BY DEF PeerHandles, PeerGetsResponse, ResponseMsg
<1> HIDE DEF m, a
<1>3. CASE d.msg.req # r
  BY <1>1, <1>2, <1>3, SingleKept
<1>4. CASE d.msg.req = r
  <2> DEFINE p == <<"outbox", d>>
  <2>1. p \in Places(r)
    BY <1>4, PlacesAre
  <2>2. CASE inbox' \subseteq inbox \cup {m} /\ answered' = answered
    <3> DEFINE q == <<"inbox", m>>
    <3>1. \A x \in inbox' : \/ x \in inbox /\ p # <<"inbox", x>>
                            \/ x.req # r \/ q = <<"inbox", x>>
      BY <1>1, <1>2, <2>2
    <3>2. \A t \in Tasks : Holds(t, r)' => \/ Holds(t, r) /\ p # <<"task", t>>
                                           \/ q = <<"task", t>>
      BY <1>1, <1>2, <2>2
    <3>3. \A x \in outbox' : \/ x \in outbox /\ p # <<"outbox", x>>
                             \/ x.msg.req # r \/ q = <<"outbox", x>>
      BY <1>1, <1>2, <2>2
    <3>4. \A x \in answered' : \/ x \in answered /\ p # <<"answered", x>>
                               \/ x.req # r \/ q = <<"answered", x>>
      BY <1>1, <1>2, <2>2
    <3> HIDE DEF p, q
    <3> QED BY <2>1, <3>1, <3>2, <3>3, <3>4, SingleMoved
  <2>3. CASE answered' \subseteq answered \cup {a} /\ inbox' = inbox
    <3> DEFINE q == <<"answered", a>>
    <3>1. \A x \in inbox' : \/ x \in inbox /\ p # <<"inbox", x>>
                            \/ x.req # r \/ q = <<"inbox", x>>
      BY <1>1, <1>2, <2>3
    <3>2. \A t \in Tasks : Holds(t, r)' => \/ Holds(t, r) /\ p # <<"task", t>>
                                           \/ q = <<"task", t>>
      BY <1>1, <1>2, <2>3
    <3>3. \A x \in outbox' : \/ x \in outbox /\ p # <<"outbox", x>>
                             \/ x.msg.req # r \/ q = <<"outbox", x>>
      BY <1>1, <1>2, <2>3
    <3>4. \A x \in answered' : \/ x \in answered /\ p # <<"answered", x>>
                               \/ x.req # r \/ q = <<"answered", x>>
      BY <1>1, <1>2, <2>3
    <3> HIDE DEF p, q
    <3> QED BY <2>1, <3>1, <3>2, <3>3, <3>4, SingleMoved
  <2> QED BY <1>2, <2>2, <2>3
<1> QED BY <1>3, <1>4

\* Each request of the client is at one place at a time, and so is its response.
LEMMA SingleStep ==
    ASSUME TypeInv, TestTypeOK, HostsInv, TraceInv, SentInv, WellMade(script),
           SingleInv, [TestNext]_testVars
    PROVE  SingleInv'
<1> SUFFICES ASSUME NEW r \in Requests, r.src = Client, Single(r)
             PROVE  Single(r)'
  BY DEF SingleInv, Single, Places, Holds, At, Msg
<1> USE DEF tableVars, poolVars, netVars, peerVars
<1>1. CASE ClientSends
  <2> PICK n \in Requests :
          /\ n = script[phase][sent + 1] /\ n.src = Client
          /\ phase \in 1 .. Len(script) /\ sent + 1 \in 1 .. Len(script[phase])
          /\ inbox' = inbox \cup {RequestMsg(n)}
          /\ UNCHANGED <<task, outbox, answered>>
    BY <1>1, SendsFacts
  <2>1. RequestMsg(n).req = n /\ \A t \in Tasks : Holds(t, r)' <=> Holds(t, r)
    BY DEF RequestMsg, Holds, At, Msg
  <2>2. CASE n # r
    BY <2>1, <2>2, SingleKept
  <2>3. CASE n = r
    <3>1. Places(r) = {}
      BY <2>3, NextIsNew, NotSentYet
    <3>2. \A p \in Places(r)' : p = <<"inbox", RequestMsg(r)>>
      <4> SUFFICES ASSUME NEW p \in Places(r)' PROVE p = <<"inbox", RequestMsg(r)>>
        OBVIOUS
      <4>1. \/ \E m \in inbox' : p = <<"inbox", m>> /\ m.req = r
            \/ \E t \in Tasks : p = <<"task", t>> /\ Holds(t, r)'
            \/ \E d \in outbox' : p = <<"outbox", d>> /\ d.msg.req = r
            \/ \E a \in answered' : p = <<"answered", a>> /\ a.req = r
        BY DEF Places
      <4>2. p \in Places(r) \/ p = <<"inbox", RequestMsg(r)>>
        BY <2>1, <2>3, <4>1, PlacesAre
      <4> QED BY <3>1, <4>2
    <3> QED BY <3>2 DEF Single
  <2> QED BY <2>2, <2>3
<1>2. CASE \E d \in outbox : ClientReceives(d) \/ ClientIsGone(d)
  BY <1>2, TakesFacts, SingleTaken
<1>3. ASSUME NEW t \in Tasks, HandleMessage(t) PROVE Single(r)'
  BY <1>3, SingleHandler
<1>4. ASSUME UNCHANGED <<task, answered>>, outbox' \subseteq outbox,
             \A m \in inbox' : m \in inbox \/ m.req # r
      PROVE  Single(r)'
  <2>1. \A t \in Tasks : Holds(t, r)' <=> Holds(t, r)
    BY <1>4 DEF Holds, At, Msg
  <2> QED BY <1>4, <2>1, SingleKept
<1>5. ASSUME \/ ClientTimesOut \/ Lose \/ UNCHANGED vars
             \/ \E q \in Seqs : GrowOld(q) \/ CleanupStale(q)
             \/ \E c \in commands : ApplyCommand(c)
      PROVE  Single(r)'
  BY <1>4, <1>5 DEF ClientTimesOut, Lose, GrowOld, CleanupStale, ApplyCommand, vars
<1>6. CASE OthersSend
  <2> PICK n \in Requests : n.src # Client /\ SendRequest(n)
    BY <1>6 DEF OthersSend
  <2>1. RequestMsg(n).req = n /\ n # r
    BY DEF RequestMsg
  <2> QED BY <1>4, <2>1 DEF SendRequest
<1>7. CASE OthersReceive
  BY <1>7, SinglePeer DEF OthersReceive
<1>8. CASE ReceiveSome
  BY <1>8, SingleReceived DEF ReceiveSome
<1>9. CASE ProxyStep
  BY <1>3, <1>5, <1>8, <1>9 DEF ProxyStep
<1> QED BY <1>1, <1>2, <1>5, <1>6, <1>7, <1>9, TestSteps

-----------------------------------------------------------------------------
\* A report goes to the SMF that opened its session, and that is not the client.
LEMMA OthersHandler ==
    ASSUME OwnSessions, TypeInv, OthersInv, NEW t \in Tasks, HandleMessage(t)
    PROVE  OthersInv'
<1> DEFINE k == task[t]
           m == Msg(t)
<1>1. /\ k.pc # "idle" /\ Moves(k, task'[t])
      /\ \A x \in Tasks : x # t => task'[x] = task[x]
  BY HandlerMoves
<1>2. /\ k \in Task /\ WellFormed(k) /\ m = k.msg /\ FromSource(m)
      /\ m.req \in Requests /\ OthersTask(k) /\ Client \notin Upfs
  BY <1>1, BusyTask, AddressAssumption, ClientAssumption DEF OthersInv
<1>3. \A s \in Seids : HasSession(s)' /\ sessions'[s].smf = Client =>
          \E r \in Requests : r.src = Client /\ r.seid = s
  <2> SUFFICES ASSUME NEW s \in Seids, HasSession(s)', sessions'[s].smf = Client
               PROVE  \E r \in Requests : r.src = Client /\ r.seid = s
    OBVIOUS
  <2>1. CASE sessions'[s] = sessions[s]
    BY <2>1 DEF OthersInv, HasSession
  <2>2. CASE /\ About(m, s) /\ At(t, "place")
             /\ sessions'[s] = [upf |-> k.dest, smf |-> m.by]
    <3>1. m.by = Client /\ m.req.seid = s
      BY <2>2 DEF About
    <3>2. m.kind = "request"
      BY <1>2, <2>2 DEF At, WellFormed, RouteSteps, IsSmfRequest
    <3> QED BY <1>2, <3>1, <3>2 DEF FromSource
  <2> QED BY <2>1, <2>2, MappingKept DEF HasSession
<1>4. OthersTask(task'[t])
  <2> SUFFICES ASSUME task'[t].pc # "idle", IsUpfRequest(task'[t].msg)
               PROVE  OthersTask(task'[t])
    BY DEF OthersTask
  <2>1. task'[t].msg = m /\ IsUpfRequest(m)
    BY <1>1, <1>2 DEF Moves
  <2>2. k.pc \in {"owner", "register", "forward", "unregister"} /\ ~ k.is_broadcast
    BY <1>1, <1>2, <2>1 DEF OthersTask
  <2>3. Advances(k, task'[t]) /\ task'[t].is_broadcast = k.is_broadcast
    BY <1>1, <2>2 DEF Moves
  <2>4. CASE k.pc = "owner"
    <3>1. /\ HasSession(m.req.seid)
          /\ task'[t].pc = "register"
          /\ task'[t].dest = sessions[m.req.seid].smf
      BY <1>2, <2>3, <2>4 DEF Advances
    <3>2. m.req.seid \in Seids /\ m.req.seid # None
      BY <1>2, <2>4 DEF WellFormed, Seids
    <3>3. m.req.src \in Upfs
      BY <1>2, <2>1, RequestFacts DEF IsUpfRequest
    <3>4. sessions[m.req.seid].smf # Client
      <4> SUFFICES ASSUME sessions[m.req.seid].smf = Client PROVE FALSE
        OBVIOUS
      <4>1. PICK r \in Requests : r.src = Client /\ r.seid = m.req.seid
        BY <3>1, <3>2 DEF OthersInv
      <4> QED BY <1>2, <3>2, <3>3, <4>1 DEF OwnSessions
    <3> QED BY <2>2, <2>3, <3>1, <3>4 DEF OthersTask
  <2>5. CASE k.pc = "register"
    <3>1. task'[t].pc = "forward" /\ task'[t].dest = k.dest
      BY <2>2, <2>3, <2>5 DEF Advances
    <3>2. k.dest # Client
      BY <1>2, <2>1, <2>5 DEF OthersTask
    <3> QED BY <2>2, <2>3, <3>1, <3>2 DEF OthersTask
  <2>6. CASE k.pc \in {"forward", "unregister"}
    BY <2>2, <2>3, <2>6 DEF Advances, OthersTask
  <2> QED BY <2>2, <2>4, <2>5, <2>6
<1>5. \A d \in outbox' : IsUpfRequest(d.msg) => d.to # Client
  <2> SUFFICES ASSUME NEW d \in outbox', IsUpfRequest(d.msg), d \notin outbox
               PROVE  d.to # Client
    BY DEF OthersInv
  <2>1. /\ d.msg = m
        /\ At(t, "broadcast") \/ (d.to = k.dest /\ (At(t, "forward") \/ At(t, "reply")))
    BY HandlerShares
  <2>2. k.pc = "forward" /\ d.to = k.dest
    BY <1>2, <2>1 DEF OthersTask, At
  <2> QED BY <1>2, <2>1, <2>2 DEF OthersTask
<1>6. (\A s \in Seids : HasSession(s) /\ sessions[s].smf = Client =>
          \E r \in Requests : r.src = Client /\ r.seid = s)'
  BY <1>3
<1>7. (\A x \in Tasks : OthersTask(task[x]))'
  BY <1>1, <1>4 DEF OthersInv, OthersTask, IsUpfRequest
<1>8. (\A d \in outbox : IsUpfRequest(d.msg) => d.to # Client)'
  BY <1>5 DEF IsUpfRequest
<1> QED BY <1>6, <1>7, <1>8 DEF OthersInv

LEMMA OthersStep ==
    ASSUME OwnSessions, TypeInv, TestTypeOK, OthersInv, [TestNext]_testVars
    PROVE  OthersInv'
<1> USE DEF tableVars, poolVars, netVars, peerVars
<1>1. ASSUME UNCHANGED sessions, outbox' \subseteq outbox,
             \A x \in Tasks : task'[x] = task[x] \/ OthersTask(task'[x])
      PROVE  OthersInv'
  BY <1>1 DEF OthersInv, OthersTask, HasSession, IsUpfRequest
<1>2. ASSUME [Next]_vars PROVE OthersInv'
  <2>1. ASSUME NEW t \in Tasks, NEW m \in inbox, FirstStep(m) # "idle",
               task'[t] = [IdleTask EXCEPT !.pc = FirstStep(m), !.msg = m]
        PROVE  OthersTask(task'[t])
    <3>1. m \in Message
      BY DEF TypeInv, TypeOK
    <3>2. /\ task'[t].pc = FirstStep(m) /\ task'[t].msg = m
          /\ task'[t].is_broadcast = FALSE
      BY <2>1 DEF IdleTask
    <3>3. IsUpfRequest(m) => FirstStep(m) \in {"idle", "owner"}
      BY <3>1, FirstStepFacts, TypesDisjoint DEF IsUpfRequest, IsSmfRequest
    <3> QED BY <2>1, <3>2, <3>3 DEF OthersTask
  <2> QED BY <1>1, <1>2, <2>1, OthersHandler, OthersKeepTasks
<1>3. CASE ClientSends
  BY <1>1, <1>3 DEF ClientSends
<1>4. ASSUME NEW d, Takes(d) PROVE OthersInv'
  BY <1>1, <1>4 DEF Takes
<1>5. ClientTimesOut => [Next]_vars
  BY DEF ClientTimesOut, vars
<1> QED BY <1>2, <1>3, <1>4, <1>5, TakesFacts, TestSteps

LEMMA TestOriginStep ==
    ASSUME OneOwnerPerSeq, TypeInv, OriginInv, [TestNext]_testVars
    PROVE  OriginInv'
<1>1. [Next]_vars => OriginInv'
  BY OriginHandler, OriginOutside DEF Next, Wait
<1>2. ASSUME UNCHANGED <<pending, task>>, outbox' \subseteq outbox PROVE OriginInv'
  <2>1. \A q \in Seqs : \/ pending'[q] = None
                        \/ pending[q] # None /\ pending'[q].origin = pending[q].origin
    BY <1>2
  <2> QED BY <1>2, <2>1, OriginFrame
<1>3. CASE ClientSends
  BY <1>2, <1>3 DEF ClientSends, tableVars
<1>4. ASSUME NEW d, Takes(d) PROVE OriginInv'
  BY <1>2, <1>4 DEF Takes, tableVars
<1>5. ClientTimesOut => [Next]_vars
  BY DEF ClientTimesOut, vars
<1> QED BY <1>1, <1>3, <1>4, <1>5, TakesFacts, TestSteps

LEMMA TestArmStep ==
    ASSUME TypeInv, ArmInv, [TestNext]_testVars
    PROVE  ArmInv'
<1>1. [Next]_vars => ArmInv'
  BY ArmStep
<1>2. UNCHANGED task => ArmInv'
  BY DEF ArmInv, ArmTask
<1>3. ClientSends \/ ClientTimesOut => UNCHANGED task
  BY DEF ClientSends, ClientTimesOut, vars
<1>4. \A d : Takes(d) => UNCHANGED task
  BY DEF Takes
<1> QED BY <1>1, <1>2, <1>3, <1>4, TakesFacts, TestSteps

LEMMA TestHostsStep ==
    ASSUME OneBackend, TypeInv, HostsInv, [TestNext]_testVars
    PROVE  HostsInv'
<1>1. [Next]_vars => HostsInv'
  BY HostsStep
<1>2. UNCHANGED <<task, backends>> => HostsInv'
  BY DEF HostsInv
<1>3. ClientSends \/ ClientTimesOut => UNCHANGED <<task, backends>>
  BY DEF ClientSends, ClientTimesOut, vars, poolVars
<1>4. \A d : Takes(d) => UNCHANGED <<task, backends>>
  BY DEF Takes, poolVars
<1> QED BY <1>1, <1>2, <1>3, <1>4, TakesFacts, TestSteps

-----------------------------------------------------------------------------
\* What was sent, received and answered stays so.
LEMMA TestGrows ==
    ASSUME TypeInv, TestTypeOK, [TestNext]_testVars
    PROVE  /\ \A r \in Requests : Requested(r) => Requested(r)'
           /\ handled \subseteq handled'
           /\ answered \subseteq answered'
<1>1. sends \in [Requests -> Nat]
  BY DEF TypeInv, TypeOK
<1>2. ASSUME [Next]_vars
      PROVE  /\ \A r \in Requests : Requested(r) => Requested(r)'
             /\ handled \subseteq handled' /\ answered \subseteq answered'
  <2>1. \A r \in Requests : /\ sends[r] \in Nat /\ sends'[r] \in Nat
                            /\ sends'[r] >= sends[r]
    BY <1>1, <1>2, Growing
  <2> QED BY <1>2, <2>1, Growing DEF Requested
<1>3. CASE ClientSends
  <2> PICK n \in Requests :
          sends' = [sends EXCEPT ![n] = sends[n] + 1] /\ UNCHANGED <<answered, handled>>
    BY <1>3, SendsFacts
  <2> QED BY <1>1 DEF Requested
<1>4. ASSUME NEW d, Takes(d)
      PROVE  UNCHANGED <<sends, handled>> /\ answered \subseteq answered'
  BY <1>4 DEF Takes
<1>5. ClientTimesOut => [Next]_vars
  BY DEF ClientTimesOut, vars
<1> QED BY <1>2, <1>3, <1>4, <1>5, TakesFacts, TestSteps DEF Requested

LEMMA TracedStays ==
    ASSUME TypeInv, TestTypeOK, [TestNext]_testVars, NEW m, Traced(m), m.req \in Requests
    PROVE  Traced(m)'
<1>1. Requested(m.req)'
  BY TestGrows DEF Traced
<1>2. HasHandled(m.by, m.req.seid, DeletionTypes)
          => HasHandled(m.by, m.req.seid, DeletionTypes)'
  BY TestGrows DEF HasHandled
<1> QED BY <1>1, <1>2 DEF Traced

\* Messages that were there stay traced, so that only new ones matter.
LEMMA TraceFrame ==
    ASSUME TypeInv, TestTypeOK, TraceInv, [TestNext]_testVars,
           \A m \in inbox' : m \in inbox \/ Traced(m)',
           \A t \in Tasks : \/ task'[t].pc = "idle"
                            \/ task[t].pc # "idle" /\ task'[t].msg = task[t].msg
                            \/ task'[t].msg \in inbox,
           \A d \in outbox' : \/ d \in outbox
                              \/ \E t \in Tasks : task[t].pc # "idle" /\ d.msg = task[t].msg,
           \A a \in answered' : \/ a \in answered
                                \/ \E d \in outbox : /\ d.msg.kind = "response"
                                                     /\ a.req = d.msg.req /\ a.by = d.msg.by
    PROVE  TraceInv'
<1>1. /\ inbox \subseteq Message /\ outbox \subseteq Datagram /\ answered \subseteq Answer
      /\ \A t \in Tasks : task[t].pc # "idle" => task[t].msg \in Message
  BY DEF TypeInv, TypeOK, WellFormed
<1>2. ASSUME NEW m \in Message, Traced(m) PROVE Traced(m)'
  BY <1>2, TracedStays DEF Message
<1>3. \A m \in inbox : Traced(m)'
  BY <1>1, <1>2 DEF TraceInv
<1>4. \A t \in Tasks : task[t].pc # "idle" => Traced(task[t].msg)
  BY DEF TraceInv, At, Msg
<1>5. \A t \in Tasks : task[t].pc # "idle" => \A m : m = task[t].msg => Traced(m)'
  BY <1>1, <1>2, <1>4
<1>6. \A d \in outbox : \A m : m = d.msg => Traced(m)'
  BY <1>1, <1>2 DEF TraceInv, Datagram
<1>7. ASSUME NEW a \in answered' PROVE Traced(ResponseMsg(a.req, a.by))'
  <2>1. CASE a \in answered
    <3>1. /\ ResponseMsg(a.req, a.by) \in Message
          /\ Traced(ResponseMsg(a.req, a.by))
      BY <1>1, <2>1 DEF TraceInv, Answer, ResponseMsg, Message
    <3>2. \A m : m = ResponseMsg(a.req, a.by) => Traced(m)'
      BY <1>2, <3>1
    <3> QED BY <3>2 DEF Traced, ResponseMsg
  <2>2. ASSUME NEW d \in outbox, d.msg.kind = "response", a.req = d.msg.req, a.by = d.msg.by
        PROVE  Traced(ResponseMsg(a.req, a.by))'
    <3>1. d.msg = ResponseMsg(a.req, a.by)
      BY <1>1, <2>2 DEF Datagram, Message, ResponseMsg
    <3>2. \A m : m = d.msg => Traced(m)'
      BY <1>6
    <3> QED BY <3>1, <3>2 DEF Traced, ResponseMsg
  <2> QED BY <2>1, <2>2
<1>8. ASSUME NEW t \in Tasks, task'[t].pc # "idle" PROVE Traced(Msg(t))'
  <2>1. CASE task[t].pc # "idle" /\ task'[t].msg = task[t].msg
    BY <1>5, <2>1 DEF Traced, Msg
  <2>2. CASE task'[t].msg \in inbox
    BY <1>3, <2>2 DEF Traced, Msg
  <2> QED BY <1>8, <2>1, <2>2
<1>9. ASSUME NEW d \in outbox' PROVE Traced(d.msg)'
  BY <1>5, <1>6
<1>10. ASSUME NEW m \in inbox' PROVE Traced(m)'
  BY <1>3
<1>11. (\A t \in Tasks : ~ At(t, "idle") => Traced(Msg(t)))'
  BY <1>8 DEF At, Traced
<1>12. (\A a \in answered : Traced(ResponseMsg(a.req, a.by)))'
  BY <1>7
<1>13. (\A m \in inbox : Traced(m))' /\ (\A d \in outbox : Traced(d.msg))'
  BY <1>9, <1>10
<1> QED BY <1>11, <1>12, <1>13 DEF TraceInv

LEMMA TraceStep ==
    ASSUME TypeInv, TestTypeOK, TraceInv, [TestNext]_testVars
    PROVE  TraceInv'
<1> USE DEF tableVars, poolVars, netVars, peerVars
<1>0. task \in [Tasks -> Task] /\ outbox \subseteq Datagram
  BY DEF TypeInv, TypeOK
<1>1. CASE ClientSends
  <2> PICK n \in Requests :
          /\ inbox' = inbox \cup {RequestMsg(n)}
          /\ sends' = [sends EXCEPT ![n] = sends[n] + 1]
          /\ UNCHANGED <<task, outbox, answered>>
    BY <1>1, SendsFacts
  <2>1. sends[n] \in Nat /\ sends'[n] = sends[n] + 1
    BY DEF TypeInv, TypeOK
  <2>2. Traced(RequestMsg(n))'
    BY <2>1 DEF Traced, RequestMsg, Requested
  <2>3. \A t \in Tasks : \/ task'[t].pc = "idle"
                         \/ task[t].pc # "idle" /\ task'[t].msg = task[t].msg
    OBVIOUS
  <2>4. \A m \in inbox' : m \in inbox \/ Traced(m)'
    BY <2>2
  <2> QED BY <2>3, <2>4, TraceFrame
<1>2. ASSUME NEW d, Takes(d) PROVE TraceInv'
  <2>1. \A t \in Tasks : \/ task'[t].pc = "idle"
                         \/ task[t].pc # "idle" /\ task'[t].msg = task[t].msg
    BY <1>2 DEF Takes
  <2>2. \A a \in answered' : \/ a \in answered
                             \/ \E x \in outbox : /\ x.msg.kind = "response"
                                                  /\ a.req = x.msg.req /\ a.by = x.msg.by
    BY <1>2 DEF Takes
  <2> QED BY <1>2, <2>1, <2>2, TraceFrame DEF Takes
<1>3. ASSUME UNCHANGED task, outbox' \subseteq outbox,
             \A m \in inbox' : m \in inbox \/ Traced(m)',
             \A a \in answered' : \/ a \in answered
                                  \/ \E x \in outbox : /\ x.msg.kind = "response"
                                                       /\ a.req = x.msg.req /\ a.by = x.msg.by
      PROVE  TraceInv'
  <2>1. \A t \in Tasks : \/ task'[t].pc = "idle"
                         \/ task[t].pc # "idle" /\ task'[t].msg = task[t].msg
    BY <1>3
  <2> QED BY <1>3, <2>1, TraceFrame
<1>4. ASSUME NEW t \in Tasks, HandleMessage(t) PROVE TraceInv'
  <2>1. /\ task[t].pc # "idle"
        /\ task'[t].pc = "idle" \/ task'[t].msg = task[t].msg
        /\ \A x \in Tasks : x # t => task'[x] = task[x]
    BY <1>4, HandlerMoves DEF Moves
  <2>2. /\ UNCHANGED <<inbox, sends, answered, handled>>
        /\ \A d \in outbox' : d \in outbox \/ d.msg = task[t].msg
    BY <1>4, HandlerShares DEF Msg
  <2>3. \A x \in Tasks : \/ task'[x].pc = "idle"
                         \/ task[x].pc # "idle" /\ task'[x].msg = task[x].msg
    BY <2>1
  <2>4. \A d \in outbox' : d \in outbox \/ \E x \in Tasks : task[x].pc # "idle" /\ d.msg = task[x].msg
    BY <2>1, <2>2
  <2> QED BY <2>2, <2>3, <2>4, TraceFrame
<1>5. ASSUME NEW t \in Tasks, NEW m \in inbox, Receive(t, m) PROVE TraceInv'
  <2>1. \A x \in Tasks : task'[x] = task[x] \/ task'[x].msg = m
    BY <1>0, <1>5 DEF Receive, Become, IdleTask
  <2>2. \A x \in Tasks : \/ task'[x].pc = "idle"
                         \/ task[x].pc # "idle" /\ task'[x].msg = task[x].msg
                         \/ task'[x].msg \in inbox
    BY <2>1
  <2> QED BY <1>5, <2>2, TraceFrame DEF Receive
<1>6. ASSUME NEW d \in outbox, PeerHandles(d) PROVE TraceInv'
  <2> DEFINE r == d.msg.req
  <2>1. /\ d.msg \in Message /\ r \in Requests /\ Traced(d.msg) /\ d.msg.kind = "request"
    BY <1>0, <1>6 DEF Datagram, Message, TraceInv, PeerHandles
  <2>2. Requested(r)'
    BY <2>1, TestGrows DEF Traced
  <2>3. r.type \in DeletionTypes /\ r.seid # None => HasHandled(d.to, r.seid, DeletionTypes)'
    <3> SUFFICES ASSUME r.type \in DeletionTypes, r.seid # None
                 PROVE  HasHandled(d.to, r.seid, DeletionTypes)'
      OBVIOUS
    <3>1. IsSmfRequest(d.msg)
      BY <2>1 DEF IsSmfRequest, SmfRequestTypes, AffinityTypes
    <3>2. [upf |-> d.to, seid |-> r.seid, type |-> r.type] \in handled'
      BY <1>6, <3>1 DEF PeerHandles
    <3> QED BY <3>2 DEF HasHandled
  <2>4. Traced(ResponseMsg(r, d.to))'
    BY <2>2, <2>3 DEF Traced, ResponseMsg
  <2>5. \A m \in inbox' : m \in inbox \/ m = ResponseMsg(r, d.to)
    BY <1>6 DEF PeerHandles
  <2>6. \A m \in inbox' : m \in inbox \/ Traced(m)'
    BY <2>4, <2>5
  <2> QED BY <1>3, <1>6, <2>6 DEF PeerHandles
<1>7. ASSUME NEW d \in outbox, PeerGetsResponse(d) PROVE TraceInv'
  <2>1. \A a \in answered' : \/ a \in answered
                             \/ \E x \in outbox : /\ x.msg.kind = "response"
                                                  /\ a.req = x.msg.req /\ a.by = x.msg.by
    BY <1>7 DEF PeerGetsResponse
  <2> QED BY <1>3, <1>7, <2>1 DEF PeerGetsResponse
<1>8. CASE OthersSend
  <2> PICK n \in Requests : SendRequest(n)
    BY <1>8 DEF OthersSend
  <2>1. sends[n] \in Nat /\ sends'[n] = sends[n] + 1
    BY DEF TypeInv, TypeOK, SendRequest
  <2>2. Traced(RequestMsg(n))'
    BY <2>1 DEF Traced, RequestMsg, Requested
  <2>3. \A m \in inbox' : m \in inbox \/ Traced(m)'
    BY <2>2 DEF SendRequest
  <2> QED BY <1>3, <2>3 DEF SendRequest
<1>9. ASSUME \/ ClientTimesOut \/ Lose \/ UNCHANGED vars
             \/ \E q \in Seqs : GrowOld(q) \/ CleanupStale(q)
             \/ \E c \in commands : ApplyCommand(c)
      PROVE  TraceInv'
  BY <1>3, <1>9 DEF ClientTimesOut, Lose, GrowOld, CleanupStale, ApplyCommand, vars
<1>10. OthersReceive => TraceInv'
  BY <1>6, <1>7 DEF OthersReceive
<1>11. ProxyStep => TraceInv'
  BY <1>4, <1>5, <1>9 DEF ProxyStep, ReceiveSome
<1> QED BY <1>1, <1>2, <1>8, <1>9, <1>10, <1>11, TakesFacts, TestSteps

\* Only what the script reached was sent.
LEMMA SentStep ==
    ASSUME TypeInv, TestTypeOK, SentInv, [TestNext]_testVars
    PROVE  SentInv'
<1>0. /\ sends \in [Requests -> Nat] /\ phase \in Nat /\ sent \in Nat
      /\ script \in Scripts
  BY DEF TypeInv, TypeOK, TestTypeOK
<1>1. ASSUME script' = script, \/ phase' = phase /\ sent' \in Nat /\ sent' >= sent
                               \/ phase' = phase + 1,
             NEW r, SentBy(r)
      PROVE  SentBy(r)'
  <2> PICK i \in 1 .. Len(script) : \E k \in 1 .. Len(script[i]) :
          script[i][k] = r /\ (i < phase \/ (i = phase /\ k <= sent))
    BY <1>1 DEF SentBy
  <2> PICK k \in 1 .. Len(script[i]) :
          script[i][k] = r /\ (i < phase \/ (i = phase /\ k <= sent))
    OBVIOUS
  <2>1. i \in Int /\ k \in Int
    OBVIOUS
  <2>2. i < phase' \/ (i = phase' /\ k <= sent')
    BY <1>0, <1>1, <2>1
  <2> QED BY <1>1, <2>2 DEF SentBy
<1>2. ASSUME script' = script, \/ phase' = phase /\ sent' \in Nat /\ sent' >= sent
                               \/ phase' = phase + 1,
             \A r \in Requests : r.src = Client => sends'[r] = sends[r]
      PROVE  SentInv'
  BY <1>1, <1>2 DEF SentInv, Requested
<1>3. CASE ClientSends
  <2> PICK n \in Requests :
          /\ n = script[phase][sent + 1]
          /\ phase \in 1 .. Len(script) /\ sent + 1 \in 1 .. Len(script[phase])
          /\ sends' = [sends EXCEPT ![n] = sends[n] + 1]
          /\ sent' = sent + 1 /\ UNCHANGED <<script, phase>>
    BY <1>3, SendsFacts
  <2>1. \A r \in Requests : r # n => sends'[r] = sends[r]
    BY <1>0
  <2>2. sent' \in Nat /\ sent' >= sent
    BY <1>0
  <2>3. SentBy(n)'
    <3>1. script'[phase][sent + 1] = n /\ phase = phase' /\ sent + 1 <= sent'
      BY <1>0
    <3> QED BY <3>1 DEF SentBy
  <2>4. ASSUME NEW r \in Requests, r.src = Client, Requested(r)' PROVE SentBy(r)'
    <3>1. CASE r = n
      BY <2>3, <3>1
    <3>2. CASE r # n
      BY <1>1, <2>1, <2>2, <2>4, <3>2 DEF SentInv, Requested
    <3> QED BY <3>1, <3>2
  <2> QED BY <2>4 DEF SentInv
<1>4. ASSUME NEW d \in outbox, ClientReceives(d) \/ ClientIsGone(d) PROVE SentInv'
  <2>1. UNCHANGED <<script, sends>>
    BY <1>4, TakesFacts DEF Takes
  <2>2. UNCHANGED <<phase, sent>> \/ phase' = phase + 1
    BY <1>4 DEF ClientReceives, ClientIsGone, NextPhase, clientVars
  <2> QED BY <1>0, <1>2, <2>1, <2>2
<1>5. CASE ClientTimesOut
  BY <1>2, <1>5 DEF ClientTimesOut, NextPhase, vars
<1>6. CASE (ProxyStep \/ OthersReceive \/ OthersSend \/ Lose \/ UNCHANGED vars) /\ UNCHANGED clientVars
  <2>1. \A r \in Requests : r.src = Client => sends'[r] = sends[r]
    <3>1. OthersSend => \A r \in Requests : r.src = Client => sends'[r] = sends[r]
      BY <1>0 DEF OthersSend, SendRequest
    <3>2. (\E t \in Tasks : HandleMessage(t)) => UNCHANGED sends
      BY HandlerShares
    <3>3. \/ ReceiveSome \/ OthersReceive \/ Lose \/ UNCHANGED vars
          \/ (\E q \in Seqs : GrowOld(q) \/ CleanupStale(q))
          \/ (\E c \in commands : ApplyCommand(c))
          => UNCHANGED sends
      BY DEF ReceiveSome, Receive, OthersReceive, PeerHandles, PeerGetsResponse, Lose,
         GrowOld, CleanupStale, ApplyCommand, vars, peerVars
    <3> QED BY <1>6, <3>1, <3>2, <3>3 DEF ProxyStep
  <2>2. UNCHANGED <<script, phase, sent>>
    BY <1>6 DEF clientVars
  <2> QED BY <1>0, <1>2, <2>1, <2>2
<1> QED BY <1>3, <1>4, <1>5, <1>6, TestSteps

-----------------------------------------------------------------------------
\* A phase has no more requests than its length.
LEMMA PhaseSize ==
    ASSUME script \in Scripts, NEW i \in 1 .. Len(script)
    PROVE  /\ IsFiniteSet(Elements(script[i]))
           /\ Cardinality(Elements(script[i])) \in Nat
           /\ Cardinality(Elements(script[i])) <= Len(script[i])
           /\ Len(script[i]) \in Nat
           /\ \A r \in Elements(script[i]) : r \in Requests /\ r.src = Client
<1> DEFINE p == script[i]
           f == [k \in 1 .. Len(p) |-> p[k]]
<1>1. Len(p) \in Nat /\ \A k \in 1 .. Len(p) : p[k] \in Requests /\ p[k].src = Client
  BY ScriptFacts
<1> HIDE DEF p
<1>2. Elements(p) = {p[k] : k \in 1 .. Len(p)}
  BY DEF Elements
<1>3. f \in Surjection(1 .. Len(p), Elements(p))
  BY <1>2 DEF Surjection
<1>4. IsFiniteSet(1 .. Len(p)) /\ Cardinality(1 .. Len(p)) = Len(p)
  <2> DEFINE n == Len(p)
  <2>1. n \in Nat
    BY <1>1
  <2> HIDE DEF n
  <2>2. 1 \in Int /\ n \in Int
    BY <2>1
  <2>3. IsFiniteSet(1 .. n) /\ Cardinality(1 .. n) = IF 1 > n THEN 0 ELSE n - 1 + 1
    BY ONLY <2>2, FS_Interval
  <2>4. Cardinality(1 .. n) = n
    BY <2>1, <2>3
  <2> QED BY <2>3, <2>4 DEF n
<1>5. IsFiniteSet(Elements(p)) /\ Cardinality(Elements(p)) <= Len(p)
  BY <1>3, <1>4, FS_Surjection
<1>6. Cardinality(Elements(p)) \in Nat
  BY <1>5, FS_CardinalityType
<1>7. \A r \in Elements(p) : r \in Requests /\ r.src = Client
  BY <1>1, <1>2
<1> QED BY <1>1, <1>5, <1>6, <1>7 DEF p

\* Only the client's own reads add to the answers it got.
LEMMA OwnAnswersKept ==
    ASSUME TypeInv, ProxyStep \/ OthersReceive \/ OthersSend \/ Lose \/ UNCHANGED vars,
           NEW r, r.src = Client
    PROVE  IsAnswered(r)' <=> IsAnswered(r)
<1>1. UNCHANGED answered => (IsAnswered(r)' <=> IsAnswered(r))
  BY DEF IsAnswered
<1>2. CASE OthersReceive
  <2> PICK d \in outbox : d.to # Client /\ (PeerHandles(d) \/ PeerGetsResponse(d))
    BY <1>2 DEF OthersReceive
  <2>1. CASE PeerHandles(d)
    BY <1>1, <2>1 DEF PeerHandles
  <2>2. CASE PeerGetsResponse(d)
    <3>1. \A a \in answered' : a \in answered \/ a.req.src # Client
      BY <2>2 DEF PeerGetsResponse
    <3>2. answered \subseteq answered'
      BY <2>2 DEF PeerGetsResponse
    <3> QED BY <3>1, <3>2 DEF IsAnswered
  <2> QED BY <2>1, <2>2
<1>3. (\E t \in Tasks : HandleMessage(t)) => UNCHANGED answered
  BY HandlerShares
<1>4. \/ ReceiveSome \/ OthersSend \/ Lose \/ UNCHANGED vars
      \/ (\E q \in Seqs : GrowOld(q) \/ CleanupStale(q))
      \/ (\E c \in commands : ApplyCommand(c))
      => UNCHANGED answered
  BY DEF ReceiveSome, Receive, OthersSend, SendRequest, Lose,
     GrowOld, CleanupStale, ApplyCommand, vars, peerVars
<1> QED BY <1>1, <1>2, <1>3, <1>4 DEF ProxyStep

\* What the client reads is a response to a request of its own that was not
\* answered so far.
LEMMA ClientReads ==
    ASSUME TypeInv, TestTypeOK, OriginInv, OthersInv, TraceInv, SentInv, SingleInv,
           NEW d \in outbox, d.to = Client
    PROVE  /\ d.msg.kind = "response"
           /\ d.msg.req \in Requests /\ d.msg.req.src = Client
           /\ ~ IsAnswered(d.msg.req)
           /\ SentBy(d.msg.req)
<1> DEFINE r == d.msg.req
<1>1. /\ d.msg \in Message /\ r \in Requests /\ Client \notin Upfs
      /\ IsSmfRequest(d.msg) => d.to \in Upfs
  BY AddressAssumption, ClientAssumption DEF TypeInv, TypeOK, Datagram, Message
<1>2. d.msg.kind = "response"
  <2>1. ~ IsSmfRequest(d.msg) /\ ~ IsUpfRequest(d.msg)
    BY <1>1 DEF OthersInv
  <2> QED BY <1>1, <2>1, RequestFacts DEF IsSmfRequest, IsUpfRequest, Message
<1>3. r.src = Client
  BY <1>2 DEF OriginInv, RepliesReachTheirOrigin
<1>4. SentBy(r)
  BY <1>1, <1>3 DEF TraceInv, Traced, SentInv
<1>5. ~ IsAnswered(r)
  <2> SUFFICES ASSUME NEW a \in answered, a.req = r PROVE FALSE
    BY DEF IsAnswered
  <2>1. <<"outbox", d>> \in Places(r) /\ <<"answered", a>> \in Places(r)
    BY PlacesAre
  <2>2. Single(r)
    BY <1>1, <1>3 DEF SingleInv
  <2>3. <<"outbox", d>> = <<"answered", a>>
    BY <2>1, <2>2 DEF Single
  <2> QED BY <2>3
<1> QED BY <1>1, <1>2, <1>3, <1>4, <1>5

\* A request of a later phase is not answered yet.
LEMMA LaterUnanswered ==
    ASSUME TypeInv, TestTypeOK, TraceInv, SentInv, WellMade(script),
           NEW i \in 1 .. Len(script), phase < i
    PROVE  AnsweredOf(i) = {}
<1> SUFFICES ASSUME NEW r \in Elements(script[i]), IsAnswered(r) PROVE FALSE
  BY DEF AnsweredOf
<1>1. script \in Scripts /\ phase \in Nat /\ i \in Nat
  BY DEF TestTypeOK
<1>2. r \in Requests /\ r.src = Client
  BY <1>1, PhaseSize
<1>3. Requested(r)
  BY DEF IsAnswered, TraceInv, Traced, ResponseMsg
<1>4. PICK j \in 1 .. Len(script) : \E k \in 1 .. Len(script[j]) :
          script[j][k] = r /\ (j < phase \/ (j = phase /\ k <= sent))
  BY <1>2, <1>3 DEF SentInv, SentBy
<1>5. PICK l \in 1 .. Len(script[i]) : script[i][l] = r
  BY DEF Elements
<1>6. i = j
  BY <1>4, <1>5 DEF WellMade
<1> QED BY <1>1, <1>4, <1>6

\* One more request of phase i is answered.
LEMMA AnswerCounts ==
    ASSUME script \in Scripts, script' = script, NEW i \in 1 .. Len(script),
           NEW r \in Elements(script[i]), ~ IsAnswered(r),
           \A x : IsAnswered(x)' <=> IsAnswered(x) \/ x = r
    PROVE  /\ AnsweredOf(i)' = AnsweredOf(i) \cup {r}
           /\ Cardinality(AnsweredOf(i))' = Cardinality(AnsweredOf(i)) + 1
           /\ Cardinality(AnsweredOf(i)) + 1 >= Len(script[i])
                => \A x \in Elements(script[i]) : IsAnswered(x)'
<1> DEFINE A == AnsweredOf(i)
           E == Elements(script[i])
           n == Len(script[i])
<1>1. IsFiniteSet(E) /\ Cardinality(E) \in Nat /\ Cardinality(E) <= n /\ n \in Nat
  BY PhaseSize
<1>2. A \in SUBSET E /\ r \notin A /\ r \in E
  BY DEF AnsweredOf
<1>3. AnsweredOf(i)' = A \cup {r}
  BY DEF AnsweredOf
<1>4. \A x \in E : x \in A \cup {r} => IsAnswered(x)'
  BY DEF AnsweredOf
<1> HIDE DEF A, E, n
<1>5. IsFiniteSet(A)
  BY ONLY <1>1, <1>2, FS_Subset
<1>6. Cardinality(A \cup {r}) = Cardinality(A) + 1
  BY ONLY <1>2, <1>5, FS_AddElement
<1>7. A \cup {r} \in SUBSET E
  BY <1>2
<1>8. /\ Cardinality(A \cup {r}) <= Cardinality(E)
      /\ Cardinality(E) = Cardinality(A \cup {r}) => E = A \cup {r}
  BY ONLY <1>1, <1>7, FS_Subset
<1>9. Cardinality(A) \in Nat
  BY ONLY <1>5, FS_CardinalityType
<1>10. Cardinality(A) + 1 >= n => E = A \cup {r}
  BY <1>1, <1>6, <1>8, <1>9
<1>11. Cardinality(A) + 1 >= n => \A x \in E : IsAnswered(x)'
  BY <1>4, <1>10
<1>12. Cardinality(AnsweredOf(i))' = Cardinality(A \cup {r})
  BY <1>3
<1> QED BY <1>3, <1>6, <1>11, <1>12 DEF A, E, n

\* The wait of a phase counts its own answers and nothing else.
LEMMA PhaseRead ==
    ASSUME TypeInv, TestTypeOK, OriginInv, OthersInv, TraceInv, SentInv, SingleInv,
           WellMade(script), PhaseInv, NEW d \in outbox, ClientReceives(d)
    PROVE  PhaseInv'
<1> SUFFICES ASSUME ~ GaveUp PROVE PhaseInv'
  BY DEF PhaseInv, GaveUp, ClientReceives, Reads
<1> DEFINE r == d.msg.req
           n == Cardinality(AnsweredOf(phase))
<1>1. /\ ~ Finished /\ sent = Expected /\ d.to = Client
      /\ UNCHANGED <<script, timeouts>>
      /\ answered' = answered \cup
            {a \in {[req |-> r, by |-> d.msg.by]} : d.msg.kind = "response" /\ r.src = Client}
  BY DEF ClientReceives, Waiting, Reads
<1>2. /\ script \in Scripts /\ Len(script) \in Nat /\ phase \in 1 .. Len(script)
      /\ phase \in Nat
  BY <1>1, ScriptFacts DEF TestTypeOK, Finished
<1>3. PhasesComplete /\ received = n
  BY <1>1 DEF PhaseInv
<1>4. /\ d.msg.kind = "response" /\ r \in Requests /\ r.src = Client
      /\ ~ IsAnswered(r) /\ SentBy(r)
  BY <1>1, ClientReads
<1>5. \A x : IsAnswered(x)' <=> IsAnswered(x) \/ x = r
  <2> DEFINE b == [req |-> r, by |-> d.msg.by]
  <2>1. answered' = answered \cup {b} /\ b.req = r
    BY <1>1, <1>4
  <2> HIDE DEF b, r
  <2>2. \A x : IsAnswered(x)' <=> \E a \in answered \cup {b} : a.req = x
    BY <2>1 DEF IsAnswered
  <2>3. \A x : IsAnswered(x) <=> \E a \in answered : a.req = x
    BY DEF IsAnswered
  <2> QED BY <2>1, <2>2, <2>3
<1>6. r \in Elements(script[phase])
  <2> PICK i \in 1 .. Len(script) : \E k \in 1 .. Len(script[i]) :
          script[i][k] = r /\ (i < phase \/ (i = phase /\ k <= sent))
    BY <1>4 DEF SentBy
  <2>1. r \in Elements(script[i]) /\ (i < phase \/ i = phase)
    BY DEF Elements
  <2>2. i < phase => IsAnswered(r)
    BY <1>2, <1>3, <2>1 DEF PhasesComplete
  <2> QED BY <1>4, <2>1, <2>2
<1> HIDE DEF r
<1> PICK p \in 1 .. Len(script) : p = phase
  BY <1>2
<1>7. /\ AnsweredOf(p)' = AnsweredOf(p) \cup {r}
      /\ Cardinality(AnsweredOf(p))' = received + 1
      /\ received + 1 >= Len(script[p]) => \A x \in Elements(script[p]) : IsAnswered(x)'
  BY <1>1, <1>2, <1>3, <1>4, <1>5, <1>6, AnswerCounts
<1> HIDE DEF n
<1>8. ~ GaveUp' /\ script' = script
  BY <1>1 DEF GaveUp
<1>9. ASSUME NEW i \in 1 .. p - 1, NEW x \in Elements(script[i]) PROVE IsAnswered(x)'
  BY <1>3, <1>5, <1>9 DEF PhasesComplete
<1>10. p \in Nat /\ Expected = Len(script[p])
  BY <1>2 DEF Expected
<1>11. CASE received + 1 >= Expected
  <2>1. phase' = p + 1 /\ received' = 0
    BY <1>11 DEF ClientReceives, NextPhase
  <2>2. ASSUME NEW i \in 1 .. phase' - 1, NEW x \in Elements(script[i]) PROVE IsAnswered(x)'
    <3>1. i = p \/ i \in 1 .. p - 1
      BY <1>10, <2>1
    <3> QED BY <1>7, <1>9, <1>10, <1>11, <2>2, <3>1
  <2>3. PhasesComplete'
    BY <1>8, <2>2 DEF PhasesComplete
  <2>4. ASSUME ~ Finished' PROVE Cardinality(AnsweredOf(phase))' = 0
    <3> DEFINE q == p + 1
    <3>1. q \in 1 .. Len(script) /\ phase < q
      BY <1>2, <1>8, <1>10, <2>1, <2>4 DEF Finished
    <3> HIDE DEF q
    <3>2. AnsweredOf(q) = {}
      BY <3>1, LaterUnanswered
    <3>3. r \notin Elements(script[q])
      <4> SUFFICES ASSUME r \in Elements(script[q]) PROVE FALSE
        OBVIOUS
      <4>1. PICK k \in 1 .. Len(script[p]) : script[p][k] = r
        BY <1>6 DEF Elements
      <4>2. PICK l \in 1 .. Len(script[q]) : script[q][l] = r
        BY DEF Elements
      <4>3. p = q
        BY <3>1, <4>1, <4>2 DEF WellMade
      <4> QED BY <1>10, <3>1, <4>3
    <3>4. \A x \in Elements(script[q]) : ~ IsAnswered(x)'
      BY <1>5, <3>2, <3>3 DEF AnsweredOf
    <3>5. AnsweredOf(phase)' = {}
      BY <1>8, <2>1, <3>4 DEF AnsweredOf, q
    <3> QED BY <3>5, FS_EmptySet
  <2> QED BY <2>1, <2>3, <2>4 DEF PhaseInv
<1>12. CASE ~ (received + 1 >= Expected)
  <2>1. phase' = phase /\ received' = received + 1
    BY <1>12 DEF ClientReceives
  <2>2. PhasesComplete'
    BY <1>8, <1>9, <2>1 DEF PhasesComplete
  <2>3. Cardinality(AnsweredOf(phase))' = Cardinality(AnsweredOf(p))'
    BY <2>1
  <2> QED BY <1>7, <2>1, <2>2, <2>3 DEF PhaseInv
<1> QED BY <1>11, <1>12

LEMMA PhaseStep ==
    ASSUME TypeInv, TestTypeOK, OriginInv, OthersInv, TraceInv, SentInv, SingleInv,
           WellMade(script), PhaseInv, [TestNext]_testVars
    PROVE  PhaseInv'
<1>0. script \in Scripts /\ Len(script) \in Nat /\ phase \in 1 .. Len(script) + 1
  BY ScriptFacts DEF TestTypeOK
<1>1. ASSUME UNCHANGED <<script, phase, received, timeouts>>,
             \A r : r.src = Client => (IsAnswered(r)' <=> IsAnswered(r))
      PROVE  PhaseInv'
  <2>1. ASSUME NEW i \in 1 .. Len(script), NEW r \in Elements(script[i])
        PROVE  IsAnswered(r)' <=> IsAnswered(r)
    BY <1>0, <1>1, PhaseSize
  <2>2. \A i \in 1 .. Len(script) : AnsweredOf(i)' = AnsweredOf(i)
    BY <1>1, <2>1 DEF AnsweredOf
  <2>3. ASSUME ~ GaveUp' PROVE PhasesComplete'
    <3>1. PhasesComplete /\ ~ GaveUp
      BY <1>1, <2>3 DEF PhaseInv, GaveUp
    <3>2. \A i \in 1 .. phase - 1 : i \in 1 .. Len(script)
      BY <1>0
    <3> QED BY <1>1, <2>1, <3>1, <3>2 DEF PhasesComplete
  <2>4. ASSUME ~ GaveUp', ~ Finished'
        PROVE  received' = Cardinality(AnsweredOf(phase))'
    <3>1. ~ GaveUp /\ ~ Finished
      BY <1>1, <2>4 DEF GaveUp, Finished
    <3>2. received = Cardinality(AnsweredOf(phase)) /\ phase \in 1 .. Len(script)
      BY <1>0, <3>1 DEF PhaseInv, Finished
    <3>3. AnsweredOf(phase)' = AnsweredOf(phase)
      BY <1>1, <2>1, <3>2 DEF AnsweredOf
    <3> QED BY <1>1, <3>2, <3>3
  <2> QED BY <2>3, <2>4 DEF PhaseInv
<1>2. CASE ClientSends
  BY <1>1, <1>2 DEF ClientSends, IsAnswered
<1>3. ASSUME NEW d \in outbox, ClientReceives(d) PROVE PhaseInv'
  BY <1>3, PhaseRead
<1>4. ASSUME NEW d \in outbox, ClientIsGone(d) PROVE PhaseInv'
  BY <1>1, <1>4 DEF ClientIsGone, IsAnswered, peerVars, clientVars
<1>5. CASE ClientTimesOut
  <2>1. GaveUp'
    BY <1>5 DEF ClientTimesOut, GaveUp, TestTypeOK
  <2> QED BY <2>1 DEF PhaseInv
<1>6. CASE (ProxyStep \/ OthersReceive \/ OthersSend \/ Lose \/ UNCHANGED vars) /\ UNCHANGED clientVars
  <2>1. \A r : r.src = Client => (IsAnswered(r)' <=> IsAnswered(r))
    BY <1>6, OwnAnswersKept
  <2> QED BY <1>1, <1>6, <2>1 DEF clientVars
<1> QED BY <1>2, <1>3, <1>4, <1>5, <1>6, TestSteps

\* The inductive invariant.
ClientInv ==
    /\ TypeInv /\ TestTypeOK /\ ArmInv /\ OriginInv
    /\ HostsInv /\ OthersInv /\ TraceInv /\ SentInv /\ SingleInv /\ PhaseInv

LEMMA ClientInit ==
    ASSUME OneBackend, TestInit
    PROVE  ClientInv
<1>1. TypeInv /\ TestTypeOK /\ ArmInv /\ Init
  BY TestInitTypes, ArmInit DEF TestInit
<1>2. OriginInv
  <2>1. \A r \in Requests : ~ IsPending(r.seq)
    BY <1>1, RequestFacts DEF Init, PendingInit, IsPending
  <2> QED BY <1>1, <2>1 DEF Init, OriginInv, RepliesReachTheirOrigin, IdleTask, At
<1>3. \A t \in Tasks : task[t] = IdleTask
  BY <1>1 DEF Init
<1>4. HostsInv
  BY <1>1, <1>3 DEF Init, UpfPoolInit, HostsInv, IdleTask
<1>5. OthersInv
  <2>1. \A s \in Seids : ~ HasSession(s)
    BY <1>1 DEF Init, SessionTableInit, HasSession
  <2> QED BY <1>1, <1>3, <2>1 DEF Init, OthersInv, OthersTask, IdleTask
<1>6. \A r \in Requests : ~ Requested(r) /\ ~ IsAnswered(r)
  BY <1>1 DEF Init, Requested, IsAnswered
<1>7. TraceInv /\ SentInv
  BY <1>1, <1>3, <1>6 DEF Init, TraceInv, SentInv, At, IdleTask
<1>8. SingleInv
  BY <1>6, <1>7, NotSentYet DEF SingleInv, Single
<1>9. PhaseInv
  <2>1. /\ script \in Scripts /\ Len(script) \in Nat
        /\ phase = 1 /\ received = 0
    BY ScriptFacts DEF TestInit
  <2>2. PhasesComplete
    BY <2>1 DEF PhasesComplete
  <2>3. ASSUME ~ Finished PROVE AnsweredOf(phase) = {}
    <3>1. phase \in 1 .. Len(script)
      BY <2>1, <2>3 DEF Finished
    <3> QED BY <1>6, <2>1, <3>1, PhaseSize DEF AnsweredOf
  <2> QED BY <2>1, <2>2, <2>3, FS_EmptySet DEF PhaseInv
<1> QED BY <1>1, <1>2, <1>4, <1>5, <1>7, <1>8, <1>9 DEF ClientInv

LEMMA ClientInvStep ==
    ASSUME OneBackend, OwnSessions, OneOwnerPerSeq, \A s \in Scripts : WellMade(s),
           ClientInv, [TestNext]_testVars
    PROVE  ClientInv'
<1>1. /\ TypeInv /\ TestTypeOK /\ ArmInv /\ OriginInv
      /\ HostsInv /\ OthersInv /\ TraceInv /\ SentInv /\ SingleInv /\ PhaseInv
      /\ WellMade(script)
  BY DEF ClientInv, TestTypeOK
<1>2. TypeInv' /\ TestTypeOK'
  BY <1>1, TestTypes
<1>3. ArmInv' /\ OriginInv'
  BY <1>1, TestArmStep, TestOriginStep
<1>4. HostsInv' /\ OthersInv'
  BY <1>1, TestHostsStep, OthersStep
<1>5. TraceInv' /\ SentInv'
  BY <1>1, TraceStep, SentStep
<1>6. SingleInv'
  BY <1>1, SingleStep
<1>7. PhaseInv'
  BY <1>1, PhaseStep
<1> QED BY <1>2, <1>3, <1>4, <1>5, <1>6, <1>7 DEF ClientInv

\* The test client counts datagrams and never looks at one; still, in front of
\* a proxy with one backend, a phase none of whose waits timed out is over only
\* when each of its requests was answered, whatever the other peers do and
\* whatever the network loses.  The theorem asks that the script is WellMade,
\* that no other SMF uses the client's SEIDs and that no two senders use the
\* same sequence number.
THEOREM PhasesCorrect ==
    ASSUME OneBackend, OwnSessions, OneOwnerPerSeq, \A s \in Scripts : WellMade(s)
    PROVE  TestSpec => []PhasesComplete
<1>1. TestInit => ClientInv
  BY ClientInit
<1>2. ClientInv /\ [TestNext]_testVars => ClientInv'
  BY ClientInvStep
<1>3. ClientInv => PhasesComplete
  BY DEF ClientInv, PhaseInv, PhasesComplete
<1> QED BY <1>1, <1>2, <1>3, PTL DEF TestSpec

-----------------------------------------------------------------------------
(***************************************************************************)
(* A session whose deletion went through the proxy stays forgotten.        *)
(***************************************************************************)

\* The proxy has removed the mapping that deletion d is about: d is on its way
\* to the UPF, or the response on its way back.
PassedOn(d) ==
    \/ \E t \in Tasks : task[t].pc \notin {"idle", "lookup", "unmap"} /\ Msg(t).req = d
    \/ \E x \in outbox : x.msg.req = d
    \/ \E m \in inbox : m.kind = "response" /\ m.req = d
    \/ IsAnswered(d)

DeleteInv ==
    ~ GaveUp => \A d \in Deletions : d.src = Client /\ PassedOn(d) => ~ HasSession(d.seid)

LEMMA PassedOnSent ==
    ASSUME TraceInv, NEW d, PassedOn(d)
    PROVE  Requested(d)
<1>1. \A t \in Tasks : task[t].pc # "idle" => Requested(Msg(t).req)
  BY DEF TraceInv, Traced, At
<1>2. \A a \in answered : Requested(a.req)
  BY DEF TraceInv, Traced, ResponseMsg
<1>3. (\A m \in inbox : Requested(m.req)) /\ (\A x \in outbox : Requested(x.msg.req))
  BY DEF TraceInv, Traced
<1> QED BY <1>1, <1>2, <1>3 DEF PassedOn, IsAnswered

\* A deletion of the client has a SEID of its own script.
LEMMA DeletionFacts ==
    ASSUME TestTypeOK, SentInv, WellMade(script), NEW d \in Deletions, d.src = Client,
           Requested(d)
    PROVE  /\ d \in Requests /\ d.type \in DeletionTypes
           /\ d.seid # None /\ d.seid \in Seids
           /\ \E j \in 1 .. Len(script) : d \in Elements(script[j]) /\ j <= phase
<1>1. d \in Requests /\ d.type \in DeletionTypes /\ phase \in Nat
  BY DEF Deletions, TestTypeOK
<1>2. PICK j \in 1 .. Len(script) : \E k \in 1 .. Len(script[j]) :
          script[j][k] = d /\ (j < phase \/ (j = phase /\ k <= sent))
  BY <1>1 DEF SentInv, SentBy
<1>3. d \in Elements(script[j]) /\ j <= phase
  BY <1>1, <1>2 DEF Elements
<1>4. d.seid # None
  BY <1>1, <1>3 DEF WellMade
<1> QED BY <1>1, <1>3, <1>4, RequestFacts

\* Nothing that would open the session again is still on its way to the table.
LEMMA NotReopened ==
    ASSUME ClientInv, WellMade(script), OwnSessions, ~ GaveUp,
           NEW d \in Deletions, d.src = Client, Requested(d),
           NEW t \in Tasks, At(t, "place"), Seid(t) = d.seid
    PROVE  FALSE
<1> DEFINE e == Msg(t).req
<1>0. /\ TypeInv /\ TestTypeOK /\ ArmInv /\ TraceInv /\ SentInv /\ SingleInv /\ PhaseInv
      /\ script \in Scripts /\ phase \in Nat
  BY DEF ClientInv, TestTypeOK
<1>1. /\ d \in Requests /\ d.type \in DeletionTypes /\ d.seid # None
      /\ \E j \in 1 .. Len(script) : d \in Elements(script[j]) /\ j <= phase
  BY <1>0, DeletionFacts
<1>2. PICK j \in 1 .. Len(script) : d \in Elements(script[j]) /\ j <= phase
  BY <1>1
<1>3. /\ e \in Requests /\ e.seid = d.seid /\ Requested(e)
      /\ e.type \in EstablishmentTypes \cup OtherTypes
      /\ Holds(t, e)
  <2>1. task[t].msg \in Message /\ task[t].pc = "place"
    BY <1>0 DEF TypeInv, TypeOK, WellFormed, At
  <2>2. e \in Requests /\ e.seid = d.seid
    BY <2>1 DEF Message, Msg, Seid
  <2>3. Requested(e)
    BY <1>0, <2>1 DEF TraceInv, Traced, At
  <2>4. e.type \in EstablishmentTypes \cup OtherTypes
    BY <1>0, <2>1 DEF ArmInv, ArmTask, Msg
  <2>5. Holds(t, e)
    BY <2>1 DEF Holds, At
  <2> QED BY <2>2, <2>3, <2>4, <2>5
<1> HIDE DEF e
<1>4. e.src = Client
  BY <1>1, <1>3 DEF OwnSessions
<1>5. PICK i \in 1 .. Len(script) : \E k \in 1 .. Len(script[i]) :
          script[i][k] = e /\ (i < phase \/ (i = phase /\ k <= sent))
  BY <1>0, <1>3, <1>4 DEF SentInv, SentBy
<1>6. e \in Elements(script[i])
  BY <1>5 DEF Elements
<1>7. i < j
  BY <1>1, <1>2, <1>3, <1>6 DEF WellMade
<1>8. IsAnswered(e)
  <2>1. i \in 1 .. phase - 1
    BY <1>0, <1>2, <1>7
  <2>2. PhasesComplete
    BY <1>0 DEF PhaseInv
  <2> QED BY <1>6, <2>1, <2>2 DEF PhasesComplete
<1>9. PICK a \in answered : a.req = e
  BY <1>8 DEF IsAnswered
<1>10. <<"task", t>> \in Places(e) /\ <<"answered", a>> \in Places(e)
  BY <1>3, <1>9, PlacesAre
<1>11. Single(e)
  BY <1>0, <1>3, <1>4 DEF SingleInv
<1>12. <<"task", t>> = <<"answered", a>>
  BY <1>10, <1>11 DEF Single
<1> QED BY <1>12

\* A deletion is passed on by unmap and in no other way.
LEMMA PassedFrame ==
    ASSUME NEW d, PassedOn(d)',
           \A t \in Tasks : task'[t].pc \notin {"idle", "lookup", "unmap"}
                            /\ task'[t].msg.req = d => PassedOn(d),
           \A x \in outbox' : \/ x \in outbox
                              \/ x.msg.req = d => PassedOn(d),
           \A m \in inbox' : \/ m \in inbox \/ m.kind = "request"
                             \/ \E x \in outbox : x.msg.req = m.req,
           \A a \in answered' : \/ a \in answered
                                \/ \E x \in outbox : x.msg.req = a.req
    PROVE  PassedOn(d)
<1>1. \A x \in outbox : x.msg.req = d => PassedOn(d)
  BY DEF PassedOn
<1>2. \A m \in inbox' : m.kind = "response" /\ m.req = d => PassedOn(d)
  BY <1>1 DEF PassedOn
<1>3. \A a \in answered' : a.req = d => PassedOn(d)
  BY <1>1 DEF PassedOn, IsAnswered
<1>4. \/ \E t \in Tasks : task'[t].pc \notin {"idle", "lookup", "unmap"}
                          /\ task'[t].msg.req = d
      \/ \E x \in outbox' : x.msg.req = d
      \/ \E m \in inbox' : m.kind = "response" /\ m.req = d
      \/ \E a \in answered' : a.req = d
  BY DEF PassedOn, Msg, IsAnswered
<1> QED BY <1>1, <1>2, <1>3, <1>4

LEMMA PassedHandler ==
    ASSUME TypeInv, NEW t \in Tasks, HandleMessage(t),
           NEW d, d.type \in DeletionTypes, PassedOn(d)'
    PROVE  PassedOn(d) \/ (Unmap(t) /\ Msg(t).req = d)
<1>0. task \in [Tasks -> Task]
  BY DEF TypeInv, TypeOK
<1>1. /\ task[t].pc # "idle"
      /\ task'[t].pc = "idle" \/ task'[t].msg = task[t].msg
      /\ \A x \in Tasks : x # t => task'[x] = task[x]
  BY HandlerMoves DEF Moves
<1>2. UNCHANGED <<inbox, answered>> /\ \A x \in outbox' : x \in outbox \/ x.msg = task[t].msg
  BY HandlerShares DEF Msg
<1>3. \A x \in Tasks : task[x].pc \notin {"idle", "lookup", "unmap"}
                       /\ task[x].msg.req = d => PassedOn(d)
  BY DEF PassedOn, Msg
<1>4. CASE Msg(t).req # d \/ task[t].pc \notin {"lookup", "unmap"}
  <2>1. ASSUME NEW x \in Tasks, task'[x].pc \notin {"idle", "lookup", "unmap"},
               task'[x].msg.req = d
        PROVE  PassedOn(d)
    BY <1>1, <1>3, <1>4, <2>1 DEF Msg
  <2>2. \A x \in outbox' : x \in outbox \/ (x.msg.req = d => PassedOn(d))
    BY <1>1, <1>2, <1>3, <1>4 DEF Msg
  <2> QED BY <1>2, <2>1, <2>2, PassedFrame
<1>5. CASE Msg(t).req = d /\ task[t].pc = "unmap"
  <2>1. Unmap(t)
    BY <1>5 DEF HandleMessage, At, FanOut, Select, Turn, CountBackend, Place, LookupFound,
       LookupMissed, Unmap, OwnerOf, Register, Forward, ForwardFails, Unregister,
       BroadcastOne, BroadcastOneFails, EndBroadcast, MatchFound, MatchMissed,
       Reply, ReplyFails, Tally, Retire
  <2> QED BY <1>5, <2>1
<1>6. CASE Msg(t).req = d /\ task[t].pc = "lookup"
  <2>1. LookupFound(t) \/ LookupMissed(t)
    BY <1>6 DEF HandleMessage, At, FanOut, Select, Turn, CountBackend, Place, LookupFound,
       LookupMissed, Unmap, OwnerOf, Register, Forward, ForwardFails, Unregister,
       BroadcastOne, BroadcastOneFails, EndBroadcast, MatchFound, MatchMissed,
       Reply, ReplyFails, Tally, Retire
  <2>2. task'[t].pc \in {"unmap", "idle"}
    <3>1. LookupFound(t) => task'[t].pc = "unmap"
      BY <1>0, <1>6 DEF LookupFound, Become, Task
    <3>2. LookupMissed(t) => task'[t].pc = "idle"
      BY <1>0, <1>6 DEF LookupMissed, AffinityTypes, Finish, Become, IdleTask
    <3> QED BY <2>1, <3>1, <3>2
  <2>3. outbox' = outbox
    BY <2>1 DEF LookupFound, LookupMissed, netVars
  <2>4. \A x \in Tasks : task'[x].pc \notin {"idle", "lookup", "unmap"}
                         /\ task'[x].msg.req = d => PassedOn(d)
    BY <1>1, <1>3, <2>2
  <2> QED BY <1>2, <2>3, <2>4, PassedFrame
<1> QED BY <1>4, <1>5, <1>6

LEMMA PassedOthers ==
    ASSUME ClientInv, WellMade(script), [TestNext]_testVars,
           ~ \E t \in Tasks : HandleMessage(t),
           NEW d \in Deletions, d.src = Client, PassedOn(d)'
    PROVE  PassedOn(d) /\ UNCHANGED sessions
<1> USE DEF tableVars, poolVars, netVars, peerVars
<1>0. TypeInv /\ TestTypeOK /\ TraceInv /\ SentInv
  BY DEF ClientInv
<1>1. \A x \in Tasks : task[x].pc \notin {"idle", "lookup", "unmap"}
                       /\ task[x].msg.req = d => PassedOn(d)
  BY DEF PassedOn, Msg
<1>2. ASSUME NEW m \in inbox, m.req = d, m.kind = "request" PROVE FirstStep(m) = "lookup"
  <2>1. Requested(d)
    BY <1>0, <1>2 DEF TraceInv, Traced
  <2>2. d.type \in DeletionTypes /\ d.seid # None
    BY <1>0, <2>1, DeletionFacts
  <2> QED BY <1>2, <2>2, TypesDisjoint
          DEF FirstStep, AffinityTypes, SmfRequestTypes
<1>3. \A m \in inbox : m.kind \in {"request", "response"}
  BY <1>0 DEF TypeInv, TypeOK, Message
<1>4. CASE ClientSends
  <2> PICK n \in Requests : inbox' = inbox \cup {RequestMsg(n)}
                            /\ UNCHANGED <<tableVars, task, outbox, answered>>
    BY <1>0, <1>4, SendsFacts
  <2>1. \A m \in inbox' : m \in inbox \/ m.kind = "request"
    BY DEF RequestMsg
  <2> QED BY <1>1, <2>1, PassedFrame
<1>5. ASSUME NEW x \in outbox, Takes(x) PROVE PassedOn(d) /\ UNCHANGED sessions
  <2>1. \A a \in answered' : a \in answered \/ \E y \in outbox : y.msg.req = a.req
    BY <1>5 DEF Takes
  <2> QED BY <1>1, <1>5, <2>1, PassedFrame DEF Takes
<1>6. CASE [Next]_vars
  <2>1. /\ \A t \in Tasks :
             \/ task'[t] = task[t]
             \/ \E m \in inbox : /\ FirstStep(m) # "idle"
                                 /\ task'[t] = [IdleTask EXCEPT !.pc = FirstStep(m), !.msg = m]
        /\ UNCHANGED sessions /\ outbox' \subseteq outbox
    BY <1>0, <1>6, OthersKeepTasks
  <2>2. ASSUME NEW t \in Tasks, task'[t].pc \notin {"idle", "lookup", "unmap"},
               task'[t].msg.req = d
        PROVE  PassedOn(d)
    <3>1. ASSUME NEW m \in inbox,
                 task'[t] = [IdleTask EXCEPT !.pc = FirstStep(m), !.msg = m]
          PROVE  PassedOn(d)
      <4>1. task'[t].pc = FirstStep(m) /\ task'[t].msg = m
        BY <3>1 DEF IdleTask
      <4>2. m.kind = "response" /\ m.req = d
        BY <1>2, <1>3, <2>2, <4>1
      <4> QED BY <4>2 DEF PassedOn
    <3> QED BY <1>1, <2>1, <2>2, <3>1
  <2>3. /\ \A m \in inbox' : \/ m \in inbox \/ m.kind = "request"
                             \/ \E x \in outbox : x.msg.req = m.req
        /\ \A a \in answered' : a \in answered \/ \E x \in outbox : x.msg.req = a.req
    <3>1. ASSUME NEW x \in outbox, PeerHandles(x) \/ PeerGetsResponse(x)
          PROVE  /\ \A m \in inbox' : m \in inbox \/ x.msg.req = m.req
                 /\ \A a \in answered' : a \in answered \/ x.msg.req = a.req
      BY <3>1 DEF PeerHandles, PeerGetsResponse, ResponseMsg
    <3>2. \/ ReceiveSome \/ Lose \/ UNCHANGED vars
          \/ (\E q \in Seqs : GrowOld(q) \/ CleanupStale(q))
          \/ (\E c \in commands : ApplyCommand(c))
          => inbox' \subseteq inbox /\ answered' = answered
      BY DEF ReceiveSome, Receive, Lose, GrowOld, CleanupStale, ApplyCommand, vars
    <3>3. (\E r \in Requests : SendRequest(r))
             => (\A m \in inbox' : m \in inbox \/ m.kind = "request") /\ answered' = answered
      BY DEF SendRequest, RequestMsg
    <3> QED BY <1>6, <3>1, <3>2, <3>3 DEF Next, PeerStep, Wait
  <2> QED BY <2>1, <2>2, <2>3, PassedFrame
<1>7. ClientTimesOut => [Next]_vars
  BY DEF ClientTimesOut, vars
<1> QED BY <1>4, <1>5, <1>6, <1>7, TestSteps, TakesFacts

LEMMA DeleteStep ==
    ASSUME OwnSessions, ClientInv, WellMade(script), DeleteInv, [TestNext]_testVars
    PROVE  DeleteInv'
<1> SUFFICES ASSUME ~ GaveUp', NEW d \in Deletions, d.src = Client, PassedOn(d)'
             PROVE  ~ HasSession(d.seid)'
  BY DEF DeleteInv
<1>0. /\ TypeInv /\ TestTypeOK /\ TraceInv /\ SentInv
      /\ sessions \in [Seids -> SessionInfo \cup {None}]
  BY DEF ClientInv, TypeInv, TypeOK, SessionTableTypeOK
<1>1. ~ GaveUp
  <2>1. ClientTimesOut => GaveUp'
    BY <1>0 DEF ClientTimesOut, GaveUp, TestTypeOK
  <2>2. \/ ClientSends \/ UNCHANGED clientVars
        \/ \E x \in outbox : ClientReceives(x) \/ ClientIsGone(x)
        => UNCHANGED timeouts
    BY TakesFacts DEF ClientSends, Takes, clientVars
  <2>3. UNCHANGED timeouts
    BY <2>1, <2>2, TestSteps
  <2> QED BY <2>3 DEF GaveUp
<1>2. PassedOn(d) => ~ HasSession(d.seid)
  BY <1>1 DEF DeleteInv
<1>3. ASSUME NEW t \in Tasks, HandleMessage(t) PROVE ~ HasSession(d.seid)'
  <2>1. PassedOn(d) \/ (Unmap(t) /\ Msg(t).req = d)
    BY <1>0, <1>3, PassedHandler DEF Deletions
  <2>2. CASE PassedOn(d)
    <3>1. Requested(d) /\ ~ HasSession(d.seid)
      BY <1>0, <1>2, <2>2, PassedOnSent
    <3>2. d.seid \in Seids /\ d.seid # None
      BY <1>0, <3>1, DeletionFacts
    <3>3. ~ (At(t, "place") /\ Seid(t) = d.seid)
      BY <1>1, <3>1, NotReopened
    <3>4. sessions'[d.seid] \in {sessions[d.seid], None}
      BY <1>0, <1>3, <3>2, <3>3, MappingKept
    <3> QED BY <3>1, <3>4 DEF HasSession
  <2>3. CASE Unmap(t) /\ Msg(t).req = d
    <3>1. Requested(d)
      BY <1>0, <2>3 DEF Unmap, At, TraceInv, Traced
    <3>2. d.seid \in Seids
      BY <1>0, <3>1, DeletionFacts
    <3>3. sessions' = [sessions EXCEPT ![d.seid] = None]
      BY <2>3 DEF Unmap, SessionRemove, Seid
    <3> QED BY <1>0, <3>2, <3>3 DEF HasSession
  <2> QED BY <2>1, <2>2, <2>3
<1>4. CASE ~ \E t \in Tasks : HandleMessage(t)
  <2>1. PassedOn(d) /\ UNCHANGED sessions
    BY <1>4, PassedOthers
  <2> QED BY <1>2, <2>1 DEF HasSession
<1> QED BY <1>3, <1>4

LEMMA DeleteInit ==
    ASSUME TestInit
    PROVE  DeleteInv
<1>1. Init /\ \A t \in Tasks : task[t] = IdleTask
  BY DEF TestInit, Init
<1>2. \A d : ~ PassedOn(d)
  BY <1>1 DEF PassedOn, IsAnswered, Init, IdleTask
<1> QED BY <1>2 DEF DeleteInv

\* "Full test scenario completed successfully" means what it says: in front of
\* one backend, when a test ended none of whose waits timed out, the proxy has
\* no mapping for any session the test deleted, and a UPF received the deletion.
\* Nothing that is still under way brings the mapping back.
THEOREM CleanFinishCorrect ==
    ASSUME OneBackend, OwnSessions, OneOwnerPerSeq, \A s \in Scripts : WellMade(s)
    PROVE  TestSpec => []CleanFinish
<1>1. TestInit => ClientInv /\ DeleteInv
  BY ClientInit, DeleteInit
<1>2. ClientInv /\ DeleteInv /\ [TestNext]_testVars => (ClientInv /\ DeleteInv)'
  BY ClientInvStep, DeleteStep DEF ClientInv, TestTypeOK
<1>3. ClientInv /\ DeleteInv => CleanFinish
  <2> SUFFICES ASSUME ClientInv, DeleteInv, Finished, ~ GaveUp,
                      NEW s \in ClientSessions
               PROVE  /\ ~ HasSession(s)
                      /\ \E u \in Upfs : HasHandled(u, s, DeletionTypes)
    BY DEF CleanFinish
  <2>0. /\ TypeInv /\ TestTypeOK /\ TraceInv /\ SentInv /\ PhasesComplete
        /\ script \in Scripts /\ WellMade(script) /\ Len(script) \in Nat
        /\ phase \in Nat
    BY ScriptFacts DEF ClientInv, TestTypeOK, PhaseInv
  <2>1. PICK d \in Deletions : s = d.seid /\ d \in RequestsOf({script})
    BY DEF ClientSessions
  <2>2. PICK i \in 1 .. Len(script) : d \in Elements(script[i])
    <3>1. \E p : p \in Elements(script) /\ d \in Elements(p)
      BY <2>1 DEF RequestsOf
    <3> QED BY <3>1 DEF Elements
  <2>3. d.src = Client
    BY <2>0, <2>2, PhaseSize
  <2>4. IsAnswered(d)
    BY <2>0, <2>2 DEF Finished, PhasesComplete
  <2>5. PassedOn(d) /\ Requested(d)
    <3>1. PassedOn(d)
      BY <2>4 DEF PassedOn
    <3> QED BY <2>0, <3>1, PassedOnSent
  <2>6. ~ HasSession(s)
    BY <2>1, <2>3, <2>5 DEF DeleteInv
  <2>7. d.type \in DeletionTypes /\ d.seid # None
    BY <2>0, <2>3, <2>5, DeletionFacts
  <2>8. PICK a \in answered : a.req = d
    BY <2>4 DEF IsAnswered
  <2>9. HasHandled(a.by, s, DeletionTypes)
    BY <2>0, <2>1, <2>7, <2>8 DEF TraceInv, Traced, ResponseMsg
  <2>10. a.by \in Upfs
    <3>1. handled \subseteq Handled
      BY <2>0 DEF TypeInv, TypeOK
    <3> QED BY <2>9, <3>1 DEF HasHandled, Handled
  <2> QED BY <2>6, <2>9, <2>10
<1> QED BY <1>1, <1>2, <1>3, PTL DEF TestSpec

-----------------------------------------------------------------------------
(***************************************************************************)
(* The tests of the program meet the condition on scripts: requests are    *)
(* told apart by their sequence numbers, and sessions are established in   *)
(* the phase before the one that deletes them.                             *)
(***************************************************************************)

\* p has requests of one type, numbered from q + 1 on.
Uniform(p, q, type) ==
    /\ Len(p) \in Nat
    /\ \A l \in 1 .. Len(p) : /\ p[l].seq = q + l
                              /\ p[l].type = type
                              /\ type \in DeletionTypes => p[l].seid # None

LEMMA UniformHeartbeats ==
    ASSUME NEW n \in Nat
    PROVE  Len(HeartbeatPhase(n)) = n /\ Uniform(HeartbeatPhase(n), 0, "HeartbeatRequest")
BY DEF Uniform, RequestOf, DeletionTypes, HeartbeatPhase

LEMMA UniformAssociation ==
    ASSUME NEW q \in Nat, NEW p, p = <<RequestOf("AssociationSetupRequest", None, q + 1)>>
    PROVE  Len(p) = 1 /\ Uniform(p, q, "AssociationSetupRequest")
BY DEF Uniform, RequestOf, DeletionTypes

LEMMA UniformSessions ==
    ASSUME None \notin Nat, NEW n \in Nat, NEW q \in Nat
    PROVE  /\ Len(EstablishPhase(n, q)) = n
           /\ Uniform(EstablishPhase(n, q), q, "SessionEstablishmentRequest")
           /\ Len(DeletePhase(n, q)) = n
           /\ Uniform(DeletePhase(n, q), q, "SessionDeletionRequest")
<1> USE DEF Uniform, RequestOf, DeletionTypes
<1>1. /\ Len(EstablishPhase(n, q)) = n
      /\ Uniform(EstablishPhase(n, q), q, "SessionEstablishmentRequest")
  BY DEF EstablishPhase
<1>2. /\ Len(DeletePhase(n, q)) = n
      /\ Uniform(DeletePhase(n, q), q, "SessionDeletionRequest")
  BY DEF DeletePhase
<1> QED BY <1>1, <1>2

LEMMA WellMadeBy ==
    ASSUME NEW s, NEW q, NEW types,
           \A i \in 1 .. Len(s) : Uniform(s[i], q[i], types[i]) /\ q[i] \in Nat,
           \A i, j \in 1 .. Len(s) : i < j => q[i] + Len(s[i]) <= q[j],
           Len(s) \in Nat,
           \A i, j \in 1 .. Len(s) : types[j] \in DeletionTypes
              /\ types[i] \in EstablishmentTypes \cup OtherTypes => i < j
    PROVE  WellMade(s)
<1>1. ASSUME NEW i \in 1 .. Len(s), NEW j \in 1 .. Len(s),
             NEW k \in 1 .. Len(s[i]), NEW l \in 1 .. Len(s[j]), s[i][k] = s[j][l]
      PROVE  i = j /\ k = l
  <2> DEFINE a == q[i]
             b == q[j]
             m == Len(s[i])
             n == Len(s[j])
  <2>1. a \in Nat /\ b \in Nat /\ m \in Nat /\ n \in Nat
    BY DEF Uniform
  <2>2. s[i][k].seq = a + k /\ s[j][l].seq = b + l
    BY DEF Uniform
  <2>3. (i < j => a + m <= b) /\ (j < i => b + n <= a)
    OBVIOUS
  <2>4. k \in 1 .. m /\ l \in 1 .. n
    OBVIOUS
  <2>5. i \in Int /\ j \in Int /\ (i = j => a = b)
    OBVIOUS
  <2> HIDE DEF a, b, m, n
  <2>6. a + k = b + l
    BY <1>1, <2>2
  <2>7. ~ (i < j) /\ ~ (j < i)
    BY <2>1, <2>3, <2>4, <2>6
  <2>8. i = j
    BY <2>5, <2>7
  <2> QED BY <2>1, <2>4, <2>5, <2>6, <2>8
<1>2. ASSUME NEW i \in 1 .. Len(s), NEW j \in 1 .. Len(s),
             NEW e \in Elements(s[i]), NEW d \in Elements(s[j]), d.type \in DeletionTypes
      PROVE  /\ d.seid # None
             /\ e.seid = d.seid /\ e.type \in EstablishmentTypes \cup OtherTypes => i < j
  <2>1. e.type = types[i]
    BY DEF Elements, Uniform
  <2>2. d.type = types[j] /\ (types[j] \in DeletionTypes => d.seid # None)
    BY DEF Elements, Uniform
  <2> QED BY <1>2, <2>1, <2>2
<1> QED BY <1>1, <1>2 DEF WellMade

LEMMA TestsWellMade ==
    ASSUME None \notin Nat, NEW k \in Nat, NEW n \in Nat
    PROVE  /\ WellMade(HeartbeatTest(k))
           /\ WellMade(SessionTest(n, TRUE)) /\ WellMade(SessionTest(n, FALSE))
           /\ WellMade(LoadBalanceTest(n))
           /\ WellMade(FullTest(k, n))
<1>1. WellMade(HeartbeatTest(k))
  <2> DEFINE s == HeartbeatTest(k)
             q == <<0>>
             types == <<"HeartbeatRequest">>
  <2>1. /\ Len(s) = 1 /\ s[1] = HeartbeatPhase(k)
    BY DEF HeartbeatTest
  <2>2. /\ q[1] = 0
        /\ types[1] = "HeartbeatRequest"
    OBVIOUS
  <2> HIDE DEF s, q, types
  <2>3. 0 \in Nat
    OBVIOUS
  <2>4. Len(s[1]) = k /\ Uniform(s[1], q[1], types[1])
    BY <2>1, <2>2, <2>3, UniformHeartbeats
  <2>5. \A i \in 1 .. Len(s) : i = 1
    BY <2>1
  <2>6. \A i \in 1 .. Len(s) : Uniform(s[i], q[i], types[i]) /\ q[i] \in Nat
    BY <2>2, <2>3, <2>4, <2>5
  <2>7. \A i, j \in 1 .. Len(s) : i < j => q[i] + Len(s[i]) <= q[j]
    BY <2>5
  <2>8. \A i, j \in 1 .. Len(s) : types[j] \in DeletionTypes
              /\ types[i] \in EstablishmentTypes \cup OtherTypes => i < j
    BY <2>2, <2>5 DEF DeletionTypes, EstablishmentTypes, OtherTypes
  <2>9. Len(s) \in Nat
    BY <2>1
  <2>10. WellMade(s)
    BY <2>6, <2>7, <2>8, <2>9, WellMadeBy
  <2> QED BY <2>10 DEF s
<1>2. WellMade(LoadBalanceTest(n)) /\ WellMade(SessionTest(n, FALSE))
  <2> DEFINE s == LoadBalanceTest(n)
             q == <<0>>
             types == <<"SessionEstablishmentRequest">>
  <2>0. s = SessionTest(n, FALSE)
    BY DEF LoadBalanceTest, SessionTest
  <2>1. /\ Len(s) = 1 /\ s[1] = EstablishPhase(n, 0)
    BY DEF LoadBalanceTest
  <2>2. /\ q[1] = 0
        /\ types[1] = "SessionEstablishmentRequest"
    OBVIOUS
  <2> HIDE DEF s, q, types
  <2>3. 0 \in Nat
    OBVIOUS
  <2>4. Len(s[1]) = n /\ Uniform(s[1], q[1], types[1])
    BY <2>1, <2>2, <2>3, UniformSessions
  <2>5. \A i \in 1 .. Len(s) : i = 1
    BY <2>1
  <2>6. \A i \in 1 .. Len(s) : Uniform(s[i], q[i], types[i]) /\ q[i] \in Nat
    BY <2>2, <2>3, <2>4, <2>5
  <2>7. \A i, j \in 1 .. Len(s) : i < j => q[i] + Len(s[i]) <= q[j]
    BY <2>5
  <2>8. \A i, j \in 1 .. Len(s) : types[j] \in DeletionTypes
              /\ types[i] \in EstablishmentTypes \cup OtherTypes => i < j
    BY <2>2, <2>5 DEF DeletionTypes, EstablishmentTypes, OtherTypes
  <2>9. Len(s) \in Nat
    BY <2>1
  <2>10. WellMade(s)
    BY <2>6, <2>7, <2>8, <2>9, WellMadeBy
  <2> QED BY <2>0, <2>10 DEF s
<1>3. WellMade(SessionTest(n, TRUE))
  <2> DEFINE s == SessionTest(n, TRUE)
             q == <<0, n>>
             types == <<"SessionEstablishmentRequest", "SessionDeletionRequest">>
  <2>1. /\ Len(s) = 2 /\ s[1] = EstablishPhase(n, 0)
        /\ s[2] = DeletePhase(n, n)
    BY DEF SessionTest
  <2>2. /\ q[1] = 0 /\ q[2] = n
        /\ types[1] = "SessionEstablishmentRequest" /\ types[2] = "SessionDeletionRequest"
    OBVIOUS
  <2> HIDE DEF s, q, types
  <2>3. n \in Nat /\ 0 \in Nat
    OBVIOUS
  <2>4. Len(s[1]) = n /\ Uniform(s[1], q[1], types[1])
    BY <2>1, <2>2, <2>3, UniformSessions
  <2>5. Len(s[2]) = n /\ Uniform(s[2], q[2], types[2])
    BY <2>1, <2>2, <2>3, UniformSessions
  <2>6. \A i \in 1 .. Len(s) : i = 1 \/ i = 2
    BY <2>1
  <2>7. \A i \in 1 .. Len(s) : Uniform(s[i], q[i], types[i]) /\ q[i] \in Nat
    BY <2>2, <2>3, <2>4, <2>5, <2>6
  <2>8. \A i, j \in 1 .. Len(s) : i < j => q[i] + Len(s[i]) <= q[j]
    <3>1. q[1] + Len(s[1]) <= q[2]
      BY <2>2, <2>4
    <3>2. \A i, j \in 1 .. Len(s) : i < j => i = 1 /\ j = 2
      BY <2>6
    <3> QED BY <3>1, <3>2
  <2>9. \A i, j \in 1 .. Len(s) : types[j] \in DeletionTypes
              /\ types[i] \in EstablishmentTypes \cup OtherTypes => i < j
    BY <2>2, <2>6 DEF DeletionTypes, EstablishmentTypes, OtherTypes
  <2>10. Len(s) \in Nat
    BY <2>1
  <2>11. WellMade(s)
    BY <2>7, <2>8, <2>9, <2>10, WellMadeBy
  <2> QED BY <2>11 DEF s
<1>4. WellMade(FullTest(k, n))
  <2> DEFINE s == FullTest(k, n)
             q == <<0, k, k + 1, k + 1 + n>>
             types == <<"HeartbeatRequest", "AssociationSetupRequest",
                        "SessionEstablishmentRequest", "SessionDeletionRequest">>
  <2>1. /\ Len(s) = 4 /\ s[1] = HeartbeatPhase(k)
        /\ s[2] = <<RequestOf("AssociationSetupRequest", None, k + 1)>>
        /\ s[3] = EstablishPhase(n, k + 1)
        /\ s[4] = DeletePhase(n, k + 1 + n)
    BY DEF FullTest
  <2>2. /\ q[1] = 0 /\ q[2] = k /\ q[3] = k + 1 /\ q[4] = k + 1 + n
        /\ types[1] = "HeartbeatRequest" /\ types[2] = "AssociationSetupRequest"
        /\ types[3] = "SessionEstablishmentRequest" /\ types[4] = "SessionDeletionRequest"
    OBVIOUS
  <2> HIDE DEF s, q, types
  <2>3. 0 \in Nat /\ k \in Nat /\ k + 1 \in Nat /\ k + 1 + n \in Nat
    OBVIOUS
  <2>4. Len(s[1]) = k /\ Uniform(s[1], q[1], types[1])
    BY <2>1, <2>2, <2>3, UniformHeartbeats
  <2>5. Len(s[2]) = 1 /\ Uniform(s[2], q[2], types[2])
    BY <2>1, <2>2, <2>3, UniformAssociation
  <2>6. Len(s[3]) = n /\ Uniform(s[3], q[3], types[3])
    BY <2>1, <2>2, <2>3, UniformSessions
  <2>7. Len(s[4]) = n /\ Uniform(s[4], q[4], types[4])
    BY <2>1, <2>2, <2>3, UniformSessions
  <2>8. \A i \in 1 .. Len(s) : i = 1 \/ i = 2 \/ i = 3 \/ i = 4
    BY <2>1
  <2>9. \A i \in 1 .. Len(s) : Uniform(s[i], q[i], types[i]) /\ q[i] \in Nat
    BY <2>2, <2>3, <2>4, <2>5, <2>6, <2>7, <2>8
  <2>10. \A i, j \in 1 .. Len(s) : i < j => q[i] + Len(s[i]) <= q[j]
    <3>1. /\ q[1] + Len(s[1]) <= q[2] /\ q[2] + Len(s[2]) <= q[3]
          /\ q[3] + Len(s[3]) <= q[4]
      BY <2>2, <2>4, <2>5, <2>6
    <3>2. /\ q[1] + Len(s[1]) <= q[3] /\ q[1] + Len(s[1]) <= q[4]
          /\ q[2] + Len(s[2]) <= q[4]
      BY <2>2, <2>4, <2>5
    <3>3. \A i, j \in 1 .. Len(s) : i < j =>
              \/ i = 1 /\ j \in {2, 3, 4}
              \/ i = 2 /\ j \in {3, 4}
              \/ i = 3 /\ j = 4
      BY <2>8
    <3> QED BY <3>1, <3>2, <3>3
  <2>11. \A i, j \in 1 .. Len(s) : types[j] \in DeletionTypes
              /\ types[i] \in EstablishmentTypes \cup OtherTypes => i < j
    BY <2>2, <2>8 DEF DeletionTypes, EstablishmentTypes, OtherTypes
  <2>12. Len(s) \in Nat
    BY <2>1
  <2>13. WellMade(s)
    BY <2>9, <2>10, <2>11, <2>12, WellMadeBy
  <2> QED BY <2>13 DEF s
<1> QED BY <1>1, <1>2, <1>3, <1>4

=============================================================================
