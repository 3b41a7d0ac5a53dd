------------------------------- MODULE Proxy --------------------------------
(***************************************************************************)
(* The message path of the proxy (src/main.rs): run_proxy receives a       *)
(* datagram and spawns a task that runs handle_message on it.  Tasks run   *)
(* concurrently and share the session table, the pending requests, the     *)
(* pool and the counters; no task holds a lock across two of their         *)
(* operations.  An action below is one such operation, or one send,        *)
(* together with the local computation around it and the counters bumped   *)
(* next to it.                                                             *)
(*                                                                         *)
(* Around the proxy stand the UDP network, the SMFs and the UPFs.          *)
(***************************************************************************)
EXTENDS SessionTable, PendingRequests, UpfPool, Statistics

CONSTANTS
    Tasks,          \* as many handle_message tasks as may run at once
    Copies,         \* how often each request may be sent: 1 + retransmissions
    AnsweredTypes,  \* the request types that the peers answer
    Commands,       \* pool changes that arrive at run time: <<"add", u>>, ...
    Faults          \* what may go wrong, a subset of FaultKinds

FaultKinds == {"loss", "send_error", "expiry"}

ASSUME ProxyAssumption ==
    /\ Copies \in [Requests -> Nat]
    /\ AnsweredTypes \subseteq (SmfRequestTypes \cup UpfRequestTypes)
    /\ Commands \subseteq ({"add", "remove"} \X Upfs)
    /\ Faults \subseteq FaultKinds

VARIABLES
    task,       \* what each task holds, and where in the code it is
    inbox,      \* messages on their way to the proxy
    outbox,     \* datagrams on their way from the proxy
    commands,   \* the pool changes yet to come
    sends,      \* how often each request was sent
    answered,   \* the answers the senders of requests got
    handled,    \* the session requests each UPF received
    expired     \* the sequence numbers whose entry cleanup_stale removed

tableVars == <<sessions, pending>>
netVars   == <<inbox, outbox>>
peerVars  == <<sends, answered, handled>>

vars == <<sessions, pending, backends, strategy, health, nextIndex, stats, task, inbox,
          outbox, commands, sends, answered, handled, expired>>

-----------------------------------------------------------------------------
(***************************************************************************)
(* State                                                                   *)
(***************************************************************************)

PoolSteps == {"select", "turn", "count"}

RouteSteps == {"fan_out", "place", "lookup", "unmap"} \cup PoolSteps

SendSteps == {"register", "forward", "broadcast", "unregister"}

ResponseSteps == {"match", "reply", "tally", "retire"}

Steps == {"idle", "owner"} \cup RouteSteps \cup SendSteps \cup ResponseSteps

\* dest: the address to send to.  hosts: the snapshot of the pool, as far as
\* it is still to be walked.  n: the smallest session count seen, the number
\* of broadcast sends that succeeded, or response_count.
Task ==
    [pc : Steps, msg : Message \cup {None}, dest : Addr \cup {None},
     hosts : Seq(Upfs), n : Nat, is_broadcast : BOOLEAN]

IdleTask ==
    [pc |-> "idle", msg |-> None, dest |-> None,
     hosts |-> << >>, n |-> 0, is_broadcast |-> FALSE]

Datagram == [to : Addr, msg : Message]

Answer == [req : Requests, by : Addr]

Handled == [upf : Upfs, seid : Seids, type : SmfRequestTypes]

TypeOK ==
    /\ SessionTableTypeOK
    /\ PendingTypeOK
    /\ UpfPoolTypeOK
    /\ StatisticsTypeOK
    /\ task \in [Tasks -> Task]
    /\ inbox \subseteq Message
    /\ outbox \subseteq Datagram
    /\ commands \subseteq Commands
    /\ sends \in [Requests -> Nat]
    /\ answered \subseteq Answer
    /\ handled \subseteq Handled
    /\ expired \subseteq Seqs

Init ==
    /\ SessionTableInit
    /\ PendingInit
    /\ UpfPoolInit
    /\ StatisticsInit
    /\ task = [t \in Tasks |-> IdleTask]
    /\ inbox = {}
    /\ outbox = {}
    /\ commands = Commands
    /\ sends = [r \in Requests |-> 0]
    /\ answered = {}
    /\ handled = {}
    /\ expired = {}

Msg(t) == task[t].msg
Seid(t) == Msg(t).req.seid
SeqNo(t) == Msg(t).req.seq

At(t, pc) == task[t].pc = pc

Become(t, new) == task' = [task EXCEPT ![t] = new]

Finish(t) == Become(t, IdleTask)

Goto(t, pc) == task' = [task EXCEPT ![t].pc = pc]

Send(a, m) == outbox' = outbox \cup {[to |-> a, msg |-> m]}

-----------------------------------------------------------------------------
(***************************************************************************)
(* handle_message: classify the message and start on its handler.          *)
(***************************************************************************)

\* An UPF request, or a modification or deletion, without a SEID is dropped;
\* another request without one is load balanced.
FirstStep(m) ==
    LET type  == m.req.type
        keyed == m.req.seid # None
    IN  IF m.kind = "response" THEN "match" ELSE
        CASE type \in UpfRequestTypes     -> IF keyed THEN "owner" ELSE "idle"
          [] type \in BroadcastTypes      -> "fan_out"
          [] type \in EstablishmentTypes  -> "select"
          [] type \in AffinityTypes       -> IF keyed THEN "lookup" ELSE "idle"
          [] type \in OtherTypes          -> IF keyed THEN "lookup" ELSE "select"

Receive(t, m) ==
    /\ At(t, "idle")
    /\ m \in inbox
    /\ inbox' = inbox \ {m}
    /\ Record({"messages_received"})
    /\ IF FirstStep(m) = "idle"
          THEN UNCHANGED task
          ELSE Become(t, [IdleTask EXCEPT !.pc = FirstStep(m), !.msg = m])
    /\ UNCHANGED <<tableVars, poolVars, outbox, commands, peerVars, expired>>

(***************************************************************************)
(* route_message: heartbeats and node messages go to every backend.        *)
(***************************************************************************)
FanOut(t) ==
    /\ At(t, "fan_out")
    /\ Record({"broadcasts"})
    /\ Become(t, [task[t] EXCEPT !.pc = "register", !.hosts = backends,
                                 !.is_broadcast = TRUE])
    /\ UNCHANGED <<tableVars, poolVars, netVars, commands, peerVars, expired>>

(***************************************************************************)
(* select_upf: take a snapshot of the healthy backends (NoBackend when     *)
(* there is none), then either take a turn or count the sessions of one    *)
(* backend after another.                                                  *)
(***************************************************************************)
Select(t) ==
    /\ At(t, "select")
    /\ IF HealthyBackends = << >>
          THEN Finish(t)
          ELSE Become(t, [task[t] EXCEPT
                  !.pc = IF strategy = "least-sessions" THEN "count" ELSE "turn",
                  !.hosts = HealthyBackends])
    /\ UNCHANGED <<tableVars, poolVars, stats, netVars, commands, peerVars, expired>>

Turn(t) ==
    /\ At(t, "turn")
    /\ TakeTurn
    /\ Become(t, [task[t] EXCEPT !.pc = "place", !.hosts = << >>,
                                 !.dest = BackendAtTurn(task[t].hosts)])
    /\ UNCHANGED <<tableVars, backends, strategy, health, stats, netVars, commands,
                   peerVars, expired>>

CountBackend(t) ==
    LET u    == Head(task[t].hosts)
        rest == Tail(task[t].hosts)
        less == task[t].dest = None \/ CountByUpf(u) < task[t].n
    IN  /\ At(t, "count")
        /\ Become(t, [task[t] EXCEPT
              !.pc = IF rest = << >> THEN "place" ELSE "count",
              !.hosts = rest,
              !.dest = IF less THEN u ELSE @,
              !.n = IF less THEN CountByUpf(u) ELSE @])
        /\ UNCHANGED <<tableVars, poolVars, stats, netVars, commands, peerVars,
                       expired>>

\* A backend was selected: record the decision and the session's mapping.
Place(t) ==
    LET m == Msg(t)
    IN  /\ At(t, "place")
        /\ Record({"routed_by_load_balance"} \cup
                  (IF m.req.type \in EstablishmentTypes
                      THEN {"sessions_established"} ELSE {}))
        /\ IF Seid(t) # None
              THEN SessionInsert(Seid(t), task[t].dest, m.by)
              ELSE UNCHANGED sessions
        /\ Goto(t, "register")
        /\ UNCHANGED <<pending, poolVars, netVars, commands, peerVars, expired>>

(***************************************************************************)
(* route_message: session messages follow the mapping of their SEID.  A    *)
(* modification or a deletion without one is SessionNotFound and dropped;  *)
(* another message is load balanced.                                       *)
(***************************************************************************)
\* Mutant: a deletion is forwarded and its session's mapping stays.
LookupFound_KeepsMapping(t) ==
    LET deletion == Msg(t).req.type \in DeletionTypes
    IN  /\ At(t, "lookup")
        /\ HasSession(Seid(t))
        /\ Record({"routed_by_seid"} \cup
                  (IF deletion THEN {"sessions_deleted"} ELSE {}))
        /\ Become(t, [task[t] EXCEPT
              !.pc = "register",
              !.dest = sessions[Seid(t)].upf])
        /\ UNCHANGED <<tableVars, poolVars, netVars, commands, peerVars, expired>>

LookupFound(t) ==
    LET deletion == Msg(t).req.type \in DeletionTypes
    IN  /\ At(t, "lookup")
        /\ HasSession(Seid(t))
        /\ Record({"routed_by_seid"} \cup
                  (IF deletion THEN {"sessions_deleted"} ELSE {}))
        /\ Become(t, [task[t] EXCEPT
              !.pc = IF deletion THEN "unmap" ELSE "register",
              !.dest = sessions[Seid(t)].upf])
        /\ UNCHANGED <<tableVars, poolVars, netVars, commands, peerVars, expired>>

\* Mutant: a request of an unknown session is load balanced whatever its type.
LookupMissed_Balance(t) ==
    /\ At(t, "lookup")
    /\ ~ HasSession(Seid(t))
    /\ Goto(t, "select")
    /\ UNCHANGED <<tableVars, poolVars, stats, netVars, commands, peerVars, expired>>

\* Mutant: a session whose UPF left the pool is load balanced again.
LookupMissed_PoolOnly(t) ==
    /\ At(t, "lookup")
    /\ HasSession(Seid(t)) => ~ IsBackend(sessions[Seid(t)].upf)
    /\ Goto(t, "select")
    /\ UNCHANGED <<tableVars, poolVars, stats, netVars, commands, peerVars, expired>>

LookupMissed(t) ==
    /\ At(t, "lookup")
    /\ ~ HasSession(Seid(t))
    /\ IF Msg(t).req.type \in AffinityTypes
          THEN Finish(t)
          ELSE Goto(t, "select")
    /\ UNCHANGED <<tableVars, poolVars, stats, netVars, commands, peerVars, expired>>

\* Mutant: the handler returns once the mapping is gone.
Unmap_Return(t) ==
    /\ At(t, "unmap")
    /\ SessionRemove(Seid(t))
    /\ Finish(t)
    /\ UNCHANGED <<pending, poolVars, stats, netVars, commands, peerVars, expired>>

Unmap(t) ==
    /\ At(t, "unmap")
    /\ SessionRemove(Seid(t))
    /\ Goto(t, "register")
    /\ UNCHANGED <<pending, poolVars, stats, netVars, commands, peerVars, expired>>

(***************************************************************************)
(* handle_upf_request: a report goes to the SMF that made the session, if  *)
(* it comes from the UPF that has it.                                      *)
(***************************************************************************)
\* Mutant: the report goes to the wrong one of the entry's addresses.
OwnerOf_Upf(t) ==
    LET s == Seid(t)
    IN  /\ At(t, "owner")
        /\ IF HasSession(s) /\ sessions[s].upf = Msg(t).by
              THEN Become(t, [task[t] EXCEPT !.pc = "register",
                                             !.dest = sessions[s].upf])
              ELSE Finish(t)
        /\ UNCHANGED <<tableVars, poolVars, stats, netVars, commands, peerVars,
                       expired>>

OwnerOf(t) ==
    LET s == Seid(t)
    IN  /\ At(t, "owner")
        /\ IF HasSession(s) /\ sessions[s].upf = Msg(t).by
              THEN Become(t, [task[t] EXCEPT !.pc = "register",
                                             !.dest = sessions[s].smf])
              ELSE Finish(t)
        /\ UNCHANGED <<tableVars, poolVars, stats, netVars, commands, peerVars,
                       expired>>

(***************************************************************************)
(* handle_smf_request and the rest of handle_upf_request: make the pending *)
(* entry, then send; when nothing was sent the entry goes again.           *)
(***************************************************************************)
\* Mutant: the destination is registered as the origin.
Register_Dest(t) ==
    /\ At(t, "register")
    /\ PendingInsert(SeqNo(t), task[t].dest, task[t].is_broadcast)
    /\ Become(t, [task[t] EXCEPT
          !.pc = IF task[t].is_broadcast THEN "broadcast" ELSE "forward",
          !.n = 0])
    /\ UNCHANGED <<sessions, poolVars, stats, netVars, commands, peerVars, expired>>

Register(t) ==
    /\ At(t, "register")
    /\ PendingInsert(SeqNo(t), Msg(t).by, task[t].is_broadcast)
    /\ Become(t, [task[t] EXCEPT
          !.pc = IF task[t].is_broadcast THEN "broadcast" ELSE "forward",
          !.n = 0])
    /\ UNCHANGED <<sessions, poolVars, stats, netVars, commands, peerVars, expired>>

Forward(t) ==
    /\ At(t, "forward")
    /\ Send(task[t].dest, Msg(t))
    /\ IF IsSmfRequest(Msg(t)) THEN Record({"messages_sent"}) ELSE UNCHANGED stats
    /\ Finish(t)
    /\ UNCHANGED <<tableVars, poolVars, inbox, commands, peerVars, expired>>

ForwardFails(t) ==
    /\ "send_error" \in Faults
    /\ At(t, "forward")
    /\ Goto(t, "unregister")
    /\ UNCHANGED <<tableVars, poolVars, stats, netVars, commands, peerVars, expired>>

BroadcastOne(t) ==
    /\ At(t, "broadcast")
    /\ task[t].hosts # << >>
    /\ Send(Head(task[t].hosts), Msg(t))
    /\ Record({"messages_sent"})
    /\ Become(t, [task[t] EXCEPT !.hosts = Tail(@), !.n = @ + 1])
    /\ UNCHANGED <<tableVars, poolVars, inbox, commands, peerVars, expired>>

BroadcastOneFails(t) ==
    /\ "send_error" \in Faults
    /\ At(t, "broadcast")
    /\ task[t].hosts # << >>
    /\ Become(t, [task[t] EXCEPT !.hosts = Tail(@)])
    /\ UNCHANGED <<tableVars, poolVars, stats, netVars, commands, peerVars, expired>>

\* Mutant: the entry is removed also when something was sent.
EndBroadcast_Unregister(t) ==
    /\ At(t, "broadcast")
    /\ task[t].hosts = << >>
    /\ Goto(t, "unregister")
    /\ UNCHANGED <<tableVars, poolVars, stats, netVars, commands, peerVars, expired>>

EndBroadcast(t) ==
    /\ At(t, "broadcast")
    /\ task[t].hosts = << >>
    /\ IF task[t].n = 0 THEN Goto(t, "unregister") ELSE Finish(t)
    /\ UNCHANGED <<tableVars, poolVars, stats, netVars, commands, peerVars, expired>>

Unregister(t) ==
    /\ At(t, "unregister")
    /\ PendingRemove(SeqNo(t))
    /\ Finish(t)
    /\ UNCHANGED <<sessions, poolVars, stats, netVars, commands, peerVars, expired>>

(***************************************************************************)
(* handle_response: find the request by its sequence number and send the   *)
(* response to where it came from.  The entry goes once it is answered, a  *)
(* broadcast's once there were as many responses as there are backends.    *)
(***************************************************************************)
MatchFound(t) ==
    LET info == pending[SeqNo(t)]
    IN  /\ At(t, "match")
        /\ IsPending(SeqNo(t))
        /\ PendingIncrement(SeqNo(t))
        /\ Become(t, [task[t] EXCEPT
              !.pc = "reply", !.dest = info.origin, !.n = info.responses + 1,
              !.is_broadcast = info.is_broadcast])
        /\ UNCHANGED <<sessions, poolVars, stats, netVars, commands, peerVars,
                       expired>>

MatchMissed(t) ==
    /\ At(t, "match")
    /\ ~ IsPending(SeqNo(t))
    /\ Record({"responses_dropped"})
    /\ Finish(t)
    /\ UNCHANGED <<tableVars, poolVars, netVars, commands, peerVars, expired>>

Reply(t) ==
    /\ At(t, "reply")
    /\ Send(task[t].dest, Msg(t))
    /\ Goto(t, IF task[t].is_broadcast THEN "tally" ELSE "retire")
    /\ Record({"responses_forwarded"})
    /\ UNCHANGED <<tableVars, poolVars, inbox, commands, peerVars, expired>>

ReplyFails(t) ==
    /\ "send_error" \in Faults
    /\ At(t, "reply")
    /\ Finish(t)
    /\ UNCHANGED <<tableVars, poolVars, stats, netVars, commands, peerVars, expired>>

\* Mutant: off by one, the entry goes before the last response.
Tally_Early(t) ==
    /\ At(t, "tally")
    /\ IF task[t].n + 1 >= Len(backends) THEN Goto(t, "retire") ELSE Finish(t)
    /\ UNCHANGED <<tableVars, poolVars, stats, netVars, commands, peerVars, expired>>

\* Mutant: off by one, the last response does not free the entry.
Tally_Late(t) ==
    /\ At(t, "tally")
    /\ IF task[t].n > Len(backends) THEN Goto(t, "retire") ELSE Finish(t)
    /\ UNCHANGED <<tableVars, poolVars, stats, netVars, commands, peerVars, expired>>

Tally(t) ==
    /\ At(t, "tally")
    /\ IF task[t].n >= Len(backends) THEN Goto(t, "retire") ELSE Finish(t)
    /\ UNCHANGED <<tableVars, poolVars, stats, netVars, commands, peerVars, expired>>

Retire(t) ==
    /\ At(t, "retire")
    /\ PendingRemove(SeqNo(t))
    /\ Finish(t)
    /\ UNCHANGED <<sessions, poolVars, stats, netVars, commands, peerVars, expired>>

HandleMessage(t) ==
    \/ FanOut(t) \/ Select(t) \/ Turn(t) \/ CountBackend(t) \/ Place(t)
    \/ LookupFound(t) \/ LookupMissed(t) \/ Unmap(t) \/ OwnerOf(t)
    \/ Register(t) \/ Forward(t) \/ ForwardFails(t) \/ Unregister(t)
    \/ BroadcastOne(t) \/ BroadcastOneFails(t) \/ EndBroadcast(t)
    \/ MatchFound(t) \/ MatchMissed(t) \/ Reply(t) \/ ReplyFails(t)
    \/ Tally(t) \/ Retire(t)

-----------------------------------------------------------------------------
(***************************************************************************)
(* The proxy's other tasks: cleanup of pending requests, and run-time      *)
(* changes of the pool.  A command the pool refuses has no effect.         *)
(***************************************************************************)
GrowOld(q) ==
    /\ "expiry" \in Faults
    /\ PendingGrowOld(q)
    /\ UNCHANGED <<sessions, poolVars, stats, task, netVars, commands, peerVars,
                   expired>>

CleanupStale(q) ==
    /\ PendingCleanup(q)
    /\ expired' = expired \cup {q}
    /\ UNCHANGED <<sessions, poolVars, stats, task, netVars, commands, peerVars>>

ApplyCommand(c) ==
    /\ c \in commands
    /\ commands' = commands \ {c}
    /\ \/ c[1] = "add" /\ AddBackend(c[2])
       \/ c[1] = "add" /\ ~ MayAdd(c[2]) /\ UNCHANGED poolVars
       \/ c[1] = "remove" /\ RemoveBackend(c[2])
       \/ c[1] = "remove" /\ ~ IsBackend(c[2]) /\ UNCHANGED poolVars
    /\ UNCHANGED <<tableVars, stats, task, netVars, peerVars, expired>>

-----------------------------------------------------------------------------
(***************************************************************************)
(* The peers and the network.  A peer sends a request, and sends it again  *)
(* while it has no answer; it keeps to the order of the PFCP session       *)
(* procedures: an SMF refers to a session after the establishment was      *)
(* answered, a UPF reports on a session it has.  A peer answers every      *)
(* request it gets of a type in AnsweredTypes.                             *)
(***************************************************************************)
IsAnswered(r) == \E a \in answered : a.req = r

HasHandled(u, s, types) ==
    \E h \in handled : h.upf = u /\ h.seid = s /\ h.type \in types

MaySend(r) ==
    /\ r.type \in AffinityTypes =>
          \E a \in answered : /\ a.req.type \in EstablishmentTypes
                              /\ a.req.seid = r.seid
    /\ r.type \in UpfRequestTypes =>
          /\ HasHandled(r.src, r.seid, EstablishmentTypes)
          /\ ~ HasHandled(r.src, r.seid, DeletionTypes)

SendRequest(r) ==
    /\ sends[r] < Copies[r]
    /\ ~ IsAnswered(r)
    /\ MaySend(r)
    /\ RequestMsg(r) \notin inbox
    /\ sends' = [sends EXCEPT ![r] = @ + 1]
    /\ inbox' = inbox \cup {RequestMsg(r)}
    /\ UNCHANGED <<tableVars, poolVars, stats, task, outbox, commands, answered,
                   handled, expired>>

PeerHandles(d) ==
    LET r == d.msg.req
    IN  /\ d \in outbox
        /\ d.msg.kind = "request"
        /\ outbox' = outbox \ {d}
        /\ inbox' = inbox \cup
              {m \in {ResponseMsg(r, d.to)} : r.type \in AnsweredTypes}
        /\ handled' = handled \cup
              {h \in {[upf |-> d.to, seid |-> r.seid, type |-> r.type]} :
                  IsSmfRequest(d.msg) /\ r.seid # None}
        /\ UNCHANGED <<tableVars, poolVars, stats, task, commands, sends,
                       answered, expired>>

PeerGetsResponse(d) ==
    /\ d \in outbox
    /\ d.msg.kind = "response"
    /\ outbox' = outbox \ {d}
    /\ answered' = answered \cup
          {a \in {[req |-> d.msg.req, by |-> d.msg.by]} : d.to = d.msg.req.src}
    /\ UNCHANGED <<tableVars, poolVars, stats, task, inbox, commands, sends,
                   handled, expired>>

Lose ==
    /\ "loss" \in Faults
    /\ \/ \E m \in inbox : inbox' = inbox \ {m} /\ UNCHANGED outbox
       \/ \E d \in outbox : outbox' = outbox \ {d} /\ UNCHANGED inbox
    /\ UNCHANGED <<tableVars, poolVars, stats, task, commands, peerVars, expired>>

-----------------------------------------------------------------------------
Quiet ==
    /\ \A t \in Tasks : At(t, "idle")
    /\ inbox = {}
    /\ outbox = {}

\* With nobody sending anything the proxy waits.
Wait == Quiet /\ UNCHANGED vars

ReceiveSome == \E t \in Tasks, m \in inbox : Receive(t, m)

PeerStep == \E d \in outbox : PeerHandles(d) \/ PeerGetsResponse(d)

Next ==
    \/ ReceiveSome
    \/ \E t \in Tasks : HandleMessage(t)
    \/ \E q \in Seqs : GrowOld(q) \/ CleanupStale(q)
    \/ \E c \in commands : ApplyCommand(c)
    \/ \E r \in Requests : SendRequest(r)
    \/ PeerStep
    \/ Lose
    \/ Wait

Spec == Init /\ [][Next]_vars

(***************************************************************************)
(* The runtime schedules every spawned task and every ticker again and     *)
(* again, and time passes; the network and the peers are not dead.  No     *)
(* peer has to send anything.                                              *)
(***************************************************************************)
Fairness ==
    /\ WF_vars(ReceiveSome)
    /\ \A t \in Tasks : WF_vars(HandleMessage(t))
    /\ \A q \in Seqs : WF_vars(GrowOld(q)) /\ WF_vars(CleanupStale(q))
    /\ WF_vars(PeerStep)

FairSpec == Spec /\ Fairness

=============================================================================
