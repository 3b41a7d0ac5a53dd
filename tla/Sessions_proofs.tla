-------------------------- MODULE Sessions_proofs ---------------------------
(***************************************************************************)
(* Theorems about the sessions in Proxy: each stays at one UPF, its        *)
(* mapping is there as long as it should be, reports on it find its SMF,   *)
(* and the counters agree with the table.  They hold under conditions on   *)
(* the requests that the peers send, which are named here; the doc_ runs   *)
(* show what happens without some of them.                                 *)
(***************************************************************************)
EXTENDS Proxy_proofs

-----------------------------------------------------------------------------
(***************************************************************************)
(* Conditions on the requests                                              *)
(***************************************************************************)

\* The requests that give a SEID a UPF: an establishment, and a request that
\* route_message balances when the SEID has none.
Openers ==
    {r \in Requests : r.seid # None /\ r.type \in EstablishmentTypes \cup OtherTypes}

\* No two SMFs choose the same SEID.
OneSmfPerSession ==
    \A r1, r2 \in Openers : r1.seid = r2.seid => r1.src = r2.src

\* A SEID is opened by one request, and that is sent once.
OneOpenerPerSession ==
    /\ \A r1, r2 \in Openers : r1.seid = r2.seid => r1 = r2
    /\ \A r \in Openers : Copies[r] <= 1

\* The header of a node message has no SEID, as PFCP has it.
NodeMessagesHaveNoSeid ==
    \A r \in Requests : r.type \in BroadcastTypes => r.seid = None

-----------------------------------------------------------------------------
(***************************************************************************)
(* Messages: what must have happened before one is under way.              *)
(***************************************************************************)

\* Some UPF received a request that opens the session.
OpenedBefore(s) == \E h \in handled : h.seid = s /\ h.type \notin AffinityTypes

\* m is about session s, or a is an answer about it.
About(m, s) == m.req.seid = s /\ m.req.type \in SmfRequestTypes

\* A request was sent by its peer.  What comes after the opening of a session
\* has that behind it, and a report the establishment at the UPF.
Caused(m) ==
    /\ m.kind = "request" => Requested(m.req)
    /\ \A s \in Seids : 
          About(m, s) /\ (m.kind = "response" \/ m.req.type \in AffinityTypes)
              => OpenedBefore(s)
    /\ IsUpfRequest(m) => HasHandled(m.by, m.req.seid, EstablishmentTypes)

MessageInv ==
    /\ \A m \in inbox : Caused(m)
    /\ \A t \in Tasks : ~ At(t, "idle") => Caused(Msg(t))
    /\ \A d \in outbox : Caused(d.msg)
    /\ \A a \in answered, s \in Seids : About(a, s) => OpenedBefore(s)
    /\ \A h \in handled : \E r \in Requests : r.seid = h.seid /\ r.type = h.type

\* Which types of requests are at which step of route_message.
ArmTask(k) ==
    /\ k.pc = "fan_out" => k.msg.req.type \in BroadcastTypes
    /\ k.pc = "lookup" => k.msg.req.type \in AffinityTypes \cup OtherTypes
    /\ k.pc = "unmap" => k.msg.req.type \in DeletionTypes
    /\ k.pc \in {"place"} \cup PoolSteps =>
          k.msg.req.type \in EstablishmentTypes \cup OtherTypes

ArmInv == \A t \in Tasks : ArmTask(task[t])

Carries(t, r) == ~ At(t, "idle") /\ Msg(t) = RequestMsg(r)

\* A request that is sent once is at one place at a time, until the proxy has
\* passed it on.
OnceInv ==
    \A r \in Requests : Copies[r] <= 1 =>
        \A t \in Tasks : Carries(t, r) =>
            /\ RequestMsg(r) \notin inbox
            /\ \A x \in Tasks : Carries(x, r) => x = t

-----------------------------------------------------------------------------
(***************************************************************************)
(* Reports: whoever opened the session is the owner in its entry, and the  *)
(* destination of a report on it.                                          *)
(***************************************************************************)
OwnedBy(s, a) == \A r \in Openers : r.seid = s => r.src = a

ReportTask(k) ==
    k.pc # "idle" /\ IsUpfRequest(k.msg) =>
        /\ k.pc \in {"owner", "register", "forward", "unregister"}
        /\ ~ k.is_broadcast
        /\ k.pc \in {"register", "forward"} => OwnedBy(k.msg.req.seid, k.dest)

ReportInv ==
    /\ \A s \in Seids : HasSession(s) => OwnedBy(s, sessions[s].smf)
    /\ \A t \in Tasks : ReportTask(task[t])
    /\ \A d \in outbox : IsUpfRequest(d.msg) => OwnedBy(d.msg.req.seid, d.to)

-----------------------------------------------------------------------------
(***************************************************************************)
(* A session is either not yet placed, or has a home: a UPF that all that  *)
(* is about the session leads to.                                          *)
(***************************************************************************)
UnplacedTask(k, s) ==
    k.pc # "idle" /\ About(k.msg, s) =>
        /\ k.msg.kind = "request"
        /\ k.msg.req \in Openers
        /\ k.pc \in {"lookup", "place"} \cup PoolSteps
        /\ ~ k.is_broadcast

Unplaced(s) ==
    /\ ~ HasSession(s)
    /\ \A h \in handled : h.seid # s
    /\ \A a \in answered : ~ About(a, s)
    /\ \A d \in outbox : ~ About(d.msg, s)
    /\ \A m \in inbox : About(m, s) => m.kind = "request" /\ m.req \in Openers
    /\ \A t \in Tasks : UnplacedTask(task[t], s)

HomedTask(k, s, u) ==
    k.pc # "idle" /\ About(k.msg, s) =>
        \/ k.msg.kind = "response" /\ k.msg.by = u
        \/ /\ k.msg.kind = "request"
           /\ k.pc \in {"lookup", "unmap", "register", "forward", "unregister"}
           /\ ~ k.is_broadcast
           /\ k.pc = "lookup" => k.msg.req \notin Openers
           /\ k.pc = "unmap" => k.msg.req.type \in DeletionTypes
           /\ k.pc \in {"unmap", "register", "forward"} => k.dest = u

Mapping(s, u) ==
    /\ HasSession(s) => \E r \in Openers : /\ r.seid = s
                                           /\ sessions[s] = [upf |-> u, smf |-> r.src]
    /\ ~ HasSession(s) => \E r \in Deletions : r.seid = s /\ Requested(r)

Homed(s, u) ==
    /\ Mapping(s, u)
    /\ \A r \in Openers : r.seid = s => Requested(r)
    /\ \A h \in handled : h.seid = s => h.upf = u
    /\ \A a \in answered : About(a, s) => a.by = u
    /\ \A d \in outbox : About(d.msg, s) =>
          IF d.msg.kind = "request" THEN d.to = u ELSE d.msg.by = u
    /\ \A m \in inbox : About(m, s) =>
          IF m.kind = "request" THEN m.req \notin Openers ELSE m.by = u
    /\ \A t \in Tasks : HomedTask(task[t], s, u)

PlacementInv == \A s \in Seids : Unplaced(s) \/ \E u \in Upfs : Homed(s, u)

-----------------------------------------------------------------------------
(***************************************************************************)
(* Deletions: a session that is placed and has no mapping has its deletion *)
(* on the way to its UPF, or there.                                        *)
(***************************************************************************)
IsDeletion(m, s) ==
    m.kind = "request" /\ m.req.seid = s /\ m.req.type \in DeletionTypes

DeletionPassedOn(s) ==
    \/ \E t \in Tasks : (At(t, "register") \/ At(t, "forward"))
                        /\ IsDeletion(Msg(t), s)
    \/ \E d \in outbox : IsDeletion(d.msg, s)
    \/ \E h \in handled : h.seid = s /\ h.type \in DeletionTypes

DeletionInv ==
    \A s \in Seids : Unplaced(s) \/ HasSession(s) \/ DeletionPassedOn(s)

-----------------------------------------------------------------------------
(***************************************************************************)
(* Counters                                                                *)
(***************************************************************************)

\* Sessions are opened by establishments only, and every establishment has a
\* SEID.
OnlyEstablishmentsOpen == Openers = Establishments

\* A session is deleted by one request, and that is sent once.
OneDeletionPerSession ==
    /\ \A r1, r2 \in Deletions : r1.seid = r2.seid => r1 = r2
    /\ \A r \in Deletions : Copies[r] <= 1

Unmapping == {t \in Tasks : At(t, "unmap")}

UnmapInv ==
    /\ IsFiniteSet(Unmapping)
    /\ \A t \in Unmapping : HasSession(Seid(t)) /\ Msg(t).req \in Deletions

-----------------------------------------------------------------------------
(***************************************************************************)
(* What a step of a handler does to its task, and to what all share.       *)
(***************************************************************************)
Advances(k, new) ==
    \/ k.pc = "select" /\ new.pc \in {"turn", "count"}
    \/ k.pc \in {"turn", "count"} /\ new.pc \in {"count", "place"}
    \/ k.pc = "place" /\ new.pc = "register" /\ new.dest = k.dest
    \/ /\ k.pc = "lookup"
       /\ HasSession(k.msg.req.seid)
       /\ new.pc = IF k.msg.req.type \in DeletionTypes THEN "unmap" ELSE "register"
       /\ new.dest = sessions[k.msg.req.seid].upf
    \/ /\ k.pc = "lookup"
       /\ ~ HasSession(k.msg.req.seid)
       /\ k.msg.req.type \notin AffinityTypes
       /\ new.pc = "select"
    \/ k.pc = "unmap" /\ new.pc = "register" /\ new.dest = k.dest
    \/ /\ k.pc = "owner"
       /\ HasSession(k.msg.req.seid)
       /\ new.pc = "register"
       /\ new.dest = sessions[k.msg.req.seid].smf
    \/ /\ k.pc = "register"
       /\ new.pc = IF k.is_broadcast THEN "broadcast" ELSE "forward"
       /\ new.dest = k.dest
    \/ k.pc = "forward" /\ new.pc = "unregister"
    \/ k.pc = "broadcast" /\ new.pc \in {"broadcast", "unregister"}

Moves(k, new) ==
    \/ new.pc = "idle" /\ k.pc \notin {"unmap", "register"}
    \/ /\ new.msg = k.msg
       /\ \/ k.pc = "fan_out" /\ new.pc = "register"
          \/ k.pc \in {"match", "reply", "tally"} /\ new.pc \in ResponseSteps
          \/ Advances(k, new) /\ new.is_broadcast = k.is_broadcast

LEMMA HandlerMoves ==
    ASSUME TypeInv, NEW t \in Tasks, HandleMessage(t)
    PROVE  /\ task[t].pc # "idle"
           /\ \A x \in Tasks : x # t => task'[x] = task[x]
           /\ Moves(task[t], task'[t])
<1> DEFINE k == task[t]
<1>0. task \in [Tasks -> Task] /\ k \in Task
  BY DEF TypeInv, TypeOK
<1>1. k.pc # "idle"
  BY DEF HandleMessage, At, FanOut, Select, Turn, CountBackend, Place, LookupFound,
         LookupMissed, Unmap, OwnerOf, Register, Forward, ForwardFails, Unregister,
         BroadcastOne, BroadcastOneFails, EndBroadcast, MatchFound, MatchMissed,
         Reply, ReplyFails, Tally, Retire
<1>2. Msg(t) = k.msg /\ Seid(t) = k.msg.req.seid
  BY DEF Msg, Seid
<1>b. ASSUME NEW new, Become(t, new)
      PROVE  task'[t] = new /\ \A x \in Tasks : x # t => task'[x] = task[x]
  BY <1>0, <1>b DEF Become
<1>i. ASSUME Finish(t), k.pc \notin {"unmap", "register"}
      PROVE  Moves(k, task'[t]) /\ \A x \in Tasks : x # t => task'[x] = task[x]
  BY <1>b, <1>i DEF Finish, IdleTask, Moves
<1>g. ASSUME NEW pc, Goto(t, pc)
      PROVE  /\ task'[t].pc = pc /\ task'[t].msg = k.msg
             /\ task'[t].dest = k.dest /\ task'[t].is_broadcast = k.is_broadcast
             /\ \A x \in Tasks : x # t => task'[x] = task[x]
  <2>1. Become(t, [k EXCEPT !.pc = pc])
    BY <1>0, <1>g, GotoIsBecome
  <2>2. task'[t] = [k EXCEPT !.pc = pc]
    BY <1>b, <2>1
  <2> QED BY <1>0, <1>b, <2>1, <2>2 DEF Task
<1> DEFINE Goal == /\ \A x \in Tasks : x # t => task'[x] = task[x]
                   /\ Moves(k, task'[t])
<1>3. ASSUME FanOut(t) PROVE Goal
  <2> DEFINE new == [k EXCEPT !.pc = "register", !.hosts = backends,
                              !.is_broadcast = TRUE]
  <2>1. Become(t, new) /\ k.pc = "fan_out"
    BY <1>3 DEF FanOut, At
  <2>2. new.pc = "register" /\ new.msg = k.msg
    BY <1>0 DEF Task
  <2> HIDE DEF new
  <2> QED BY <1>b, <2>1, <2>2 DEF Moves
<1>4. ASSUME Select(t) PROVE Goal
  <2> DEFINE new == [k EXCEPT
                !.pc = IF strategy = "least-sessions" THEN "count" ELSE "turn",
                !.hosts = HealthyBackends]
  <2>1. k.pc = "select" /\ (Finish(t) \/ Become(t, new))
    BY <1>4 DEF Select, At
  <2>2. /\ new.pc \in {"turn", "count"} /\ new.msg = k.msg
        /\ new.is_broadcast = k.is_broadcast
    BY <1>0 DEF Task
  <2> HIDE DEF new
  <2> QED BY <1>b, <1>i, <2>1, <2>2 DEF Moves, Advances
<1>5. ASSUME Turn(t) PROVE Goal
  <2> DEFINE new == [k EXCEPT !.pc = "place", !.hosts = << >>,
                              !.dest = BackendAtTurn(k.hosts)]
  <2>1. k.pc = "turn" /\ Become(t, new)
    BY <1>5 DEF Turn, At
  <2>2. new.pc = "place" /\ new.msg = k.msg /\ new.is_broadcast = k.is_broadcast
    BY <1>0 DEF Task
  <2> HIDE DEF new
  <2> QED BY <1>b, <2>1, <2>2 DEF Moves, Advances
<1>6. ASSUME CountBackend(t) PROVE Goal
  <2> DEFINE u    == Head(k.hosts)
             less == k.dest = None \/ CountByUpf(u) < k.n
             new  == [k EXCEPT
                !.pc = IF Tail(k.hosts) = << >> THEN "place" ELSE "count",
                !.hosts = Tail(k.hosts),
                !.dest = IF less THEN u ELSE @,
                !.n = IF less THEN CountByUpf(u) ELSE @]
  <2>1. k.pc = "count" /\ Become(t, new)
    BY <1>6 DEF CountBackend, At
  <2>2. /\ new.pc \in {"count", "place"} /\ new.msg = k.msg
        /\ new.is_broadcast = k.is_broadcast
    BY <1>0 DEF Task
  <2> HIDE DEF new
  <2> QED BY <1>b, <2>1, <2>2 DEF Moves, Advances
<1>7. ASSUME LookupFound(t) PROVE Goal
  <2> DEFINE pc  == IF k.msg.req.type \in DeletionTypes THEN "unmap" ELSE "register"
             u   == sessions[k.msg.req.seid].upf
             new == [k EXCEPT !.pc = pc, !.dest = u]
  <2>1. k.pc = "lookup" /\ HasSession(k.msg.req.seid) /\ Become(t, new)
    BY <1>2, <1>7 DEF LookupFound, At
  <2>2. /\ new.pc = pc /\ new.dest = u /\ new.msg = k.msg
        /\ new.is_broadcast = k.is_broadcast
    BY <1>0 DEF Task
  <2> HIDE DEF new
  <2> QED BY <1>b, <2>1, <2>2 DEF Moves, Advances
<1>8. ASSUME OwnerOf(t) PROVE Goal
  <2> DEFINE a   == sessions[k.msg.req.seid].smf
             new == [k EXCEPT !.pc = "register", !.dest = a]
  <2>1. /\ k.pc = "owner"
        /\ Finish(t) \/ (HasSession(k.msg.req.seid) /\ Become(t, new))
    BY <1>2, <1>8 DEF OwnerOf, At
  <2>2. /\ new.pc = "register" /\ new.dest = a /\ new.msg = k.msg
        /\ new.is_broadcast = k.is_broadcast
    BY <1>0 DEF Task
  <2> HIDE DEF new
  <2> QED BY <1>b, <1>i, <2>1, <2>2 DEF Moves, Advances
<1>9. ASSUME Register(t) PROVE Goal
  <2> DEFINE pc  == IF k.is_broadcast THEN "broadcast" ELSE "forward"
             new == [k EXCEPT !.pc = pc, !.n = 0]
  <2>1. k.pc = "register" /\ Become(t, new)
    BY <1>9 DEF Register, At
  <2>2. /\ new.pc = pc /\ new.dest = k.dest /\ new.msg = k.msg
        /\ new.is_broadcast = k.is_broadcast
    BY <1>0 DEF Task
  <2> HIDE DEF new
  <2> QED BY <1>b, <2>1, <2>2 DEF Moves, Advances
<1>10. ASSUME BroadcastOne(t) \/ BroadcastOneFails(t) PROVE Goal
  <2>1. PICK new \in {[k EXCEPT !.hosts = Tail(@), !.n = @ + 1],
                      [k EXCEPT !.hosts = Tail(@)]} : Become(t, new)
    BY <1>10 DEF BroadcastOne, BroadcastOneFails
  <2>2. k.pc = "broadcast"
    BY <1>10 DEF BroadcastOne, BroadcastOneFails, At
  <2>3. /\ new.pc = k.pc /\ new.msg = k.msg
        /\ new.is_broadcast = k.is_broadcast
    BY <1>0 DEF Task
  <2> QED BY <1>b, <2>1, <2>2, <2>3 DEF Moves, Advances
<1>11. ASSUME MatchFound(t) PROVE Goal
  <2> DEFINE info == pending[SeqNo(t)]
             new  == [k EXCEPT
                !.pc = "reply", !.dest = info.origin, !.n = info.responses + 1,
                !.is_broadcast = info.is_broadcast]
  <2>1. k.pc = "match" /\ Become(t, new)
    BY <1>11 DEF MatchFound, At
  <2>2. new.pc = "reply" /\ new.msg = k.msg
    BY <1>0 DEF Task
  <2> HIDE DEF new
  <2> QED BY <1>b, <2>1, <2>2 DEF Moves, ResponseSteps
<1>12. ASSUME Place(t) \/ Unmap(t) PROVE Goal
  <2>1. k.pc \in {"place", "unmap"} /\ Goto(t, "register")
    BY <1>12 DEF Place, Unmap, At
  <2> QED BY <1>g, <2>1 DEF Moves, Advances
<1>13. ASSUME LookupMissed(t) PROVE Goal
  <2>1. /\ k.pc = "lookup" /\ ~ HasSession(k.msg.req.seid)
        /\ \/ Finish(t)
           \/ k.msg.req.type \notin AffinityTypes /\ Goto(t, "select")
    BY <1>2, <1>13 DEF LookupMissed, At
  <2> QED BY <1>g, <1>i, <2>1 DEF Moves, Advances
<1>14. ASSUME ForwardFails(t) \/ EndBroadcast(t) PROVE Goal
  <2>1. k.pc \in {"forward", "broadcast"} /\ (Finish(t) \/ Goto(t, "unregister"))
    BY <1>14 DEF ForwardFails, EndBroadcast, At
  <2> QED BY <1>g, <1>i, <2>1 DEF Moves, Advances
<1>15. ASSUME Reply(t) \/ Tally(t) PROVE Goal
  <2>1. /\ k.pc \in {"reply", "tally"}
        /\ Finish(t) \/ \E pc \in {"tally", "retire"} : Goto(t, pc)
    BY <1>15 DEF Reply, Tally, At
  <2> QED BY <1>g, <1>i, <2>1 DEF Moves, ResponseSteps
<1>16. ASSUME \/ Forward(t) \/ Unregister(t) \/ MatchMissed(t) \/ ReplyFails(t)
              \/ Retire(t)
       PROVE  Goal
  <2>1. k.pc \notin {"unmap", "register"}
    BY <1>16 DEF Forward, Unregister, MatchMissed, ReplyFails, Retire, At
  <2> QED BY <1>16, <1>i, <2>1 DEF Forward, Unregister, MatchMissed, ReplyFails, Retire
<1> QED
  BY <1>1, <1>3, <1>4, <1>5, <1>6, <1>7, <1>8, <1>9, <1>10, <1>11, <1>12, <1>13,
     <1>14, <1>15, <1>16 DEF HandleMessage

LEMMA HandlerShares ==
    ASSUME TypeInv, NEW t \in Tasks, HandleMessage(t)
    PROVE  /\ UNCHANGED <<inbox, sends, answered, handled>>
           /\ outbox \subseteq outbox'
           /\ \A d \in outbox' : \/ d \in outbox
                                 \/ /\ d.msg = Msg(t)
                                    /\ \/ At(t, "broadcast")
                                       \/ d.to = task[t].dest
                                          /\ (At(t, "forward") \/ At(t, "reply"))
           /\ \/ UNCHANGED sessions
              \/ Place(t) /\ SessionInsert(Seid(t), task[t].dest, Msg(t).by)
                          /\ Seid(t) # None
              \/ Unmap(t) /\ SessionRemove(Seid(t))
           /\ At(t, "forward") => \/ ForwardFails(t)
                                  \/ [to |-> task[t].dest, msg |-> Msg(t)] \in outbox'
<1> USE DEF tableVars, poolVars, netVars, peerVars
<1>1. ASSUME \/ FanOut(t) \/ Select(t) \/ Turn(t) \/ CountBackend(t)
             \/ LookupFound(t) \/ LookupMissed(t) \/ OwnerOf(t)
             \/ Register(t) \/ ForwardFails(t) \/ Unregister(t)
             \/ BroadcastOneFails(t) \/ EndBroadcast(t)
             \/ MatchFound(t) \/ MatchMissed(t) \/ ReplyFails(t)
             \/ Tally(t) \/ Retire(t)
      PROVE  UNCHANGED <<sessions, inbox, outbox, sends, answered, handled>>
  BY <1>1 DEF FanOut, Select, Turn, CountBackend, LookupFound, LookupMissed, OwnerOf,
     Register, ForwardFails, Unregister, BroadcastOneFails, EndBroadcast, MatchFound,
     MatchMissed, ReplyFails, Tally, Retire
<1>2. ASSUME Place(t) \/ Unmap(t)
      PROVE  /\ UNCHANGED <<inbox, outbox, sends, answered, handled>>
             /\ \/ UNCHANGED sessions
                \/ Place(t) /\ SessionInsert(Seid(t), task[t].dest, Msg(t).by)
                            /\ Seid(t) # None
                \/ Unmap(t) /\ SessionRemove(Seid(t))
  BY <1>2 DEF Place, Unmap
<1>3. ASSUME Forward(t) \/ Reply(t)
      PROVE  /\ UNCHANGED <<sessions, inbox, sends, answered, handled>>
             /\ At(t, "forward") \/ At(t, "reply")
             /\ outbox' = outbox \cup {[to |-> task[t].dest, msg |-> Msg(t)]}
  BY <1>3 DEF Forward, Reply, Send
<1>4. ASSUME BroadcastOne(t)
      PROVE  /\ UNCHANGED <<sessions, inbox, sends, answered, handled>>
             /\ At(t, "broadcast")
             /\ outbox' = outbox \cup {[to |-> Head(task[t].hosts), msg |-> Msg(t)]}
  BY <1>4 DEF BroadcastOne, Send
<1>5. At(t, "forward") => Forward(t) \/ ForwardFails(t)
  BY DEF HandleMessage, At, FanOut, Select, Turn, CountBackend, Place, LookupFound,
         LookupMissed, Unmap, OwnerOf, Register, Unregister,
         BroadcastOne, BroadcastOneFails, EndBroadcast, MatchFound, MatchMissed,
         Reply, ReplyFails, Tally, Retire
<1> QED BY <1>1, <1>2, <1>3, <1>4, <1>5 DEF HandleMessage

-----------------------------------------------------------------------------
\* What happened stays so, and a message that was caused stays caused.
LEMMA Growing ==
    ASSUME TypeInv, [Next]_vars
    PROVE  /\ handled \subseteq handled' /\ answered \subseteq answered'
           /\ \A r \in Requests : sends'[r] \in Nat /\ sends'[r] >= sends[r]
<1> USE DEF tableVars, poolVars, netVars, peerVars
<1>0. sends \in [Requests -> Nat]
  BY DEF TypeInv, TypeOK
<1>1. ASSUME UNCHANGED <<sends, answered, handled>>
      PROVE  /\ handled \subseteq handled' /\ answered \subseteq answered'
             /\ \A r \in Requests : sends'[r] \in Nat /\ sends'[r] >= sends[r]
  BY <1>0, <1>1
<1>2. CASE \E t \in Tasks : HandleMessage(t)
  BY <1>0, <1>1, <1>2, HandlerShares
<1>3. CASE \/ ReceiveSome
           \/ \E q \in Seqs : GrowOld(q) \/ CleanupStale(q)
           \/ \E c \in commands : ApplyCommand(c)
           \/ Lose
           \/ UNCHANGED vars
  BY <1>0, <1>1, <1>3 DEF ReceiveSome, Receive, GrowOld, CleanupStale, ApplyCommand,
     Lose, vars
<1>4. CASE \E r \in Requests : SendRequest(r)
  <2> PICK e \in Requests : SendRequest(e)
    BY <1>4
  <2>1. sends' = [sends EXCEPT ![e] = @ + 1] /\ UNCHANGED <<answered, handled>>
    BY DEF SendRequest
  <2>2. \A r \in Requests : sends'[r] = IF r = e THEN sends[r] + 1 ELSE sends[r]
    BY <1>0, <2>1
  <2> QED BY <1>0, <2>1, <2>2
<1>5. CASE PeerStep
  BY <1>0, <1>5 DEF PeerStep, PeerHandles, PeerGetsResponse
<1> QED BY <1>0, <1>2, <1>3, <1>4, <1>5 DEF Next, Wait

LEMMA CausedStays ==
    ASSUME TypeInv, [Next]_vars, NEW m \in Message, Caused(m)
    PROVE  Caused(m)'
<1>1. m.req \in Requests
  BY DEF Message
<1>2. Requested(m.req) => Requested(m.req)'
  <2>1. sends[m.req] \in Nat /\ sends'[m.req] \in Nat /\ sends'[m.req] >= sends[m.req]
    BY <1>1, Growing DEF TypeInv, TypeOK
  <2> QED BY <2>1 DEF Requested
<1>3. \A s : OpenedBefore(s) => OpenedBefore(s)'
  BY Growing DEF OpenedBefore
<1>4. HasHandled(m.by, m.req.seid, EstablishmentTypes)
          => HasHandled(m.by, m.req.seid, EstablishmentTypes)'
  BY Growing DEF HasHandled
<1> QED BY <1>2, <1>3, <1>4 DEF Caused, About, IsUpfRequest

\* The invariant is kept if new messages are caused, the messages of the tasks
\* come from the inbox and those sent from the tasks.
LEMMA MessageFrame ==
    ASSUME TypeInv, MessageInv, [Next]_vars,
           \A m \in inbox' : m \in inbox \/ Caused(m)',
           \A t \in Tasks : \/ task'[t].pc = "idle"
                            \/ task[t].pc # "idle" /\ task'[t].msg = task[t].msg
                            \/ task'[t].msg \in inbox,
           \A d \in outbox' : \/ d \in outbox
                              \/ \E t \in Tasks : /\ task[t].pc # "idle"
                                                  /\ d.msg = task[t].msg,
           \A a \in answered' : \/ a \in answered
                                \/ \E d \in outbox : /\ d.msg.kind = "response"
                                                     /\ a.req = d.msg.req,
           \A h \in handled' : \/ h \in handled
                               \/ \E r \in Requests : r.seid = h.seid /\ r.type = h.type
    PROVE  MessageInv'
<1>1. \A m \in inbox : m \in Message /\ Caused(m)
  BY DEF TypeInv, TypeOK, MessageInv
<1>2. \A t \in Tasks : task[t].pc # "idle" => task[t].msg \in Message /\ Caused(task[t].msg)
  BY BusyTask DEF MessageInv, At, Msg
<1>3. \A d \in outbox : d.msg \in Message /\ Caused(d.msg)
  BY DEF TypeInv, TypeOK, MessageInv, Datagram
<1>4. \A m \in inbox' : Caused(m)'
  BY <1>1, CausedStays
<1>5. \A t \in Tasks : \A m : task'[t].pc # "idle" /\ m = task'[t].msg => Caused(m)'
  <2> SUFFICES ASSUME NEW t \in Tasks, NEW m, task'[t].pc # "idle", m = task'[t].msg
               PROVE  Caused(m)'
    OBVIOUS
  <2>1. m \in Message /\ Caused(m)
    BY <1>1, <1>2
  <2> QED BY <2>1, CausedStays
<1>6. \A d \in outbox' : Caused(d.msg)'
  BY <1>2, <1>3, CausedStays
<1>7. \A a \in answered', s \in Seids : About(a, s) => OpenedBefore(s)'
  <2> SUFFICES ASSUME NEW a \in answered', NEW s \in Seids, About(a, s)
               PROVE  OpenedBefore(s)'
    OBVIOUS
  <2>1. OpenedBefore(s)
    BY <1>3 DEF MessageInv, About, Caused
  <2> QED BY <2>1, Growing DEF OpenedBefore
<1>8. \A h \in handled' : \E r \in Requests : r.seid = h.seid /\ r.type = h.type
  BY DEF MessageInv
<1>9. (\A t \in Tasks : ~ At(t, "idle") => Caused(Msg(t)))'
  BY <1>5 DEF At, Msg, Caused, About, IsUpfRequest, Requested, OpenedBefore, HasHandled
<1>10. (\A a \in answered, s \in Seids : About(a, s) => OpenedBefore(s))'
  BY <1>7 DEF About
<1> QED BY <1>4, <1>6, <1>8, <1>9, <1>10 DEF MessageInv

LEMMA MessageInit == Init => MessageInv
BY DEF Init, MessageInv, At, IdleTask

LEMMA MessageStep ==
    ASSUME TypeInv, MessageInv, [Next]_vars
    PROVE  MessageInv'
<1> USE DEF tableVars, poolVars, netVars, peerVars
<1>0. task \in [Tasks -> Task]
  BY DEF TypeInv, TypeOK
<1>1. CASE \E t \in Tasks : HandleMessage(t)
  <2> PICK t \in Tasks : HandleMessage(t)
    BY <1>1
  <2>1. /\ task[t].pc # "idle"
        /\ task'[t].pc = "idle" \/ task'[t].msg = task[t].msg
        /\ \A x \in Tasks : x # t => task'[x] = task[x]
    BY HandlerMoves DEF Moves
  <2>2. /\ UNCHANGED <<inbox, sends, answered, handled>>
        /\ \A d \in outbox' : d \in outbox \/ d.msg = task[t].msg
    BY HandlerShares DEF Msg
  <2>3. \A h \in handled : \E r \in Requests : r.seid = h.seid /\ r.type = h.type
    BY DEF MessageInv
  <2> QED BY <2>1, <2>2, <2>3, MessageFrame
<1>2. CASE ReceiveSome
  <2> PICK t \in Tasks, m \in inbox : Receive(t, m)
    BY <1>2 DEF ReceiveSome
  <2>1. \A x \in Tasks : \/ task'[x] = task[x]
                         \/ task'[x].msg = m
    BY <1>0 DEF Receive, Become, IdleTask
  <2> QED BY <2>1, MessageFrame DEF Receive
<1>3. CASE \E r \in Requests : SendRequest(r)
  <2> PICK r \in Requests : SendRequest(r)
    BY <1>3
  <2>1. sends'[r] > 0
    <3>1. sends \in [Requests -> Nat]
      BY DEF TypeInv, TypeOK
    <3>2. sends'[r] = sends[r] + 1 /\ sends[r] \in Nat
      BY <3>1 DEF SendRequest
    <3> QED BY <3>2
  <2>2. /\ UNCHANGED <<task, outbox, answered, handled>>
        /\ inbox' = inbox \cup {RequestMsg(r)}
        /\ MaySend(r)
    BY DEF SendRequest
  <2>3. r.type \in AffinityTypes =>
            \A s \in Seids : r.seid = s => OpenedBefore(s)'
    <3> SUFFICES ASSUME r.type \in AffinityTypes, r.seid \in Seids
                 PROVE  OpenedBefore(r.seid)'
      OBVIOUS
    <3>1. PICK a \in answered : /\ a.req.type \in EstablishmentTypes
                                /\ a.req.seid = r.seid
      BY <2>2 DEF MaySend
    <3>2. About(a, r.seid)
      BY <3>1 DEF About, SmfRequestTypes
    <3> QED BY <2>2, <3>2 DEF MessageInv, OpenedBefore
  <2>4. r.type \in UpfRequestTypes =>
            HasHandled(r.src, r.seid, EstablishmentTypes)'
    BY <2>2 DEF MaySend, HasHandled
  <2>5. Caused(RequestMsg(r))'
    BY <2>1, <2>3, <2>4 DEF Caused, RequestMsg, Requested, About, IsUpfRequest
  <2> QED BY <2>2, <2>5, MessageFrame DEF MessageInv
<1>4. CASE \E d \in outbox : PeerHandles(d)
  <2> PICK d \in outbox : PeerHandles(d)
    BY <1>4
  <2> DEFINE r == d.msg.req
  <2>1. d.msg \in Message /\ r \in Requests /\ d.msg.kind = "request"
    BY DEF TypeInv, TypeOK, Datagram, Message, PeerHandles
  <2>2. /\ \A m \in inbox' : m \in inbox \/ m = ResponseMsg(r, d.to)
        /\ UNCHANGED <<task, answered>>
        /\ outbox' \subseteq outbox
    BY DEF PeerHandles
  <2>3. /\ \A h \in handled' : \/ h \in handled
                               \/ h.seid = r.seid /\ h.type = r.type
        /\ \A s \in Seids : About(d.msg, s) =>
               [upf |-> d.to, seid |-> r.seid, type |-> r.type] \in handled'
    <3>1. r.seid # None /\ r.type \in SmfRequestTypes =>
              [upf |-> d.to, seid |-> r.seid, type |-> r.type] \in handled'
      BY <2>1 DEF PeerHandles, IsSmfRequest
    <3>2. \A s \in Seids : s # None
      BY DEF Seids
    <3> QED BY <3>1, <3>2 DEF PeerHandles, About
  <2>4. \A s \in Seids : About(d.msg, s) => OpenedBefore(s)'
    <3> SUFFICES ASSUME NEW s \in Seids, About(d.msg, s) PROVE OpenedBefore(s)'
      OBVIOUS
    <3>1. CASE r.type \in AffinityTypes
      <4>1. OpenedBefore(s)
        BY <3>1 DEF MessageInv, Caused
      <4> QED BY <4>1, Growing DEF OpenedBefore
    <3>2. CASE r.type \notin AffinityTypes
      BY <2>3, <3>2 DEF OpenedBefore, About
    <3> QED BY <3>1, <3>2
  <2>5. Caused(ResponseMsg(r, d.to))'
    BY <2>4 DEF Caused, ResponseMsg, About, IsUpfRequest
  <2> QED BY <2>1, <2>2, <2>3, <2>5, MessageFrame
<1>5. CASE \E d \in outbox : PeerGetsResponse(d)
  BY <1>5, MessageFrame DEF PeerGetsResponse, MessageInv
<1>6. CASE \/ \E q \in Seqs : GrowOld(q) \/ CleanupStale(q)
           \/ \E c \in commands : ApplyCommand(c)
           \/ Lose
           \/ UNCHANGED vars
  <2>1. /\ UNCHANGED <<task, answered, handled>>
        /\ inbox' \subseteq inbox /\ outbox' \subseteq outbox
    BY <1>6 DEF GrowOld, CleanupStale, ApplyCommand, Lose, vars
  <2> QED BY <2>1, MessageFrame DEF MessageInv
<1> QED BY <1>1, <1>2, <1>3, <1>4, <1>5, <1>6 DEF Next, PeerStep, Wait

-----------------------------------------------------------------------------
LEMMA ArmInit == Init => ArmInv
BY DEF Init, ArmInv, ArmTask, IdleTask, PoolSteps

LEMMA ArmStep ==
    ASSUME TypeInv, ArmInv, [Next]_vars
    PROVE  ArmInv'
<1> USE DEF tableVars, poolVars, netVars, peerVars
<1>0. task \in [Tasks -> Task]
  BY DEF TypeInv, TypeOK
<1>1. ASSUME \A x \in Tasks : task'[x] = task[x] \/ ArmTask(task'[x])
      PROVE  ArmInv'
  BY <1>1 DEF ArmInv, ArmTask
<1>2. CASE \E t \in Tasks : HandleMessage(t)
  <2> PICK t \in Tasks : HandleMessage(t)
    BY <1>2
  <2>1. Moves(task[t], task'[t]) /\ \A x \in Tasks : x # t => task'[x] = task[x]
    BY HandlerMoves
  <2>2. ArmTask(task[t])
    BY DEF ArmInv
  <2>3. ArmTask(task'[t])
    BY <2>1, <2>2 DEF Moves, Advances, ArmTask, PoolSteps, ResponseSteps
  <2> QED BY <1>1, <2>1, <2>3
<1>3. CASE ReceiveSome
  <2> PICK t \in Tasks, m \in inbox : Receive(t, m)
    BY <1>3 DEF ReceiveSome
  <2> DEFINE pc == FirstStep(m)
  <2>1. m \in Message
    BY DEF TypeInv, TypeOK
  <2>2. /\ \A x \in Tasks : x # t => task'[x] = task[x]
        /\ \/ task'[t] = task[t]
           \/ task'[t].pc = pc /\ task'[t].msg = m
    BY <1>0 DEF Receive, Become, IdleTask
  <2>3. /\ pc \notin {"unmap", "place", "turn", "count"}
        /\ pc = "fan_out" => m.req.type \in BroadcastTypes
        /\ pc = "lookup" => m.req.type \in AffinityTypes \cup OtherTypes
        /\ pc = "select" => m.req.type \in EstablishmentTypes \cup OtherTypes
    <3>1. m.req.type \in SmfRequestTypes \cup UpfRequestTypes
      BY <2>1, RequestFacts DEF Message
    <3>2. CASE m.kind = "response"
      BY <3>2 DEF FirstStep
    <3>3. CASE m.kind # "response" /\ m.req.type \in UpfRequestTypes
      BY <3>3, TypesDisjoint DEF FirstStep
    <3>4. CASE m.kind # "response" /\ m.req.type \in SmfRequestTypes
      <4>1. m.req.type \notin UpfRequestTypes
        BY <3>4, TypesDisjoint
      <4>2. CASE m.req.type \in BroadcastTypes
        BY <3>4, <4>1, <4>2 DEF FirstStep
      <4>3. CASE m.req.type \in EstablishmentTypes
        BY <3>4, <4>1, <4>3, TypesDisjoint DEF FirstStep
      <4>4. CASE m.req.type \in AffinityTypes
        BY <3>4, <4>1, <4>4, TypesDisjoint DEF FirstStep
      <4>5. CASE m.req.type \in OtherTypes
        BY <3>4, <4>1, <4>5, TypesDisjoint DEF FirstStep
      <4> QED BY <3>4, <4>2, <4>3, <4>4, <4>5 DEF SmfRequestTypes
    <3> QED BY <3>1, <3>2, <3>3, <3>4
  <2> HIDE DEF pc
  <2>4. task'[t] = task[t] \/ ArmTask(task'[t])
    BY <2>2, <2>3 DEF ArmTask, PoolSteps
  <2> QED BY <1>1, <2>2, <2>4
<1>4. CASE \/ \E q \in Seqs : GrowOld(q) \/ CleanupStale(q)
           \/ \E c \in commands : ApplyCommand(c)
           \/ \E r \in Requests : SendRequest(r)
           \/ PeerStep
           \/ Lose
           \/ UNCHANGED vars
  BY <1>1, <1>4 DEF GrowOld, CleanupStale, ApplyCommand, SendRequest, PeerStep,
     PeerHandles, PeerGetsResponse, Lose, vars
<1> QED BY <1>2, <1>3, <1>4 DEF Next, Wait

-----------------------------------------------------------------------------
LEMMA OnceInit == Init => OnceInv
BY DEF Init, OnceInv, Carries, At, IdleTask

LEMMA OnceStep ==
    ASSUME TypeInv, MessageInv, OnceInv, [Next]_vars
    PROVE  OnceInv'
<1> USE DEF tableVars, poolVars, netVars, peerVars
<1>0. task \in [Tasks -> Task] /\ sends \in [Requests -> Nat]
  BY DEF TypeInv, TypeOK
<1> SUFFICES ASSUME NEW r \in Requests, Copies[r] <= 1
             PROVE  \A t \in Tasks : Carries(t, r)' =>
                        /\ RequestMsg(r) \notin inbox'
                        /\ \A x \in Tasks : Carries(x, r)' => x = t
  BY DEF OnceInv, Carries, RequestMsg
<1>1. \A t \in Tasks : Carries(t, r) =>
          /\ RequestMsg(r) \notin inbox
          /\ \A x \in Tasks : Carries(x, r) => x = t
  BY DEF OnceInv
<1>2. ASSUME RequestMsg(r) \in inbox' => RequestMsg(r) \in inbox,
             \A t \in Tasks : \/ task'[t].pc = "idle"
                              \/ task[t].pc # "idle" /\ task'[t].msg = task[t].msg
      PROVE  \A t \in Tasks : Carries(t, r)' =>
                 /\ RequestMsg(r) \notin inbox'
                 /\ \A x \in Tasks : Carries(x, r)' => x = t
  BY <1>1, <1>2 DEF Carries, At, Msg
<1>3. CASE \E t \in Tasks : HandleMessage(t)
  BY <1>2, <1>3, HandlerMoves, HandlerShares DEF Moves
<1>4. CASE ReceiveSome
  <2> PICK t \in Tasks, m \in inbox : Receive(t, m)
    BY <1>4 DEF ReceiveSome
  <2>1. /\ \A x \in Tasks : x # t => task'[x] = task[x]
        /\ task'[t] = task[t] \/ task'[t].msg = m
        /\ task[t].pc = "idle"
        /\ inbox' = inbox \ {m}
    BY <1>0 DEF Receive, Become, IdleTask, At
  <2>2. CASE m = RequestMsg(r)
    <3>1. \A x \in Tasks : ~ Carries(x, r)
      BY <1>1, <2>2
    <3>2. \A x \in Tasks : Carries(x, r)' => x = t
      BY <2>1, <3>1 DEF Carries, At, Msg
    <3> QED BY <2>1, <2>2, <3>2
  <2>3. CASE m # RequestMsg(r)
    <3>1. ~ Carries(t, r)'
      BY <2>1, <2>3 DEF Carries, At, Msg
    <3>2. \A x \in Tasks : Carries(x, r)' => Carries(x, r)
      BY <2>1, <3>1 DEF Carries, At, Msg
    <3> QED BY <1>1, <2>1, <3>2
  <2> QED BY <2>2, <2>3
<1>5. CASE \E e \in Requests : SendRequest(e)
  <2> PICK e \in Requests : SendRequest(e)
    BY <1>5
  <2>1. UNCHANGED task /\ inbox' = inbox \cup {RequestMsg(e)} /\ sends[e] < Copies[e]
    BY DEF SendRequest
  <2>2. CASE e = r
    <3>1. ~ Requested(r)
      BY <1>0, <2>1, <2>2, ProxyAssumption DEF Requested
    <3>2. \A t \in Tasks : ~ Carries(t, r)
      BY <3>1 DEF MessageInv, Caused, Carries, RequestMsg
    <3> QED BY <2>1, <3>2 DEF Carries, At, Msg
  <2>3. CASE e # r
    <3>1. RequestMsg(e) # RequestMsg(r)
      BY <2>3 DEF RequestMsg
    <3> QED BY <1>2, <2>1, <3>1
  <2> QED BY <2>2, <2>3
<1>6. CASE PeerStep
  <2>1. UNCHANGED task
    BY <1>6 DEF PeerStep, PeerHandles, PeerGetsResponse
  <2>2. \A m \in inbox' : m \in inbox \/ m.kind = "response"
    BY <1>6 DEF PeerStep, PeerHandles, PeerGetsResponse, ResponseMsg
  <2>3. RequestMsg(r).kind # "response"
    BY DEF RequestMsg
  <2> QED BY <1>2, <2>1, <2>2, <2>3
<1>7. CASE \/ \E q \in Seqs : GrowOld(q) \/ CleanupStale(q)
           \/ \E c \in commands : ApplyCommand(c)
           \/ Lose
           \/ UNCHANGED vars
  <2>1. UNCHANGED task /\ inbox' \subseteq inbox
    BY <1>7 DEF GrowOld, CleanupStale, ApplyCommand, Lose, vars
  <2> QED BY <1>2, <2>1
<1> QED BY <1>3, <1>4, <1>5, <1>6, <1>7 DEF Next, Wait

-----------------------------------------------------------------------------
LEMMA ReportInit == Init => ReportInv
BY DEF Init, ReportInv, ReportTask, SessionTableInit, HasSession, IdleTask

LEMMA ReportHandler ==
    ASSUME OneSmfPerSession, TypeInv, ArmInv, ReportInv,
           NEW t \in Tasks, HandleMessage(t)
    PROVE  ReportInv'
<1> DEFINE k == task[t]
           m == Msg(t)
<1>1. /\ k.pc # "idle" /\ Moves(k, task'[t])
      /\ \A x \in Tasks : x # t => task'[x] = task[x]
  BY HandlerMoves
<1>2. /\ k \in Task /\ WellFormed(k) /\ m = k.msg /\ FromSource(m)
      /\ m.req \in Requests /\ ReportTask(k) /\ ArmTask(k)
  BY <1>1, BusyTask DEF ReportInv, ArmInv
<1>3. IsSmfRequest(m) => ~ IsUpfRequest(m)
  BY TypesDisjoint DEF IsSmfRequest, IsUpfRequest
<1>4. \A s \in Seids : HasSession(s)' => OwnedBy(s, sessions'[s].smf)
  <2>1. CASE UNCHANGED sessions
    BY <2>1 DEF ReportInv, HasSession
  <2>2. CASE Place(t) /\ SessionInsert(Seid(t), k.dest, m.by) /\ Seid(t) # None
    <3>1. k.pc = "place" /\ m.kind = "request"
      BY <1>2, <2>2 DEF Place, At, WellFormed, RouteSteps, IsSmfRequest
    <3>2. m.req \in Openers /\ m.req.seid = Seid(t) /\ m.by = m.req.src
      BY <1>2, <2>2, <3>1 DEF ArmTask, Openers, FromSource, Seid
    <3>3. OwnedBy(Seid(t), m.by)
      BY <3>2 DEF OneSmfPerSession, OwnedBy
    <3>4. \A s \in Seids : sessions'[s] = IF s = Seid(t)
                                             THEN [upf |-> k.dest, smf |-> m.by]
                                             ELSE sessions[s]
      BY <2>2 DEF SessionInsert, TypeInv, TypeOK, SessionTableTypeOK
    <3> QED BY <3>3, <3>4 DEF ReportInv, HasSession
  <2>3. CASE SessionRemove(Seid(t))
    <3>1. \A s \in Seids : sessions'[s] = IF s = Seid(t) THEN None ELSE sessions[s]
      BY <2>3 DEF SessionRemove, TypeInv, TypeOK, SessionTableTypeOK
    <3> QED BY <3>1 DEF ReportInv, HasSession
  <2> QED BY <2>1, <2>2, <2>3, HandlerShares
<1>5. ReportTask(task'[t])
  <2> SUFFICES ASSUME task'[t].pc # "idle", IsUpfRequest(task'[t].msg)
               PROVE  ReportTask(task'[t])
    BY DEF ReportTask
  <2>1. task'[t].msg = m /\ IsUpfRequest(m)
    BY <1>1, <1>2 DEF Moves
  <2>2. k.pc \in {"owner", "register", "forward", "unregister"} /\ ~ k.is_broadcast
    BY <1>1, <1>2, <2>1 DEF ReportTask
  <2>3. Advances(k, task'[t]) /\ task'[t].is_broadcast = k.is_broadcast
    BY <1>1, <2>2 DEF Moves
  <2>4. CASE k.pc = "owner"
    <3>1. /\ HasSession(m.req.seid)
          /\ task'[t].pc = "register"
          /\ task'[t].dest = sessions[m.req.seid].smf
      BY <1>2, <2>3, <2>4 DEF Advances
    <3>2. m.req.seid \in Seids
      BY <1>2, <2>4 DEF WellFormed
    <3> QED BY <2>1, <2>2, <2>3, <3>1, <3>2 DEF ReportInv, ReportTask
  <2>5. CASE k.pc = "register"
    <3>1. task'[t].pc = "forward" /\ task'[t].dest = k.dest
      BY <2>2, <2>3, <2>5 DEF Advances
    <3>2. OwnedBy(m.req.seid, k.dest)
      BY <1>2, <2>1, <2>5 DEF ReportTask
    <3> QED BY <2>1, <2>2, <2>3, <3>1, <3>2 DEF ReportTask
  <2>6. CASE k.pc \in {"forward", "unregister"}
    BY <2>2, <2>3, <2>6 DEF Advances, ReportTask
  <2> QED BY <2>2, <2>4, <2>5, <2>6
<1>6. \A d \in outbox' : IsUpfRequest(d.msg) => OwnedBy(d.msg.req.seid, d.to)
  <2> SUFFICES ASSUME NEW d \in outbox', IsUpfRequest(d.msg), d \notin outbox
               PROVE  OwnedBy(d.msg.req.seid, d.to)
    BY DEF ReportInv
  <2>1. /\ d.msg = m
        /\ At(t, "broadcast") \/ (d.to = k.dest /\ (At(t, "forward") \/ At(t, "reply")))
    BY HandlerShares
  <2>2. k.pc = "forward" /\ d.to = k.dest
    BY <1>2, <2>1 DEF ReportTask, At
  <2> QED BY <1>2, <2>1, <2>2 DEF ReportTask
<1>7. (\A s \in Seids : HasSession(s) => OwnedBy(s, sessions[s].smf))'
  BY <1>4 DEF OwnedBy
<1>8. (\A x \in Tasks : ReportTask(task[x]))'
  BY <1>1, <1>5 DEF ReportInv, ReportTask, IsUpfRequest, OwnedBy
<1>9. (\A d \in outbox : IsUpfRequest(d.msg) => OwnedBy(d.msg.req.seid, d.to))'
  BY <1>6 DEF IsUpfRequest, OwnedBy
<1> QED BY <1>7, <1>8, <1>9 DEF ReportInv

LEMMA ReportStep ==
    ASSUME OneSmfPerSession, TypeInv, ArmInv, ReportInv, [Next]_vars
    PROVE  ReportInv'
<1> USE DEF tableVars, poolVars, netVars, peerVars
<1>0. task \in [Tasks -> Task]
  BY DEF TypeInv, TypeOK
<1>1. ASSUME UNCHANGED sessions, outbox' \subseteq outbox,
             \A x \in Tasks : task'[x] = task[x] \/ ReportTask(task'[x])
      PROVE  ReportInv'
  BY <1>1 DEF ReportInv, ReportTask, HasSession, IsUpfRequest, OwnedBy
<1>2. CASE ReceiveSome
  <2> PICK t \in Tasks, m \in inbox : Receive(t, m)
    BY <1>2 DEF ReceiveSome
  <2>1. m \in Message
    BY DEF TypeInv, TypeOK
  <2>2. /\ \A x \in Tasks : x # t => task'[x] = task[x]
        /\ \/ task'[t] = task[t]
           \/ /\ task'[t].pc = FirstStep(m)
              /\ task'[t].msg = m
              /\ ~ task'[t].is_broadcast
    BY <1>0 DEF Receive, Become, IdleTask
  <2>3. IsUpfRequest(m) => FirstStep(m) \in {"owner", "idle"}
    BY <2>1, FirstStepFacts, TypesDisjoint DEF IsUpfRequest, IsSmfRequest
  <2>4. task'[t] = task[t] \/ ReportTask(task'[t])
    BY <2>2, <2>3 DEF ReportTask
  <2> QED BY <1>1, <2>2, <2>4 DEF Receive
<1>3. CASE \/ \E q \in Seqs : GrowOld(q) \/ CleanupStale(q)
           \/ \E c \in commands : ApplyCommand(c)
           \/ \E r \in Requests : SendRequest(r)
           \/ PeerStep
           \/ Lose
           \/ UNCHANGED vars
  BY <1>1, <1>3 DEF GrowOld, CleanupStale, ApplyCommand, SendRequest, PeerStep,
     PeerHandles, PeerGetsResponse, Lose, vars
<1> QED BY <1>2, <1>3, ReportHandler DEF Next, Wait

\* A report that is forwarded goes to the SMF that established its session, at
\* the UPF that reports, if no two SMFs choose the same SEID: with any number
\* of sessions, tasks, retransmissions and faults.
THEOREM ReportsCorrect ==
    ASSUME OneSmfPerSession
    PROVE  Spec => []ReportsReachTheSessionsSmf
<1> DEFINE Inv == TypeInv /\ MessageInv /\ ArmInv /\ ReportInv
<1>1. Init => Inv
  BY InitTypes, MessageInit, ArmInit, ReportInit
<1>2. Inv /\ [Next]_vars => Inv'
  BY StepTypes, MessageStep, ArmStep, ReportStep
<1>3. Inv => ReportsReachTheSessionsSmf
  <2> SUFFICES ASSUME Inv, NEW d \in outbox, IsUpfRequest(d.msg)
               PROVE  /\ HasHandled(d.msg.by, d.msg.req.seid, EstablishmentTypes)
                      /\ \A r \in Establishments : r.seid = d.msg.req.seid => r.src = d.to
    BY DEF ReportsReachTheSessionsSmf
  <2>1. /\ HasHandled(d.msg.by, d.msg.req.seid, EstablishmentTypes)
        /\ OwnedBy(d.msg.req.seid, d.to)
    BY DEF MessageInv, Caused, ReportInv
  <2>2. d.msg.req.seid # None
    BY <2>1 DEF HasHandled, TypeInv, TypeOK, Handled, Seids
  <2> QED BY <2>1, <2>2 DEF OwnedBy, Openers, Establishments
<1> QED BY <1>1, <1>2, <1>3, PTL DEF Spec

-----------------------------------------------------------------------------
(***************************************************************************)
(* Placement: Unplaced until Place, and Homed ever after.                  *)
(***************************************************************************)
LEMMA RequestIs ==
    ASSUME NEW m \in Message, FromSource(m), m.kind = "request"
    PROVE  m = RequestMsg(m.req)
BY DEF Message, FromSource, RequestMsg

\* Only a task that holds a request about a session changes its mapping.
LEMMA MappingKept ==
    ASSUME TypeInv, NEW t \in Tasks, HandleMessage(t), NEW s \in Seids
    PROVE  \/ sessions'[s] = sessions[s]
           \/ /\ s = Seid(t) /\ About(Msg(t), s)
              /\ \/ /\ At(t, "place")
                    /\ sessions'[s] = [upf |-> task[t].dest, smf |-> Msg(t).by]
                 \/ At(t, "unmap") /\ sessions'[s] = None
<1>0. sessions \in [Seids -> SessionInfo \cup {None}]
  BY DEF TypeInv, TypeOK, SessionTableTypeOK
<1>1. task[t].pc # "idle"
  BY HandlerMoves
<1>2. CASE UNCHANGED sessions
  BY <1>2
<1>3. CASE At(t, "place") /\ SessionInsert(Seid(t), task[t].dest, Msg(t).by)
  <2>1. About(Msg(t), Seid(t))
    BY <1>1, <1>3, BusyTask
       DEF At, WellFormed, RouteSteps, IsSmfRequest, About, Seid
  <2> QED BY <1>0, <1>3, <2>1 DEF SessionInsert
<1>4. CASE At(t, "unmap") /\ SessionRemove(Seid(t))
  <2>1. About(Msg(t), Seid(t))
    BY <1>1, <1>4, BusyTask
       DEF At, WellFormed, RouteSteps, IsSmfRequest, About, Seid
  <2> QED BY <1>0, <1>4, <2>1 DEF SessionRemove
<1> QED BY <1>2, <1>3, <1>4, HandlerShares DEF Place, Unmap

LEMMA UnplacedFrame ==
    ASSUME NEW s, Unplaced(s), sessions'[s] = sessions[s],
           \A h \in handled' : h \in handled \/ h.seid # s,
           \A a \in answered' : a \in answered \/ ~ About(a, s),
           \A d \in outbox' : d \in outbox \/ ~ About(d.msg, s),
           \A m \in inbox' : \/ m \in inbox
                             \/ About(m, s) => m.kind = "request" /\ m.req \in Openers,
           \A t \in Tasks : task'[t] = task[t] \/ UnplacedTask(task'[t], s)
    PROVE  Unplaced(s)'
<1>1. (\A t \in Tasks : UnplacedTask(task[t], s))'
  BY DEF Unplaced, UnplacedTask, About, Openers, PoolSteps
<1> QED BY <1>1 DEF Unplaced, HasSession, About, Openers

LEMMA HomedFrame ==
    ASSUME TypeInv, [Next]_vars, NEW s, NEW u, Homed(s, u),
           \/ sessions'[s] = sessions[s]
           \/ /\ sessions'[s] = None
              /\ \E r \in Deletions : r.seid = s /\ Requested(r),
           \A h \in handled' : h \in handled \/ (h.seid = s => h.upf = u),
           \A a \in answered' : a \in answered \/ (About(a, s) => a.by = u),
           \A d \in outbox' : \/ d \in outbox
                              \/ About(d.msg, s) => IF d.msg.kind = "request"
                                                       THEN d.to = u ELSE d.msg.by = u,
           \A m \in inbox' : \/ m \in inbox
                             \/ About(m, s) => IF m.kind = "request"
                                                  THEN m.req \notin Openers
                                                  ELSE m.by = u,
           \A t \in Tasks : task'[t] = task[t] \/ HomedTask(task'[t], s, u)
    PROVE  Homed(s, u)'
<1>1. (\A t \in Tasks : HomedTask(task[t], s, u))'
  BY DEF Homed, HomedTask, About, Openers
<1>2. \A r \in Requests : Requested(r) => Requested(r)'
  <2> SUFFICES ASSUME NEW r \in Requests, Requested(r) PROVE Requested(r)'
    OBVIOUS
  <2>1. sends[r] \in Nat /\ sends'[r] \in Nat /\ sends'[r] >= sends[r]
    BY Growing DEF TypeInv, TypeOK
  <2> QED BY <2>1 DEF Requested
<1>3. Mapping(s, u)'
  <2>1. Mapping(s, u)
    BY DEF Homed
  <2>2. (\E r \in Deletions : r.seid = s /\ Requested(r))
            => (\E r \in Deletions : r.seid = s /\ Requested(r))'
    BY <1>2 DEF Deletions
  <2>3. CASE sessions'[s] = sessions[s]
    BY <2>1, <2>2, <2>3 DEF Mapping, HasSession, Openers
  <2>4. CASE /\ sessions'[s] = None
             /\ \E r \in Deletions : r.seid = s /\ Requested(r)
    BY <2>2, <2>4 DEF Mapping, HasSession
  <2> QED BY <2>3, <2>4
<1>4. (\A r \in Openers : r.seid = s => Requested(r))'
  BY <1>2 DEF Homed, Openers
<1> QED BY <1>1, <1>3, <1>4 DEF Homed, About, Openers

LEMMA UnplacedHandler ==
    ASSUME OneOpenerPerSession, TypeInv, MessageInv, OnceInv,
           NEW t \in Tasks, HandleMessage(t), NEW s \in Seids, Unplaced(s)
    PROVE  \/ Unplaced(s)'
           \/ HasSession(s)' /\ \E u \in Upfs : Homed(s, u)'
<1> DEFINE k == task[t]
           m == Msg(t)
<1>1. /\ k.pc # "idle" /\ Moves(k, task'[t])
      /\ \A x \in Tasks : x # t => task'[x] = task[x]
  BY HandlerMoves
<1>2. /\ k \in Task /\ WellFormed(k) /\ m = k.msg /\ m \in Message /\ FromSource(m)
      /\ m.req \in Requests /\ UnplacedTask(k, s)
  BY <1>1, BusyTask DEF Unplaced
<1>3. /\ UNCHANGED <<inbox, sends, answered, handled>>
      /\ \A d \in outbox' : \/ d \in outbox
                            \/ d.msg = m /\ k.pc \in {"broadcast", "forward", "reply"}
  BY HandlerShares DEF At
<1>4. CASE ~ About(m, s)
  <2>1. sessions'[s] = sessions[s]
    BY <1>4, MappingKept
  <2>2. UnplacedTask(task'[t], s)
    BY <1>1, <1>2, <1>4 DEF Moves, UnplacedTask
  <2> QED BY <1>1, <1>3, <1>4, <2>1, <2>2, UnplacedFrame
<1>5. CASE About(m, s)
  <2>1. /\ m.kind = "request" /\ m.req \in Openers /\ ~ k.is_broadcast
        /\ k.pc \in {"lookup", "select", "turn", "count", "place"}
        /\ m.req.seid = s /\ ~ HasSession(s)
    BY <1>1, <1>2, <1>5 DEF UnplacedTask, PoolSteps, About, Unplaced
  <2>2. outbox' \subseteq outbox
    BY <1>3, <2>1
  <2>3. CASE sessions'[s] = sessions[s]
    <3>1. CASE k.pc = "place"
      <4>1. Place(t)
        BY <3>1 DEF HandleMessage, At, FanOut, Select, Turn, CountBackend, LookupFound,
           LookupMissed, Unmap, OwnerOf, Register, Forward, ForwardFails, Unregister,
           BroadcastOne, BroadcastOneFails, EndBroadcast, MatchFound, MatchMissed,
           Reply, ReplyFails, Tally, Retire
      <4>2. Seid(t) = s /\ s # None
        BY <1>2, <2>1 DEF Seid, Openers
      <4>3. sessions'[s] = [upf |-> k.dest, smf |-> m.by]
        BY <4>1, <4>2 DEF Place, SessionInsert, TypeInv, TypeOK, SessionTableTypeOK
      <4>4. sessions'[s] # None
        <5>1. k.dest \in Upfs /\ m.by \in Smfs
          BY <1>2, <2>1, <3>1, RequestFacts
             DEF WellFormed, RouteSteps, IsSmfRequest, FromSource
        <5> QED BY <4>3, <5>1, NoEntryAssumption DEF SessionInfo
      <4> QED BY <2>1, <2>3, <4>4 DEF HasSession
    <3>2. CASE k.pc # "place"
      <4>1. UnplacedTask(task'[t], s)
        BY <1>1, <1>2, <2>1, <3>2
           DEF Moves, Advances, UnplacedTask, PoolSteps, ResponseSteps
      <4> QED BY <1>1, <1>3, <2>2, <2>3, <4>1, UnplacedFrame
    <3> QED BY <3>1, <3>2
  <2>4. CASE /\ k.pc = "place"
             /\ sessions'[s] = [upf |-> k.dest, smf |-> m.by]
    <3>0. k.dest \in Upfs /\ m.by \in Smfs /\ m.by = m.req.src
      BY <1>2, <2>1, <2>4, RequestFacts
         DEF WellFormed, RouteSteps, IsSmfRequest, FromSource
    <3>1. PICK u \in Upfs : u = k.dest
      BY <3>0
    <3>2. HasSession(s)'
      BY <2>4, <3>0, <3>1, NoEntryAssumption DEF SessionInfo, HasSession
    <3>3. /\ Copies[m.req] <= 1 /\ m = RequestMsg(m.req) /\ Carries(t, m.req)
          /\ \A r \in Openers : r.seid = s => r = m.req
      BY <1>1, <1>2, <2>1, RequestIs DEF OneOpenerPerSession, Carries, At
    <3>4. \A x \in inbox : ~ About(x, s)
      <4> SUFFICES ASSUME NEW x \in inbox, About(x, s) PROVE FALSE
        OBVIOUS
      <4>1. x.kind = "request" /\ x.req = m.req /\ x \in Message /\ FromSource(x)
        BY <3>3 DEF Unplaced, About, TypeInv, TypeOK
      <4>2. x = m
        BY <3>3, <4>1, RequestIs
      <4> QED BY <1>2, <3>3, <4>2 DEF OnceInv
    <3>5. \A x \in Tasks : x # t /\ task[x].pc # "idle" => ~ About(task[x].msg, s)
      <4> SUFFICES ASSUME NEW x \in Tasks, x # t, task[x].pc # "idle",
                          About(task[x].msg, s)
                   PROVE  FALSE
        OBVIOUS
      <4>1. /\ task[x].msg.kind = "request" /\ task[x].msg.req = m.req
            /\ task[x].msg \in Message /\ FromSource(task[x].msg)
        BY <3>3, BusyTask DEF Unplaced, UnplacedTask, About
      <4>2. Carries(x, m.req)
        BY <3>3, <4>1, RequestIs DEF Carries, At, Msg
      <4> QED BY <1>2, <3>3, <4>2 DEF OnceInv
    <3>6. task'[t].pc = "idle" \/ /\ task'[t].pc = "register" /\ task'[t].dest = u
                                  /\ task'[t].msg = m /\ ~ task'[t].is_broadcast
      BY <1>1, <1>2, <2>1, <2>4, <3>1 DEF Moves, Advances
    <3>7. HomedTask(task'[t], s, u)
      BY <2>1, <3>6 DEF HomedTask
    <3>8. \A x \in Tasks : HomedTask(task'[x], s, u)
      BY <1>1, <3>5, <3>7 DEF HomedTask
    <3>9. Mapping(s, u)'
      BY <2>1, <2>4, <3>0, <3>1, <3>2 DEF Mapping, HasSession, Openers
    <3>10. \A r \in Openers : r.seid = s => sends'[r] > 0
      <4>1. Requested(m.req)
        BY <1>1, <2>1 DEF MessageInv, Caused, At
      <4> QED BY <1>3, <3>3, <4>1 DEF Requested
    <3>11. (\A x \in Tasks : HomedTask(task[x], s, u))'
      BY <3>8 DEF HomedTask, About, Openers
    <3>12. /\ \A h \in handled' : h.seid # s
           /\ \A a \in answered' : ~ About(a, s)
           /\ \A d \in outbox' : ~ About(d.msg, s)
           /\ \A x \in inbox' : ~ About(x, s)
      BY <1>3, <2>2, <3>4 DEF Unplaced
    <3>13. Homed(s, u)'
      BY <3>9, <3>10, <3>11, <3>12 DEF Homed, About, Openers, Requested
    <3> QED BY <3>1, <3>2, <3>13
  <2>5. k.pc # "unmap"
    BY <2>1
  <2> QED BY <2>3, <2>4, <2>5, MappingKept DEF At
<1> QED BY <1>4, <1>5

LEMMA UnplacedStep ==
    ASSUME OneOpenerPerSession, NodeMessagesHaveNoSeid,
           TypeInv, MessageInv, OnceInv, ArmInv', [Next]_vars,
           NEW s \in Seids, Unplaced(s)
    PROVE  \/ Unplaced(s)'
           \/ HasSession(s)' /\ \E u \in Upfs : Homed(s, u)'
<1> USE DEF tableVars, poolVars, netVars, peerVars
<1>0. task \in [Tasks -> Task] /\ s # None
  BY DEF TypeInv, TypeOK, Seids
<1>1. CASE \E t \in Tasks : HandleMessage(t)
  BY <1>1, UnplacedHandler
<1>2. CASE ReceiveSome
  <2> PICK t \in Tasks, m \in inbox : Receive(t, m)
    BY <1>2 DEF ReceiveSome
  <2> DEFINE pc == FirstStep(m)
  <2>1. m \in Message /\ (About(m, s) => m.kind = "request" /\ m.req \in Openers)
    BY DEF TypeInv, TypeOK, Unplaced
  <2>2. /\ \A x \in Tasks : x # t => task'[x] = task[x]
        /\ \/ task'[t] = task[t]
           \/ /\ task'[t].pc = pc /\ task'[t].msg = m
              /\ ~ task'[t].is_broadcast
    BY <1>0 DEF Receive, Become, IdleTask
  <2>3. ASSUME About(m, s), task'[t].pc = pc, task'[t].msg = m
        PROVE  pc \in {"idle", "lookup"} \cup PoolSteps
    <3>1. IsSmfRequest(m) /\ m.kind # "response"
      BY <2>1, <2>3 DEF About, IsSmfRequest
    <3>2. pc \in {"idle", "fan_out", "select", "lookup"}
      BY <2>1, <3>1, FirstStepFacts
    <3>3. pc # "fan_out"
      BY <2>1, <2>3, TypesDisjoint DEF ArmInv, ArmTask, Openers
    <3> QED BY <3>2, <3>3 DEF PoolSteps
  <2> HIDE DEF pc
  <2>4. task'[t] = task[t] \/ UnplacedTask(task'[t], s)
    BY <2>1, <2>2, <2>3 DEF UnplacedTask
  <2> QED BY <2>2, <2>4, UnplacedFrame DEF Receive
<1>3. CASE \E r \in Requests : SendRequest(r)
  <2> PICK r \in Requests : SendRequest(r)
    BY <1>3
  <2>1. About(RequestMsg(r), s) => r \in Openers
    <3> SUFFICES ASSUME r.seid = s, r.type \in SmfRequestTypes
                 PROVE  r \in Openers
      BY DEF About, RequestMsg
    <3>1. r.type \notin BroadcastTypes
      BY <1>0 DEF NodeMessagesHaveNoSeid
    <3>2. r.type \notin AffinityTypes
      <4> SUFFICES ASSUME NEW a \in answered, a.req.type \in EstablishmentTypes,
                          a.req.seid = s
                   PROVE  FALSE
        BY DEF SendRequest, MaySend
      <4> QED BY DEF Unplaced, About, SmfRequestTypes
    <3> QED BY <1>0, <3>1, <3>2 DEF SmfRequestTypes, Openers
  <2>2. \A m \in inbox' : \/ m \in inbox
                          \/ About(m, s) => m.kind = "request" /\ m.req \in Openers
    BY <2>1 DEF SendRequest, RequestMsg
  <2> QED BY <2>2, UnplacedFrame DEF SendRequest
<1>4. CASE \E d \in outbox : PeerHandles(d)
  <2> PICK d \in outbox : PeerHandles(d)
    BY <1>4
  <2>1. ~ About(d.msg, s)
    BY DEF Unplaced
  <2>2. \A h \in handled' : h \in handled \/ h.seid # s
    BY <2>1 DEF PeerHandles, About, IsSmfRequest
  <2>3. \A m \in inbox' : m \in inbox \/ ~ About(m, s)
    BY <2>1 DEF PeerHandles, About, ResponseMsg
  <2> QED BY <2>2, <2>3, UnplacedFrame DEF PeerHandles
<1>5. CASE \E d \in outbox : PeerGetsResponse(d)
  <2> PICK d \in outbox : PeerGetsResponse(d)
    BY <1>5
  <2>1. ~ About(d.msg, s)
    BY DEF Unplaced
  <2>2. \A a \in answered' : a \in answered \/ ~ About(a, s)
    BY <2>1 DEF PeerGetsResponse, About
  <2> QED BY <2>2, UnplacedFrame DEF PeerGetsResponse
<1>6. CASE \/ \E q \in Seqs : GrowOld(q) \/ CleanupStale(q)
           \/ \E c \in commands : ApplyCommand(c)
           \/ Lose
           \/ UNCHANGED vars
  <2>1. /\ UNCHANGED <<sessions, task, answered, handled>>
        /\ inbox' \subseteq inbox /\ outbox' \subseteq outbox
    BY <1>6 DEF GrowOld, CleanupStale, ApplyCommand, Lose, vars
  <2> QED BY <2>1, UnplacedFrame
<1> QED BY <1>1, <1>2, <1>3, <1>4, <1>5, <1>6 DEF Next, PeerStep, Wait

LEMMA HomedHandler ==
    ASSUME TypeInv, MessageInv, ArmInv, [Next]_vars,
           NEW t \in Tasks, HandleMessage(t), NEW s \in Seids, NEW u, Homed(s, u)
    PROVE  Homed(s, u)'
<1> DEFINE k == task[t]
           m == Msg(t)
<1>1. /\ k.pc # "idle" /\ Moves(k, task'[t])
      /\ \A x \in Tasks : x # t => task'[x] = task[x]
  BY HandlerMoves
<1>2. /\ k \in Task /\ m = k.msg /\ m.req \in Requests
      /\ HomedTask(k, s, u) /\ ArmTask(k) /\ s # None
  BY <1>1, BusyTask DEF Homed, ArmInv, Seids
<1>3. /\ UNCHANGED <<inbox, sends, answered, handled>>
      /\ \A d \in outbox' :
            \/ d \in outbox
            \/ /\ d.msg = m
               /\ \/ k.pc = "broadcast"
                  \/ d.to = k.dest /\ k.pc \in {"forward", "reply"}
  BY HandlerShares DEF At
<1>4. CASE ~ About(m, s)
  <2>1. sessions'[s] = sessions[s]
    BY <1>4, MappingKept
  <2>2. HomedTask(task'[t], s, u)
    BY <1>1, <1>2, <1>4 DEF Moves, HomedTask
  <2> QED BY <1>1, <1>3, <1>4, <2>1, <2>2, HomedFrame
<1>5. CASE About(m, s) /\ m.kind # "request"
  <2>1. m.kind = "response" /\ m.by = u
    BY <1>1, <1>2, <1>5 DEF HomedTask
  <2>2. HomedTask(task'[t], s, u)
    BY <1>1, <1>2, <2>1 DEF Moves, HomedTask
  <2>3. sessions'[s] = sessions[s]
    <3>1. k.pc \notin {"place", "unmap"}
      BY <1>1, <1>5, BusyTask DEF WellFormed, RouteSteps, IsSmfRequest
    <3> QED BY <3>1, MappingKept DEF At
  <2> QED BY <1>1, <1>3, <1>5, <2>1, <2>2, <2>3, HomedFrame
<1>6. CASE About(m, s) /\ m.kind = "request"
  <2>1. /\ k.pc \in {"lookup", "unmap", "register", "forward", "unregister"}
        /\ ~ k.is_broadcast
        /\ k.pc = "lookup" => m.req \notin Openers
        /\ k.pc = "unmap" => m.req.type \in DeletionTypes
        /\ k.pc \in {"unmap", "register", "forward"} => k.dest = u
        /\ m.req.seid = s
    BY <1>1, <1>2, <1>6 DEF HomedTask, About
  <2>2. \A d \in outbox' : d \in outbox \/ d.to = u
    BY <1>3, <2>1
  <2>3. \/ sessions'[s] = sessions[s]
        \/ /\ sessions'[s] = None
           /\ \E r \in Deletions : r.seid = s /\ Requested(r)
    <3>1. CASE k.pc # "unmap"
      BY <2>1, <3>1, MappingKept DEF At
    <3>2. CASE k.pc = "unmap"
      <4>1. m.req \in Deletions /\ Requested(m.req)
        BY <1>1, <1>2, <1>6, <2>1, <3>2 DEF Deletions, MessageInv, Caused, At
      <4> QED BY <2>1, <3>2, <4>1, MappingKept DEF At
    <3> QED BY <3>1, <3>2
  <2>4. HomedTask(task'[t], s, u)
    <3> SUFFICES ASSUME task'[t].pc # "idle" PROVE HomedTask(task'[t], s, u)
      BY DEF HomedTask
    <3>1. /\ task'[t].msg = m /\ ~ task'[t].is_broadcast
          /\ Advances(k, task'[t])
      BY <1>1, <1>2, <2>1 DEF Moves
    <3>2. CASE k.pc = "lookup"
      <4>1. m.req.type \in AffinityTypes
        BY <1>2, <2>1, <3>2 DEF ArmTask, Openers
      <4>2. /\ HasSession(s)
            /\ task'[t].dest = sessions[s].upf
            /\ task'[t].pc = IF m.req.type \in DeletionTypes THEN "unmap" ELSE "register"
        BY <1>2, <2>1, <3>1, <3>2, <4>1 DEF Advances
      <4>3. sessions[s].upf = u
        <5>1. Mapping(s, u)
          BY DEF Homed
        <5>2. PICK r \in Openers : sessions[s] = [upf |-> u, smf |-> r.src]
          BY <4>2, <5>1 DEF Mapping
        <5> QED BY <5>2
      <4> QED BY <1>6, <3>1, <4>2, <4>3 DEF HomedTask
    <3>3. CASE k.pc \in {"unmap", "register", "forward", "unregister"}
      <4>1. /\ task'[t].pc \in {"register", "forward", "unregister"}
            /\ k.pc \in {"unmap", "register"} => task'[t].dest = u
            /\ task'[t].pc \in {"register", "forward"} => k.pc \in {"unmap", "register"}
        BY <2>1, <3>1, <3>3 DEF Advances
      <4> QED BY <1>6, <3>1, <4>1 DEF HomedTask
    <3> QED BY <2>1, <3>2, <3>3
  <2> QED BY <1>1, <1>3, <1>6, <2>2, <2>3, <2>4, HomedFrame
<1> QED BY <1>4, <1>5, <1>6

LEMMA HomedStep ==
    ASSUME OneOpenerPerSession, NodeMessagesHaveNoSeid,
           TypeInv, MessageInv, ArmInv, ArmInv', [Next]_vars,
           NEW s \in Seids, NEW u, Homed(s, u)
    PROVE  Homed(s, u)'
<1> USE DEF tableVars, poolVars, netVars, peerVars
<1>0. task \in [Tasks -> Task] /\ s # None
  BY DEF TypeInv, TypeOK, Seids
<1>1. CASE \E t \in Tasks : HandleMessage(t)
  BY <1>1, HomedHandler
<1>2. CASE ReceiveSome
  <2> PICK t \in Tasks, m \in inbox : Receive(t, m)
    BY <1>2 DEF ReceiveSome
  <2> DEFINE pc == FirstStep(m)
  <2>1. /\ m \in Message
        /\ About(m, s) => IF m.kind = "request" THEN m.req \notin Openers ELSE m.by = u
    BY DEF TypeInv, TypeOK, Homed
  <2>2. /\ \A x \in Tasks : x # t => task'[x] = task[x]
        /\ \/ task'[t] = task[t]
           \/ /\ task'[t].pc = pc /\ task'[t].msg = m
              /\ ~ task'[t].is_broadcast
    BY <1>0 DEF Receive, Become, IdleTask
  <2>3. ASSUME About(m, s), m.kind = "request", task'[t].pc = pc, task'[t].msg = m
        PROVE  pc \in {"idle", "lookup"}
    <3>1. IsSmfRequest(m)
      BY <2>3 DEF About, IsSmfRequest
    <3>2. pc \in {"idle", "fan_out", "select", "lookup"}
      BY <2>1, <2>3, <3>1, FirstStepFacts
    <3>3. m.req \in Requests /\ m.req \notin Openers /\ m.req.seid = s
      BY <2>1, <2>3 DEF Message, About
    <3>4. pc # "fan_out"
      BY <1>0, <2>3, <3>3 DEF ArmInv, ArmTask, NodeMessagesHaveNoSeid
    <3>5. pc # "select"
      BY <1>0, <2>3, <3>3 DEF ArmInv, ArmTask, Openers, PoolSteps
    <3> QED BY <3>2, <3>4, <3>5
  <2> HIDE DEF pc
  <2>4. task'[t] = task[t] \/ HomedTask(task'[t], s, u)
    <3>1. m.kind \in {"request", "response"}
      BY <2>1 DEF Message
    <3> QED BY <2>1, <2>2, <2>3, <3>1 DEF HomedTask
  <2> QED BY <2>2, <2>4, HomedFrame DEF Receive
<1>3. CASE \E r \in Requests : SendRequest(r)
  <2> PICK r \in Requests : SendRequest(r)
    BY <1>3
  <2>1. r \in Openers => r.seid # s
    <3> SUFFICES ASSUME r \in Openers, r.seid = s PROVE FALSE
      OBVIOUS
    <3>1. sends[r] > 0 /\ Copies[r] <= 1 /\ sends[r] < Copies[r]
      BY DEF Homed, Requested, OneOpenerPerSession, SendRequest
    <3>2. sends[r] \in Nat /\ Copies[r] \in Nat
      BY ProxyAssumption DEF TypeInv, TypeOK
    <3> QED BY <3>1, <3>2
  <2>2. \A m \in inbox' : m \in inbox \/ (m.kind = "request" /\ m.req = r)
    BY DEF SendRequest, RequestMsg
  <2> QED BY <2>1, <2>2, HomedFrame DEF SendRequest, About
<1>4. CASE \E d \in outbox : PeerHandles(d)
  <2> PICK d \in outbox : PeerHandles(d)
    BY <1>4
  <2>1. d.msg.kind = "request" /\ (About(d.msg, s) => d.to = u)
    BY DEF Homed, PeerHandles
  <2>2. \A h \in handled' : h \in handled \/ (h.seid = s => h.upf = u)
    BY <2>1 DEF PeerHandles, About, IsSmfRequest
  <2>3. \A m \in inbox' : \/ m \in inbox
                          \/ m.kind = "response" /\ (About(m, s) => m.by = u)
    BY <2>1 DEF PeerHandles, About, ResponseMsg
  <2> QED BY <2>2, <2>3, HomedFrame DEF PeerHandles
<1>5. CASE \E d \in outbox : PeerGetsResponse(d)
  <2> PICK d \in outbox : PeerGetsResponse(d)
    BY <1>5
  <2>1. d.msg.kind = "response" /\ (About(d.msg, s) => d.msg.by = u)
    BY DEF Homed, PeerGetsResponse
  <2>2. \A a \in answered' : a \in answered \/ (About(a, s) => a.by = u)
    BY <2>1 DEF PeerGetsResponse, About
  <2> QED BY <2>2, HomedFrame DEF PeerGetsResponse
<1>6. CASE \/ \E q \in Seqs : GrowOld(q) \/ CleanupStale(q)
           \/ \E c \in commands : ApplyCommand(c)
           \/ Lose
           \/ UNCHANGED vars
  <2>1. /\ UNCHANGED <<sessions, task, answered, handled>>
        /\ inbox' \subseteq inbox /\ outbox' \subseteq outbox
    BY <1>6 DEF GrowOld, CleanupStale, ApplyCommand, Lose, vars
  <2> QED BY <2>1, HomedFrame
<1> QED BY <1>1, <1>2, <1>3, <1>4, <1>5, <1>6 DEF Next, PeerStep, Wait

LEMMA PlacementInit == Init => PlacementInv
<1> SUFFICES ASSUME Init, NEW s \in Seids PROVE Unplaced(s)
  BY DEF PlacementInv
<1>1. \A t \in Tasks : UnplacedTask(task[t], s)
  BY DEF Init, UnplacedTask, IdleTask
<1>2. ~ HasSession(s)
  BY DEF Init, SessionTableInit, HasSession
<1> QED BY <1>1, <1>2 DEF Init, Unplaced

\* The parts of the invariant that all theorems about placement use.
SessionInv ==
    TypeInv /\ MessageInv /\ ArmInv /\ OnceInv /\ PlacementInv

LEMMA SessionInit == Init => SessionInv
BY InitTypes, MessageInit, ArmInit, OnceInit, PlacementInit DEF SessionInv

LEMMA SessionStep ==
    ASSUME OneOpenerPerSession, NodeMessagesHaveNoSeid, SessionInv, [Next]_vars
    PROVE  SessionInv'
<1>1. (TypeInv /\ MessageInv /\ ArmInv /\ OnceInv)'
  BY StepTypes, MessageStep, ArmStep, OnceStep DEF SessionInv
<1>2. ASSUME NEW s \in Seids
      PROVE  Unplaced(s)' \/ \E u \in Upfs : Homed(s, u)'
  <2>1. CASE Unplaced(s)
    BY <1>1, <2>1, UnplacedStep DEF SessionInv
  <2>2. ASSUME NEW u \in Upfs, Homed(s, u)
        PROVE  Homed(s, u)'
    BY <1>1, <2>2, HomedStep DEF SessionInv
  <2> QED BY <2>1, <2>2 DEF SessionInv, PlacementInv
<1>3. PlacementInv'
  BY <1>2 DEF PlacementInv, Seids
<1> QED BY <1>1, <1>3 DEF SessionInv

\* From its placement to its deletion a session has its mapping to the UPF that
\* answered, and back to its SMF, if one request, sent once, opens it: whatever
\* is lost, fails or expires, and however the pool changes.
THEOREM MappingsCorrect ==
    ASSUME OneOpenerPerSession, NodeMessagesHaveNoSeid
    PROVE  Spec => []EstablishedIsRoutable
<1>1. Init => SessionInv
  BY SessionInit
<1>2. SessionInv /\ [Next]_vars => SessionInv'
  BY SessionStep
<1>3. SessionInv => EstablishedIsRoutable
  <2> SUFFICES ASSUME SessionInv, NEW a \in answered, a.req \in Establishments,
                      a.req.seid # None,
                      \A r \in Deletions : r.seid = a.req.seid => ~ Requested(r)
               PROVE  sessions[a.req.seid] = [upf |-> a.by, smf |-> a.req.src]
    BY DEF EstablishedIsRoutable
  <2> DEFINE s == a.req.seid
  <2>1. a.req \in Requests /\ s \in Seids /\ a.req \in Openers /\ About(a, s)
    BY DEF Establishments, Seids, Openers, About, SmfRequestTypes
  <2>2. PICK u \in Upfs : Homed(s, u)
    BY <2>1 DEF SessionInv, PlacementInv, Unplaced
  <2>3. a.by = u /\ Mapping(s, u)
    BY <2>1, <2>2 DEF Homed
  <2>4. PICK r \in Openers : r.seid = s /\ sessions[s] = [upf |-> u, smf |-> r.src]
    BY <2>3 DEF Mapping
  <2>5. r = a.req
    BY <2>1, <2>4 DEF OneOpenerPerSession
  <2> QED BY <2>3, <2>4, <2>5
<1> QED BY <1>1, <1>2, <1>3, PTL DEF Spec

\* Every UPF step of Proxy is one of SessionAffinity: all requests of a session
\* reach one UPF, and it has the session before a modification or deletion.
THEOREM AffinityCorrect ==
    ASSUME OneOpenerPerSession, NodeMessagesHaveNoSeid
    PROVE  Spec => SessionsStayTogether
<1>1. Init => SessionInv
  BY SessionInit
<1>2. SessionInv /\ [Next]_vars => SessionInv'
  BY SessionStep
<1>3. Init => Affinity!Init
  BY DEF Init, Affinity!Init
<1>4. SessionInv /\ [Next]_vars => [Affinity!Next]_handled
  <2> SUFFICES ASSUME SessionInv, [Next]_vars, handled' # handled
               PROVE  Affinity!Next
    OBVIOUS
  <2>1. PICK d \in outbox : PeerHandles(d)
    <3>1. ~ \E t \in Tasks : HandleMessage(t)
      BY HandlerShares DEF SessionInv
    <3> QED BY <3>1 DEF Next, ReceiveSome, Receive, GrowOld, CleanupStale,
       ApplyCommand, SendRequest, PeerStep, PeerGetsResponse, Lose, Wait, vars, peerVars
  <2> DEFINE r == d.msg.req
             s == r.seid
  <2>2. /\ IsSmfRequest(d.msg) /\ s # None
        /\ handled' = handled \cup {[upf |-> d.to, seid |-> s, type |-> r.type]}
    BY <2>1 DEF PeerHandles
  <2>3. /\ r \in Requests /\ r.type \in SmfRequestTypes /\ s \in Seids
        /\ About(d.msg, s) /\ d.to \in Upfs /\ d.msg.kind = "request"
    BY <2>2, RequestFacts
       DEF SessionInv, TypeInv, TypeOK, Datagram, Message, IsSmfRequest, About
  <2>4. PICK u \in Upfs : Homed(s, u)
    BY <2>3 DEF SessionInv, PlacementInv, Unplaced
  <2>5. d.to = u /\ \A h \in handled : h.seid = s => h.upf = u
    BY <2>3, <2>4 DEF Homed
  <2>6. ~ Affinity!Elsewhere(u, s)
    BY <2>5 DEF Affinity!Elsewhere
  <2>7. r.type \in AffinityTypes => Affinity!HasSession(u, s)
    <3> SUFFICES ASSUME r.type \in AffinityTypes PROVE Affinity!HasSession(u, s)
      OBVIOUS
    <3>1. OpenedBefore(s)
      BY <2>3 DEF SessionInv, MessageInv, Caused
    <3> QED BY <2>5, <3>1 DEF OpenedBefore, Affinity!HasSession
  <2>8. Affinity!Handle(u, s, r.type)
    BY <2>2, <2>5, <2>6, <2>7 DEF Affinity!Handle
  <2> QED BY <2>3, <2>8 DEF Affinity!Next
<1> QED BY <1>1, <1>2, <1>3, <1>4, PTL DEF Spec, SessionsStayTogether, Affinity!Spec


-----------------------------------------------------------------------------
(***************************************************************************)
(* Deletions                                                               *)
(***************************************************************************)

\* Every datagram arrives, and every send succeeds; entries may still expire.
NothingIsLost == "loss" \notin Faults /\ "send_error" \notin Faults

\* Once on the way, a deletion stays so until it is there.
LEMMA PassedOnStep ==
    ASSUME NothingIsLost, TypeInv, [Next]_vars,
           NEW s \in Seids, NEW u, Homed(s, u), DeletionPassedOn(s)
    PROVE  DeletionPassedOn(s)'
<1> USE DEF tableVars, poolVars, netVars, peerVars
<1>0. task \in [Tasks -> Task] /\ s # None
  BY DEF TypeInv, TypeOK, Seids
<1>1. DeletionTypes \subseteq AffinityTypes /\ DeletionTypes \subseteq SmfRequestTypes
  BY DEF DeletionTypes, AffinityTypes, SmfRequestTypes
<1>2. ASSUME NEW h \in handled', h.seid = s, h.type \in DeletionTypes
      PROVE  DeletionPassedOn(s)'
  BY <1>2 DEF DeletionPassedOn
<1>3. ASSUME NEW d \in outbox', IsDeletion(d.msg, s)
      PROVE  DeletionPassedOn(s)'
  BY <1>3 DEF DeletionPassedOn, IsDeletion
<1>4. ASSUME NEW x \in Tasks, task'[x].pc \in {"register", "forward"},
             IsDeletion(task'[x].msg, s)
      PROVE  DeletionPassedOn(s)'
  BY <1>4 DEF DeletionPassedOn, IsDeletion, At, Msg
<1>5. CASE \E h \in handled : h.seid = s /\ h.type \in DeletionTypes
  BY <1>2, <1>5, Growing
<1>6. CASE \E d \in outbox : IsDeletion(d.msg, s)
  <2> PICK d \in outbox : IsDeletion(d.msg, s)
    BY <1>6
  <2>1. CASE d \in outbox'
    BY <1>3, <2>1
  <2>2. CASE d \notin outbox'
    <3>1. ~ \E t \in Tasks : HandleMessage(t)
      BY <2>2, HandlerShares
    <3>2. ~ Lose
      BY DEF Lose, NothingIsLost
    <3>3. PICK e \in outbox : PeerHandles(e) \/ PeerGetsResponse(e)
      BY <2>2, <3>1, <3>2 DEF Next, ReceiveSome, Receive, GrowOld, CleanupStale,
         ApplyCommand, SendRequest, PeerStep, Wait, vars
    <3>4. e = d
      BY <2>2, <3>3 DEF PeerHandles, PeerGetsResponse
    <3>5. PeerHandles(d)
      BY <3>3, <3>4 DEF PeerGetsResponse, IsDeletion
    <3> DEFINE h == [upf |-> d.to, seid |-> d.msg.req.seid, type |-> d.msg.req.type]
    <3>6. IsSmfRequest(d.msg) /\ d.msg.req.seid # None
      BY <1>0, <1>1 DEF IsSmfRequest, IsDeletion
    <3>7. h \in handled'
      BY <3>5, <3>6 DEF PeerHandles
    <3>8. h.seid = s /\ h.type \in DeletionTypes
      BY DEF IsDeletion
    <3> QED BY <1>2, <3>7, <3>8
  <2> QED BY <2>1, <2>2
<1>7. CASE \E x \in Tasks : (At(x, "register") \/ At(x, "forward"))
                            /\ IsDeletion(Msg(x), s)
  <2> PICK x \in Tasks : (At(x, "register") \/ At(x, "forward"))
                         /\ IsDeletion(Msg(x), s)
    BY <1>7
  <2> DEFINE k == task[x]
             m == Msg(x)
  <2>1. /\ k.pc \in {"register", "forward"} /\ k.pc # "idle"
        /\ m = k.msg /\ m.kind = "request" /\ About(m, s)
    BY <1>1 DEF At, Msg, IsDeletion, About
  <2>2. k \in Task /\ m \in Message /\ ~ k.is_broadcast
    BY <2>1, BusyTask DEF Homed, HomedTask, Message
  <2>3. CASE task'[x] = k
    BY <1>4, <2>1, <2>3
  <2>4. CASE task'[x] # k
    <3>1. HandleMessage(x)
      <4>1. ASSUME NEW t \in Tasks, NEW n \in inbox, Receive(t, n)
            PROVE  FALSE
        <5>1. x # t
          BY <2>1, <4>1 DEF Receive, At
        <5> QED BY <1>0, <2>4, <4>1, <5>1 DEF Receive, Become
      <4>2. PICK t \in Tasks : HandleMessage(t)
        BY <2>4, <4>1 DEF Next, ReceiveSome, GrowOld, CleanupStale, ApplyCommand,
           SendRequest, PeerStep, PeerHandles, PeerGetsResponse, Lose, Wait, vars
      <4> QED BY <2>4, <4>2, HandlerMoves
    <3>2. Moves(k, task'[x])
      BY <3>1, HandlerMoves
    <3>3. CASE k.pc = "register"
      <4>1. task'[x].pc = "forward" /\ task'[x].msg = m
        BY <2>1, <2>2, <3>2, <3>3 DEF Moves, Advances
      <4> QED BY <1>4, <4>1
    <3>4. CASE k.pc = "forward"
      <4> DEFINE d == [to |-> k.dest, msg |-> m]
      <4>1. d \in outbox' \/ ForwardFails(x)
        BY <3>1, <3>4, HandlerShares DEF At
      <4>2. d \in outbox'
        BY <4>1 DEF ForwardFails, NothingIsLost
      <4>3. IsDeletion(d.msg, s)
        OBVIOUS
      <4> QED BY <1>3, <4>2, <4>3
    <3> QED BY <2>1, <3>3, <3>4
  <2> QED BY <2>3, <2>4
<1> QED BY <1>5, <1>6, <1>7 DEF DeletionPassedOn

\* Only the handler of its deletion takes a session's mapping away.
LEMMA MappedStep ==
    ASSUME TypeInv, ArmInv, [Next]_vars,
           NEW s \in Seids, NEW u, Homed(s, u), HasSession(s)
    PROVE  HasSession(s)' \/ DeletionPassedOn(s)'
<1> USE DEF tableVars, poolVars, netVars, peerVars
<1>1. CASE sessions'[s] = sessions[s]
  BY <1>1 DEF HasSession
<1>2. CASE sessions'[s] # sessions[s]
  <2>1. PICK t \in Tasks : HandleMessage(t)
    BY <1>2 DEF Next, ReceiveSome, Receive, GrowOld, CleanupStale, ApplyCommand,
       SendRequest, PeerStep, PeerHandles, PeerGetsResponse, Lose, Wait, vars
  <2> DEFINE k == task[t]
             m == Msg(t)
  <2>2. About(m, s) /\ k.pc \in {"place", "unmap"}
    BY <1>2, <2>1, MappingKept DEF At
  <2>3. /\ Moves(k, task'[t]) /\ m = k.msg /\ m.kind = "request"
        /\ ArmTask(k) /\ HomedTask(k, s, u)
    BY <2>1, <2>2, HandlerMoves, BusyTask
       DEF WellFormed, RouteSteps, IsSmfRequest, ArmInv, Homed
  <2>4. k.pc = "unmap" /\ m.req.type \in DeletionTypes
    BY <2>2, <2>3 DEF HomedTask
  <2>5. task'[t].pc = "register" /\ task'[t].msg = m
    BY <2>3, <2>4 DEF Moves, Advances
  <2>6. IsDeletion(m, s)
    BY <2>2, <2>3, <2>4 DEF About, IsDeletion
  <2> QED BY <2>5, <2>6 DEF DeletionPassedOn, IsDeletion, At, Msg
<1> QED BY <1>1, <1>2

LEMMA DeletionStep ==
    ASSUME OneOpenerPerSession, NodeMessagesHaveNoSeid, NothingIsLost,
           SessionInv, SessionInv', DeletionInv, [Next]_vars
    PROVE  DeletionInv'
<1>1. ASSUME NEW s \in Seids
      PROVE  Unplaced(s)' \/ HasSession(s)' \/ DeletionPassedOn(s)'
  <2>1. CASE Unplaced(s)
    BY <2>1, UnplacedStep DEF SessionInv
  <2>2. CASE ~ Unplaced(s)
    <3>1. PICK u \in Upfs : Homed(s, u)
      BY <2>2 DEF SessionInv, PlacementInv
    <3> QED BY <2>2, <3>1, MappedStep, PassedOnStep DEF SessionInv, DeletionInv
  <2> QED BY <2>1, <2>2
<1> QED BY <1>1 DEF DeletionInv, Seids

\* As long as no datagram is lost and no send fails, the proxy forgets a
\* session only to delete it: at rest the UPF has the deletion, or the table
\* still has the session.
THEOREM NoOrphansCorrect ==
    ASSUME OneOpenerPerSession, NodeMessagesHaveNoSeid, NothingIsLost
    PROVE  Spec => []NoOrphanedSession
<1> DEFINE Inv == SessionInv /\ DeletionInv
<1>1. Init => Inv
  <2>1. Init => \A s \in Seids : Unplaced(s)
    <3> SUFFICES ASSUME Init, NEW s \in Seids PROVE Unplaced(s)
      OBVIOUS
    <3>1. \A t \in Tasks : UnplacedTask(task[t], s)
      BY DEF Init, UnplacedTask, IdleTask
    <3> QED BY <3>1 DEF Init, SessionTableInit, HasSession, Unplaced
  <2> QED BY <2>1, SessionInit DEF DeletionInv
<1>2. Inv /\ [Next]_vars => Inv'
  BY SessionStep, DeletionStep
<1>3. Inv => NoOrphanedSession
  <2> SUFFICES ASSUME Inv, Quiet, NEW h \in handled, ~ HasSession(h.seid)
               PROVE  HasHandled(h.upf, h.seid, DeletionTypes)
    BY DEF NoOrphanedSession
  <2> DEFINE s == h.seid
  <2>1. s \in Seids /\ ~ Unplaced(s)
    BY DEF SessionInv, TypeInv, TypeOK, Handled, Unplaced
  <2>2. DeletionPassedOn(s)
    BY <2>1 DEF DeletionInv
  <2>3. PICK g \in handled : g.seid = s /\ g.type \in DeletionTypes
    BY <2>2 DEF DeletionPassedOn, Quiet, At
  <2>4. PICK u \in Upfs : Homed(s, u)
    BY <2>1 DEF SessionInv, PlacementInv
  <2>5. g.upf = h.upf
    BY <2>3, <2>4 DEF Homed
  <2> QED BY <2>3, <2>5 DEF HasHandled
<1> QED BY <1>1, <1>2, <1>3, PTL DEF Spec


-----------------------------------------------------------------------------
(***************************************************************************)
(* Counters                                                                *)
(***************************************************************************)
Mapped == {s \in Seids : HasSession(s)}

LEMMA MappedFinite == IsFiniteSet(Mapped)
<1> DEFINE T == {r.seid : r \in Requests}
           f == [r \in Requests |-> r.seid]
<1>1. f \in Surjection(Requests, T)
  BY DEF Surjection
<1>2. IsFiniteSet(T)
  BY <1>1, RequestAssumption, FS_Surjection
<1>3. Mapped \in SUBSET T
  BY DEF Mapped, Seids
<1> QED BY <1>2, <1>3, FS_Subset

\* The sum, with names for its two cardinalities.
AddsUp ==
    stats.sessions_established
        = stats.sessions_deleted + Cardinality(Mapped) - Cardinality(Unmapping)

LEMMA AddsUpIs == ActiveSessionsAddUp <=> AddsUp
BY DEF ActiveSessionsAddUp, AddsUp, Mapped, Unmapping

\* Steps that neither map, unmap nor count a session.
LEMMA CountFrame ==
    ASSUME UnmapInv, AddsUp, UNCHANGED sessions,
           stats'.sessions_established = stats.sessions_established,
           stats'.sessions_deleted = stats.sessions_deleted,
           \A x \in Tasks : \/ task'[x] = task[x]
                            \/ task[x].pc # "unmap" /\ task'[x].pc # "unmap"
    PROVE  UnmapInv' /\ AddsUp'
<1>1. Unmapping' = Unmapping /\ Mapped' = Mapped
  BY DEF Unmapping, Mapped, HasSession, At
<1>2. \A x \in Unmapping : task'[x] = task[x]
  BY DEF Unmapping, At
<1>3. \A x \in Unmapping : (HasSession(Seid(x)) /\ Msg(x).req \in Deletions)'
  BY <1>2 DEF UnmapInv, HasSession, Seid, Msg, Deletions
<1>4. UnmapInv'
  BY <1>1, <1>3 DEF UnmapInv
<1>5. AddsUp'
  BY <1>1 DEF AddsUp
<1> QED BY <1>4, <1>5

\* A session is mapped, and counted as established.
LEMMA CountPlace ==
    ASSUME OnlyEstablishmentsOpen, SessionInv, UnmapInv, AddsUp,
           NEW t \in Tasks, Place(t), HandleMessage(t)
    PROVE  UnmapInv' /\ AddsUp'
<1> DEFINE k == task[t]
           m == Msg(t)
           s == Seid(t)
<1> USE DEF poolVars, netVars, peerVars
<1>1. /\ k.pc = "place" /\ Moves(k, task'[t]) /\ stats \in [Counters -> Nat]
      /\ \A x \in Tasks : x # t => task'[x] = task[x]
  BY HandlerMoves DEF Place, At, SessionInv, TypeInv, TypeOK, StatisticsTypeOK
<1>2. /\ task'[t].pc # "unmap" /\ s = m.req.seid
      /\ m = k.msg /\ m.kind = "request" /\ IsSmfRequest(m) /\ m.req \in Requests
      /\ m.req.type \in EstablishmentTypes \cup OtherTypes
      /\ k.dest \in Upfs /\ m.by \in Smfs
  <2>1. task'[t].pc # "unmap" /\ ArmTask(k) /\ FromSource(m) /\ WellFormed(k)
        /\ m.req \in Requests /\ m = k.msg
    BY <1>1, BusyTask DEF SessionInv, ArmInv, Moves, Advances
  <2>2. IsSmfRequest(m) /\ m.kind = "request" /\ k.dest \in Upfs /\ m.by = m.req.src
    BY <1>1, <2>1 DEF WellFormed, RouteSteps, IsSmfRequest, FromSource
  <2> QED BY <1>1, <2>1, <2>2, RequestFacts DEF ArmTask, IsSmfRequest, Seid
<1>3. stats'.sessions_deleted = stats.sessions_deleted
  BY <1>1 DEF Place, Record, Counters
<1>4. CASE m.req.type \notin EstablishmentTypes
  <2>1. s = None
    BY <1>2, <1>4 DEF OnlyEstablishmentsOpen, Openers, Establishments
  <2>2. UNCHANGED sessions
    BY <2>1 DEF Place
  <2>3. stats'.sessions_established = stats.sessions_established
    BY <1>1, <1>4 DEF Place, Record, Counters
  <2> QED BY <1>1, <1>2, <1>3, <2>2, <2>3, CountFrame
<1>5. CASE m.req.type \in EstablishmentTypes
  <2>1. m.req \in Establishments /\ m.req \in Openers
    BY <1>2, <1>5 DEF OnlyEstablishmentsOpen, Establishments
  <2>2. s \in Seids /\ s # None /\ About(m, s)
    BY <1>2, <1>5, <2>1 DEF Openers, Seids, About, SmfRequestTypes
  <2>3. ~ HasSession(s)
    <3>1. ASSUME NEW u, Homed(s, u) PROVE FALSE
      <4>1. HomedTask(k, s, u)
        BY <3>1 DEF Homed
      <4> QED BY <1>1, <1>2, <2>2, <4>1 DEF HomedTask
    <3> QED BY <2>2, <3>1 DEF SessionInv, PlacementInv, Unplaced
  <2>4. \A x \in Seids : sessions'[x] = IF x = s THEN [upf |-> k.dest, smf |-> m.by]
                                                ELSE sessions[x]
    BY <2>2 DEF Place, SessionInsert, SessionInv, TypeInv, TypeOK, SessionTableTypeOK
  <2>5. [upf |-> k.dest, smf |-> m.by] # None
    BY <1>2, NoEntryAssumption DEF SessionInfo
  <2>6. \A x \in Seids : sessions'[x] # None <=> x = s \/ sessions[x] # None
    BY <2>4, <2>5
  <2>7. Mapped' = Mapped \cup {s} /\ s \notin Mapped
    BY <2>2, <2>3, <2>6 DEF Mapped, HasSession
  <2>8. Cardinality(Mapped') = Cardinality(Mapped) + 1 /\ Cardinality(Mapped) \in Nat
    BY <2>7, MappedFinite, FS_AddElement, FS_CardinalityType
  <2>9. Unmapping' = Unmapping
    BY <1>1, <1>2 DEF Unmapping, At
  <2>10. stats'.sessions_established = stats.sessions_established + 1
    BY <1>1, <1>5 DEF Place, Record, Counters
  <2>11. Cardinality(Unmapping) \in Nat
    BY FS_CardinalityType DEF UnmapInv
  <2>12. stats.sessions_established \in Nat /\ stats.sessions_deleted \in Nat
    BY <1>1 DEF Counters
  <2>13. AddsUp'
    BY <1>3, <2>8, <2>9, <2>10, <2>11, <2>12 DEF AddsUp
  <2>14. \A x \in Unmapping : (HasSession(Seid(x)) /\ Msg(x).req \in Deletions)'
    <3> SUFFICES ASSUME NEW x \in Unmapping
                 PROVE  (HasSession(Seid(x)) /\ Msg(x).req \in Deletions)'
      OBVIOUS
    <3>1. x \in Tasks /\ task'[x] = task[x]
      BY <1>1 DEF Unmapping, At
    <3>2. HasSession(Seid(x)) /\ Msg(x).req \in Deletions /\ Seid(x) \in Seids
      <4>1. task[x].pc = "unmap"
        BY DEF Unmapping, At
      <4> QED BY <3>1, <4>1, BusyTask
           DEF UnmapInv, SessionInv, WellFormed, Seid, Msg
    <3> QED BY <2>6, <3>1, <3>2 DEF HasSession, Seid, Msg, Deletions
  <2> QED BY <2>9, <2>13, <2>14 DEF UnmapInv
<1> QED BY <1>4, <1>5

\* A deletion is counted, and its session is still to be unmapped.
LEMMA CountLookup ==
    ASSUME SessionInv, UnmapInv, AddsUp, NEW t \in Tasks, LookupFound(t),
           HandleMessage(t)
    PROVE  UnmapInv' /\ AddsUp'
<1> DEFINE k == task[t]
           m == Msg(t)
<1> USE DEF tableVars
<1>1. /\ k.pc = "lookup" /\ stats \in [Counters -> Nat] /\ m = k.msg
      /\ UNCHANGED sessions /\ HasSession(Seid(t)) /\ m.req \in Requests
      /\ \A x \in Tasks : x # t => task'[x] = task[x]
  BY HandlerMoves, BusyTask
     DEF LookupFound, At, SessionInv, TypeInv, TypeOK, StatisticsTypeOK
<1>2. task'[t] = [k EXCEPT !.pc = IF m.req.type \in DeletionTypes THEN "unmap"
                                                                 ELSE "register",
                           !.dest = sessions[Seid(t)].upf]
  BY DEF LookupFound, Become, SessionInv, TypeInv, TypeOK
<1>3. /\ task'[t].pc = IF m.req.type \in DeletionTypes THEN "unmap" ELSE "register"
      /\ task'[t].msg = m
  BY <1>1, <1>2 DEF SessionInv, TypeInv, TypeOK, Task
<1>4. stats'.sessions_established = stats.sessions_established
  BY <1>1 DEF LookupFound, Record, Counters
<1>5. CASE m.req.type \notin DeletionTypes
  <2>1. stats'.sessions_deleted = stats.sessions_deleted
    BY <1>1, <1>5 DEF LookupFound, Record, Counters
  <2> QED BY <1>1, <1>3, <1>4, <1>5, <2>1, CountFrame
<1>6. CASE m.req.type \in DeletionTypes
  <2>1. stats'.sessions_deleted = stats.sessions_deleted + 1
    BY <1>1, <1>6 DEF LookupFound, Record, Counters
  <2>2. Unmapping' = Unmapping \cup {t} /\ t \notin Unmapping
    BY <1>1, <1>3, <1>6 DEF Unmapping, At
  <2>3. /\ Cardinality(Unmapping') = Cardinality(Unmapping) + 1
        /\ Cardinality(Unmapping) \in Nat
        /\ IsFiniteSet(Unmapping')
    BY <2>2, FS_AddElement, FS_CardinalityType DEF UnmapInv
  <2>4. Mapped' = Mapped /\ Cardinality(Mapped) \in Nat
    BY <1>1, MappedFinite, FS_CardinalityType DEF Mapped, HasSession
  <2>5. stats.sessions_established \in Nat /\ stats.sessions_deleted \in Nat
    BY <1>1 DEF Counters
  <2>6. AddsUp'
    BY <1>4, <2>1, <2>3, <2>4, <2>5 DEF AddsUp
  <2>7. \A x \in Unmapping' : (HasSession(Seid(x)) /\ Msg(x).req \in Deletions)'
    <3> SUFFICES ASSUME NEW x \in Unmapping'
                 PROVE  (HasSession(Seid(x)) /\ Msg(x).req \in Deletions)'
      OBVIOUS
    <3>1. CASE x = t
      BY <1>1, <1>3, <1>6, <3>1 DEF HasSession, Seid, Msg, Deletions
    <3>2. CASE x # t
      <4>1. x \in Unmapping /\ task'[x] = task[x]
        BY <1>1, <2>2, <3>2 DEF Unmapping
      <4> QED BY <1>1, <4>1 DEF UnmapInv, HasSession, Seid, Msg, Deletions
    <3> QED BY <3>1, <3>2
  <2> QED BY <2>3, <2>6, <2>7 DEF UnmapInv
<1> QED BY <1>5, <1>6

\* A session is unmapped, and by no other handler at the same time.
LEMMA CountUnmap ==
    ASSUME OneDeletionPerSession, SessionInv, UnmapInv, AddsUp,
           NEW t \in Tasks, Unmap(t), HandleMessage(t)
    PROVE  UnmapInv' /\ AddsUp'
<1> DEFINE k == task[t]
           m == Msg(t)
           s == Seid(t)
<1> USE DEF poolVars, netVars
<1>1. /\ k.pc = "unmap" /\ Moves(k, task'[t]) /\ stats \in [Counters -> Nat]
      /\ \A x \in Tasks : x # t => task'[x] = task[x]
  BY HandlerMoves DEF Unmap, At, SessionInv, TypeInv, TypeOK, StatisticsTypeOK
<1>2. task'[t].pc = "register" /\ t \in Unmapping
  BY <1>1 DEF Moves, Advances, Unmapping, At
<1>3. ASSUME NEW x \in Unmapping
      PROVE  /\ x \in Tasks /\ HasSession(Seid(x)) /\ Seid(x) \in Seids
             /\ Msg(x).req \in Deletions /\ Msg(x) = RequestMsg(Msg(x).req)
             /\ Carries(x, Msg(x).req)
  <2>1. x \in Tasks /\ task[x].pc = "unmap"
    BY DEF Unmapping, At
  <2>2. /\ HasSession(Seid(x)) /\ Msg(x).req \in Deletions
        /\ Msg(x) \in Message /\ FromSource(Msg(x)) /\ WellFormed(task[x])
        /\ Msg(x) = task[x].msg
    BY <2>1, BusyTask DEF UnmapInv, SessionInv
  <2>3. Msg(x).kind = "request" /\ Seid(x) \in Seids
    BY <2>1, <2>2 DEF WellFormed, RouteSteps, IsSmfRequest, Seid
  <2>4. Msg(x) = RequestMsg(Msg(x).req)
    BY <2>2, <2>3, RequestIs
  <2> QED BY <2>1, <2>2, <2>3, <2>4 DEF Carries, At
<1>4. s \in Seids /\ HasSession(s)
  BY <1>2, <1>3
<1>5. \A x \in Seids : sessions'[x] = IF x = s THEN None ELSE sessions[x]
  BY <1>4 DEF Unmap, SessionRemove, SessionInv, TypeInv, TypeOK, SessionTableTypeOK
<1>6. Mapped' = Mapped \ {s} /\ s \in Mapped
  BY <1>4, <1>5 DEF Mapped, HasSession
<1>7. Unmapping' = Unmapping \ {t}
  BY <1>1, <1>2 DEF Unmapping, At
<1>8. /\ Cardinality(Mapped') = Cardinality(Mapped) - 1 /\ Cardinality(Mapped) \in Nat
      /\ Cardinality(Unmapping') = Cardinality(Unmapping) - 1
      /\ Cardinality(Unmapping) \in Nat
      /\ IsFiniteSet(Unmapping')
  BY <1>2, <1>6, <1>7, MappedFinite, FS_RemoveElement, FS_CardinalityType DEF UnmapInv
<1>9. UNCHANGED stats /\ stats.sessions_established \in Nat
      /\ stats.sessions_deleted \in Nat
  BY <1>1 DEF Unmap, Counters
<1>10. AddsUp'
  BY <1>8, <1>9 DEF AddsUp
<1>11. ASSUME NEW x \in Unmapping, x # t
       PROVE  Seid(x) # s
  <2> SUFFICES ASSUME Seid(x) = s PROVE FALSE
    OBVIOUS
  <2>1. Msg(x).req = m.req
    BY <1>2, <1>3 DEF OneDeletionPerSession, Seid
  <2>2. m.req \in Requests /\ Copies[m.req] <= 1
    BY <1>2, <1>3 DEF OneDeletionPerSession, Deletions
  <2>3. Carries(x, m.req) /\ Carries(t, m.req)
    BY <1>2, <1>3, <2>1
  <2>4. x \in Tasks
    BY <1>3
  <2> QED BY <1>11, <2>2, <2>3, <2>4 DEF SessionInv, OnceInv
<1>12. \A x \in Unmapping' : (HasSession(Seid(x)) /\ Msg(x).req \in Deletions)'
  <2> SUFFICES ASSUME NEW x \in Unmapping'
               PROVE  (HasSession(Seid(x)) /\ Msg(x).req \in Deletions)'
    OBVIOUS
  <2>1. x \in Unmapping /\ x # t
    BY <1>7
  <2>2. /\ task'[x] = task[x] /\ HasSession(Seid(x)) /\ Seid(x) \in Seids
        /\ Msg(x).req \in Deletions /\ Seid(x) # s
    BY <1>1, <1>3, <1>11, <2>1
  <2> QED BY <1>5, <2>2 DEF HasSession, Seid, Msg, Deletions
<1> QED BY <1>8, <1>10, <1>12 DEF UnmapInv

LEMMA CountHandler ==
    ASSUME OnlyEstablishmentsOpen, OneDeletionPerSession,
           SessionInv, UnmapInv, AddsUp, NEW t \in Tasks, HandleMessage(t)
    PROVE  UnmapInv' /\ AddsUp'
<1> DEFINE k == task[t]
<1> USE DEF tableVars, poolVars, netVars, peerVars
<1>1. TypeInv /\ stats \in [Counters -> Nat]
  BY DEF SessionInv, TypeInv, TypeOK, StatisticsTypeOK
<1>2. Moves(k, task'[t]) /\ \A x \in Tasks : x # t => task'[x] = task[x]
  BY <1>1, HandlerMoves
<1>3. CASE Place(t) \/ LookupFound(t) \/ Unmap(t)
  BY <1>3, CountPlace, CountLookup, CountUnmap
<1>4. CASE ~ (Place(t) \/ LookupFound(t) \/ Unmap(t))
  <2>1. /\ k.pc \notin {"place", "lookup", "unmap"} \/ LookupMissed(t)
        /\ UNCHANGED sessions
    BY <1>4 DEF HandleMessage, At, FanOut, Select, Turn, CountBackend, LookupMissed,
       OwnerOf, Register, Forward, ForwardFails, Unregister, BroadcastOne,
       BroadcastOneFails, EndBroadcast, MatchFound, MatchMissed, Reply, ReplyFails,
       Tally, Retire
  <2>2. k.pc # "unmap"
    BY <2>1 DEF LookupMissed, At
  <2>3. task'[t].pc # "unmap"
    <3>1. CASE LookupMissed(t)
      <4>1. k.pc = "lookup" /\ ~ HasSession(k.msg.req.seid)
        BY <3>1 DEF LookupMissed, At, Seid, Msg
      <4> QED BY <1>2, <4>1 DEF Moves, Advances
    <3>2. CASE k.pc \notin {"place", "lookup", "unmap"}
      BY <1>2, <3>2 DEF Moves, Advances, ResponseSteps
    <3> QED BY <2>1, <3>1, <3>2
  <2>4. /\ stats'.sessions_established = stats.sessions_established
        /\ stats'.sessions_deleted = stats.sessions_deleted
    BY <1>1, <1>4 DEF HandleMessage, FanOut, Select, Turn, CountBackend, LookupMissed,
       OwnerOf, Register, Forward, ForwardFails, Unregister, BroadcastOne,
       BroadcastOneFails, EndBroadcast, MatchFound, MatchMissed, Reply, ReplyFails,
       Tally, Retire, Record, Counters
  <2> QED BY <1>2, <2>1, <2>2, <2>3, <2>4, CountFrame
<1> QED BY <1>3, <1>4

LEMMA CountStep ==
    ASSUME OnlyEstablishmentsOpen, OneDeletionPerSession,
           SessionInv, UnmapInv, AddsUp, [Next]_vars
    PROVE  UnmapInv' /\ AddsUp'
<1> USE DEF tableVars, poolVars, netVars, peerVars
<1>0. task \in [Tasks -> Task] /\ stats \in [Counters -> Nat]
  BY DEF SessionInv, TypeInv, TypeOK, StatisticsTypeOK
<1>1. CASE ReceiveSome
  <2> PICK t \in Tasks, m \in inbox : Receive(t, m)
    BY <1>1 DEF ReceiveSome
  <2>1. m \in Message
    BY DEF SessionInv, TypeInv, TypeOK
  <2>2. /\ \A x \in Tasks : x # t => task'[x] = task[x]
        /\ task'[t] = task[t] \/ task'[t].pc = FirstStep(m)
        /\ task[t].pc # "unmap"
    BY <1>0 DEF Receive, Become, IdleTask, At
  <2>3. FirstStep(m) # "unmap"
    BY <2>1, FirstStepFacts
  <2>4. /\ stats'.sessions_established = stats.sessions_established
        /\ stats'.sessions_deleted = stats.sessions_deleted
    BY <1>0 DEF Receive, Record, Counters
  <2> QED BY <2>2, <2>3, <2>4, CountFrame DEF Receive
<1>2. CASE \/ \E q \in Seqs : GrowOld(q) \/ CleanupStale(q)
           \/ \E c \in commands : ApplyCommand(c)
           \/ \E r \in Requests : SendRequest(r)
           \/ PeerStep
           \/ Lose
           \/ UNCHANGED vars
  <2>1. UNCHANGED <<sessions, task, stats>>
    BY <1>2 DEF GrowOld, CleanupStale, ApplyCommand, SendRequest, PeerStep,
       PeerHandles, PeerGetsResponse, Lose, vars
  <2> QED BY <2>1, CountFrame
<1> QED BY <1>1, <1>2, CountHandler DEF Next, Wait

\* The counters of established and deleted sessions agree with the table, if
\* each session has one establishment and one deletion, each sent once.
THEOREM CountersCorrect ==
    ASSUME OneOpenerPerSession, NodeMessagesHaveNoSeid, OnlyEstablishmentsOpen,
           OneDeletionPerSession
    PROVE  Spec => []ActiveSessionsAddUp
<1> DEFINE Inv == SessionInv /\ UnmapInv /\ AddsUp
<1>1. Init => Inv
  <2> SUFFICES ASSUME Init PROVE Unmapping = {} /\ Mapped = {} /\ AddsUp
    BY SessionInit, FS_EmptySet DEF UnmapInv, Unmapping
  <2>1. Unmapping = {} /\ Mapped = {}
    BY DEF Init, IdleTask, At, Unmapping, Mapped, SessionTableInit, HasSession
  <2> QED BY <2>1, FS_EmptySet DEF Init, StatisticsInit, Counters, AddsUp
<1>2. Inv /\ [Next]_vars => Inv'
  BY SessionStep, CountStep
<1>3. Inv => ActiveSessionsAddUp
  BY AddsUpIs
<1> QED BY <1>1, <1>2, <1>3, PTL DEF Spec

=============================================================================
