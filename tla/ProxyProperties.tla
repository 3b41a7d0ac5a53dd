-------------------------- MODULE ProxyProperties ---------------------------
(***************************************************************************)
(* What the proxy should do, over the state of Proxy.  Which property      *)
(* holds under which circumstances is said at the property and in the run  *)
(* that checks it.                                                         *)
(***************************************************************************)
EXTENDS Proxy

Requested(r) == sends[r] > 0

\* The request types that open a session, and so give its SEID a UPF.
Establishments == {r \in Requests : r.type \in EstablishmentTypes}

Deletions == {r \in Requests : r.type \in DeletionTypes}

\* No two senders use the same sequence number.  Nothing makes SMFs and UPFs
\* agree on that: it is a condition of properties, not a fact.
OneOwnerPerSeq ==
    \A r1, r2 \in Requests : r1.seq = r2.seq => r1.src = r2.src

-----------------------------------------------------------------------------
\* A response that handle_response sends goes to the peer whose request it
\* answers, whatever else used the table of pending requests in between:
\* "maps sequence number to origin address for response forwarding"
\* (src/session.rs).
RepliesReachTheirOrigin ==
    \A d \in outbox : d.msg.kind = "response" => d.to = d.msg.req.src

\* A report that handle_upf_request forwards comes from a UPF that has the
\* session and goes to the SMF that established it.
ReportsReachTheSessionsSmf ==
    \A d \in outbox : IsUpfRequest(d.msg) =>
        /\ HasHandled(d.msg.by, d.msg.req.seid, EstablishmentTypes)
        /\ \A r \in Establishments : r.seid = d.msg.req.seid => r.src = d.to

\* Once the SMF has the answer to an establishment, and until it asks for the
\* deletion, the table leads to the UPF that answered and back to that SMF.
EstablishedIsRoutable ==
    \A a \in answered :
        (/\ a.req \in Establishments
         /\ a.req.seid # None
         /\ \A r \in Deletions : r.seid = a.req.seid => ~ Requested(r))
        => sessions[a.req.seid] = [upf |-> a.by, smf |-> a.req.src]

\* With the network at rest, no UPF holds a session that the proxy forgot:
\* a session was unmapped only to pass its deletion on to its UPF.
NoOrphanedSession ==
    Quiet =>
        \A h \in handled :
            \/ h.type \notin EstablishmentTypes
            \/ HasSession(h.seid)
            \/ HasHandled(h.upf, h.seid, DeletionTypes)

\* handle_response drops a response only if cleanup_stale had removed the
\* pending request ("Cause: Pending request timeout", README.md).
DropsOnlyAfterTimeout ==
    [][\A t \in Tasks :
          /\ At(t, "match")
          /\ stats'.responses_dropped > stats.responses_dropped
          /\ task'[t] # task[t]
          => SeqNo(t) \in expired]_vars

\* With the network at rest, and no help from cleanup_stale, the entries left
\* are those of requests that no peer answers: an answered request frees its
\* sequence number, a broadcast after the last of its answers.
SettledEntriesLeave ==
    Quiet =>
        \A q \in Seqs : IsPending(q) =>
            \E r \in Requests : r.seq = q /\ r.type \notin AnsweredTypes

\* "Sessions Established" less "Sessions Deleted" is the number of sessions in
\* the table, but for deletions that are counted and not yet removed.
ActiveSessionsAddUp ==
    stats.sessions_established
        = stats.sessions_deleted
          + Cardinality({s \in Seids : HasSession(s)})
          - Cardinality({t \in Tasks : At(t, "unmap")})

-----------------------------------------------------------------------------
(***************************************************************************)
(* Load balancing                                                          *)
(***************************************************************************)
PoolMembers == {backends[i] : i \in 1 .. Len(backends)}

\* The establishments on their way into the table at u.
PlacingAt(u) == {t \in Tasks : At(t, "place") /\ task[t].dest = u}

Load(u) == Cardinality(SessionsOf(u)) + Cardinality(PlacingAt(u))

\* Round robin (and weighted, with equal weights) spreads the sessions of a
\* fixed pool evenly, also when tasks select at the same time ("Distributes
\* sessions evenly", README.md).
EvenPlacement ==
    strategy # "least-sessions" =>
        \A u, v \in PoolMembers : Load(u) <= Load(v) + 1

\* Concurrent tasks may all choose the backend that was least loaded; that is
\* as far as least-sessions drifts.
LeastSessionsSpread ==
    strategy = "least-sessions" =>
        \A u, v \in PoolMembers :
            Cardinality(SessionsOf(u))
                <= Cardinality(SessionsOf(v)) + Cardinality(Tasks)

-----------------------------------------------------------------------------
(***************************************************************************)
(* Session affinity as a refinement                                        *)
(***************************************************************************)
Affinity == INSTANCE SessionAffinity
    WITH Types <- SmfRequestTypes, FollowingTypes <- AffinityTypes

\* "SEID-based routing ensures all messages for a session go to the same UPF".
SessionsStayTogether == Affinity!Spec

-----------------------------------------------------------------------------
(***************************************************************************)
(* Liveness, under FairSpec.  That requests are answered is in TestSmf.     *)
(***************************************************************************)

\* No pending entry stays for good, also if the answer never comes.
PendingDrains == \A q \in Seqs : []<>(~ IsPending(q))

=============================================================================
