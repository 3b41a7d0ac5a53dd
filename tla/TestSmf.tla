------------------------------ MODULE TestSmf -------------------------------
(***************************************************************************)
(* The test client (src/bin/test-smf.rs) in front of the proxy: one of the *)
(* SMFs runs a script.  A script is a sequence of phases; a phase sends    *)
(* its requests without looking at the socket, then wait_for_responses     *)
(* counts as many datagrams as were sent, whatever they are, or times out. *)
(* Until a wait reads it, a datagram stays in the socket; when the program *)
(* has ended, it is lost.                                                  *)
(***************************************************************************)
EXTENDS ProxyProperties

CONSTANTS
    Client,         \* the address of the test client
    Scripts,        \* the scripts it may be started with
    MaxTimeouts     \* how many of its waits may time out

ASSUME ClientAssumption ==
    /\ Client \in Smfs
    /\ Scripts \subseteq Seq(Seq({r \in Requests : r.src = Client}))
    /\ MaxTimeouts \in Nat

VARIABLES
    script,     \* the script chosen on the command line
    phase,      \* the phase it is in
    sent,       \* how many requests of this phase were sent
    received,   \* how many datagrams this phase's wait has counted
    timeouts    \* how many waits timed out (history, for the properties)

clientVars == <<script, phase, sent, received, timeouts>>

-----------------------------------------------------------------------------
(***************************************************************************)
(* The scripts.  next_sequence numbers the requests from 1 on.             *)
(***************************************************************************)
RequestOf(type, seid, seq) ==
    [type |-> type, seid |-> seid, seq |-> seq, src |-> Client]

HeartbeatPhase(n) == [i \in 1 .. n |-> RequestOf("HeartbeatRequest", None, i)]

\* n sessions, after q requests have been sent.
EstablishPhase(n, q) ==
    [i \in 1 .. n |-> RequestOf("SessionEstablishmentRequest", i, q + i)]

DeletePhase(n, q) ==
    [i \in 1 .. n |-> RequestOf("SessionDeletionRequest", i, q + i)]

HeartbeatTest(count) == <<HeartbeatPhase(count)>>

SessionTest(count, delete) ==
    IF delete THEN <<EstablishPhase(count, 0), DeletePhase(count, count)>>
              ELSE <<EstablishPhase(count, 0)>>

LoadBalanceTest(n) == <<EstablishPhase(n, 0)>>

\* The code sends k = 3 heartbeats.
FullTest(k, n) ==
    <<HeartbeatPhase(k),
      <<RequestOf("AssociationSetupRequest", None, k + 1)>>,
      EstablishPhase(n, k + 1),
      DeletePhase(n, k + 1 + n)>>

Elements(p) == {p[i] : i \in 1 .. Len(p)}

\* The requests of a set of scripts, for the definition of Requests.
RequestsOf(scripts) == UNION {Elements(p) : p \in UNION {Elements(s) : s \in scripts}}

-----------------------------------------------------------------------------
TestInit ==
    /\ Init
    /\ script \in Scripts
    /\ phase = 1
    /\ sent = 0
    /\ received = 0
    /\ timeouts = 0

GaveUp == timeouts > 0

Finished == phase > Len(script)

Expected == Len(script[phase])

Waiting == ~ Finished /\ sent = Expected

NextPhase ==
    /\ phase' = phase + 1
    /\ sent' = 0
    /\ received' = 0

ClientSends ==
    /\ ~ Finished
    /\ sent < Expected
    /\ LET r == script[phase][sent + 1]
       IN  /\ inbox' = inbox \cup {RequestMsg(r)}
           /\ sends' = [sends EXCEPT ![r] = @ + 1]
    /\ sent' = sent + 1
    /\ UNCHANGED <<tableVars, poolVars, stats, task, outbox, commands, answered,
                   handled, expired, script, phase, received, timeouts>>

\* Any datagram counts; only a response to the client's own request answers it.
Reads(d) ==
    /\ d \in outbox
    /\ d.to = Client
    /\ outbox' = outbox \ {d}
    /\ answered' = answered \cup
          {a \in {[req |-> d.msg.req, by |-> d.msg.by]} :
              d.msg.kind = "response" /\ d.msg.req.src = Client}
    /\ UNCHANGED <<tableVars, poolVars, stats, task, inbox, commands, sends,
                   handled, expired, script, timeouts>>

\* Mutant: the count of the last wait is kept.
ClientReceives_KeepsCount(d) ==
    /\ Waiting
    /\ Reads(d)
    /\ received' = received + 1
    /\ IF received + 1 >= Expected
          THEN phase' = phase + 1 /\ sent' = 0
          ELSE UNCHANGED <<phase, sent>>

\* Mutant: the wait is over one datagram early.
ClientReceives_Early(d) ==
    /\ Waiting
    /\ Reads(d)
    /\ IF received + 2 >= Expected
          THEN NextPhase
          ELSE received' = received + 1 /\ UNCHANGED <<phase, sent>>

ClientReceives(d) ==
    /\ Waiting
    /\ Reads(d)
    /\ IF received + 1 >= Expected
          THEN NextPhase
          ELSE received' = received + 1 /\ UNCHANGED <<phase, sent>>

ClientTimesOut ==
    /\ Waiting
    /\ timeouts < MaxTimeouts
    /\ NextPhase
    /\ timeouts' = timeouts + 1
    /\ UNCHANGED <<vars, script>>

\* The socket is closed.
ClientIsGone(d) ==
    /\ Finished
    /\ d \in outbox
    /\ d.to = Client
    /\ outbox' = outbox \ {d}
    /\ UNCHANGED <<tableVars, poolVars, stats, task, inbox, commands, peerVars,
                   expired, clientVars>>

-----------------------------------------------------------------------------
(***************************************************************************)
(* The proxy, and the peers other than the client, as in Proxy.            *)
(***************************************************************************)
OthersReceive ==
    \E d \in outbox : d.to # Client /\ (PeerHandles(d) \/ PeerGetsResponse(d))

OthersSend == \E r \in Requests : r.src # Client /\ SendRequest(r)

ProxyStep ==
    \/ ReceiveSome
    \/ \E t \in Tasks : HandleMessage(t)
    \/ \E q \in Seqs : GrowOld(q) \/ CleanupStale(q)
    \/ \E c \in commands : ApplyCommand(c)

TestIsOver == Finished /\ Quiet /\ UNCHANGED <<vars, clientVars>>

ClientStep ==
    ClientSends \/ \E d \in outbox : ClientReceives(d) \/ ClientIsGone(d)

TestNext ==
    \/ ClientStep
    \/ ClientTimesOut
    \/ (ProxyStep \/ OthersReceive \/ OthersSend \/ Lose) /\ UNCHANGED clientVars
    \/ TestIsOver

testVars == <<vars, clientVars>>

\* Far less than the fairness of Proxy: the whole of proxy, peers and client
\* does not stop while one of them can step.  No wait has to time out.
Progress ==
    \/ ClientStep
    \/ (ProxyStep \/ OthersReceive) /\ UNCHANGED clientVars

TestFairness == WF_testVars(Progress)

TestSpec == TestInit /\ [][TestNext]_testVars /\ TestFairness

TestTypeOK ==
    /\ TypeOK
    /\ script \in Scripts
    /\ phase \in 1 .. Len(script) + 1
    /\ sent \in 0 .. (IF Finished THEN 0 ELSE Expected)
    /\ received \in 0 .. sent
    /\ timeouts \in 0 .. MaxTimeouts

-----------------------------------------------------------------------------
(***************************************************************************)
(* Properties, for a pool of one backend, where a broadcast has one answer *)
(* like any other request.                                                 *)
(***************************************************************************)
\* The client counts datagrams and does not look at them; still a phase whose
\* waits did not time out is over only when each of its requests was answered:
\* the proxy forwards no answer twice and none to the wrong peer.
PhasesComplete ==
    ~ GaveUp =>
        \A i \in 1 .. phase - 1 : \A r \in Elements(script[i]) : IsAnswered(r)

ClientSessions == {r.seid : r \in Deletions \cap RequestsOf({script})}

\* "Full test scenario completed successfully": when a test that deletes its
\* sessions ends without a timeout, the proxy and the UPFs have forgotten them.
CleanFinish ==
    (Finished /\ ~ GaveUp) =>
        \A s \in ClientSessions :
            /\ ~ HasSession(s)
            /\ \E u \in Upfs : HasHandled(u, s, DeletionTypes)

\* On a network that loses nothing the test ends, also if no wait times out:
\* after a wait that did, late answers make up for the deletions that came
\* before their sessions and were dropped.  And in the end every request that
\* the peers answer is answered, whoever sent it, unless it crossed the deletion
\* of its session (the proxy drops what it finds no mapping for and tells
\* nobody) or the client had given up on it.
AnsweredEventually ==
    []<>(/\ Finished
         /\ \A r \in Requests :
               (r.type \in AnsweredTypes /\ Requested(r)) =>
                   \/ IsAnswered(r)
                   \/ \E d \in Deletions \ {r} : d.seid = r.seid /\ Requested(d)
                   \/ r.src = Client /\ GaveUp)

=============================================================================
