------------------------------ MODULE MCProxy -------------------------------
(***************************************************************************)
(* Instances of ProxyProperties for TLC.  Each cfg picks a set of requests *)
(* and how often each may be sent; a cfg is named after its run.           *)
(***************************************************************************)
EXTENDS ProxyProperties, TLC

CONSTANTS smf1, smf2, upf1, upf2, upf3, t1, t2, t3

Req(type, seid, seq, src) ==
    [type |-> type, seid |-> seid, seq |-> seq, src |-> src]

Est(s, q, a)    == Req("SessionEstablishmentRequest", s, q, a)
Mod(s, q, a)    == Req("SessionModificationRequest", s, q, a)
Del(s, q, a)    == Req("SessionDeletionRequest", s, q, a)
Report(s, q, a) == Req("SessionReportRequest", s, q, a)
Heartbeat(q, a) == Req("HeartbeatRequest", None, q, a)
Setup(q, a)     == Req("AssociationSetupRequest", None, q, a)

OnePool   == <<upf1>>
TwoPool   == <<upf1, upf2>>
ThreePool == <<upf1, upf2, upf3>>

AllTypes == SmfRequestTypes \cup UpfRequestTypes

\* The types that src/bin/test-upf.rs answers, and reports.
TestUpfTypes ==
    {"HeartbeatRequest", "AssociationSetupRequest"}
        \cup EstablishmentTypes \cup DeletionTypes \cup UpfRequestTypes

Once  == [r \in Requests |-> 1]
Twice == [r \in Requests |-> 2]

\* Only deletions are retransmitted.
DeleteTwice ==
    [r \in Requests |-> IF r.type \in DeletionTypes THEN 2 ELSE 1]

TaskSymmetry == Permutations(Tasks)

\* A session from its beginning to its end.
SessionRequests ==
    {Est(1, 1, smf1), Mod(1, 2, smf1), Del(1, 3, smf1)}

\* Two SMFs with a session each on which either UPF may report, one of which is
\* deleted, and a heartbeat.
SharedRequests ==
    {Heartbeat(7, smf1), Est(1, 1, smf1), Del(1, 2, smf1), Est(2, 3, smf2), Mod(2, 4, smf2),
     Report(2, 5, upf1), Report(2, 6, upf2)}

BroadcastRequests ==
    {Heartbeat(1, smf1), Req("SessionSetModificationRequest", 1, 2, smf1)}

FourSessions == {Est(i, i, smf1) : i \in 1 .. 4}

\* Two SMFs that number their requests alike.
SameSeqRequests == {Est(1, 1, smf1), Est(2, 1, smf2)}

OneSession == {Est(1, 1, smf1)}

OneSessionDeleted == {Est(1, 1, smf1), Del(1, 2, smf1)}

AddSecond == {<<"add", upf2>>}

\* A backend leaves and comes back, and two commands that are refused: upf1
\* may be in the pool already, upf3 never is.
PoolCommands ==
    {<<"add", upf1>>, <<"remove", upf1>>, <<"remove", upf3>>}

=============================================================================
