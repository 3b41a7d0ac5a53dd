------------------------------ MODULE MCTestSmf -----------------------------
(***************************************************************************)
(* Instances of TestSmf for TLC: the client smf1 and another SMF.          *)
(***************************************************************************)
EXTENDS TestSmf

CONSTANTS smf1, smf2, upf1, t1, t2

OnePool == <<upf1>>

SomeScripts == {SessionTest(1, TRUE), HeartbeatTest(1), LoadBalanceTest(2), FullTest(1, 1)}

\* Of other peers: a session and a report on it.
OtherRequests ==
    {[type |-> "SessionEstablishmentRequest", seid |-> 8, seq |-> 12, src |-> smf2],
     [type |-> "SessionReportRequest", seid |-> 8, seq |-> 13, src |-> upf1]}

TestRequests == RequestsOf(SomeScripts) \cup OtherRequests

Once == [r \in Requests |-> 1]

AllTypes == SmfRequestTypes \cup UpfRequestTypes

=============================================================================
