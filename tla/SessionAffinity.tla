-------------------------- MODULE SessionAffinity ---------------------------
(***************************************************************************)
(* What the proxy promises the UPFs about sessions ("SEID-based routing    *)
(* ensures all messages for a session go to the same UPF", src/main.rs and *)
(* README.md), with no proxy in sight: the UPFs receive session requests,  *)
(* every one of a session at the same UPF, and a modification or deletion  *)
(* only at a UPF that has the session.                                     *)
(***************************************************************************)
CONSTANTS
    Upfs, Seids,
    Types,          \* the types of requests that name a session
    FollowingTypes  \* those that refer to an established session

VARIABLE handled    \* which UPF received which kind of request of which session

Init == handled = {}

Elsewhere(u, s) == \E h \in handled : h.seid = s /\ h.upf # u

HasSession(u, s) ==
    \E h \in handled : h.seid = s /\ h.upf = u /\ h.type \notin FollowingTypes

Handle(u, s, type) ==
    /\ ~ Elsewhere(u, s)
    /\ type \in FollowingTypes => HasSession(u, s)
    /\ handled' = handled \cup {[upf |-> u, seid |-> s, type |-> type]}

Next == \E u \in Upfs, s \in Seids, type \in Types : Handle(u, s, type)

Spec == Init /\ [][Next]_handled

=============================================================================
