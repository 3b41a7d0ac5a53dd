---------------------------- MODULE PfcpMessages ----------------------------
(***************************************************************************)
(* The PFCP messages that reach the proxy and the way its code classifies  *)
(* them (src/main.rs, is_smf_request, is_upf_request and the arms of       *)
(* route_message).  Of a message only what the proxy reads is kept: its    *)
(* type, the SEID and the sequence number of its header, and the address   *)
(* the datagram came from.                                                 *)
(***************************************************************************)
EXTENDS Integers, FiniteSets

CONSTANTS
    Smfs,       \* addresses of the SMFs
    Upfs,       \* addresses of the UPFs that are, or may become, backends
    Requests,   \* the requests the peers may send, see Request below
    None        \* absence of a value: Option::None, or no entry in a table

Addr == Smfs \cup Upfs

(***************************************************************************)
(* The message types, grouped by the arm of route_message that takes them. *)
(***************************************************************************)
BroadcastTypes ==
    {"HeartbeatRequest", "AssociationSetupRequest",
     "AssociationUpdateRequest", "PfdManagementRequest"}

EstablishmentTypes == {"SessionEstablishmentRequest"}

DeletionTypes == {"SessionDeletionRequest"}

AffinityTypes == {"SessionModificationRequest"} \cup DeletionTypes

OtherTypes ==
    {"AssociationReleaseRequest", "NodeReportRequest",
     "SessionSetDeletionRequest", "SessionSetModificationRequest"}

SmfRequestTypes ==
    BroadcastTypes \cup EstablishmentTypes \cup AffinityTypes \cup OtherTypes

UpfRequestTypes == {"SessionReportRequest"}

(***************************************************************************)
(* A request as its sender made it; a retransmission is the same request   *)
(* once more.  Sequence numbers are chosen by each peer on its own, so two *)
(* requests of different peers may well carry the same one.                *)
(***************************************************************************)
Request ==
    [type : SmfRequestTypes \cup UpfRequestTypes,
     seid : {None} \cup Nat,
     seq  : Nat,
     src  : Addr]

Seids == {r.seid : r \in Requests} \ {None}

Seqs == {r.seq : r \in Requests}

ASSUME AddressAssumption ==
    /\ Smfs \cap Upfs = {}
    /\ None \notin Addr

ASSUME RequestAssumption ==
    /\ IsFiniteSet(Requests)
    /\ Requests \subseteq Request
    /\ \A r \in Requests :
          r.src \in (IF r.type \in UpfRequestTypes THEN Upfs ELSE Smfs)

(***************************************************************************)
(* A datagram the proxy handles: a request, or the response to a request   *)
(* (which repeats its sequence number).  by is the source address.         *)
(***************************************************************************)
Message == [kind : {"request", "response"}, req : Requests, by : Addr]

RequestMsg(r) == [kind |-> "request", req |-> r, by |-> r.src]

ResponseMsg(r, a) == [kind |-> "response", req |-> r, by |-> a]

IsUpfRequest(m) == m.kind = "request" /\ m.req.type \in UpfRequestTypes

IsSmfRequest(m) == m.kind = "request" /\ m.req.type \in SmfRequestTypes

=============================================================================
