----------------------------- MODULE Statistics -----------------------------
(***************************************************************************)
(* The counters of src/statistics.rs.  Each is an atomic that only grows;  *)
(* the counts per message type and per UPF are left out.                   *)
(***************************************************************************)
EXTENDS Naturals

VARIABLE
    stats       \* the value of each counter

Counters ==
    {"messages_received", "messages_sent", "responses_forwarded",
     "responses_dropped", "sessions_established", "sessions_deleted",
     "routed_by_seid", "routed_by_load_balance", "broadcasts"}

StatisticsTypeOK == stats \in [Counters -> Nat]

StatisticsInit == stats = [c \in Counters |-> 0]

\* Add one to every counter of C.
Record(C) ==
    stats' = [c \in Counters |-> IF c \in C THEN stats[c] + 1 ELSE stats[c]]

=============================================================================
