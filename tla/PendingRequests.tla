-------------------------- MODULE PendingRequests ---------------------------
(***************************************************************************)
(* The pending request tracker of src/session.rs: a concurrent map from    *)
(* sequence number to the address the response goes back to.  The key is   *)
(* the sequence number alone.  A timestamp is abstracted to old, whether   *)
(* it lies 60 seconds or more in the past; from_upf is stored and returned *)
(* but no caller looks at it.                                              *)
(***************************************************************************)
EXTENDS PfcpMessages

VARIABLE
    pending     \* for each sequence number its entry, or None

RequestInfo ==
    [origin : Addr, is_broadcast : BOOLEAN, responses : Nat, old : BOOLEAN]

\* What a lookup returns when it finds nothing is not an entry.
ASSUME NoRequestAssumption == None \notin RequestInfo

PendingTypeOK == pending \in [Seqs -> RequestInfo \cup {None}]

PendingInit == pending = [q \in Seqs |-> None]

IsPending(q) == pending[q] # None

\* insert overwrites whatever request had this sequence number.
PendingInsert(q, a, bcast) ==
    pending' = [pending EXCEPT ![q] =
        [origin |-> a, is_broadcast |-> bcast, responses |-> 0, old |-> FALSE]]

\* The half of lookup_and_increment that writes; its caller has IsPending(q).
PendingIncrement(q) ==
    pending' = [pending EXCEPT ![q].responses = @ + 1]

PendingRemove(q) == pending' = [pending EXCEPT ![q] = None]

\* Time passes: the entry reaches the age at which cleanup_stale removes it.
PendingGrowOld(q) ==
    /\ IsPending(q)
    /\ ~ pending[q].old
    /\ pending' = [pending EXCEPT ![q].old = TRUE]

\* Mutant: broadcasts are spared.
PendingCleanup_Single(q) ==
    /\ IsPending(q)
    /\ pending[q].old
    /\ ~ pending[q].is_broadcast
    /\ PendingRemove(q)

\* What retain does with one entry; it locks one shard of the map at a time.
PendingCleanup(q) ==
    /\ IsPending(q)
    /\ pending[q].old
    /\ PendingRemove(q)

=============================================================================
