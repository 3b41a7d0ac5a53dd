---------------------------- MODULE SessionTable ----------------------------
(***************************************************************************)
(* The session affinity table of src/session.rs: a concurrent map from     *)
(* SEID to the UPF that has the session and the SMF that made it.  Each    *)
(* operation on the DashMap is atomic.  The two timestamps of an entry are *)
(* written and never read: their only reader, cleanup_idle, has no caller. *)
(***************************************************************************)
EXTENDS PfcpMessages

VARIABLE
    sessions    \* for each SEID its entry, or None

SessionInfo == [upf : Upfs, smf : Smfs]

\* The value for no entry is not an entry: get returns an Option.
ASSUME NoEntryAssumption == None \notin SessionInfo

SessionTableTypeOK == sessions \in [Seids -> SessionInfo \cup {None}]

SessionTableInit == sessions = [s \in Seids |-> None]

\* Mutant: the two addresses, of one type in the code, in the wrong order.
SessionInsert_Swapped(s, u, a) ==
    sessions' = [sessions EXCEPT ![s] = [upf |-> a, smf |-> u]]

\* insert overwrites: whoever comes last owns the SEID.
SessionInsert(s, u, a) ==
    sessions' = [sessions EXCEPT ![s] = [upf |-> u, smf |-> a]]

\* Mutant: the entry is never removed.
SessionRemove_Never(s) == UNCHANGED sessions

SessionRemove(s) == sessions' = [sessions EXCEPT ![s] = None]

HasSession(s) == sessions[s] # None

SessionsOf(u) == {s \in Seids : HasSession(s) /\ sessions[s].upf = u}

\* Mutant: the filter on the UPF is forgotten.
CountByUpf_All(u) == Cardinality({s \in Seids : HasSession(s)})

CountByUpf(u) == Cardinality(SessionsOf(u))

=============================================================================
