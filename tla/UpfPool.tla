------------------------------- MODULE UpfPool -------------------------------
(***************************************************************************)
(* The pool of UPF backends of src/main.rs.  Every backend gets weight 1   *)
(* when it is added and no code changes a weight, so that                  *)
(* select_weighted is the same walk as select_round_robin.  The health of  *)
(* a backend starts Unknown; update_health, its only writer, has no        *)
(* caller.                                                                 *)
(***************************************************************************)
EXTENDS PfcpMessages, SequencesExt

CONSTANTS
    InitialPool,    \* the --backends list, resolved: a sequence of UPFs
    Strategies,     \* the values of --strategy to consider
    MaxBackends,    \* max_backends, 64 in the code
    IndexRange      \* number of values of next_index, 2^64 for an AtomicUsize

VARIABLES
    backends,       \* the vector of backends
    strategy,       \* strategy, fixed when the proxy starts
    health,         \* health status of each UPF while it is a backend
    nextIndex       \* next_index, the round-robin cursor

poolVars == <<backends, strategy, health, nextIndex>>

LoadBalancingStrategy == {"round-robin", "least-sessions", "weighted"}

HealthStatus == {"Healthy", "Degraded", "Unhealthy", "Unknown"}

\* main exits when the list is empty; it does not look for duplicates, so
\* that --backends without them is a condition on the operator.
ASSUME PoolAssumption ==
    /\ InitialPool \in Seq(Upfs)
    /\ InitialPool # << >>
    /\ \A i, j \in 1 .. Len(InitialPool) :
          InitialPool[i] = InitialPool[j] => i = j
    /\ Strategies \subseteq LoadBalancingStrategy
    /\ MaxBackends \in Nat \ {0}
    /\ IndexRange \in Nat \ {0}

UpfPoolTypeOK ==
    /\ backends \in Seq(Upfs)
    /\ strategy \in LoadBalancingStrategy
    /\ health \in [Upfs -> HealthStatus]
    /\ nextIndex \in 0 .. IndexRange - 1

UpfPoolInit ==
    /\ backends = InitialPool
    /\ strategy \in Strategies
    /\ health = [u \in Upfs |-> "Unknown"]
    /\ nextIndex = 0

IsBackend(u) == \E i \in 1 .. Len(backends) : backends[i] = u

Selectable(u) == health[u] \in {"Healthy", "Unknown"}

HealthyBackends ==
    IF \A u \in Upfs : Selectable(u) THEN backends
    ELSE SelectSeq(backends, Selectable)

\* Mutant: the cursor is loaded and not advanced.
TakeTurn_Load == UNCHANGED nextIndex

\* fetch_add on next_index.
TakeTurn == nextIndex' = (nextIndex + 1) % IndexRange

\* The backend of a snapshot whose turn it is.
BackendAtTurn(hosts) == hosts[(nextIndex % Len(hosts)) + 1]

MayAdd(u) == Len(backends) < MaxBackends /\ ~ IsBackend(u)

AddBackend(u) ==
    /\ MayAdd(u)
    /\ backends' = Append(backends, u)
    /\ health' = [health EXCEPT ![u] = "Unknown"]
    /\ UNCHANGED <<strategy, nextIndex>>

\* retain; the pool holds u at one place only, see PoolAssumption.
RemoveBackend(u) ==
    /\ \E i \in 1 .. Len(backends) :
          /\ backends[i] = u
          /\ backends' = RemoveAt(backends, i)
    /\ UNCHANGED <<strategy, health, nextIndex>>

=============================================================================
