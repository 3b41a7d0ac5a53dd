\* Concurrent establishments under either way to select.
CONSTANTS
    smf1 = smf1
    smf2 = smf2
    upf1 = upf1
    upf2 = upf2
    upf3 = upf3
    t1 = t1
    t2 = t2
    t3 = t3
    None = None
    Smfs = {smf1}
    Upfs = {upf1, upf2}
    Requests <- FourSessions
    Copies <- Once
    InitialPool <- TwoPool
    Strategies = {"round-robin", "least-sessions"}
    MaxBackends = 3
    IndexRange = 2
    Tasks = {t1, t2, t3}
    AnsweredTypes <- AllTypes
    Commands = {}
    Faults = {}

SPECIFICATION Spec
SYMMETRY TaskSymmetry
INVARIANTS
    TypeOK
    EvenPlacement
    LeastSessionsSpread
