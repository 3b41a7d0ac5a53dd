\* A session's life while the pool changes.
CONSTANTS
    smf1 = smf1
    smf2 = smf2
    upf1 = upf1
    upf2 = upf2
    upf3 = upf3
    t1 = t1
    t2 = t2
    t3 = t3
    None = None
    Smfs = {smf1}
    Upfs = {upf1, upf2, upf3}
    Requests <- SessionRequests
    Copies <- DeleteTwice
    InitialPool <- TwoPool
    Strategies = {"round-robin"}
    MaxBackends = 3
    IndexRange = 4
    Tasks = {t1, t2}
    AnsweredTypes <- AllTypes
    Commands <- PoolCommands
    Faults = {"loss"}

SPECIFICATION Spec
SYMMETRY TaskSymmetry
INVARIANTS
    EstablishedIsRoutable
PROPERTIES
    SessionsStayTogether
