\* Two SMFs that number their requests alike.
CONSTANTS
    smf1 = smf1
    smf2 = smf2
    upf1 = upf1
    upf2 = upf2
    upf3 = upf3
    t1 = t1
    t2 = t2
    t3 = t3
    None = None
    Smfs = {smf1, smf2}
    Upfs = {upf1, upf2}
    Requests <- SameSeqRequests
    Copies <- Once
    InitialPool <- TwoPool
    Strategies = {"round-robin"}
    MaxBackends = 3
    IndexRange = 4
    Tasks = {t1, t2}
    AnsweredTypes <- AllTypes
    Commands = {}
    Faults = {}

SPECIFICATION Spec
SYMMETRY TaskSymmetry
INVARIANTS
    RepliesReachTheirOrigin
