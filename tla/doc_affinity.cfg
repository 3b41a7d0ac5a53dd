\* An establishment is retransmitted.
CONSTANTS
    smf1 = smf1
    smf2 = smf2
    upf1 = upf1
    upf2 = upf2
    upf3 = upf3
    t1 = t1
    t2 = t2
    t3 = t3
    None = None
    Smfs = {smf1}
    Upfs = {upf1, upf2}
    Requests <- OneSession
    Copies <- Twice
    InitialPool <- TwoPool
    Strategies = {"round-robin"}
    MaxBackends = 3
    IndexRange = 4
    Tasks = {t1, t2}
    AnsweredTypes <- AllTypes
    Commands = {}
    Faults = {}

SPECIFICATION FairSpec
PROPERTIES
    SessionsStayTogether
