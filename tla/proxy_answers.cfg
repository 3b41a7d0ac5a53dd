\* A network that loses nothing, and test-smf as one of the SMFs.
CONSTANTS
    smf1 = smf1
    smf2 = smf2
    upf1 = upf1
    t1 = t1
    t2 = t2
    None = None
    Smfs = {smf1, smf2}
    Upfs = {upf1}
    Client = smf1
    Scripts <- SomeScripts
    Requests <- TestRequests
    Copies <- Once
    InitialPool <- OnePool
    Strategies = {"round-robin"}
    MaxBackends = 3
    IndexRange = 4
    Tasks = {t1, t2}
    AnsweredTypes <- AllTypes
    Commands = {}
    Faults = {}
    MaxTimeouts = 1

SPECIFICATION TestSpec
INVARIANTS
    TestTypeOK
    PhasesComplete
    CleanFinish
PROPERTIES
    AnsweredEventually
