\* The proxy is started where it reads the file that the TUI writes.
CONSTANTS
    upf1 = upf1
    upf2 = upf2
    text1 = text1
    text2 = text2
    text3 = text3
    text4 = text4
    None = None
    Smfs = {}
    Requests = {}
    InitialPool <- OneBackend
    Strategies = {"round-robin"}
    IndexRange = 4
    Parse <- Meaning
    DefaultList <- DefaultTexts
    Upfs = {upf1, upf2}
    MaxBackends = 4
    Texts = {text1, text2, text3, text4}
    TextLength <- MixedLengths
    ProxyDir = "target"
    ReadMayFail = TRUE
    MaxCommands = 4
    MaxStarts = 2

SPECIFICATION FairControlSpec
INVARIANTS
    PoolFollowsShortLines
PROPERTIES
    CommandsTakeEffect
