\* The proxy as the TUI starts it, in the TUI's own directory.
CONSTANTS
    upf1 = upf1
    upf2 = upf2
    text1 = text1
    text2 = text2
    text3 = text3
    text4 = text4
    None = None
    Smfs = {}
    Requests = {}
    InitialPool <- OneBackend
    Strategies = {"round-robin"}
    IndexRange = 4
    Parse <- Meaning
    DefaultList <- DefaultTexts
    Upfs = {upf1, upf2}
    MaxBackends = 4
    Texts = {text1, text2}
    TextLength <- MixedLengths
    ProxyDir = "base"
    ReadMayFail = FALSE
    MaxCommands = 3
    MaxStarts = 1

SPECIFICATION FairControlSpec
PROPERTIES
    CommandsTakeEffect
