\* The proxy and two UPFs, which may be removed and added again; every row has a key.
CONSTANTS
    proxy = proxy
    upf1 = upf1
    upf2 = upf2
    Empty = Empty
    None = None
    ProxyAddr = proxy
    UpfAddrs = {upf1, upf2}
    DefaultUpfs <- TwoUpfs
    MaxUpfs = 2
    FixedRows = 3
    MaxPids = 3

SPECIFICATION Spec
CONSTRAINT UpToRenaming
INVARIANTS
    TypeOK
    RowsShowTheirProcess
    NoProcessIsLost
