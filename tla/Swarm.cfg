SPECIFICATION FairSpec
CONSTANTS
    n1 = n1
    n2 = n2
    fa = fa
    fb = fb
    Nodes <- TwoNodes
    Files <- TwoFiles
    NumChunks = 2
    Listed <- EachListed
    Has <- EachHas
    Wants <- EachWants
    None = None
    MaxSignals = 3
    MaxBreaks = 1
    MaxQueue = 2
INVARIANTS
    TypeOK
    MapSound
    RequestsServable
    ActiveConnected
PROPERTY
    FreshCompletes
CHECK_DEADLOCK FALSE
