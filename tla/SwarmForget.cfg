SPECIFICATION EagerSpec
CONSTANTS
    n1 = n1
    n2 = n2
    fa = fa
    fb = fb
    Nodes <- TwoNodes
    Files <- TwoFiles
    NumChunks = 1
    Listed <- SeedListed
    Has <- SeedHas
    Wants <- FirstWants
    None = None
    MaxSignals = 2
    MaxBreaks = 0
    MaxQueue = 4
PROPERTY
    EstablishedCompletes
CHECK_DEADLOCK FALSE
