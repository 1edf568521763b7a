SPECIFICATION FairSpec
CONSTANTS
    fa = fa
    fb = fb
    j1 = j1
    j2 = j2
    Files <- TwoFiles
    Known <- KnownFile
    Jobs <- TwoJobs
    Cap = 1
    MaxAsks = 2
    MaxSignals = 1
    None = None
INVARIANTS
    TypeOK
    ListsExpected
    SlotSettled
PROPERTIES
    FreshList
    SignalsHandled
CHECK_DEADLOCK FALSE
