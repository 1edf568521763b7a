SPECIFICATION FairSpec
CONSTANTS
    f1 = f1
    f2 = f2
    p1 = p1
    NClis = 2
    Wants <- SomeWants
    Files <- TwoFiles
    Peers <- OnePeer
    NChunks = 1
    PipeCap = 2
    LogCap = 1
    Killable <- TheFirst
    MaxDue = 1
    MaxIntros <- SomeIntros
    NoFile = NoFile
INVARIANTS
    TypeOK
    SuccessTrue
    StuckNeedsOverlap
PROPERTIES
    DoneSeen
    WritesEnd
CHECK_DEADLOCK FALSE
