SPECIFICATION FairSpec
CONSTANTS
    Sizes <- UpToNine
    ChunkSizes <- TwoToFour
    Names <- TwoNames
    NoText = NoText
    NoFile = NoFile
INVARIANTS
    TypeOK
    ChunksAgree
    BytesInPlace
PROPERTIES
    ParseInverts
    TransferEnds
CHECK_DEADLOCK FALSE
