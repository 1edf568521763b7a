SPECIFICATION FairSpec
CONSTANTS
    fa = fa
    na = na
    nb = nb
    Files <- OneFile
    Names <- MCNames
    NameOf <- OneName
    Total <- TwoChunks
    MaxChunks = 2
    Jobs = {j1, j2}
    Handlers = {h1, h2}
    MaxFaults = 2
    Zero = Zero
    Eof = Eof
    None = None
INVARIANTS
    TypeOK
    Integrity
    SlotReady
    ReportedComplete
    AnnouncedServable
PROPERTIES
    DownloadsEnd
