SPECIFICATION FairSpec
CONSTANTS
    c1 = c1
    c2 = c2
    c3 = c3
    a1 = a1
    a2 = a2
    fa = fa
    fb = fb
    Conns <- TwoConns
    Addrs = {a1, a2}
    AddrOf <- AddrApart
    Files <- TwoFiles
    Shares <- Common
    Asks <- SecondAsks
    Polite = {c1}
    None = None
    MaxFaults = 0
    MaxDowns = 0
INVARIANTS
    ListedRoutable
    SwarmComplete
PROPERTY
    Delisted
CHECK_DEADLOCK FALSE
