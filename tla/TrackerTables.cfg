SPECIFICATION Spec
CONSTANTS
    c1 = c1
    c2 = c2
    c3 = c3
    a1 = a1
    a2 = a2
    fa = fa
    fb = fb
    Conns <- ThreeConns
    Addrs = {a1, a2}
    AddrOf <- AddrReused
    Files <- OneFile
    Shares <- FirstShares
    Asks <- SecondAsks
    Polite = {c1}
    None = None
    MaxFaults = 1
    MaxDowns = 1
INVARIANTS
    TypeOK
    PeerListsSound
    SignalsSolicited
CHECK_DEADLOCK FALSE
