SPECIFICATION Spec
CONSTANTS
    c1 = c1
    c2 = c2
    p1 = p1
    g1 = g1
    g2 = g2
    Conns <- TwoConns
    Peers <- OnePeer
    Callers <- TwoCallers
    RecvCap = 2
    InCap = 1
    MaxMsgs <- SomeMsgs
    NoPeer = NoPeer
    NoConn = NoConn
SYMMETRY Symmetry
INVARIANTS
    TypeOK
    AcceptedOnce
PROPERTIES
    Ordered
CHECK_DEADLOCK FALSE
