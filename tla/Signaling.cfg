SPECIFICATION FairSpec
CONSTANTS
    n1 = n1
    n2 = n2
    Nodes <- TwoNodes
    MaxOffers = 2
    Cands = 1
    MaxBreaks = 2
INVARIANTS
    TypeOK
    OneLink
PROPERTIES
    AcceptedConnects
CHECK_DEADLOCK FALSE
