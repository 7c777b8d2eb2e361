SPECIFICATION FairSpec
CONSTANTS
    Conn = {c1, c2}
    NoConn = NoConn
    QueueCap = 1
    CoalesceMax = 2
    MaxBlock = 2
INVARIANTS
    TypeOK
    StreamIntact
    NothingMissed
PROPERTIES
    CloseEnds
    Implements
