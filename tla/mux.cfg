SPECIFICATION FairSpec
CONSTANTS
    Conns = {c1, c2}
    Reconnectors = {r1}
    NoConn = NoConn
    ConnDiedCap = 1
    MinAlive = 1
INVARIANTS
    ReadersCounted
    DeathNoticed
    NoStaleSlot
    LiveConnHasSlot
PROPERTIES
    CloseReapsReaders
CHECK_DEADLOCK FALSE
