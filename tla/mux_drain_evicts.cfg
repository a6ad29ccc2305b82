SPECIFICATION Spec
CONSTANTS
    Conns = {c1, c2}
    Reconnectors = {}
    NoConn = NoConn
    ConnDiedCap = 1
    MinAlive = 1
PROPERTY DrainSparesLive
CHECK_DEADLOCK FALSE
