SPECIFICATION Spec
CONSTANTS
    Conns = {c1, c2}
    Nil = Nil
    Modes = {TRUE}
    NumChunks = 2
    WriteChCap = 2
    RingSize = 1
    WriteTimeouts = TRUE
    SeqSpace = 8
    MaxFrames = 1
    GapTimeout = 0
    NoGap = NoGap
    MaxTime = 1
SYMMETRY ConnSymmetry
INVARIANTS
    ChunkBackedByRing
    InflightExact
PROPERTIES
    StreamInOrder
CHECK_DEADLOCK FALSE
