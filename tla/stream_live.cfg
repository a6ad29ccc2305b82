SPECIFICATION FairSpec
CONSTANTS
    Conns = {c1, c2}
    Nil = Nil
    Modes = {TRUE, FALSE}
    NumChunks = 1
    WriteChCap = 1
    RingSize = 1
    WriteTimeouts = FALSE
    SeqSpace = 8
    MaxFrames = 1
    GapTimeout = 0
    NoGap = NoGap
    MaxTime = 0
INVARIANT
    PinnedEofComplete
PROPERTIES
    CloseReturns
CHECK_DEADLOCK FALSE
