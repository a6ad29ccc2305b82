SPECIFICATION Spec
CONSTANTS
    SeqSpace = 8
    MaxFrames = 2
    GapTimeout = 1
    NoGap = NoGap
    NumChunks = 8
    Starts = {0, 5}
    MaxTime = 2
INVARIANT
    TimerIffBuffered
    GracefulEndHasNoHole
PROPERTY
    InOrderDelivery
CHECK_DEADLOCK FALSE
