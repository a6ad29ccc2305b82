SPECIFICATION FairReconnectSpec
CONSTANTS
    TargetConns = 3
    NormalMaxAttempts = 2
    AckCap = 2
    MaxFaults = 2
    MaxLosses = 3
INVARIANTS
    NeverOverTarget
    StoppedMuxCanDie
PROPERTIES
    PromptlyRestored
CHECK_DEADLOCK FALSE
