SPECIFICATION FairSpec
CONSTANTS
    MaxStates = 2
    MaxFailures = 2
    Modes = {"relay"}
INVARIANTS
    InstalledIsCurrent
    ReadyClosedOnce
    NoOrphanedReady
PROPERTIES
    MuxRestored
    StopReleasesAll
CHECK_DEADLOCK FALSE
