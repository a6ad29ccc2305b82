\* Two connections; one server session and two client runs, or the reverse.
SPECIFICATION Spec
CONSTANTS
    NumConns = 2
    MaxStarts = 3
    MaxFaults = 1
INVARIANTS
    AcceptedMutual
    OneClientPerSession
PROPERTY
    ServesFreshClient
CHECK_DEADLOCK FALSE
