\* The server; any two failures, or the death of
\* connections; two slots reconnected concurrently.
SPECIFICATION FairSpec
CONSTANTS
    N = 2
    Objs = {1, 2, 3}
    Workers = {1, 2}
    Role = "server"
    ChanCap = 2
    Faults = {"signaling", "conns", "start", "connect", "alloc", "empty", "partial"}
    MaxFaults = 2
INVARIANTS
    NoStrandedSignaling
    RouterTracksSlots
PROPERTIES
    OrphanMuxReaped
    SignalingRepaired
CHECK_DEADLOCK FALSE
