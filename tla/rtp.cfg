\* Three packets in two or three writes, by two tracks, two interleaved FEC groups
\* of two; a packet and a chunk may wait in each channel.
SPECIFICATION Spec
CONSTANTS
    SeqSpace = 16
    Near = 1
    FecK = 2
    FecStride = 2
    RetxBufSize = 2
    PruneEvery = 2
    MaxChunks = 2
    MaxWrites = 3
    MaxPackets = 3
    MaxTracks = 2
    RawCap = 1
    ReadCap = 1
INVARIANTS
    ContiguousDelivery
    PoolAuthentic
    GapNotForgotten
PROPERTIES
    GapRepaired
    HoleEnds
CHECK_DEADLOCK FALSE
