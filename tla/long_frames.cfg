SPECIFICATION Spec
CONSTANTS
    ServerConfig <- ServerWide
    ClientConfig <- ClientNarrow
    Capacity = 2
    Storage <- Bytes13
    ClientBufferSize = 14
    RunServices = {"argument"}
    LockTimeouts = TRUE
    MaxTransfers = 1
    MaxStarts = 1
    MaxStops = 0
INVARIANT FramesWithinTerms
