SPECIFICATION Spec
CONSTANTS
    ServerConfig <- ServerOf7
    ClientConfig <- ClientOf3
    Capacity = 2
    Storage <- Bytes13
    ClientBufferSize = 14
    RunServices = {"argument"}
    LockTimeouts = TRUE
    MaxTransfers = 1
    MaxStarts = 1
    MaxStops = 0
INVARIANT AckedIsErased
