SPECIFICATION FairSpec
CONSTANTS
    ServerConfig <- ServerOf7
    ClientConfig <- ClientOf3
    Capacity = 2
    Storage <- Bytes13
    ClientBufferSize = 14
    RunServices = {"argument"}
    LockTimeouts = FALSE
    MaxTransfers = 1
    MaxStarts = 1
    MaxStops = 1
CHECK_DEADLOCK FALSE
PROPERTY StopTakesEffect
