SPECIFICATION FairSpec
CONSTANTS
    ServerConfig <- ServerOf7
    ClientConfig <- ClientOf3
    Capacity = 2
    Storage <- NoBytes
    ClientBufferSize = 14
    RunServices = {"argument"}
    LockTimeouts = FALSE
    MaxTransfers = 1
    MaxStarts = 1
    MaxStops = 0
CHECK_DEADLOCK FALSE
PROPERTY TransferEnds
