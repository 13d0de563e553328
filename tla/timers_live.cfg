SPECIFICATION FairSpec
CONSTANTS
    ServerConfig <- ServerOf7
    ClientConfig <- ClientOf3
    Capacity = 3
    Storage <- Bytes13
    ClientBufferSize = 10
    RunServices = {"member"}
    LockTimeouts = FALSE
    MaxTransfers = 3
    MaxStarts = 1
    MaxStops = 0
PROPERTIES TransferEnds ServerReturns
