SPECIFICATION FairSpec
CONSTANTS
    ServerConfig <- ServerOf7
    ClientConfig <- ClientOf3
    Capacity = 2
    Storage <- Bytes13
    ClientBufferSize = 13
    RunServices = {"argument"}
    LockTimeouts = FALSE
    MaxTransfers = 3
    MaxStarts = 1
    MaxStops = 0
INVARIANTS LockStep DeliveredIntact AckOfThisBatch NoMutualWait ReadFitsBuffer FramesWithinTerms
PROPERTIES TransferSucceeds ImplementsService
