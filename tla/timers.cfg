SPECIFICATION Spec
CONSTANTS
    ServerConfig <- ServerOf7
    ClientConfig <- ClientOf3
    Capacity = 3
    Storage <- Bytes13
    ClientBufferSize = 14
    RunServices = {"member"}
    LockTimeouts = TRUE
    MaxTransfers = 3
    MaxStarts = 2
    MaxStops = 1
CHECK_DEADLOCK FALSE
INVARIANTS TypeOK BatchComplete FrameNumberFits BufferAccounted NotifiedOnce AgreedTerms
PROPERTY EndsInTerminate
