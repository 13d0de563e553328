SPECIFICATION FairSpec
CONSTANTS
    MaxTransfers = 3
    Frames = 2
    LockTimeouts = TRUE
CHECK_DEADLOCK FALSE
INVARIANTS TypeOK StoresIntoGiven SleepsForAReason
PROPERTIES AcceptedIsNotified ImplementsHandshake
