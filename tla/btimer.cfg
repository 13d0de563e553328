SPECIFICATION FairSpec
CONSTANTS
    RunServices = {"member"}
    LockTimeouts = TRUE
    MaxStarts = 3
INVARIANTS TypeOK NoEarlyExpiry PeriodicGoesOn StopLeavesOne
PROPERTIES ImplementsView ExpiryComes
