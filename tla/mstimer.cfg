SPECIFICATION FairSpec
CONSTANTS
    MaxTimeout = 2
    MaxStarts = 2
    MaxJumps = 1
INVARIANTS TypeOK CallbackNeedsStart StopLeavesOne SleepsOnlyUnheard OverInTime
PROPERTIES OneShotEnds
