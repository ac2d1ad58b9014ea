SPECIFICATION HousekeepingSpec
CONSTANTS
    Idle = Idle
    SweepOrder <- MCSweepOrder
    TokenTables <- MCTokenTables
    Ahead = 2
    MaxMonth = 2
    MaxFaults = 2
INVARIANT NextRunCatches
