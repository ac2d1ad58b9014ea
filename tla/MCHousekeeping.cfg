SPECIFICATION LiveSpec
CONSTANTS
    Idle = Idle
    SweepOrder <- MCSweepOrder
    TokenTables <- MCTokenTables
    Ahead = 2
    MaxMonth = 2
    MaxFaults = 2
INVARIANTS
    HousekeepingTypeOK
    RecentEventsStay
    PartitionsStayAhead
PROPERTIES
    ExpiredRowsGo
    ServesAgain
