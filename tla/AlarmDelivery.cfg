SPECIFICATION FairSpec
CONSTANTS
    Channel <- MCChannels
    Outcomes <- MCAllOutcomes
    Crashes = TRUE
    MaxRecords = 2
    MaxAttempts = 3
CHECK_DEADLOCK FALSE
INVARIANTS
    TypeOK
    RecordsIsolated
PROPERTIES
    EventSettles
    PartialNotResent
    ImplementsCourier
