SPECIFICATION Spec
CONSTANTS
    Channel <- MCChannels
    Outcomes <- MCAllOutcomes
    Crashes = FALSE
    MaxRecords = 2
    MaxAttempts = 3
CHECK_DEADLOCK FALSE
PROPERTIES
    NoResendAfterAck
