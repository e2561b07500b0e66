SPECIFICATION HistorySpec
CONSTANTS
    e1 = e1
    e2 = e2
    Event <- MCTwoEvents
    Replies <- MCOmittedReplies
    Overlap = FALSE
    Crashes = FALSE
    MaxMinted = 3
    MaxDeliveries = 3
    PutAttempts = 3
CHECK_DEADLOCK TRUE
INVARIANTS
    NoReinvokeAfterRotation
