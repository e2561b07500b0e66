SPECIFICATION HistoryFairSpec
CONSTANTS
    e1 = e1
    e2 = e2
    Event <- MCTwoEvents
    Replies <- MCAllReplies
    Overlap = FALSE
    Crashes = TRUE
    MaxMinted = 4
    MaxDeliveries = 3
    PutAttempts = 3
CHECK_DEADLOCK TRUE
INVARIANTS
    TypeOK
    DeadTokenSurfaced
PROPERTIES
    NeverClobbersLive
    RotatesOnce
    ImplementsTokenChain
    EventSettles
