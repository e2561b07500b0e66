SPECIFICATION FairSpec
CONSTANTS
    r1 = r1
    r2 = r2
    NoRequest = NoRequest
    Request <- MCTwoRequests
    Faults <- MCAllFaults
    MaxTime = 4
    MaxVersion = 3
    TTL = 2
    ErrorTTL = 1
    FetchTimeout = 1
CHECK_DEADLOCK FALSE
INVARIANTS
    TypeOK
    OneFetch
    NoFetchWhileFresh
    MonotonicReads
    StaleServeBounded
    CancelNeverPoisons
    NobodyStranded
PROPERTIES
    CachedNeverRegresses
    ImplementsLinkFeed
    ResolveReturns
