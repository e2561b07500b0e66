SPECIFICATION Spec
CONSTANTS
    r1 = r1
    r2 = r2
    NoRequest = NoRequest
    Request <- MCTwoRequests
    Faults <- MCNoFaults
    MaxTime = 3
    MaxVersion = 3
    TTL = 2
    ErrorTTL = 1
    FetchTimeout = 1
CHECK_DEADLOCK FALSE
SYMMETRY Symmetry
INVARIANTS
    LiveRequestServedFromStore
