SPECIFICATION LinkSpec
CONSTANTS
    Event = {e1, e2}
    MaxDeliveries = 1
    PutAttempts = 1
    Replies = {"full", "lost"}
    Crashes = TRUE
    MaxMinted = 3
    Request = {r1}
    NoRequest = NoRequest
    TTL = 1
    ErrorTTL = 1
    FetchTimeout = 1
    Faults = {"error", "malformed"}
    MaxTime = 3
    MaxVersion = 6
    MaxRedeemed = 3
CHECK_DEADLOCK FALSE
INVARIANTS
    LinkTypeOK
    DeadServedExplained
    OkUnlessRedeemed
    MintSurvives
PROPERTIES
    OnlyMintMends
SYMMETRY Symmetry
