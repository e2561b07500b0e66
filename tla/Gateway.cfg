SPECIFICATION FairSpec
CONSTANTS
    Request = {r1, r2}
    Key = {k1, k2}
    NoKey = NoKey
    Traffic <- MixedTraffic
    Deployed <- Deployments
    AuthTTL = 1
    AuthTimeout = 1
    TwitchTimeout = 8
    FetchTimeout = 2
    FlushTimeout = 1
    LambdaTimeout = 10
    MaxTime = 3
INVARIANTS TypeOK DecisionFollowsKey AnsweredInTime
PROPERTY EveryCallAnswered
CHECK_DEADLOCK FALSE
