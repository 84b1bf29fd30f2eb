SPECIFICATION MCSpec
CONSTANTS
    c1 = c1
    c2 = c2
    Callers <- MCCallers
    Burst = 1
    Rate = 2
    One = 3
    MaxWait = 3
    Poll = 2
    Lag = 1
    MaxTime = 7
    Sides <- MCSides
    Sizes <- MCSizes
    Prices <- MCPrices
    MaxOid = 2
    MaxNonce = 2
    MaxRestarts = 1
    Keys <- MCKeys
    Subscribers <- MCSubscribers
    KeyOf <- MCKeyOf
    Messages <- MCMessages
    QueueSize = 2
    MaxAttempts = 2
    MaxTries = 2
    MaxConns = 3
    MaxMsgs = 3
INVARIANTS
    TypeOK
    WindowBound
    WaitBounded
    EngineTypeOK
    NothingForgotten
    ReportsNotAhead
    TagsLeadToTheirOrder
    FoundByTagInOneLife
    FeedTypeOK
    ResubscribedOnEveryConnection
    KeptAlive
    QueueKeepsNewest
    MostSpecificOnly
PROPERTIES
    OnlyStarvedByOthers
    ImplementsBucket
    PingsEnd
