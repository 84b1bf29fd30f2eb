SPECIFICATION StartupSpec
CONSTANTS
    Keys <- MCKeys
    Subscribers <- MCSubscribers
    KeyOf <- MCKeyOf
    Messages <- MCMessages
    Book = "bookFeed"
    QueueSize = 2
    MaxAttempts = 0
    MaxTries = 2
    MaxConns = 2
    MaxMsgs = 2
INVARIANTS
    WaitsForDataAskedFor
