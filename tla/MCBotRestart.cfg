SPECIFICATION FairSpec
CONSTANTS
    Sides <- MCSides
    Sizes <- MCSizes
    Prices <- MCPrices
    MaxOid = 2
    MaxNonce = 1
    MaxRestarts = 1
    MaxPosition = 8
    MaxOpenOrders = 2
    FlashPct = 30
    HitCapCooldown = 1
    Mids <- MCMids
    Rungs = 1
    SpikeCooldown = 2
INVARIANTS
    EmergencyIsSaved
    CleanShutdown
PROPERTIES
    GoesOnWithinPosition
    CooldownEnds
    StopCompletes
