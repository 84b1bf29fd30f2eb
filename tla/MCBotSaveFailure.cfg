SPECIFICATION Spec
CONSTANTS
    Sides <- MCSides
    Sizes <- MCSizes
    Prices <- MCPrices
    MaxOid = 1
    MaxNonce = 1
    MaxRestarts = 1
    MaxPosition = 8
    MaxOpenOrders = 1
    FlashPct = 30
    HitCapCooldown = 1
    Mids <- MCMids
    Rungs = 1
    SpikeCooldown = 1
PROPERTIES
    LoopSurvivesFailedSave
