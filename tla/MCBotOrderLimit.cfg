SPECIFICATION Spec
CONSTANTS
    Sides <- MCSides
    Sizes <- MCSizes
    Prices <- MCPrices
    MaxOid = 2
    MaxNonce = 2
    MaxRestarts = 0
    MaxPosition = 25
    MaxOpenOrders = 1
    FlashPct = 30
    HitCapCooldown = 1
    Mids <- MCMids
    Rungs = 2
    SpikeCooldown = 1
INVARIANTS
    WithinOrderLimit
