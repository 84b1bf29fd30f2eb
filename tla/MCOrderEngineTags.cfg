SPECIFICATION EngineSpec
CONSTANTS
    Sides <- MCSides
    Sizes <- MCSizes
    Prices <- MCPrices
    MaxOid = 2
    MaxNonce = 1
    MaxRestarts = 1
INVARIANTS
    EveryOrderFoundByTag
