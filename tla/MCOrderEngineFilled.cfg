SPECIFICATION EngineSpec
CONSTANTS
    Sides <- MCSides
    Sizes <- MCSizes
    Prices <- MCPrices
    MaxOid = 1
    MaxNonce = 1
    MaxRestarts = 0
INVARIANTS
    FilledSizeIsInBase
