SPECIFICATION MCSpec
CONSTANTS
    Prices <- MCPrices
    LevelSizes = {1, 4}
    Snapshots <- MCSnapshots
    Capacity = 2
    CrashPct = 12
    TopLevels = 3
    WallLevels = 3
    WallTimes = 2
    Notionals = {1, 20, 26, 200}
    SpikePct = 25
    SpikeWindow = 1
    SpikeQuiet = 2
    LadderRungs = 2
    RungSpacing = 10
    StartOffset = 5
    CollapsePct = 5
    RecoveryPct = 2
    TierSpreads = {10, 100}
    FlashWindow = 1
    FlashLimit = 2
    DormantTime = 2
    Quotes <- MCQuotes
    MaxPast = 2
    MaxFlashes = 3
    Intervals = {1, 2}
    FastInterval = 1
    AdverseBps <- MinusTwenty
    ReversalBps = 100
    LargePct = 125
    SizeSamples = 2
    WindowFills = 3
    ElevatedPct = 20
    DormantPct = 40
    HaltPct = 60
    MinSamples = 2
    Records <- MCRecords
    Requests <- MCRequests
    Gaps = {1, 2}
    MaxDesired = 1
    ResponseCooldown = 1
    MaxSnaps = 4
    MaxRuns = 2
    ConfigKeys = {"spread", "position", "pair", "url"}
    ReloadLevel <- MCLevels
    Files <- MCFiles
    Expiry = 2
    MaxMtime = 2
    MaxEdits = 3
    MaxTokens = 2
    MaxClock = 2
PROPERTIES
    RecoversWithPrice
