SPECIFICATION Spec
CONSTANTS
    Types <- MCTypes
    Rank <- MCRank
    StageEnd <- MCStageEnd
    FrameBudget = 3
    MaxJobs = 4
    MaxCharts = 5
    Candle = "candle"
    Indicator = "indicator"
    MaxEffects = 5
    Slots <- MCSlots
    btc = btc
    eth = eth
    s1 = s1
    s2 = s2
    Scopes <- MCScopes
    Strategies <- MCStrategies
    RequiredCycles = 1
    RequiredHours = 0
    KeptCycles = 1
    MaxEntries = 2
    MaxTime = 0
    MaxRuns = 2
    MaxPromotions = 1
INVARIANTS CleanShowsNewest WaitingHasFlush ShownIsNewest OneCycleAtATime RegistryAgrees
SYMMETRY MCSymmetry
CHECK_DEADLOCK FALSE
