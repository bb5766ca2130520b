SPECIFICATION Spec
CONSTANTS
    Instruments <- MCInstruments
    Modes <- MCModes
    Regimes <- MCRegimes
    Venues <- MCVenues
    Policy <- MCPolicy
    Orders <- MCOrders
    MaxRestarts = 2
    MaxApiErrors = 5
    MaxSlippageBps = 30
    MaxDrawdown = 15
    Slippages <- MCSlippages
    Drawdowns <- MCDrawdowns
    ErrorBound = 7
    ActivationReasons <- MCReasons
    c1 = c1
    c2 = c2
    k1 = k1
    k2 = k2
    Calls <- MCCalls
    Addresses = 2
    RetryAttempts = 2
    Failures <- MCFailures
    MaxCalls = 4
    Keys <- MCKeys
    NoCaller = NoCaller
    MaxSubmits = 2
    MaxRecords = 1
    Samples = 3
    Flushes = {1, 2}
    FlushSize = 2
    TrainingBatchSize = 2
    MaxBufferSize = 3
    MaxPosts = 4
    btc = btc
    s1 = s1
    s2 = s2
    Scopes <- MCScopes
    Strategies <- MCStrategies
    RequiredCycles = 2
    RequiredHours = 1
    KeptCycles = 2
    MaxEntries = 1
    MaxTime = 1
    MaxRuns = 3
    MaxPromotions = 2
INVARIANTS
    WriteOncePerAddress
    AppliedOncePerKey
    NoSampleForgotten
    DayWithoutRestartWithinLimit
    OffMeansBelowThresholds
    LiveIsLastPromoted
SYMMETRY MCSymmetry
CHECK_DEADLOCK FALSE
