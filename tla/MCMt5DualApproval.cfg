SPECIFICATION Spec
CONSTANTS
    Instruments <- MCInstruments
    Modes <- MCModes
    Regimes <- MCRegimes
    Venues <- MCVenues
    Policy <- MCPolicy
    Orders <- MCOrders
    MaxApiErrors = 1
    MaxSlippageBps = 30
    MaxDrawdown = 15
    Slippages <- MCSlippages
    Drawdowns <- MCNone
    ActivationReasons <- MCReasons
    ErrorBound = 1
    Accounts = {a1}
    Users = {u1, u2}
    Approvals = {l1, l2, l3}
    Handlers = {h1, h2}
    Tickets = {t1}
    MinLiveConfidence = 70
    DegradedMultiplier = 60
    SameSignalLimit = 1
    BlockAfterRepeats = 1
    MaxPendingApprovals = 2
SYMMETRY OperatorSymmetry
INVARIANTS
    LiveTargetHasTwoApprovers
    ExecutedApprovalHasEvent
    BadFillsWithinPolicy
PROPERTY FullBacklogStays
