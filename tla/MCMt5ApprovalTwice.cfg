SPECIFICATION Spec
CONSTANTS
    Instruments <- MCInstruments
    Modes <- MCModes
    Regimes <- MCRegimes
    Venues <- MCVenues
    Policy <- MCPolicy
    Orders <- MCOrders
    MaxApiErrors = 1
    MaxSlippageBps = 30
    MaxDrawdown = 15
    Slippages <- MCSlippages
    Drawdowns <- MCNone
    ActivationReasons <- MCNone
    ErrorBound = 1
    Accounts = {a1}
    Users = {u1, u2}
    Approvals = {l1}
    Handlers = {h1, h2}
    Tickets = {t1, t2}
    MinLiveConfidence = 70
    DegradedMultiplier = 60
    SameSignalLimit = 3
    BlockAfterRepeats = 5
    MaxPendingApprovals = 2
SYMMETRY OperatorSymmetry
INVARIANT ApprovalExecutedOnce
