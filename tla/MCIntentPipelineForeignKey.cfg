SPECIFICATION Spec
CONSTANTS
    Instruments <- MCInstruments
    Modes <- MCModes
    Regimes <- MCRegimes
    Venues <- MCVenues
    Policy <- MCPolicy
    Orders <- MCOrders
    MaxApiErrors = 1
    MaxSlippageBps = 30
    MaxDrawdown = 15
    Slippages <- MCNoLosses
    Drawdowns <- MCNoLosses
    ErrorBound = 1
    ActivationReasons <- MCReasons
    LiveModes <- MCLiveModes
    HoldModes <- MCHoldModes
    Intents = {i1}
    Handlers = {h1, h2}
    Posts = {p1}
    MaxSubmits = 2
SYMMETRY HandlerSymmetry
INVARIANT OrderInsertHasIntent
