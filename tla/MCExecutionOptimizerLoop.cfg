SPECIFICATION FairSpec
CONSTANTS
    Notional = 4
    MaxCycles = 3
    Dust = 1
    Bybit = TRUE
INVARIANTS
    OneWorkingOrder
    OverfillAccounted
    FinalStatusTruthful
PROPERTIES
    LoopEnds
CHECK_DEADLOCK FALSE
