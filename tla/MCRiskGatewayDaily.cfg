SPECIFICATION DaySpec
CONSTANTS
    Instruments <- MCInstruments
    Modes <- MCModes
    Regimes <- MCRegimes
    Venues <- MCVenues
    Policy <- MCPolicy
    Orders <- MCOrders
    MaxRestarts = 2
INVARIANT AcceptedTodayWithinLimit
