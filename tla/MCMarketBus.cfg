SPECIFICATION Spec
CONSTANTS
    Kind = "ohlcv"
    StreamVenues <- MCVenues
    FusionVenues <- MCFusion
    MaxSockets = 5
    Threshold = 3
    MaxTrouble = 4
    MaxStreamConnects = 3
    Configs <- MCConfigs
    Market <- MCMarket
    MaxFlights = 3
    MaxConfigures = 4
    RingVenues <- MCFusion
    Priority <- MCPriority
    Capacity = 2
    PullLimit = 3
    MaxTrades = 5
    MaxMarkets = 2
    BookVenues <- MCFusion
    Primary = "binance"
    Levels = {"l1", "l2"}
    Sizes = {0, 1, 2}
    History <- MCHistory
    MaxBuffered = 2
INVARIANTS NeverGivenUp OrphansOnlyByOverlap LiveBookIsVenueBook
PROPERTIES StreamRecovers ShownSettles Resynced QueuesSpec
CHECK_DEADLOCK FALSE
