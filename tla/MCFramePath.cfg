SPECIFICATION Spec
CONSTANTS
    Feeds <- MCFeeds
    Market <- MCMarket
    MaxQueueDepth = 2
    MaxGrace = 1
    Stall = 2
    Buffer = 1
    MaxSeq = 2
    MaxFrames = 3
    MaxSwitches = 2
    MaxFallbacks = 2
    MaxNumber = 3
    Payloads = {p1, p2}
    GuardSessions = {s1, s2}
    GuardRequests = {r1, r2}
    NoSession = NoSession
INVARIANTS NoLostWakeup GateHoldsThisMarket StaleFeedsByRefreshOnly
PROPERTIES EventuallyIdle WindowEnds OrderedSpec
CONSTRAINT ExpectedBound
CHECK_DEADLOCK FALSE
