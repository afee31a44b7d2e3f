SPECIFICATION RelayFairSpec
CONSTANTS
    Keys = {"set", "run"}
    Self = "self"
    Peers = {"p1"}
    MaxOutbound = 2
    MaxInbound = 1
    MaxClock = 3
    MaxFaults = 2
    MaxStarts = 2
INVARIANTS
    RelayTypeOK
    QueueKeepsNewest
    ConnectedMeansSubscribed
PROPERTIES
    RetainedForward
    StopReturns
    Recovers
CHECK_DEADLOCK FALSE
