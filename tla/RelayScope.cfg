SPECIFICATION SideSpec
CONSTANTS
    a1 = a1
    a2 = a2
    p1 = p1
    Callsigns <- TwoAircraft
    NoCallsign = NoCallsign
    TtlMs = 1
    GraceMs = 0
    MaxSlots = 1
    MaxGeneration = 2
    MaxNow = 1
    Fields <- BothScopes
    AircraftFields = {"tobt"}
    Decls <- Versions
    Allowed = TRUE
    Peers = {p1}
    Offers <- SomeOffers
    PendingTtlMs = 0
    MaxKeys = 1
    MaxOutbound = 1
    MaxInbound = 1
    MaxPending = 2
    MaxClock = 2
PROPERTY
    EveryScopeIsSent
CHECK_DEADLOCK FALSE
