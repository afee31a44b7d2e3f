SPECIFICATION TableFairSpec
CONSTANTS
    a1 = a1
    a2 = a2
    Callsigns <- TwoAircraft
    NoCallsign = NoCallsign
    TtlMs = 1
    GraceMs = 1
    MaxSlots = 2
    MaxGeneration = 4
    MaxNow = 4
INVARIANTS
    SlotsConserved
PROPERTIES
    ReconnectKeepsSlot
    ImplementsHandles
    AgesOut
CHECK_DEADLOCK FALSE
