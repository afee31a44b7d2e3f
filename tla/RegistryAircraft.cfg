SPECIFICATION RegistrySpec
CONSTANTS
    a1 = a1
    a2 = a2
    b1 = b1
    b2 = b2
    dll1 = dll1
    dll2 = dll2
    Callsigns = {a1, a2}
    NoCallsign = NoCallsign
    TtlMs = 1
    GraceMs = 1
    MaxSlots = 2
    MaxGeneration = 3
    MaxNow = 2
    Decls <- AircraftDecls
    Types = {"I64", "STR"}
    Values <- TwoValues
    Bases = {b1}
    Paths = {dll1}
    Saved <- NoSaved
    MaxProviders = 1
    MaxClock = 5
    MaxLives = 1
SYMMETRY CallsignSymmetry
INVARIANTS
    ValuesOnlyInSight
CHECK_DEADLOCK FALSE
