SPECIFICATION RegistrySpec
CONSTANTS
    a1 = a1
    a2 = a2
    b1 = b1
    b2 = b2
    dll1 = dll1
    dll2 = dll2
    Callsigns = {a1}
    NoCallsign = NoCallsign
    TtlMs = 1
    GraceMs = 1
    MaxSlots = 1
    MaxGeneration = 2
    MaxNow = 0
    Decls <- LifecycleDecls
    Types = {"I64", "STR"}
    Values <- BothTypes
    Bases = {b1, b2}
    Paths = {dll1, dll2}
    Saved <- LifecycleSaved
    MaxProviders = 3
    MaxClock = 5
    MaxLives = 3
SYMMETRY RegistrySymmetry
INVARIANTS
    RegistryTypeOK
    ClaimsExclusive
    ValuesDieWithClaim
    ValuesIndexed
PROPERTIES
    GateSound
    ImplementsBoard
CHECK_DEADLOCK FALSE
