SPECIFICATION PersistSpec
CONSTANTS
    b1 = b1
    b2 = b2
    dll1 = dll1
    dll2 = dll2
    Callsigns = {}
    NoCallsign = NoCallsign
    TtlMs = 1
    GraceMs = 1
    MaxSlots = 1
    MaxGeneration = 1
    MaxNow = 0
    Decls <- OnePlugin
    Types = {"I64"}
    Values <- OneInteger
    Saved <- NoSaved
    RoundTrip <- Exact
    Unreadable = Unreadable
    Disks = {FALSE}
    MaxClock = 3
    MaxLives = 1
    MaxRuns = 2
    MaxProviders = 1
    Bases = {b1}
    Paths = {dll1}
PROPERTIES
    CrashKeepsSaved
CHECK_DEADLOCK FALSE
