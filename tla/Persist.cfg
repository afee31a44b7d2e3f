SPECIFICATION PersistSpec
CONSTANTS
    b1 = b1
    b2 = b2
    dll1 = dll1
    dll2 = dll2
    Callsigns = {}
    NoCallsign = NoCallsign
    TtlMs = 1
    GraceMs = 1
    MaxSlots = 1
    MaxGeneration = 1
    MaxNow = 0
    Decls <- TwoPlugins
    Types = {"F64"}
    Values <- Doubles
    Saved <- SavedForQ
    RoundTrip <- NotANumber
    Unreadable = Unreadable
    Disks = {TRUE, FALSE}
    MaxClock = 5
    MaxLives = 2
    MaxRuns = 2
    MaxProviders = 3
    Bases = {b1}
    Paths = {dll1}
INVARIANTS
    StagedIsKept
    CleanMeansSaved
PROPERTIES
    ReaddKeepsValues
    CompleteOnDisk
CHECK_DEADLOCK FALSE
