SPECIFICATION DispatchFairSpec
CONSTANTS
    a1 = a1
    a2 = a2
    m1 = m1
    m2 = m2
    Keys <- TwoAircraft
    Modules = {m1, m2}
    NoKey = NoKey
    MaxRounds = 2
    MaxSubs = 2
INVARIANTS
    OwedIsScheduled
    CallsAreBounded
PROPERTIES
    WritesReturn
    DeadAreNotCalled
CHECK_DEADLOCK FALSE
