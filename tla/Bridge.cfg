SPECIFICATION BridgeSpec
CONSTANTS
    A = A
    B = B
    R = R
    x = x
    y = y
    None = None
    Copies = {A, B, R}
    Named = {A, B}
    Clients = {x, y}
    LogLines = 1
    MaxLoads = 3
    MaxWrites = 1
    MaxFaults = 1
SYMMETRY Symmetric
INVARIANTS OneRegistry FlushedIsFinal LogKeepsTail
PROPERTIES NothingDangles RestartServes
