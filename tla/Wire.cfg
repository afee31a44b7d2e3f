SPECIFICATION WireFairSpec
CONSTANTS
    Scripts <- MCScripts
    Connects <- MCConnects
    Subscribe <- MCSubscribe
    Wanted <- MCWanted
    Modes = {TRUE, FALSE}
    Tokens = 2
    MaxIterations = 4
    MaxMessage = 16
    MaxRecv = 6
    Window = 12
    MaxRecord = 7
    SendSizes = {7}
    MaxFaults = 1
    MaxConns = 2
PROPERTIES
    InStep
    EverythingIsRead
CHECK_DEADLOCK FALSE
