SPECIFICATION Spec
CHECK_DEADLOCK FALSE
CONSTANTS
    Callers = {c1, c2}
    Destroyers = {d1, d2}
    CwinStart = 2
    CwinMin = 1
    CwinMax = 3
    CwinGrow = 1
    MaxBlock = 2
    RecvQueueSize = 1
    OverflowThreshold = 2
    SuspendTicks = 1
    CleanReset = 4
    KaTimeout = 2
    KaMin = 2
    KaMax = 3
    RequireContinuous = 2
    WindowSize = 2
    PeerTickLossGap = 2
    MaxClock = 5
    MaxFlight = 2
PROPERTIES
    ContextIsFreedSafely
    
    NothingIsStuck
