SPECIFICATION Spec
CONSTANTS
    MaxSessions = 2
    MaxDescriptors = 2
    MaxStops = 2
INVARIANTS
    ErrorsStopTheirOwnSession
CHECK_DEADLOCK FALSE
