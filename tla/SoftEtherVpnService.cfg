SPECIFICATION Spec
CONSTANTS
    MaxSessions = 2
    MaxDescriptors = 2
    MaxStops = 2
INVARIANTS
    TypeOK
    SingleNativeAttempt
    CompletionsAreTrue
PROPERTIES
    AdmissionOrphansNobody
    StoppedSessionsStayDown
    StaleStopKeepsTun
    UsesTunCoordinator
CHECK_DEADLOCK FALSE
