SPECIFICATION Spec
CHECK_DEADLOCK FALSE
CONSTANTS
    MaxConnects = 2
    NumTransports = 4
    Deadline = 4
    MaxExp = 3
    MaxInbox = 2
    Servers = {a, b}
    Polls = 1
    MaxRetries = 3
    ArpReads = 2
    MaxQueue = 2
    PromptServer = a
    NoServer = NoServer
INVARIANTS
    ConnectReleasesOrCompletes
    OneWinnerIsAdopted
    TransportResultIsTrue
    
PROPERTIES
    CancelledConnectFails
    EveryWaitEnds
