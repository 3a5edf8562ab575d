SPECIFICATION Spec
CONSTANTS
    TeardownBound = 3
    ConnectingBound = 2
    MaxAttempts = 3
    MaxTime = 9
INVARIANTS
    TypeOK
    ReleasedExactlyOnce
    StampsAreOwners
    StuckTeardownIsReclaimable
PROPERTIES
    DisplacedOnlyAfterOwnBound
CHECK_DEADLOCK FALSE
