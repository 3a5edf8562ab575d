SPECIFICATION FairSpec
CHECK_DEADLOCK FALSE
CONSTANTS
    NumSlots = 2
    Established = {0, 2}
    MaxContexts = 2
INVARIANTS
    ContextsAreSafe
    DisconnectedIsClean
PROPERTIES
    DisconnectCompletes
