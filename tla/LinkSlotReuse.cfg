SPECIFICATION Spec
CHECK_DEADLOCK FALSE
CONSTANTS
    NumSlots = 2
    Established = {1}
    MaxContexts = 3
INVARIANT NoUseAfterFree
