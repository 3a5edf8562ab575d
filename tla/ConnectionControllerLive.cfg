SPECIFICATION FairSpec
CONSTANTS
    NoFlow = NoFlow
    Callers = {d1}
    MaxHandles = 2
    TailOutlastsDelay = FALSE
PROPERTIES
    TeardownIsDecided
    CallersReturn
CHECK_DEADLOCK FALSE
