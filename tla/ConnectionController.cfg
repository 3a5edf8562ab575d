SPECIFICATION Spec
CONSTANTS
    NoFlow = NoFlow
    Callers = {d1, d2}
    MaxHandles = 3
    TailOutlastsDelay = FALSE
SYMMETRY CallerSymmetry
INVARIANTS
    TypeOK
    FlowsUseLiveHandles
    OneDestroyerPerHandle
    ReleasedMeansGone
    ConfirmedMeansGone
    NoForgottenHandle
PROPERTIES
    ImplementsLifetime
CHECK_DEADLOCK FALSE
