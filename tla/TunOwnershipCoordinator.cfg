SPECIFICATION Spec
CONSTANTS
    MaxSessions = 3
    MaxDescriptors = 4
INVARIANTS
    TypeOK
    NoLeakedDescriptor
    HeldIsReleasable
PROPERTIES
    OnlyPermittedEstablish
CHECK_DEADLOCK FALSE
