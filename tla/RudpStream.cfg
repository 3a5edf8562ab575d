SPECIFICATION MCSpec
CHECK_DEADLOCK FALSE
CONSTANTS
    Window = 2
    SegmentUnits = 1
    FifoUnits = 1
    Loads <- BothLoads
    QueueSize = 2
    BatchPackets = 1
    RoomFor = 1
    Extra = {"extra"}
    Kinds = {"ip", "other", "empty", "large"}
    MaxBlocks = 3
    MaxSent = 3
INVARIANTS
    
    AcksAreTrue
PROPERTY
    FramesAreDelivered
