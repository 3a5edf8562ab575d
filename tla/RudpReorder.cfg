SPECIFICATION MCSpec
CHECK_DEADLOCK FALSE
CONSTANTS
    Window = 2
    SegmentUnits = 1
    FifoUnits = 1
    Loads <- BothLoads
    QueueSize = 1
    BatchPackets = 1
    RoomFor = 1
    Extra = {}
    Kinds = {"ip"}
    MaxBlocks = 1
    MaxSent = 0
PROPERTY DrainsWhatIsInOrder
