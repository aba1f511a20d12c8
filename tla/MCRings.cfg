SPECIFICATION RingsSpec
CONSTANTS
    Event <- MCEvent
    NoEvent = NoEvent
    m_queue_size = 3
    Byte = {1, 2}
    PoolSize = 6
    Forcing = FALSE
INVARIANTS
    TypeOK
    SnapshotInQueue
    HandledSlotIntact
    MirrorsAgree
PROPERTIES
    FifoSafety
    FifoFairness
    PassEnds
    BytesInOrder
