SPECIFICATION Spec
CONSTANTS
    queue_size = 2
    MaxPackets = 4
    EventCapacity = 3
    Elem <- MCElem
    NoElem = 0
INVARIANTS
    OneRetryWhilePacketsWait
    BuffersOwnedByQueue
    EachPacketOnceInOrder
PROPERTIES
    PacketsLeave
