SPECIFICATION Spec
CONSTANTS
    Total = 1528
    Align = 8
    xHeapStructSize = 8
    NULL = NULL
    EventCapacity = 2
    QueueSize = 20
    NodeSize = 20
    Report <- MCReport
    Message <- MCMessage
    MaxCredit = 1
    MaxInputs <- MCInputs
INVARIANTS
    HeapSound
    BuffersOwned
    NoMisuse
CHECK_DEADLOCK FALSE
