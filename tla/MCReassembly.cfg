SPECIFICATION Spec
CONSTANTS
    Limit = 10
    FrameMax = 30
    Total <- MCTotal
    MaxMessages = 3
    NULL = NULL
INVARIANTS
    CopiesStayInBuffer
    HandedIsTheMessage
    WholeMessageIsHanded
