SPECIFICATION Spec
CONSTANTS
    num = 2
    Pointers = 4
    MaxChunks = 5
    NONE = NONE
    UART_FRAME_MAX = 12
    Sent <- MCSent
    Cuts = {1, 6, 9}
INVARIANTS
    ChunksInOrder
    FrameIsWatched
    CleanFramesAnswered
PROPERTIES
    ChunksArrive
CHECK_DEADLOCK FALSE
