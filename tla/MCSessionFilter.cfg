SPECIFICATION SafeSpec
CONSTANTS
    Capacity = 3
    MaxConnections = 1
    MaxSn = 3
INVARIANTS
    DpWriteOnlyWhenBound
