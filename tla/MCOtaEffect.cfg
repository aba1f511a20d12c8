SPECIFICATION Spec
CONSTANTS
    old = old
    even = even
    odd = odd
    long = long
    File = {old, even, odd, long}
    Length <- FileLength
    Factory = old
    Offered = {even, odd}
    PacketLen = 2
    Sector = 4
    FwMax = 8
    Patient = FALSE
    MaxTroubles = 2
    NONE = NONE
INVARIANTS
    VerifiedTakesEffect
CHECK_DEADLOCK FALSE
