SPECIFICATION FairSpec
CONSTANTS
    old = old
    even = even
    odd = odd
    long = long
    File = {old, even, odd, long}
    Length <- FileLength
    Factory = old
    Offered = {even, odd, long}
    PacketLen = 2
    Sector = 4
    FwMax = 8
    Patient = TRUE
    MaxTroubles = 3
    NONE = NONE
INVARIANTS
    AlwaysBootable
    ResumePointHolds
PROPERTIES
    UpdateSucceeds
CHECK_DEADLOCK FALSE
