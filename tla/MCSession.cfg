SPECIFICATION Spec
CONSTANTS
    Capacity = 3
    MaxConnections = 2
    MaxSn = 2
INVARIANTS
    BoundAgreesWithStatus
    HonestPhoneInOrder
    CommandInItsConnection
    UnauthIsWatched
    RandEndsWithConnection
    NoUnauthWithoutLink
PROPERTIES
    UnauthEnds
