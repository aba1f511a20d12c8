SPECIFICATION Spec
CONSTANTS
    Identity = {id1, id2}
    Blank = Blank
    Unbound = Unbound
    MaxFailures = 3
INVARIANTS
    TypeOK
    CompletedSaveIsDurable
    OneFailureLosesNothing
    BoundUnderOwnIdentity
PROPERTIES
    MigrationCompletes
