SPECIFICATION FairSpec
CONSTANTS
    Clients = {c1, c2}
    Names = {n1, n2}
    MaxTroubles = 1
INVARIANTS NoOrphanConsumer RegisteredOwnsProcedure RollbackHeals
PROPERTIES KeepsItsName WritesOnlyOwn RegistrationReturns
CHECK_DEADLOCK FALSE
