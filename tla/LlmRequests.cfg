SPECIFICATION FairSpec
CONSTANTS
    one = one
    two = two
    three = three
    alice = alice
    admin = admin
    plan = plan
    Nobody = Nobody
    Requests <- MCRequests
    Users <- MCUsers
    Superusers <- MCSuperusers
    Solutions <- MCSolutions
    Owner <- MCOwner
    Limit = 1
    MaxAttempts = 2
    PoolSize = 2
INVARIANTS
    HistoryIsWhole
    OwnDataOnly
    SpendIsBounded
PROPERTIES
    CachedIsNotAsked
    RequestsEnd
CHECK_DEADLOCK FALSE
