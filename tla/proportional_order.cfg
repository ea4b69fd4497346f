SPECIFICATION Spec
CONSTANTS
    m1 = m1
    m2 = m2
    m3 = m3
    i1 = i1
    i2 = i2
    a1 = a1
    a2 = a2
    u1 = u1
    Member = {m1, m2, m3}
    Initiative = {i1, i2}
    Suggestion = {1, 2, 3}
    InitiativeOf <- MCInitiativeOf
    Ratings = {1, 2}
    SnapshotWeight <- MCSnapshotWeight
    Start <- MCStart
    Calm <- MCCalm
    MaxChanges = 2
    MaxFaults = 1
    Supporter = {m1, m2, m3}
    Issue = {1, 2, 3}
    AreaOf <- MCAreaOf
    UnitOf <- MCUnitOf
    Support <- MCSupport
    CalmSupport <- MCCalmSupport
    MaxEvents = 2
    MaxFailures = 1
INVARIANTS
    OrderTypeOK
    OrdersAreSound
    MinoritiesAreRepresented
    SuccessMeansStored
PROPERTIES
    OrdersAreMade
