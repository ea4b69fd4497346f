SPECIFICATION FairSpec
CONSTANTS
    MaxWorkers = 2
    Options <- Pools
    Nil = Nil
INVARIANTS
    TypeOK
    PoolIsConsistent
PROPERTIES
    DeadAreReaped
    ShutdownCompletes
    PendingIsServed
\* A server nobody connects to waits in poll().
CHECK_DEADLOCK FALSE
