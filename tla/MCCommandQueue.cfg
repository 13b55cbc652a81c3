SPECIFICATION FairSpec
CONSTANTS
    Callers = {t1, t2}
    Requests <- MCRequests
    MaxQueueSize = 2
    MaxCommands = 4
    NoCmd = NoCmd
INVARIANTS
    TypeOK
    ServiceOrder
    OnePlace
    BoundedUnlessEssential
    NoLostWakeup
PROPERTIES
    TrimsTheLast
    Promise
    QueueServed
