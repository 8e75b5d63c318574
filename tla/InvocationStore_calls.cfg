CONSTANTS
    i1 = i1
    s1 = s1
    t1 = t1
    t2 = t2
    NoTask = NoTask
    Invocation = {i1}
    Stream = {s1}
    Task = {t1, t2}
    MaxItems = 2
SPECIFICATION FairSpec
INVARIANTS
    TypeOK
    CompletedOnce
    RemovedCallsClosed
    NoLostWakeup
    NoActionLeft
PROPERTIES
    ClosedCallsReturn
    KeepsContract
