CONSTANTS
    t1 = t1
    u1 = u1
    u2 = u2
    r1 = r1
    Target = {t1}
    User = {u1, u2}
    Reader = {r1}
    Capacity = 2
    MaxMessages = 4
    MaxRegisters = 2
SPECIFICATION FairSpec
INVARIANTS
    TypeOK
    NothingStranded
    ExactlyOnePlace
    LossExplained
    RetainedInOrder
PROPERTIES
    RetainedReplayed
CHECK_DEADLOCK FALSE
