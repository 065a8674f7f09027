CONSTANTS
    a = a
    b = b
    s = s
    c = c
    d = d
    w = w
    l = l
    x = x
    none = none
    LastThread = 2
    Mutexes = {a, b}
    Semaphores = {s}
    Conds = {c, d}
    Barriers = {w}
    RWLocks = {l}
    Variables = {x}
    NoObject = none
    Nobody = none
    InitialCount <- MCInitialCount
    BarrierCount <- MCBarrierCount
    CondMutex <- MCCondMutex
    Programs <- AllPrograms
SPECIFICATION Spec
INVARIANTS
    TypeOK
    IndependenceHolds
    EnabledTogetherAreCoenabled
    UnapplyIsExact
    SynchronisationHolds
CHECK_DEADLOCK FALSE
