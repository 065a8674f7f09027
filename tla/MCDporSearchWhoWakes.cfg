CONSTANTS
    a = a
    b = b
    s = s
    c = c
    d = d
    w = w
    l = l
    x = x
    none = none
    LastThread = 2
    Mutexes = {a, b}
    Semaphores = {s}
    Conds = {c, d}
    Barriers = {w}
    RWLocks = {l}
    Variables = {x}
    NoObject = none
    Nobody = none
    InitialCount <- MCInitialCount
    BarrierCount <- MCBarrierCount
    CondMutex <- MCCondMutex
    NoThread = none
    MaxTransitions = 60
    MaxThreads = 3
    CycleLimit = 5
    Unlimited = 1000
    MaxBacks = 0
    EarlyStopping = {}
    Searches <- WhoWakesSearches
    Programs <- AllMCPrograms
SPECIFICATION McMiniSpec
INVARIANTS
    NoDeadlockMissed
