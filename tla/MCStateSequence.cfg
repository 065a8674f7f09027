CONSTANTS
    Runners = {p, q}
    MaxObjects = 2
    MaxStates = 4
    MaxHistory = 3
    MaxConsumed = 1
SPECIFICATION Spec
INVARIANTS
    TypeOK
    SequenceIsPath
PROPERTIES
    PastViewsStay
    EnabledRunnersMove
CHECK_DEADLOCK FALSE
