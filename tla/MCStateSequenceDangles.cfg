CONSTANTS
    Runners = {p}
    MaxObjects = 2
    MaxStates = 3
    MaxHistory = 2
    MaxConsumed = 1
SPECIFICATION Spec
INVARIANT OtherViewsRemainValid
CHECK_DEADLOCK FALSE
