CONSTANTS
    LastThread = 3
    MaxSignals = 4
SPECIFICATION Spec
INVARIANTS
    LaterSignalsReachMore
    CanExitIsMayLeave
PROPERTIES
    ImplementsSemantics
