CONSTANTS
    MaxTraces = 3
    MaxOps = 2
    Events = {"interrupt", "alarm", "back", "crash", "_exit"}
SPECIFICATION FairSpec
INVARIANTS
    TypeOK
    OneTraceAtATime
    TraceIsInStep
    NoTraceOutlivesTheScheduler
PROPERTIES
    CrashIsReported
    McMiniEnds
CHECK_DEADLOCK FALSE
