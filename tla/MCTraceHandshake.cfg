CONSTANTS
    m = m
    a = a
    b = b
    c = c
    none = none
    Threads = {m, a, b, c}
    Main = m
    NoThread = none
    Unknown = Unknown
    Program <- MCProgram
SPECIFICATION FairSpec
INVARIANTS
    TypeOK
    OneThreadRuns
    PermitsAreNotKept
    MailboxIsFresh
    ModelMatchesTrace
    ReplayIsFaithful
    NoTraceLeftBehind
PROPERTIES
    ImplementsSequentialTrace
    EveryWaitEnds
