---- MODULE MCDporSearch ----
EXTENDS LivelockCheck, MCPrograms

MCInitialCount == [sem \in Semaphores |-> 1]
MCBarrierCount == [barrier \in Barriers |-> 2]
MCCondMutex == [cond \in Conds |-> a]

Search(programs, args) == {[program |-> prg, args |-> args] : prg \in programs}

\* Everything is to be found.
All == <<<<"-a">>, <<"--continue-after-data-race">>>>

AllSearches ==
    Search(MutexPrograms \cup TryPrograms \cup SemPrograms \cup GlobalPrograms
           \cup CondPrograms \cup CondsPrograms \cup RWLockPrograms({<< >>})
           \cup RWWLockPrograms({<< >>}) \cup MiscPrograms, All)

\* The same, round robin.
RoundRobinSearches ==
    Search(MutexPrograms \cup SemPrograms \cup CondPrograms \cup CondsPrograms,
           All \o <<<<"-r">>>>)

\* Threads that run longer than the depth limit lets them: the main thread is at
\* the limit (4) once it has created the others.  And programs whose search goes back
\* by undoing transitions, MCThreadFinish among them, which does not count.
DepthPrograms ==
    {ProgramOf(InitMutexes, main, b1, b2) :
        main \in {<< >>},
        b1 \in {Section(a) \o Nested(b, a), Nested(a, b) \o Section(a)},
        b2 \in {Nested(a, b), Section(b) \o Nested(a, b)}}
    \cup ReinitPrograms

Deadlocking == {ProgramOf(InitMutexes, << >>, Nested(a, b), Nested(b, a))}

\* The main thread creates the others, then each of them takes a mutex.
GivenSequences == {<<0, 0, 0, 0, 0, 1, 2>>, <<0, 0, 0, 0, 0, 2, 2, 1, 2>>}

LimitedSearches ==
    Search(DepthPrograms, <<<<"-a">>, <<"-m", 4>>>>)
    \cup Search(Deadlocking, << >>)
    \cup Search(Deadlocking, <<<<"-a">>, <<"-M", 8>>>>)
    \cup Search(Deadlocking, <<<<"-t", 1>>>>)
    \cup Search(GlobalPrograms, << >>)
    \cup UNION {Search(Deadlocking, <<<<"-a">>, <<"-tseq", given>>>>) : given \in GivenSequences}

FollowedPrograms == {ProgramOf(InitMutexes, << >>, Forever(Section(a)), Forever(Section(a)))}

\* McMini is built with early stopping for these, and as by default for the others: among
\* them four programs that loop, whose cycles are then as long as they can be.
MCEarlyStopping ==
    (LoopPrograms \ LoopsBeside(<< >>, {Section(a)})) \cup FollowedPrograms

\* Among them two with "-t": a sequence as long as the stack, and one that the livelock
\* check follows.
LivelockSearches ==
    Search(LoopPrograms, <<<<"-a">>, <<"-l">>, <<"-m", 6>>>>)
    \cup Search(Deadlocking, <<<<"-l">>>>)
    \cup Search({ProgramOf(InitMutexes, Forever(Section(a)), << >>, << >>)},
                <<<<"-tseq", [i \in 1 .. MaxTransitions + 1 |-> 0]>>>>)
    \cup Search(FollowedPrograms, <<<<"-l">>, <<"-tseq", [i \in 1 .. 12 |-> IF i <= 5 THEN 0 ELSE 1]>>>>)

\* The searches that show something the code does not do.
StaticSearches == Search(StaticPrograms, All)
BarrierSearches == Search(BarrierPrograms, All)
WhoWakesSearches == Search(WhoWakesPrograms, All)
BackSearches == UNION {Search(Deadlocking, <<<<"-tseq", given>>>>) : given \in GivenSequences}

\* A cycle limit larger than the one there is room for.
OverflowSearches == Search(LoopPrograms, <<<<"-l">>, <<"-lc", 20>>>>)

MCSearches == AllSearches \cup RoundRobinSearches \cup LimitedSearches \cup LivelockSearches
AllMCPrograms ==
    {search.program : search \in MCSearches \cup StaticSearches \cup BarrierSearches \cup WhoWakesSearches}
====
