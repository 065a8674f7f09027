---- MODULE DporSearch ----
(***************************************************************************)
(* McMini's search: MCStack and the loop around it                         *)
(* (mc_do_model_checking, mc_explore_branch,                               *)
(* mc_search_dpor_branch_with_thread).  Running a thread to its next       *)
(* visible operation is one step here; TraceHandshake shows why it may be. *)
(*                                                                         *)
(* The scheduler cannot copy a process, so it keeps one stack of           *)
(* transitions and one of states, and goes back by undoing or replaying    *)
(* transitions on its shadow objects.  Persistent sets (backtrack sets),   *)
(* sleep sets and clock vectors decide which interleavings it skips.       *)
(*                                                                         *)
(* Indices are the source's, from 0: transition i leads from state i to    *)
(* state i + 1.                                                            *)
(***************************************************************************)
EXTENDS TargetProgram, SequencesExt, Launcher

CONSTANTS
    Searches,   \* what is searched, and with which command line: [program, args]
    MaxBacks,   \* bound: how often the user of the debugger may say "mcmini back"
    NoThread    \* no transition to run next (nullptr); no entry of "-t" left (-1, -2)

ASSUME SearchAssumption ==
    /\ NoThread \notin Threads
    /\ MaxBacks \in Nat
    /\ \A search \in Searches :
          /\ search.program \in Programs
          /\ Environment(search.args).PRINT_AT_TRACE_SEQ \in Seq(Threads)
          /\ Environment(search.args).MAX_TRANSITIONS_TOTAL \in Nat
          /\ Environment(search.args).MAX_LIVELOCK_CYCLE_LIMIT \in Nat

VARIABLES
    env,                \* the environment of the scheduler
    configuration,      \* MCStack::configuration
    transitionStack,    \* MCStack::transitionStack, of [tid, pos]
    stateStack,         \* MCStack::stateStack, of MCStackItem
    initialObjects,     \* MCObjectStore: the state each object was registered in
    known,              \* the threads 0 .. nextThreadId - 1
    threadData,         \* MCStack::threadData: execution depth and clock vector
    irreversible,       \* irreversibleStatesStack, as a set of state indices
    current,            \* the thread whose transition the loop runs next, or NoThread
    phase,              \* "running" in the loop, "ended": nothing to run next, "judged"
    traceId,
    seq,                \* "-t": the next entry for getFirstEnabledTransition, the next one
                        \* for getCurrentlyEnabledThreads, lastEndOfTraceId (0 for -1, n + 1 for n)
    backs,              \* how often the user has said "mcmini back"
    result,             \* why McMini stopped; "none" as long as it has not
    deadlocks,          \* the deadlocks reported so far, each as the positions of the threads
    races               \* the threads reported in a data race
\* `objects` (MCObjectStore, current states) and `pos` (nextTransitions: the position
\* of each thread's next transition) are the variables of TargetProgram.

modelVars == <<objects, pos, transitionStack, stateStack, initialObjects, known,
               threadData, irreversible>>
searchVars == <<program, modelVars, env, configuration, current, phase, traceId, seq,
                backs, result, deadlocks, races>>

Results == {"none", "explored", "first deadlock", "data race", "abort",
            "trace requested", "trace sequence done", "execution limit", "undefined"}

-----------------------------------------------------------------------------
(* Reading the stacks *)

transitionStackTop == Len(transitionStack) - 1
stateStackTop == Len(stateStack) - 1

\* A transition of the stack, as what it does.
Decode(t) == TransitionAt(program, t.tid, t.pos)
getTransitionAtIndex(i) == Decode(transitionStack[i + 1])
getStateItemAtIndex(i) == stateStack[i + 1]

ZeroClock == [t \in Threads |-> 0]

NewItem(cv, sleep) ==
    [backtrack |-> {}, done |-> {}, sleep |-> sleep, enabled |-> {}, clock |-> cv]

\* Without the depth limit.
EnabledIn(o, next, threads) ==
    {t \in threads : transitionEnabledInState(o, TransitionAt(program, t, next[t]))}

\* MCStack::transitionIsEnabled: with it.
transitionIsEnabled(o, next, data, t) ==
    /\ data[t].depth < configuration.maxThreadExecutionDepth
    /\ transitionEnabledInState(o, TransitionAt(program, t, next[t]))

-----------------------------------------------------------------------------
(* "-t": the threads the first trace has to run.                             *)

Following(end) == env.PRINT_AT_TRACE_SEQ # << >> /\ end # traceId + 1

\* getNextTraceSeqEntry.  The array holds -1 behind the sequence, then zeros.
getNextTraceSeqEntry(index, end) ==
    LET given == env.PRINT_AT_TRACE_SEQ
    IN  CASE ~ Following(end) \/ index = Len(given) -> NoThread
          [] Following(end) /\ index < Len(given) -> given[index + 1]
          [] OTHER -> Main

\* Who comes to the end of the sequence notes that this trace has left it.
EndAfter(index, end) ==
    IF Following(end) /\ index = Len(env.PRINT_AT_TRACE_SEQ) THEN traceId + 1 ELSE end

\* Behind the sequence all entries are alike.
Later(index) == IF index > Len(env.PRINT_AT_TRACE_SEQ) THEN index ELSE index + 1

\* MCStack::getCurrentlyEnabledThreads: in a given sequence just its next entry.  The
\* function counts the entries it has used for itself.
getCurrentlyEnabledThreads ==
    LET entry == getNextTraceSeqEntry(seq.enabled, seq.end)
    IN  IF entry = NoThread THEN EnabledIn(objects, pos, known) ELSE {entry}

-----------------------------------------------------------------------------
(* simulateRunningTransition *)

\* The states behind the transitions on the stack that the transition depends on.
DependsOnStates(tr) ==
    {i \in 1 .. stateStackTop : dependentTransitions(getTransitionAtIndex(i - 1), tr)}

\* Mutant: the clock of the latest dependent transition instead of the maximum.
LatestClockOnly(tr) ==
    IF DependsOnStates(tr) = {} THEN ZeroClock
    ELSE getStateItemAtIndex(Max(DependsOnStates(tr))).clock

\* transitionStackMaxClockVector: the clock of everything the transition depends on.
transitionStackMaxClockVector(tr) ==
    LET clocks == {getStateItemAtIndex(i).clock : i \in DependsOnStates(tr)}
    IN  [t \in Threads |-> Max({0} \cup {clock[t] : clock \in clocks})]

\* Mutant: the thread stays in the backtrack set.
NeverErased(item, t) == [item EXCEPT !.done = @ \cup {t}]

\* A thread searched from this state.
markBacktrackThreadSearched(item, t) ==
    [item EXCEPT !.done = @ \cup {t}, !.backtrack = @ \ {t}]

\* Mutant: a dependent transition wakes nobody.
NobodyWakes(sleep, tr) == sleep

StillAsleep(sleep, tr) ==
    {q \in sleep : ~ dependentTransitions(TransitionAt(program, q, pos[q]), tr)}

-----------------------------------------------------------------------------
(* dynamicallyUpdateBacktrackSets.  These operators look at the state after the
   transition was simulated: stack is the new transition stack, data the new
   thread data, next the new pending positions.                              *)

\* MCStack::happensBeforeThread
happensBeforeThread(stack, data, i, p) == i <= data[p].clock[stack[i + 1].tid]

\* MCStack::threadsRaceAfterDepth
threadsRaceAfterDepth(stack, data, depth, q, p) ==
    \E j \in depth + 1 .. Len(stack) - 1 :
        stack[j + 1].tid = q /\ happensBeforeThread(stack, data, j, p)

\* The transitions on the stack are copies.
ShouldProcess(stack, data, o, i, p, nextSP) ==
    LET S_i == Decode(stack[i + 1])
    IN  /\ dependentTransitions(S_i, nextSP)
        /\ coenabledTransitions(staticCopy(o), S_i, o, nextSP)
        /\ ~ happensBeforeThread(stack, data, i, p)

\* addBacktrackingThreadIfUnsearched
Unsearched(item, ts) == ts \ item.done

\* *E.begin() of an unordered_set: some element; which one is the library's choice.
Begin(S, ascending) ==
    IF ascending THEN Min(S) ELSE Max(S)

\* Who may be added to a backtrack set.
Candidates(item) == item.enabled \ item.sleep

\* What dynamicallyUpdateBacktrackSetsHelper adds to the backtrack set of the item, once
\* shouldProcess holds.
BacktrackPoint(stack, data, item, i, p, ascending) ==
    LET candidates == Candidates(item)
        E == {q \in candidates : q = p \/ threadsRaceAfterDepth(stack, data, i, q, p)}
    IN  IF E = {} THEN Unsearched(item, candidates)
        ELSE IF E \cap item.backtrack # {} THEN {}
        ELSE Unsearched(item, {Begin(E, ascending)})

\* The last transition against the next one of every other thread.  Nothing ran after
\* it, so E is {p} or empty: what a thread adds does not depend on what the threads
\* before it in the loop have added.
UpdateTop(states, stack, data, o, next, threads, ascending) ==
    LET top == Len(stack) - 1
        points == {p \in threads \ {stack[top + 1].tid} :
                      ShouldProcess(stack, data, o, top, p, TransitionAt(program, p, next[p]))}
    IN  [states EXCEPT ![top + 1].backtrack = @ \cup
           UNION {BacktrackPoint(stack, data, states[top + 1], top, p, ascending) : p \in points}]

\* The next transition of the thread that ran against all earlier ones; the latest
\* that matters ends the search.
UpdateBelow(states, stack, data, o, next, ascending) ==
    LET top == Len(stack) - 1
        p == stack[top + 1].tid
        points == {i \in 0 .. top - 1 :
                      ShouldProcess(stack, data, o, i, p, TransitionAt(program, p, next[p]))}
    IN  IF points = {} THEN states
        ELSE LET i == Max(points)
             IN  [states EXCEPT ![i + 1].backtrack = @ \cup
                    BacktrackPoint(stack, data, states[i + 1], i, p, ascending)]

\* Mutant: only the last transition is compared.
OnlyTheTop(states, stack, data, o, next, threads, ascending) ==
    UpdateTop(states, stack, data, o, next, threads, ascending)

dynamicallyUpdateBacktrackSets(states, stack, data, o, next, threads, ascending) ==
    UpdateBelow(UpdateTop(states, stack, data, o, next, threads, ascending),
                stack, data, o, next, ascending)

-----------------------------------------------------------------------------
(* Choosing, and the end of a trace *)

\* Mutant: whoever could run before the last transition.
EnabledBeforehand(o, next, data, threads, item) ==
    LET ready == {t \in threads :
                     transitionIsEnabled(objects, pos, data, t) /\ t \notin item.sleep}
    IN  IF ready = {} THEN NoThread ELSE Min(ready)

\* getFirstEnabledTransition: the lowest thread that may run and does not sleep.
getFirstEnabledTransition(o, next, data, threads, item) ==
    LET ready == {t \in threads :
                     transitionIsEnabled(o, next, data, t) /\ t \notin item.sleep}
    IN  IF ready = {} THEN NoThread ELSE Min(ready)

\* getNextFairTransition: the first one that may run, round robin, beginning with the
\* thread after `last'.  The i-th thread looked at is left out if i sleeps.
getNextFairTransition(o, next, data, threads, item, last) ==
    LET n == Cardinality(threads)
        thread(i) == (last + 1 + i) % n
        ready == {i \in 0 .. n - 1 :
                     transitionIsEnabled(o, next, data, thread(i)) /\ i \notin item.sleep}
    IN  IF ready = {} THEN NoThread
        ELSE thread(Min(ready))

\* What the loop runs after a transition of type `type' of thread t.  The sequence of
\* "-t" comes first; then "-M" may end the trace.  A GOAL() must not cost its thread
\* its turn.
NextTransition(o, next, data, threads, item, top, end, type, t) ==
    LET entry == getNextTraceSeqEntry(seq.next, end)
    IN  CASE entry # NoThread -> entry
          [] entry = NoThread /\ top >= configuration.maxTotalTransitionsDepthLimit -> NoThread
          [] OTHER ->
                IF type = "progress"
                THEN getNextFairTransition(o, next, data, threads, item, t - 1 + Cardinality(threads))
                ELSE IF env.EXPLORE_ROUND_ROBIN
                THEN getNextFairTransition(o, next, data, threads, item, t)
                ELSE getFirstEnabledTransition(o, next, data, threads, item)

\* Mutant: a program that has ended is not told from a deadlock.
EveryStopIsDeadlock(o, next, threads) ==
    \A t \in threads : ~ transitionEnabledInState(o, TransitionAt(program, t, next[t]))

isInDeadlock(o, next, threads) ==
    \A t \in threads :
        /\ ~ ensuresDeadlockIsImpossible(TransitionAt(program, t, next[t]))
        /\ ~ transitionEnabledInState(o, TransitionAt(program, t, next[t]))

\* Mutant: only the threads created later are looked at.
RaceWithLaterThread(next, threads, t) ==
    \E u \in threads :
        u > t /\ isRacingWith(TransitionAt(program, u, next[u]), TransitionAt(program, t, next[t]))

\* Mutant: a thread is not left out when its own transition is looked at.
RaceWithItself(next, threads, t) ==
    \E u \in threads :
        isRacingWith(TransitionAt(program, u, next[u]), TransitionAt(program, t, next[t]))

hasADataRaceWithNewTransition(next, threads, t) ==
    \E u \in threads \ {t} :
        isRacingWith(TransitionAt(program, u, next[u]), TransitionAt(program, t, next[t]))

-----------------------------------------------------------------------------

SearchInit ==
    /\ \E search \in Searches :
          /\ program = search.program
          /\ env = Environment(search.args)
    /\ backs = 0
    /\ configuration = get_config_for_execution_environment(env)
    /\ objects = NoObjects
    /\ pos = [t \in Threads |-> 0]
    /\ transitionStack = << >>
    /\ stateStack = <<NewItem(ZeroClock, {})>>
    /\ initialObjects = NoObjects
    /\ known = {Main}
    /\ threadData = [t \in Threads |-> [depth |-> 0, clock |-> ZeroClock]]
    /\ irreversible = {}
    /\ current = Main
    /\ phase = "running"
    /\ traceId = 0
    /\ seq = [next |-> 1, enabled |-> 1, end |-> 0]
    /\ result = "none"
    /\ deadlocks = {}
    /\ races = {}

\* Thread t runs its next transition in the process and in the model.
simulateRunningTransition(t) ==
    LET tr == TransitionAt(program, t, pos[t])
        next == NextPosition(program, t, pos[t])
        announced == TransitionAt(program, t, next)
    IN  /\ transitionStack' = Append(transitionStack, [tid |-> t, pos |-> pos[t]])
        /\ irreversible' = IF isReversibleInState(tr) THEN irreversible
                           ELSE irreversible \cup {stateStackTop + 1}
        /\ threadData' = [threadData EXCEPT ![t] =
               [depth |-> IF countsAgainstThreadExecutionDepth(tr)
                          THEN @.depth + 1 ELSE @.depth,
                clock |-> [transitionStackMaxClockVector(tr) EXCEPT ![t] = Len(transitionStack)]]]
        /\ pos' = [pos EXCEPT ![t] = next]
        /\ objects' = readTransition(applyToState(objects, tr), announced)
        /\ initialObjects' = registerNewObject(initialObjects, announced)
        /\ known' = known \cup (IF announced.type \in {"create", "join"}
                                THEN {announced.obj} ELSE {})

\* Then the state before the transition learns what was enabled, searched and may
\* sleep...
AfterRunning(item, t) ==
    [markBacktrackThreadSearched(item, t) EXCEPT
        !.enabled = @ \cup getCurrentlyEnabledThreads,
        !.sleep = @ \cup {t}]

\* ... and the state after it inherits the sleeping threads whose next transition does
\* not depend on the transition.
growStateStackRunningTransition(t) ==
    Append([stateStack EXCEPT ![stateStackTop + 1] = AfterRunning(@, t)],
           NewItem(threadData'[t].clock,
                   StillAsleep(getStateItemAtIndex(stateStackTop).sleep,
                               TransitionAt(program, t, pos[t]))))

Aborts(t) == TransitionAt(program, t, pos[t]).type = "abort"

InLoop == result = "none" /\ phase = "running"

\* One turn of the loop of mc_search_dpor_branch_with_thread, up to the end of the
\* trace if there is nothing to run next.
RunTransition(ascending) ==
    LET t == current
        tr == TransitionAt(program, t, pos[t])
        race == hasADataRaceWithNewTransition(pos', known', t)
        end == EndAfter(seq.enabled, seq.end)
        chosen == NextTransition(objects', pos', threadData', known', Last(stateStack'),
                                 Len(transitionStack), end, tr.type, t)
        stop == \/ chosen = NoThread
                \/ env.PRINT_AT_TRACE_SEQ # << >> /\ isInDeadlock(objects', pos', known')
    IN  /\ InLoop
        /\ ~ Aborts(t)
        /\ Len(transitionStack) < MaxTransitions
        /\ simulateRunningTransition(t)
        /\ stateStack' = dynamicallyUpdateBacktrackSets(growStateStackRunningTransition(t),
               transitionStack', threadData', objects', pos', known', ascending)
        /\ races' = IF race THEN races \cup {t} ELSE races
        /\ IF race /\ ~ env.CONTINUE_AFTER_DATA_RACE
           THEN /\ result' = "data race"
                /\ UNCHANGED <<current, phase, seq>>
           ELSE /\ current' = IF stop THEN NoThread ELSE chosen
                /\ phase' = IF stop THEN "ended" ELSE "running"
                /\ seq' = [next |-> Later(seq.next), enabled |-> Later(seq.enabled),
                           end |-> EndAfter(seq.next, end)]
                /\ UNCHANGED result
    /\ UNCHANGED <<program, env, configuration, traceId, backs, deadlocks>>

\* abort() is run in the process, and its death ends McMini.
Abort ==
    /\ InLoop
    /\ Aborts(current)
    /\ Len(transitionStack) < MaxTransitions
    /\ result' = "abort"
    /\ UNCHANGED <<program, modelVars, env, configuration, current, phase, traceId, seq,
                   backs, deadlocks, races>>

ExecutionLimit ==
    /\ InLoop
    /\ Len(transitionStack) >= MaxTransitions
    /\ result' = "execution limit"
    /\ UNCHANGED <<program, modelVars, env, configuration, current, phase, traceId, seq,
                   backs, deadlocks, races>>

\* The verdict on a trace; hasLivelock: what isInLivelock said, if it was asked.
EndTrace(hasLivelock) ==
    LET hasDeadlock == isInDeadlock(objects, pos, known)
    IN  /\ result = "none"
        /\ phase = "ended"
        /\ deadlocks' = IF hasDeadlock THEN deadlocks \cup {pos} ELSE deadlocks
        /\ result' = IF (hasDeadlock \/ hasLivelock) /\ env.FIRST_DEADLOCK
                     THEN "first deadlock" ELSE result
        /\ phase' = "judged"
        /\ UNCHANGED <<program, modelVars, env, configuration, current, traceId, seq,
                       backs, races>>

\* Mutant: the flag is not cleared.
FlagStays == backs

\* mc_reset = false
FlagCleared == backs + 1

\* "mcmini back" (the debugger always gives McMini a "-t") sets mc_reset, which the loop
\* looks at after each transition of the first trace: mc_restore_initial_trace makes
\* everything new except the count of getCurrentlyEnabledThreads.
mc_restore_initial_trace ==
    /\ result = "none"
    /\ backs < MaxBacks /\ env.PRINT_AT_TRACE_SEQ # << >>
    /\ phase \in {"running", "judged"}
    /\ traceId = 0 /\ transitionStack # << >>
    /\ backs' = FlagCleared
    /\ objects' = NoObjects
    /\ pos' = [t \in Threads |-> 0]
    /\ transitionStack' = << >>
    /\ stateStack' = <<NewItem(ZeroClock, {})>>
    /\ initialObjects' = NoObjects
    /\ known' = {Main}
    /\ threadData' = [t \in Threads |-> [depth |-> 0, clock |-> ZeroClock]]
    /\ irreversible' = {}
    /\ current' = env.PRINT_AT_TRACE_SEQ[1]
    /\ phase' = "running"
    /\ seq' = [seq EXCEPT !.next = 1, !.end = 0]
    /\ UNCHANGED <<program, env, configuration, traceId, result, deadlocks, races>>

BranchPoints == {j \in 0 .. stateStackTop : getStateItemAtIndex(j).backtrack # {}}

\* popThreadToBacktrackOn: the smallest.
ThreadToBacktrackOn(item) == Min(item.backtrack)

\* Mutant: the last transition is not rerun.
RerunTooLittle(n) ==
    LET rerun[i \in 0 .. n - 1] ==
          IF i = 0 THEN initialObjects
          ELSE applyToState(rerun[i - 1], getTransitionAtIndex(i - 1))
    IN  rerun[n - 1]

\* The objects after the first n transitions, from what they were registered as
\* (virtuallyRerunTransitionAtIndex)...
Rerun(n) ==
    LET rerun[i \in 0 .. n] ==
          IF i = 0 THEN initialObjects
          ELSE applyToState(rerun[i - 1], getTransitionAtIndex(i - 1))
    IN  rerun[n]

\* ... or from what they are, by undoing the others, the last one first
\* (virtuallyRevertTransitionAtIndex).
Revert(n) ==
    LET reverted[i \in n .. Len(transitionStack)] ==
          IF i = Len(transitionStack) THEN objects
          ELSE unapplyToState(reverted[i + 1], getTransitionAtIndex(i))
    IN  reverted[n]

\* The transitions among the stack's from..to that thread t ran and that count.
DepthOf(t, from, to) ==
    Cardinality({i \in from .. to : /\ transitionStack[i].tid = t
                                    /\ countsAgainstThreadExecutionDepth(Decode(transitionStack[i]))})

Runs(t, from, to) == {i \in from .. to : transitionStack[i].tid = t}

\* The position of thread t's next transition after the first n transitions.
PosAfter(t, n) ==
    LET runs == Runs(t, 1, n)
    IN  IF runs = {} THEN 0
        ELSE NextPosition(program, t, transitionStack[Max(runs)].pos)

\* Mutant: transitions that do not count are subtracted too.
RevertUncounted(u, j, inReverse) ==
    IF inReverse
    THEN threadData[u].depth - Cardinality(Runs(u, j + 1, Len(transitionStack)))
    ELSE DepthOf(u, 1, j)

\* The execution depth of thread u back in state j.
DepthBack(u, j, inReverse) ==
    IF inReverse THEN threadData[u].depth - DepthOf(u, j + 1, Len(transitionStack))
    ELSE DepthOf(u, 1, j)

\* Its clock: of its last transition replayed, or of the first one undone.  A thread
\* with no such transition keeps the clock it has.
ClockBack(u, j, inReverse) ==
    LET touched == IF inReverse THEN Runs(u, j + 1, Len(transitionStack)) ELSE Runs(u, 1, j)
        i == IF inReverse THEN Min(touched) ELSE Max(touched)
    IN  IF touched = {} THEN threadData[u].clock ELSE getStateItemAtIndex(i).clock

\* Its pending transition: the first one it ran after the branch point.
PosBack(u, j) ==
    LET after == Runs(u, j + 1, Len(transitionStack))
    IN  IF after = {} THEN pos[u]
        ELSE transitionStack[Min(after)].pos

\* Mutant: nothing is popped.
NotPopped(j) == irreversible

\* irreversibleStatesStack.popGreaterThan
IrreversibleBack(j) == {i \in irreversible : i <= j}

Judged == result = "none" /\ phase = "judged"

\* mc_exit_with_trace_if_necessary
TraceRequested == traceId = configuration.printBacktraceAtTraceNumber

\* mc_explore_branch: go back to the deepest state with a thread to backtrack on.
\* reflectStateAtTransitionIndex(j - 1) leaves the first j transitions.  With "-t" only
\* states beyond the given sequence are gone back to.
ExploreBranch ==
    /\ Judged
    /\ ~ TraceRequested
    /\ BranchPoints # {}
    /\ LET j == Max(BranchPoints)
           item == getStateItemAtIndex(j)
           t == ThreadToBacktrackOn(item)
           inReverse == \A i \in irreversible : j >= i
       IN  /\ current' = t
           /\ transitionStack' = SubSeq(transitionStack, 1, j)
           /\ stateStack' = [SubSeq(stateStack, 1, j + 1) EXCEPT
                               ![j + 1] = markBacktrackThreadSearched(item, t)]
           /\ irreversible' = IrreversibleBack(j)
           /\ objects' = IF inReverse THEN Revert(j) ELSE Rerun(j)
           /\ pos' = [u \in Threads |-> PosBack(u, j)]
           /\ threadData' = [u \in Threads |-> [depth |-> DepthBack(u, j, inReverse),
                                                clock |-> ClockBack(u, j, inReverse)]]
           /\ result' = IF j < Len(env.PRINT_AT_TRACE_SEQ) THEN "trace sequence done" ELSE result
    /\ phase' = "running"
    /\ traceId' = traceId + 1
    /\ seq' = [seq EXCEPT !.next = 0, !.end = traceId + 2]
    /\ UNCHANGED <<program, env, configuration, initialObjects, known, backs, deadlocks, races>>

\* Every branch point has been explored, or this was the trace to show.
Finish ==
    /\ Judged
    /\ BranchPoints = {} \/ TraceRequested
    /\ result' = IF TraceRequested THEN "trace requested" ELSE "explored"
    /\ UNCHANGED <<program, modelVars, env, configuration, current, phase, traceId, seq,
                   backs, deadlocks, races>>

\* Everything but EndTrace, which has to be told of a livelock (LivelockCheck).
SearchNext ==
    \/ \E ascending \in BOOLEAN : RunTransition(ascending)
    \/ Abort
    \/ ExecutionLimit
    \/ mc_restore_initial_trace
    \/ ExploreBranch
    \/ Finish

-----------------------------------------------------------------------------
(* Properties *)

SearchTypeOK ==
    /\ TypeOK
    /\ configuration \in [maxThreadExecutionDepth : Nat, maxTotalTransitionsDepthLimit : Nat,
                          printBacktraceAtTraceNumber : Nat]
    /\ transitionStack \in Seq([tid : Threads, pos : Nat])
    /\ stateStack \in Seq([backtrack : SUBSET Threads, done : SUBSET Threads,
                           sleep : SUBSET Threads, enabled : SUBSET Threads,
                           clock : [Threads -> Nat]])
    /\ Len(stateStack) = Len(transitionStack) + 1
    /\ initialObjects \in ObjectStates
    /\ known \subseteq Threads
    /\ threadData \in [Threads -> [depth : Nat, clock : [Threads -> Nat]]]
    /\ irreversible \subseteq 1 .. stateStackTop
    /\ current \in Threads \cup {NoThread}
    /\ phase \in {"running", "ended", "judged"}
    /\ (phase = "running" => current \in known)
    /\ seq \in [next : Nat, enabled : Nat, end : Nat]
    /\ {traceId, backs} \subseteq Nat
    /\ result \in Results
    /\ races \subseteq Threads

\* The program itself: where it begins, and where thread t's next transition leads.
Start == [objects |-> NoObjects, pos |-> [t \in Threads |-> 0]]

Follow(prg, st, t) ==
    LET p == NextPosition(prg, t, st.pos[t])
    IN  [objects |-> readTransition(applyToState(st.objects, TransitionAt(prg, t, st.pos[t])),
                                    TransitionAt(prg, t, p)),
         pos |-> [st.pos EXCEPT ![t] = p]]

\* What a fresh process has reached that runs the threads of a stack again.
Replay(prg, stack) ==
    LET after[n \in 0 .. Len(stack)] ==
          IF n = 0 THEN Start ELSE Follow(prg, after[n - 1], stack[n].tid)
    IN  after[Len(stack)]

\* Undoing a second mutex_init of a mutex forgets the first (MCMutexInit::unapplyToState).
InitialisedOnce(m) ==
    Cardinality({at \in UNION {{t} \X DOMAIN program[t] : t \in Threads} :
                    program[at[1]][at[2]] = [type |-> "mutex_init", obj |-> m]}) <= 1

\* However the search got here, forwards, by undoing or by replaying, its shadow
\* objects and pending transitions are those of the program after the transitions
\* on the stack (for the threads and objects that exist then, and mutexes that are not
\* initialised anew).
ModelIsReplay ==
    LET real == Replay(program, transitionStack)
    IN  /\ \A t \in Threads : real.objects.thread[t] # "none" =>
              objects.thread[t] = real.objects.thread[t]
        /\ \A m \in Mutexes : real.objects.mutex[m] # "none" /\ InitialisedOnce(m) =>
              objects.mutex[m] = real.objects.mutex[m]
        /\ \A s \in Semaphores : real.objects.sem[s].registered =>
              objects.sem[s] = real.objects.sem[s]
        /\ \A b \in Barriers : real.objects.barrier[b].registered =>
              objects.barrier[b] = real.objects.barrier[b]
        /\ objects.cond = real.objects.cond
        /\ objects.rwlock = real.objects.rwlock
        /\ pos = real.pos

\* The depth of a thread counts its transitions on the stack, no more and no less,
\* after any number of backtracks: it decides where "-m" cuts a trace.
DepthCountsStack ==
    \A t \in known : threadData[t].depth = DepthOf(t, 1, Len(transitionStack))

\* No branch is scheduled that is blocked, was explored already or sleeps; and none
\* from the very first state, whose index reflectStateAtTransitionIndex would turn
\* into 2^32 - 1.
BacktrackSetsAreUseful ==
    /\ \A i \in DOMAIN stateStack :
          LET item == stateStack[i]
          IN  /\ item.backtrack \subseteq item.enabled
              /\ item.backtrack \cap (item.done \cup item.sleep) = {}
    /\ 0 \notin BranchPoints

\* Only what is enabled is run: each transition explored from a state (beyond those that
\* "-t" gives) was enabled in it, and the one the loop runs next is enabled in the
\* program: the scheduler then waits for that thread, forever if it is blocked.
OnlyEnabledThreadsRun ==
    /\ \A i \in DOMAIN stateStack :
          stateStack[i].done \subseteq stateStack[i].enabled \/ i <= Len(env.PRINT_AT_TRACE_SEQ)
    /\ InLoop => transitionEnabledInState(Replay(program, transitionStack).objects, Pending(current))

\* "For each thread p, if such a thread is contained in oldSleepSet, then next(oldSTop,
\* p) MUST be the transition that would be contained in that sleep set" (MCStack.cpp):
\* a thread sleeps only because the same transition of it was explored from an
\* earlier state of the stack, and all that ran since is independent of it.
SleepIsJustified ==
    \A j \in DOMAIN stateStack : \A q \in stateStack[j].sleep :
        \E i \in 1 .. j :
            /\ q \in stateStack[i].done
            /\ LET asleep == TransitionAt(program, q, PosAfter(q, i - 1))
               IN  \A k \in i .. j - 1 :
                      ~ dependentTransitions(asleep, Decode(transitionStack[k]))

\* For each transition of the stack, those that happen before it (or are it): what it
\* depends on, and what happens before that.
HappenBefore ==
    LET before[n \in 0 .. Len(transitionStack)] ==
          IF n = 0 THEN << >>
          ELSE LET earlier == before[n - 1]
                   dependsOn == {i \in 1 .. n - 1 : dependentTransitions(
                                    Decode(transitionStack[i]), Decode(transitionStack[n]))}
               IN  Append(earlier, {n} \cup UNION {earlier[i] : i \in dependsOn})
    IN  before[Len(transitionStack)]

\* The clock of a transition answers exactly "does i happen before it" for all i but
\* the very first, whose index a clock cannot tell from 0.
ClocksAreHappensBefore ==
    LET before == HappenBefore
    IN  \A j \in DOMAIN transitionStack :
            {i \in 2 .. j : i - 1 <= stateStack[j + 1].clock[transitionStack[i].tid]}
                = before[j] \ {1}

\* Loops: a search of these can only be limited.
HasType(type) ==
    \E t \in Threads : \E p \in DOMAIN program[t] : program[t][p].type = type

\* The transitions of a program without loops.
TransitionsOf(prg) == UNION {{t} \X (0 .. Len(prg[t]) + 1) : t \in Threads}

\* The searches that are to find everything: no limit bites and nobody says "mcmini
\* back".  In which order the threads are tried must not matter.
Exhaustive ==
    /\ ~ HasType("repeat")
    /\ configuration.maxThreadExecutionDepth > Cardinality(TransitionsOf(program))
    /\ configuration.maxTotalTransitionsDepthLimit > Cardinality(TransitionsOf(program))
    /\ backs = 0

\* What the program can reach, by brute force, after the sequence of "-t" if there
\* is one.
Given == [i \in DOMAIN env.PRINT_AT_TRACE_SEQ |-> [tid |-> env.PRINT_AT_TRACE_SEQ[i]]]

ReachableFrom(prg, start) ==
    LET successors(st) ==
          {Follow(prg, st, t) : t \in {u \in Threads :
              transitionEnabledInState(st.objects, TransitionAt(prg, u, st.pos[u]))}}
        within[n \in 0 .. Cardinality(TransitionsOf(prg))] ==
          IF n = 0 THEN {start}
          ELSE LET before == within[n - 1]
               IN  before \cup UNION {successors(st) : st \in before}
    IN  within[Cardinality(TransitionsOf(prg))]

Reachable == ReachableFrom(program, Replay(program, Given))

Existing(st) == {t \in Threads : st.objects.thread[t] # "none"}

\* No thread can go on, and the program has not ended by itself.
Deadlocks ==
    {st.pos : st \in {st \in Reachable :
        \A t \in Existing(st) :
            LET tr == TransitionAt(program, t, st.pos[t])
            IN  /\ ~ transitionEnabledInState(st.objects, tr)
                /\ tr.type # "exit"
                /\ ~ (t = Main /\ tr.type = "finish")}}

Racing(st) ==
    \E t, u \in Existing(st) :
        /\ t # u
        /\ isRacingWith(TransitionAt(program, t, st.pos[t]), TransitionAt(program, u, st.pos[u]))

CanAbort(st) == \E t \in Existing(st) : TransitionAt(program, t, st.pos[t]).type = "abort"

Stopped == result # "none"

\* A search that came to its end: of everything, or of what begins as "-t" says.
Complete == result \in {"explored", "trace sequence done"} /\ Exhaustive

\* No false alarm in the whole search, whatever limits it.
DeadlocksAreReal ==
    Stopped /\ deadlocks # {} /\ ~ HasType("repeat") => deadlocks \subseteq Deadlocks

\* No deadlock is missed.
NoDeadlockMissed == Complete => Deadlocks \subseteq deadlocks

\* A data race is reported whenever two threads can be blocked at racing accesses; and no
\* thread can come to an abort() that did not end the search.
RacesAreFound ==
    Complete =>
        /\ (\E st \in Reachable : Racing(st)) => races # {}
        /\ \A st \in Reachable : ~ CanAbort(st)

\* No false alarm of races either, whatever limits the search.
RacesAreReal == Stopped /\ races # {} => \E st \in Reachable : Racing(st)

\* What McMini tells the user of the program is true of it.
ReportsAreReal == DeadlocksAreReal /\ RacesAreReal

\* "Go back <count> transitions, by re-executing" (gdbinit_commands.py): the first
\* trace runs the threads of "-t", whether the user has gone back or not.
TraceSeqIsFollowed ==
    traceId = 0 =>
        \A i \in DOMAIN transitionStack \cap DOMAIN env.PRINT_AT_TRACE_SEQ :
            transitionStack[i].tid = env.PRINT_AT_TRACE_SEQ[i]
====
