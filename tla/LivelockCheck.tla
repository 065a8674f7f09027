---- MODULE LivelockCheck ----
(***************************************************************************)
(* McMini as a whole: the search, with the livelock check of "-l" at the   *)
(* end of each trace (MCStack::isInLivelock).  The check lets the threads  *)
(* go on, beyond all limits: first one thread and all that it is causally  *)
(* related with, for increasedDepth turns (a "cycle"); then a thread that  *)
(* had no turn yet; and so on.  If nobody comes to a GOAL() it calls that  *)
(* a livelock.                                                             *)
(***************************************************************************)
EXTENDS DporSearch

CONSTANT EarlyStopping      \* the programs checked by a build with LIVELOCK_EARLY_STOPPING

ASSUME EarlyStoppingAssumption == EarlyStopping \subseteq Programs

VARIABLE livelock   \* the local variables of isInLivelock

mcminiVars == <<searchVars, livelock>>

\* stage: "idle", "seed" (the next cycle begins with thread next), "cycle" (turn i is due),
\* "done" (verdict is what isInLivelock returned).  threads: numThreads; start: where the
\* cycle began on the stack; visited: the states of this cycle.
Idle ==
    [stage |-> "idle", next |-> NoThread, i |-> 0, threads |-> {}, related |-> {},
     explored |-> {}, start |-> 0, visited |-> {}, verdict |-> FALSE]

McMiniInit == SearchInit /\ livelock = Idle

IncreasedDepth == env.MAX_LIVELOCK_CYCLE_LIMIT

Enabled1(o, next, t) == transitionEnabledInState(o, TransitionAt(program, t, next[t]))

\* getObjectsAccessedByTransition: of a condition variable's transition just that one;
\* thread transitions access none.
Accessed(tr) ==
    IF tr.type \in ThreadOperationTypes \cup {"exit", "abort", "progress"} THEN {} ELSE {tr.obj}

transitionsAreCausallyRelated(t1, t2) == Accessed(t1) \cap Accessed(t2) # {}

-----------------------------------------------------------------------------
(* One turn of a cycle, on a part of the model: m = [objects, pos, last,     *)
(* related, next, ran], last being the transition on top of the stack.       *)

Related(m, threads) ==
    m.related \cup {t \in threads :
        transitionsAreCausallyRelated(TransitionAt(program, t, m.pos[t]), m.last)}

\* The thread whose turn it is: the same as before, or if that is blocked the first
\* related one that is not.
Turn(m, related, threads) ==
    LET able == {t \in threads \cap related : Enabled1(m.objects, m.pos, t)}
    IN  IF Enabled1(m.objects, m.pos, m.next) \/ able = {} THEN m.next
        ELSE Min(able)

After(m, t) ==
    LET tr == TransitionAt(program, t, m.pos[t])
        p == NextPosition(program, t, m.pos[t])
    IN  [m EXCEPT !.objects = readTransition(applyToState(@, tr), TransitionAt(program, t, p)),
                  !.pos = [@ EXCEPT ![t] = p],
                  !.last = tr,
                  !.next = t,
                  !.ran = @ \cup {tr}]

CycleTurn(m, threads) ==
    LET related == Related(m, threads)
        t == Turn(m, related, threads)
        moved == [m EXCEPT !.related = related, !.next = t]
    IN  IF Enabled1(m.objects, m.pos, t) THEN After(moved, t) ELSE moved

\* What MCObjectEquals compares: of threads, barriers, read-write locks and initialized
\* condition variables nothing, of the queue of a semaphore its length.
Compared(o) ==
    [mutex |-> o.mutex,
     sem   |-> [s \in Semaphores |-> [o.sem[s] EXCEPT !.waitingQueue = Len(@)]]]

\* MCStack::stateIsRevisited compares these.
Seen(o, next, enabled, threads) ==
    <<Compared(o), enabled, [t \in threads |-> TransitionAt(program, t, next[t])]>>

\* MCStack::canStopSafely: no related thread that had no turn is blocked at something
\* this cycle uses.
canStopSafely(m, explored, enabled, cycle) ==
    \A t \in m.related \ (explored \cup enabled) :
        \A tr \in cycle : ~ transitionsAreCausallyRelated(TransitionAt(program, t, m.pos[t]), tr)

-----------------------------------------------------------------------------

\* "-t": getCurrentlyEnabledThreads goes one entry on whenever it is called.
AfterCall(s) == [s EXCEPT !.enabled = Later(@), !.end = EndAfter(s.enabled, @)]

\* seq after the next calls.
AfterCalls ==
    LET first == AfterCall(seq)
        second == AfterCall(first)
    IN  <<first, second, AfterCall(second)>>

\* What a call finds in a state that follows.
EnabledAfter(s, o, next, threads) ==
    LET entry == getNextTraceSeqEntry(s.enabled, s.end)
    IN  IF entry = NoThread THEN EnabledIn(o, next, threads) ELSE {entry}

\* A build option: a cycle ends once a state comes back.
LIVELOCK_EARLY_STOPPING == program \in EarlyStopping

\* Early stopping calls it again to know the state, and again when the state came back.
CallsOfTurn(revisited) ==
    IF ~ LIVELOCK_EARLY_STOPPING THEN 1 ELSE IF revisited THEN 3 ELSE 2

\* A thread runs in the check: as in the search, but nothing is added to a backtrack set.
RunInCheck(t, calls) ==
    /\ simulateRunningTransition(t)
    /\ stateStack' = growStateStackRunningTransition(t)
    /\ seq' = AfterCalls[calls]
    /\ result' = IF Aborts(t) THEN "abort" ELSE result
    /\ UNCHANGED <<program, env, configuration, current, phase, traceId, backs, deadlocks, races>>

Checking(stage) ==
    result = "none" /\ phase = "ended" /\ env.CHECK_FOR_LIVELOCK /\ livelock.stage = stage

\* The first cycle begins with the last enabled thread.  If none is enabled the pointer
\* to its transition was never set: it may happen to be null, or anything.
StartCheck ==
    LET enabled == EnabledIn(objects, pos, known)
    IN  /\ Checking("idle")
        /\ \/ /\ enabled # {}
              /\ livelock' = [Idle EXCEPT !.stage = "seed", !.threads = known,
                                          !.next = Max(enabled)]
              /\ UNCHANGED result
           \/ /\ enabled = {}
              /\ livelock' = [Idle EXCEPT !.stage = "done"]
              /\ UNCHANGED result
           \/ /\ enabled = {}
              /\ result' = "undefined"
              /\ UNCHANGED livelock
        /\ UNCHANGED <<program, modelVars, env, configuration, current, phase, traceId, seq,
                       backs, deadlocks, races>>

\* Mutant: only the first transition of a cycle is looked at.
SeedAtGoal(t) == livelock.stage = "seed" /\ Pending(t).type = "progress"

AtGoal(t) == Pending(t).type = "progress"

GoalReached(t) ==
    /\ AtGoal(t)
    /\ livelock' = [livelock EXCEPT !.stage = "done", !.verdict = FALSE]
    /\ UNCHANGED searchVars

StartCycle ==
    LET t == livelock.next
    IN  /\ Checking("seed")
        /\ \/ GoalReached(t)
           \/ /\ ~ AtGoal(t)
              /\ RunInCheck(t, CallsOfTurn(FALSE))
              /\ livelock' = [livelock EXCEPT
                    !.stage = "cycle", !.i = 1, !.related = {t}, !.explored = @ \cup {t},
                    !.start = Len(transitionStack) + 1,
                    !.visited = {Seen(objects', pos', EnabledAfter(AfterCalls[1], objects', pos', known'),
                                      livelock.threads)}]

\* The cycle as CycleTurn sees it.
InCycle ==
    [objects |-> objects, pos |-> pos, last |-> getTransitionAtIndex(transitionStackTop),
     related |-> livelock.related, next |-> livelock.next, ran |-> {}]

CycleSoFar ==
    {getTransitionAtIndex(k) : k \in livelock.start - 1 .. transitionStackTop}

\* What is left after turn i of a cycle, or where the next one begins.
AfterTurn(stop) ==
    IF stop THEN IncreasedDepth ELSE livelock.i + 1

ContinueCycle ==
    LET turn == CycleTurn(InCycle, livelock.threads)
        t == turn.next
    IN  /\ Checking("cycle")
        /\ livelock.i < IncreasedDepth
        /\ \/ /\ turn.ran = {}
              /\ livelock' = [livelock EXCEPT !.related = turn.related, !.next = t, !.i = @ + 1]
              /\ UNCHANGED searchVars
           \/ turn.ran # {} /\ GoalReached(t)
           \/ /\ turn.ran # {} /\ ~ AtGoal(t)
              /\ LET explored == livelock.explored \cup {t}
                     EnabledAt(calls) ==
                         EnabledAfter(AfterCalls[calls], objects', pos', known')
                     seen == Seen(objects', pos', EnabledAt(1), livelock.threads)
                     revisited == seen \in livelock.visited
                     stop == /\ LIVELOCK_EARLY_STOPPING /\ revisited
                             /\ canStopSafely(turn, explored, EnabledAt(2), CycleSoFar \cup turn.ran)
                 IN  /\ RunInCheck(t, CallsOfTurn(revisited))
                     /\ livelock' = [livelock EXCEPT
                            !.related = turn.related, !.next = t, !.explored = explored,
                            !.visited = @ \cup {seen}, !.i = AfterTurn(stop)]

\* The next cycle begins with the first thread that can run and had no turn.
EndCycle ==
    LET left == {t \in livelock.threads \ livelock.explored : Enabled1(objects, pos, t)}
    IN  /\ Checking("cycle")
        /\ livelock.i >= IncreasedDepth
        /\ livelock' = IF left = {} THEN [livelock EXCEPT !.stage = "done", !.verdict = TRUE]
                       ELSE [livelock EXCEPT !.stage = "seed",
                                             !.next = Min(left)]
        /\ UNCHANGED searchVars

Judge ==
    /\ Checking("done") \/ ~ env.CHECK_FOR_LIVELOCK
    /\ EndTrace(livelock.verdict)
    /\ livelock' = Idle

McMiniNext ==
    \/ SearchNext /\ UNCHANGED livelock
    \/ StartCheck
    \/ StartCycle
    \/ ContinueCycle
    \/ EndCycle
    \/ Judge
    \/ Stopped /\ UNCHANGED mcminiVars

McMiniSpec == McMiniInit /\ [][McMiniNext]_mcminiVars

-----------------------------------------------------------------------------

LivelockTypeOK ==
    /\ SearchTypeOK
    /\ livelock.stage \in {"idle", "seed", "cycle", "done"}
    /\ livelock.stage # "idle" => phase = "ended" /\ livelock.explored \subseteq livelock.threads

\* "The lower default value is calculated for the worst case" (mcmini_private.cpp): what
\* the check adds to the longest trace still fits on the stack.
StackFits == Len(transitionStack) <= MaxTransitions

\* Nobody who can go on is left out of a livelock: when one is reported, each such thread
\* has had a turn and none of them came to a GOAL().
EverybodyHadATurn ==
    livelock.stage = "done" /\ livelock.verdict =>
        /\ EnabledIn(objects, pos, livelock.threads) \subseteq livelock.explored
        /\ \A k \in livelock.start .. Len(transitionStack) :
              Decode(transitionStack[k]).type # "progress"

\* Every search comes to its end, the livelock check included, unless a limit ends it
\* first.
SearchEnds == <>Stopped

\* The search is one thread of an otherwise idle process: it goes on until it has finished.
\* As McMiniNext has a step that changes something until it has (the run checks for
\* deadlocks), this is WF_mcminiVars(McMiniNext).
FairMcMiniSpec == McMiniSpec /\ ([]<>Stopped \/ []<><<McMiniNext>>_mcminiVars)
====
