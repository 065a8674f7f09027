# A TLA+ development for McMini

McMini is a stateless model checker for programs that use POSIX threads. It
interposes on the pthread functions of an unmodified program (the *target*), runs
one thread of it at a time, and explores its interleavings with dynamic
partial-order reduction (DPOR), looking for deadlocks, data races and livelocks.

This directory says in TLA+ what the parts of McMini promise each other, checks
it with TLC on small instances, and proves part of it with TLAPS for every
instance. Paths below are relative to the repository.

1. [Inventory](#1-inventory)
2. [Plan](#2-plan)
3. [The modules and the code](#3-the-modules-and-the-code)
4. [The runs](#4-the-runs)
5. [The proofs](#5-the-proofs)
6. [Where the code and its documentation disagree](#6-where-the-code-and-its-documentation-disagree)
7. [What is not modelled](#7-what-is-not-modelled)

## 1. Inventory

McMini is two processes. The **scheduler** (`libmcmini.so`'s constructor,
`src/mcmini_private.cpp`) never runs the target; it keeps a model of it and
searches. A **trace** process is forked from it for every interleaving; in it the
target runs, each thread blocked before its next *visible operation* until the
scheduler lets it go. `docs/design` holds the beginnings of McMini 2.0, a second
implementation of the model and the search.

| Component | State | Operations | Talks to |
|---|---|---|---|
| Handshake: `mcmini_private.cpp`, `mc_shared_sem.c`, `transitions/MCTransitionsShared.cpp`, `transitions/wrappers/*` | two semaphores per thread (`trace_sleep_list`), one mailbox (`shmTransitionTypeInfo`, `shmTransitionData`), the trace's pid | fork, run a thread to its next operation, announce an operation, replay, kill, wait | both processes, through shared memory, SIGUSR1 and `waitpid` |
| Process lifecycle: `signals.cpp`, `mcmini_private.cpp` | `trace_pid`, signal handlers of both processes, `mc_reset`, the shared memory file | fork and handlers of a trace, SIGUSR1, SIGCHLD, SIGINT, SIGALRM, `PR_SET_PDEATHSIG`, `mcmini back`, every exit | both processes, the user, the kernel |
| Search: `MCStack`, `MCStackItem`, `MCThreadData`, `MCClockVector`, the loops of `mcmini_private.cpp` | transition stack, state stack (backtrack, done, sleep, enabled sets, clocks), per-thread depth and clock, next transition of each thread, stack of irreversible states | simulate a transition, update backtrack sets, choose the next one, go back, report | calls the transition classes; drives the handshake |
| Livelock check: `MCStack::isInLivelock` | local: threads that had a turn, related threads, states seen in this cycle | run on beyond the end of a trace until a GOAL() or everybody had a turn | search |
| Transition classes: `MCTransition`, `transitions/{threads,mutex,semaphore,misc,cond,barrier,rwlock,rwwlock}` | none of their own | handler that decodes the mailbox, `enabledInState`, `applyToState`, `unapplyToState`, `dependentWith`, `coenabledWith`, `isRacingWith` | read and write the object store |
| Objects: `MCObjectStore`, `objects/*`, `MCThread`, `misc/cond/*` | current and initial copy of every object, map from addresses to objects | register, look up, reset | transition classes, search |
| Launcher: `launch.c`, `get_config_for_execution_environment` | environment variables, `MCStackConfiguration` | flags to environment to configuration | search |
| McMini 2.0 model: `docs/design/**/model` | objects with their histories, a sequence of views of them, the pending transition of each runner | add an object or a state, follow a transition, cut the sequence, list enabled runners | coordinator (stubs) |
| Printing, gdb front end: `mcmini_gdb.py`... | none | text | - |

What is hard in each, and what makes it correct:

* **Handshake.** Two processes and any number of threads interleave over two
  semaphores per thread and a single mailbox that is never cleared. At the end of
  every trace the process is killed and the next one is brought to the branch
  point by replaying the stack. *Correct* when only the thread that the scheduler
  runs is awake; when no permit survives its round or its trace; when the scheduler
  decodes what that thread wrote; when after a replay its model and the new
  process agree on what every thread does next; and when nobody waits for ever.
* **Lifecycle.** A trace can end by itself at any moment (crash, `_exit`), the user
  can interrupt or take McMini back at any moment, an alarm ends everything after an
  hour. A handler interrupts the wait for a thread and the wait returns without an
  answer. A child has the handlers of the scheduler until it has replaced them.
  *Correct* when there is one trace at a time, in step with the scheduler; when no
  trace is left behind; when a crash is reported; and when McMini ends.
* **Search.** The model is taken back by undoing transitions or by resetting
  the objects and replaying, whichever is possible; several per-thread caches
  (depth, clock, next transition) have to be taken back with it. Sleep sets and
  persistent sets skip nearly all interleavings. *Correct* when going back gives
  the state that a replay would, when it runs only what is enabled (it waits for
  the thread without a timeout), when sleeping is justified, when the clocks are the
  happens-before relation, and, the purpose of it all, when it reports exactly
  the deadlocks and races an exhaustive exploration has; and when it ends.
* **Livelock check.** It pushes transitions beyond all limits onto stacks of a fixed
  size. *Correct* when they fit, when nobody who could go on is left out of a
  livelock that is reported, and when going back afterwards is as exact as before.
* **Transition classes.** Each declares, for itself, what it depends on and what it
  can be enabled together with; a wrong declaration removes interleavings without a
  trace. *Correct* when operations declared independent commute and do not change
  each other's enabledness, when operations that some state enables together are
  declared coenabled, when `unapplyToState` is the inverse of `applyToState`
  where the class claims it, and when the shadow objects behave like the real ones
  (mutual exclusion, conservation of permits).
* **Objects.** An object's initial state is copied when it is registered, which is
  in the middle of a handler. *Correct* when a reset followed by a replay gives the
  same objects.
* **McMini 2.0 model.** Views of past states point into histories that go on growing.
  *Correct* when no view ever changes but the last, and when the views are the path
  that the transitions led along.

`PROJECT.json` lists every hazard of this kind at its line, with the
properties that would catch it.

## 2. Plan

Order, most important behaviour first. Done:

1. `TraceProgram`, `SequentialTrace`, `TraceHandshake`: the two processes, and
   the abstract specification the search is written against (running a thread is
   one step; going back finds every thread where it was).
2. `TransitionClass` and the operations of each family of objects
   (`ThreadOperations`, `MutexOperations`, `SemaphoreOperations`,
   `ConditionOperations`, `BarrierOperations`, `RWLockOperations`,
   `RWWLockOperations`, `MiscOperations`); `VisibleOperations` puts them together.
3. `TargetProgram`: all interleavings of a program made of them; the
   obligations of the transition classes.
4. `DporSearch`: the search over such a program, against a brute-force
   exploration of the same program; `Launcher`: the command lines it is started with.
5. `TraceHandshake_proofs`: the handshake's safety for every program.
6. `WakeupSemantics`, `ConditionVariable`: what a condition variable promises, and
   the wakeup policy of `misc/cond` shown to implement it.
7. `ConditionVariable_proofs`: its bookkeeping for any number of threads.
8. `LivelockCheck`: McMini as a whole, with the livelock check; the round-robin
   search, `-t`, `mcmini back`, `abort()` and GOAL() in `DporSearch`.
9. `TraceLifecycle`: fork, signals and every way the processes can end.
10. `StateSequence`, `StateSequence_proofs`: the model of McMini 2.0, and the proof
    of all its properties.
11. `TraceLifecycle_proofs`, `DporSearch_proofs`, and the refinements in
    `TraceHandshake_proofs` and `ConditionVariable_proofs`: the two refinements, the lifecycle,
    and the bookkeeping of the search, for every program.
12. `ProgramRules`, `TargetProgram_proofs`: what the shadow objects do for every
    program that keeps the rules, what its transitions undo, and which are coenabled.
13. `ShadowState_proofs`: that going back is exact, and that what McMini reports is so, where
    those two meet.
14. `Independence_proofs`: that what the transition classes call independent is.

Not done:

15. `ThreadIdentity`: `pthread_t` values reused after a join, against the tids of
    the scheduler and of the trace.
16. Barriers that are used again (nobody leaves a shadow barrier) and semaphores that
    are initialised again.
17. Proofs that the search misses nothing (`NoDeadlockMissed`, `RacesAreFound`).

Which module uses which:

    TraceProgram <- TraceHandshake <- MCTraceHandshake, TraceHandshake_proofs
                    TraceHandshake implements SequentialTrace
    TransitionClass <- {Thread,Mutex,Semaphore,Condition,Barrier,RWLock,RWWLock,Misc}Operations
                    <- VisibleOperations <- TargetProgram <- ProgramRules
    ProgramRules <- MCTargetProgram, TargetProgram_proofs
    DporSearch_proofs, TargetProgram_proofs <- ShadowState_proofs <- Independence_proofs
    TargetProgram, Launcher <- DporSearch <- LivelockCheck <- MCDporSearch, DporSearch_proofs
    ConditionOperations <- ConditionVariable <- ConditionVariable_proofs
                           ConditionVariable implements WakeupSemantics
    TraceLifecycle <- TraceLifecycle_proofs
    StateSequence <- StateSequence_proofs
    MCPrograms: the programs of MCTargetProgram and MCDporSearch

## 3. The modules and the code

An operator whose comment begins with `Mutant:` is a plausible bug of the
definition that follows it. No specification uses it: it documents which property
catches that bug (`mutants` in `PROJECT.json`). `map` in `PROJECT.json` gives the
lines of code behind every definition.

### TraceProgram, SequentialTrace, TraceHandshake

`TraceProgram` is what both processes have to agree on about the target: each
thread performs a list of visible operations, some of which create a thread. A
position names a thread's pending operation: 0 is `MCThreadStart`, then the
routine, then `MCThreadFinish`.

`TraceHandshake` has the state of both processes and one action per step another
process can observe:

| Action | Code |
|---|---|
| `mc_fork_new_trace` | `mc_reset_cv_locks`, `fork`, up to the main thread's first wait |
| `ReplayNext` | the loop of `mc_fork_next_trace_at_current_state` |
| `ChooseNext` | the search decides to run a thread (which one is free here) |
| `mc_shared_sem_wake_thread`, `mc_shared_sem_wait_for_thread` | the halves of `mc_run_thread_to_next_visible_operation` |
| `simulateRunningTransition` | push the transition, decode the mailbox into the thread's next one, register a created thread |
| `mc_terminate_trace`, `mc_wait_for_trace`, `sigusr1_handler_trace` | `kill`, `waitpid` and the signal handler in the trace |
| `reflectStateAtTransitionIndex` | cut the stack, take the next transitions back |
| `mc_shared_sem_wait_for_scheduler` .. `mc_shared_sem_wake_scheduler`, `ReachWrapper`, `RegisterThread`, `ThreadIsRegistered` | a thread of the trace: the wrappers, `mc_thread_routine_wrapper`, `pthread_create` with its own semaphore, and the last answer a thread gives when it leaves |

The trace may die in any state once it was signalled, with its threads anywhere.
Blocking is not modelled here (an operation that blocks is chosen less often);
that the scheduler chooses only operations that do not block is `OnlyEnabledThreadsRun`
of `DporSearch`.

`SequentialTrace` is the abstract machine, with a history and each thread's pending
operation: `Run(t)` and `Backtrack(k)`. `ImplementsSequentialTrace` maps
`history` to the transition stack and `pending` to `nextTransitions`; everything else
is stuttering. What makes it worth stating is `Backtrack`: the abstract machine
*counts the turns* a thread had, the code takes the first abandoned transition of
each thread and replays the process.

### TraceLifecycle

The same two processes one level up: an operation of the target is one answer, and
the state is what decides who is alive. `pc` follows the scheduler through the
functions of `mcmini_private.cpp`; `proc[i]` says how far trace `i` has come:

| `proc` | Code |
|---|---|
| `forked` | after `fork`, with every handler of the scheduler |
| `armed` | after `prctl(PR_SET_PDEATHSIG, SIGUSR1)` |
| `bare` | the scheduler's handlers removed, its own not installed yet |
| `ready`, `running` | `mc_shared_sem_wait_for_scheduler`, the program's own code |
| `zombie`, `reaped` | until `waitpid`, and after |

`Handlers` holds the handlers of the scheduler (`sigchld_handler_scheduler`,
`sigint_handler_scheduler`, `alarm_handler`), which run before the next step of the
scheduler wherever it is; `HandleSignal` those of a trace. `Environment` holds the
five events nobody planned: ^C (to the whole process group), the alarm of
`--long-test`, `mcmini back`, a crash and an `_exit` of the target. Each happens at
most once, at any moment. A handler that interrupts `sem_wait` makes it return
without a permit (there is no `SA_RESTART`, and `mc_shared_sem.c` ignores the
result): `mc_shared_sem_wait_for_thread` has that outcome too. An alarm in the
first moments of a child runs the scheduler's handler in the child. A search may end
with its results printed when no branch is left, at the trace `-t` names, or, after a
sequence of threads, as soon as a later trace has been replayed (`ResultsArePrinted`);
the last of these leaves while the new trace is still in its first moments.

### The operations, VisibleOperations, TargetProgram

`TransitionClass` is `MCTransition`: what a class answers about itself whatever the
state, as a record that the families override field by field, as their classes
override methods. A module per family of objects gives the object's states, its
methods, the records of its classes, and each transition class as an operator
from the state of the object to a record of four:

| Field | Code |
|---|---|
| `announced` | the handler, which decodes the mailbox and may register or change the object |
| `enabled` | `enabledInState` |
| `applied` | `applyToState` |
| `unapplied` | `unapplyToState`, where `isReversibleInState` |

| Module | Objects and classes |
|---|---|
| `ThreadOperations` | `MCThread`; create, start, join, finish |
| `MutexOperations` | `MCMutex`; init, lock, trylock, unlock |
| `SemaphoreOperations` | `MCSemaphore`; init, enqueue, wait, post |
| `ConditionOperations` | `MCConditionVariable` and its policy; init, enqueue, wait, signal, broadcast |
| `BarrierOperations` | `MCBarrier`; init, wait |
| `RWLockOperations`, `RWWLockOperations` | `MCRWLock`, `MCRWWLock`: one and two classes of writers; init, enqueue and lock of each kind, unlock |
| `MiscOperations` | annotated variables (read, write), exit, abort, progress (a GOAL()) |

`VisibleOperations` holds what all of them share: the store of objects, an operation
applied to it (a cond_enqueue and a cond_wait also change a mutex), `registerNewObject`
and `readTransition`, and `dependentTransitions`,
`coenabledTransitions` and `isRacingWith`, which ask both sides as `MCTransition` does.

`TargetProgram` takes a set of programs (lists of operations per thread, perhaps
with a loop at the end) and runs
every interleaving, announcing the next operation at the end of each step as the
wrappers do. Its properties are the promises `include/MCTransition.h` asks of every
class, plus what each object is for (`SynchronisationHolds`): mutual exclusion through
condition waits, conservation of permits, writers alone, barriers that hold.

`ProgramRules` says of the text of a program, not of its runs, that it uses its
objects as they are meant to be used (`KeepsTheRules`):

| Rule | Why |
|---|---|
| `HasNoLoop` | what a thread has run is read off its position |
| `InitialisesFirst` | the main thread begins by initialising what is initialised at all, each mutex once: an initialisation of an object in use is undefined in POSIX, and undoing a second one of a mutex forgets the first |
| `CreatesOnce` | a `pthread_create` makes a new thread |
| `LocksInTurns` | a mutex is unlocked, or given up in a wait, by the thread that locked it, and not locked again by it: the shadow stores no owner |
| `WaitsInTurns` | `mc_sem_wait` announces the two operations it consists of |
| `EntersInTurns`, `KeepsToOneKind` | a reader-writer lock is not locked recursively, is unlocked by one that is inside, and is either an `MCRWLock` or an `MCRWWLock` |

One more is needed for going back to be exact, `UsesInitialised`: the mutexes and semaphores
that are used are initialised by the program, and nobody waits at a barrier (sections 5 and 6). What is declared
independent is so in programs that also keep to `WaitsWithOwnMutex`: no mutex is given up
in waits for two condition variables.

A mutex without an initialisation, a `trylock`, a missing `join`, a mutex that is never
unlocked again, and every order of the threads are within the rules. `MCTargetProgram`
evaluates `AllKeepTheRules` for the programs of the run: the rules of the table, and
`WaitsWithOwnMutex`.

What the code does that a reader might not expect, and the model keeps:

* `sem_post` and `sem_wait` are declared independent although a post enables a
  wait, and reader locks are independent of each other although one
  enables the next in the queue. `IndependentKeepEnabled`, one half of
  `IndependenceHolds` (the other is `IndependentCommute`), therefore asks of the
  operations that wait for something (`Waits`) only that no operation they are
  declared independent of *disables* them; of all others, that none changes
  whether they are enabled.
* `MCCondWait::dependentWith` asks a mutex operation whether it is *coenabled* with
  the wait. Two waits on two condition variables with the same mutex are declared
  independent; they disable each other. The programs with two condition variables
  are in `search`, where nothing is missed because of it, and not in `transitions`.
* Undoing a second `pthread_mutex_init` of one mutex forgets the first
  (`MCMutexInit::unapplyToState`). McMini does not see `pthread_mutex_destroy`, so
  that a correct program can do this. `ModelIsReplay` leaves mutexes that are
  initialised anew out.
* A barrier changes when `barrier_wait` is *announced*. Its copies forget who waits.
* The handler of a mutex without `pthread_mutex_init` registers it, copies it, and
  only then makes it unlocked.

### WakeupSemantics, ConditionVariable

`ConditionVariable` is one shadow condition variable with any number of threads, one
action per message it gets: `Enqueue`, `Wait`, `Signal`, `Broadcast`. The policy
(`ConditionVariableArbitraryPolicy` and its two bases) does not decide who wakes when
a signal comes; it keeps the group of threads that may use the signal up.
`WakeupSemantics` says what that must amount to: its state is the set of all sets of
threads that may have been woken so far. The refinement mapping `possible` computes
them from the groups: the largest sets of threads that can each be given a signal of
their own. `ImplementsSemantics` says that nobody leaves who cannot have been woken,
`CanExitIsMayLeave` that nobody is held back who can have been.

### Launcher, DporSearch, LivelockCheck

`Launcher` folds the arguments of a command line into the environment variables that
`launch.c` sets, and computes the configuration that the constructor makes of them.

`DporSearch` is the search over the programs of `TargetProgram`, one turn of the loop
per action:

| Action | Code |
|---|---|
| `RunTransition` | one turn of `mc_search_dpor_branch_with_thread`: `simulateRunningTransition`, `growStateStackRunningTransition`, `dynamicallyUpdateBacktrackSets`, race check, the choice of the next transition (`-t`, `-M`, GOAL(), `-r`), and whether the trace ends |
| `Abort`, `ExecutionLimit` | the target calls `abort()`; the stack is full |
| `ExploreBranch` | `mc_explore_branch` and `reflectStateAtTransitionIndex`, both ways (`Revert`, `Rerun`) |
| `mc_restore_initial_trace` | `mcmini back` |
| `Finish` | the loop of `mc_do_model_checking` ends |

`LivelockCheck` is McMini as a whole. With `-l` the end of a trace goes through
`isInLivelock` before the verdict (`Judge`, which is `EndTrace` of `DporSearch`): a
cycle of one thread and all it is causally related with (`StartCycle`,
`ContinueCycle`, one turn each), then the next thread that had no turn (`EndCycle`).
If no thread is enabled at the start, the code dereferences a pointer that was never
set (`MCStack.cpp:630`); `StartCheck` has both outcomes, a null pointer and anything.

`*E.begin()` on an `unordered_set` picks an element that depends on the library;
the model takes the smallest or the largest, freely at each step. `UpdateTop` adds for
all threads at once what the loop over the other threads (`MCStack.cpp:908`) adds one
by one: nothing ran after the last transition, so what one of them adds does not
depend on what the others have added.

`Replay` and `Reachable` are references: the first runs the transitions on the stack
from the beginning, the second computes every reachable state. The properties
compare the search with them.

What the code does that a reader might not expect, and the model keeps:

* A thread at its limit (`-m`) enters backtrack sets and runs beyond the limit:
  `getCurrentlyEnabledThreads` ignores the limit (`MCStack.cpp:437`).
* `getNextFairTransition` tests the sleep set for the index of its loop, not for the
  thread it looks at (`MCStack.cpp:406`; the comment at 352 says the thread). The
  searches with `-r` find every deadlock all the same (`NoDeadlockMissed`).
* `getCurrentlyEnabledThreads` counts the entries of `-t` in a static variable that
  starts at 1, so that the enabled sets of the prefix are one entry off.
* `MCStackItem.h:40` states that a thread is in exactly one of the backtrack,
  done and sleep sets; `growStateStackRunningTransition` puts the thread that runs
  into both done and sleep. What the algorithm needs, that no thread to backtrack on is
  done or asleep, holds (`BacktrackSetsAreUseful`, for every program).
* A `sem_wait` of the target counts twice against the limit of its thread, since
  `sem_enqueue` is a transition of its own.

### StateSequence

The model of McMini 2.0 (`docs/design/**/model`): objects keep all the states they
were ever in, a *view* says for each object which of them is meant, and
`state_sequence` is a sequence of views over shared histories. Actions are its
operations: `add_object`, `add_state_for`, `follow` (through the overlay
`diff_state`), `consume_into_subsequence`, the end of a consumed sequence (`destroy`), and
of `program` `model_executing_runner` and `displace_transition_for`.

A view holds raw pointers to states that the objects own. `Pointer(owner, index)` says
which sequence owns the object and which of its states is meant; `consumed` keeps the
objects of every sequence a prefix was cut from, and `destroyed` says which of those
sequences are gone. A cut moves the views as they are and *copies* the objects: the
views it takes over still point into the consumed sequence, and dangle (`Dangles`) once
that is destroyed. Views made later point into the copies. The copies have their whole
histories and all objects, so that what follows the last view of a subsequence comes from
the last state of the old one.

Four variables are auxiliary: which transition led from a view to the next
(`followed`), which views were changed directly since (`edited`), how many views the
last cut took over (`kept`), and which views a cut made the last ones although others
followed (`seams`).

What the header promises of a cut does not hold: `OtherViewsRemainValid` states it, and
`views_dangle` refutes it (section 6). The properties that hold say what is left: `PastViewsStay` allows a view to be lost only
if a cut took it over, and only with its owner; `SequenceIsPath` leaves
out states that were edited, the step after a seam, and what cannot be read.

Left out are functions that are empty or unfinished in the source, or that nothing
calls: the two constructors from another state, whose bodies are TODOs
(`state_sequence.cpp:50-57`), the constructors of `program`, the program's trace that `execute_runner` never
pushes to, `diff_state::add_object` (whose next id skips some once an existing
object was changed in the overlay) and
`follow` with an overlay that has new objects.

## 4. The runs

| Run | Question | Size |
|---|---|---|
| `handshake` | do the two processes keep the baton, the mailbox and the replay right, implement the sequential trace, and answer every wait? | 4 threads, one created by a created one; every interleaving, kill point and branch point; 619,059 states |
| `lifecycle` | is there one trace at a time, in step, with none left behind, and does McMini end, whatever happens when? | 3 traces of 2 operations, five events; 73,955 states |
| `transitions` | are the promises of the transition classes kept in every state, and do the objects do what they are for? | 279 programs of 3 threads; 20,294 states |
| `cond_policy` | does the wakeup policy let exactly those leave who may have been woken? | 4 threads, at most 4 unused signals, any order |
| `search` | does a search report exactly the deadlocks and races, go back exactly, fit on its stacks, and end? | 452 searches (a program and a command line); 62,291 states |
| `state_sequence` | do the views of McMini 2.0 stay while what they point at exists, and are they a path? | 2 runners, 2 objects, 4 views, 3 states of an object, 1 cut; 1,110,639 states |
| `static_mutex`, `barrier_lost`, `who_wakes`, `mcmini_back`, `livelock_overflow`, `views_dangle` | six sentences of the documentation that the code does not keep (section 6) | |

**The searches.** `search` covers, each with the programs where it matters:

* `-a --continue-after-data-race`, which explores everything, for all programs, and the
  same with `-r` for those with mutexes, semaphores and condition variables;
* limits: `-m 4`, which every one of its programs reaches, and `-M 8`;
* stopping at the first deadlock, at the first data race, at a trace number
  (`-t 1`), after a sequence of threads (`-t 0,0,...`), with one `mcmini back` at any
  point of the first trace;
* livelock checks: of loops without end (with and without a GOAL() on the way), of a
  program that deadlocks, and a sequence that is as long as the stack.

The sequences given with `-t` are real schedules of the program, as McMini prints
them. One of them is combined with `-l`, since `getCurrentlyEnabledThreads` uses up an
entry whenever it is called, and stopping early calls it more often
(`CallsOfTurn`).

**Bounds.** Four threads with a creation inside a created thread are the
smallest instance where the replay has to rebuild a thread whose creator was itself
created, while two more wait. Nothing is cut: traces end by themselves, since
every thread's list does. The programs of `transitions` and `search` have three
threads with up to four operations each on two mutexes (nested both ways, so that the
classical deadlock is there), a semaphore (with permits to lose), two condition
variables with one mutex (signals before, between and after the waits, with and without the
mutex), both reader-writer locks, a barrier, a racing
variable, joins, an `exit`, an `abort`. Two threads are enough for any pair of transition
classes; three are needed for sleep sets to be inherited and for a dependence chain
to pass through a third thread. `NoDeadlockMissed`
is not vacuous: the programs with a deadlock include nested locks, lost signals and
missing permits; `ReportsAreReal` is not because some programs keep their writes apart with a
mutex or a join. Barriers and static mutexes are left out of `search` because of
`barrier_lost` and `static_mutex`. `MaxTransitions` (the stack) is 40, room for every
program and for the livelock check: the code reserves `MaxThreads * CycleLimit` (3 * 5)
transitions for it as it reserves `MAX_TOTAL_THREADS_IN_PROGRAM * LLOCK_INCREASED_MAX_TRANSITIONS_DEPTH`;
`who_wakes`, whose program is longer, has 60. `Unlimited`
stands for `UINT64_MAX`. `MaxBacks = 1`: one `mcmini back` per search. `EarlyStopping`
is the option of `configure` (off by default, `configure.ac:54-59`) that ends a cycle of
the livelock check once a state comes back: the constant is the set of programs that a
McMini with the option checks. In `search` these are most of the programs that
loop for ever; the others have the default, as have all programs of the runs that refute
something. The theorems are about any such set, the empty one and all programs among them.

In `cond_policy` four threads and four signals (`MaxSignals`) let a thread leave in front of,
between and behind others with a signal each, and wait again while groups it was in
remain. In `lifecycle`, three traces of up to two operations let an event meet a first
trace, a replayed one and the last one; a replay of one transition followed by a new one
is the shortest in which the two can be confused. In `state_sequence` two objects and
histories of three states let an object move on, twice, after a view was taken;
one cut (`MaxConsumed`) is enough for views of both owners, and for steps before, at and
after it. Cuts of cuts are covered by the proofs.

The search goes back by undoing transitions (`Revert`) only when everything after
the branch point can be undone. In programs that initialise each mutex once this never
happens with anything left to undo: of the modelled operations only `mutex_init`
can be undone *and* be a branch point. `ReinitPrograms`, which
initialise a mutex in every thread, are there for this path.

**Deadlock.** In the handshake McMini itself must not deadlock, so TLC's check is on
and only the terminated state stutters; in `cond_policy` somebody can always signal or
wait; in `search` the check is on too, and only a search that has its result stutters.
It is off in `transitions` (the target may deadlock: McMini looks for that), in
`lifecycle` (the bound on forks, the end, and the wait for a
process that called `_exit`), and in `state_sequence` and `views_dangle` (their bounds).

**Fairness.** `handshake` and `lifecycle` assume weak fairness of the scheduler process,
of each thread of the trace and of the delivery of signals: the kernel schedules what is
runnable, and a thread of the target that runs reaches its next visible operation
(McMini cannot do without the latter either; a thread that loops without one hangs
it). Nothing is assumed about which thread the search chooses or where it goes back
to, nor about the events of `lifecycle`. So the search of `TraceHandshake` may go on
for ever; what `EveryWaitEnds` says is that every wait for a thread and every replay
ends. That the search itself ends is `SearchEnds` of `search`, where the only fairness
is that the scheduler process runs: `FairMcMiniSpec` writes it out (it stops, or takes
steps for ever), which is weak fairness of the next-state relation, since the deadlock
check shows that there is a step until it stops.

## 5. The proofs

**The handshake.** `TraceHandshake_proofs` proves, for every set of threads, every program and every
depth of the stack:

| Theorem | Says |
|---|---|
| `BatonInvariant` | the inductive invariant |
| `TypeCorrect` | `Spec => []TypeOK` |
| `OneThreadRunsAlways` | only the thread the scheduler waits for executes |
| `PermitsAreNotKeptAlways` | at most one semaphore is posted, and only during a round |
| `MailboxIsFreshAlways` | the scheduler decodes what the thread it ran has announced |
| `NoTraceLeftBehindAlways` | a fork or a backtrack finds no thread of the trace before |

The assumptions are `ProgramAssumption` of `TraceProgram` (a thread is created
by at most one operation, not by itself, and nobody creates the main thread) and
`UnknownAssumption`: the mark of a thread without a next transition is no position. TLC
evaluates both in the run `handshake`.

None of the properties is inductive alone. That only one thread runs depends on
semaphores not being posted twice, which depends on who holds the turn, which
depends on threads of a killed trace being gone. `Baton` says where the turn is in
every state: with the scheduler (`SchedulerHasBaton`); or, while it waits, with the
thread it runs, as an unused permit, as a running thread or as an unread answer
(`ThreadHasBaton`), while every other thread is blocked, the one that has just been
created and not yet registered apart (`OthersWait`); `TraceIsReaped` says that no
thread is left between `waitpid` and `fork`, whichever state the kill
found them in. `ChosenIsKnown` and `ReplayIsOver` are what the type invariant needs
of the stack. `BatonInit` and `BatonNext` prove it inductive, one step per action;
`TypeNext` does the type part, with `ReflectType` for the action that picks the
first abandoned transition of a thread (`LeastElement` gives it one).

The refinement, in the same module, goes on from there:

| Theorem | Says |
|---|---|
| `BooksInvariant` | the invariant that counts turns |
| `ModelMatchesTraceAlways` | every thread the search may choose is blocked, at the operation the model has as its next |
| `ReplayIsFaithfulAlways` | a replay finds each thread at the transition it is to repeat |
| `SequentialTraceImplemented` | `Spec => ImplementsSequentialTrace` |

`Baton` says who moves; `Books` says where everybody is, by counting. The transition stack is a
*run* (`IsRun`): the position of each transition is the number of turns its thread had
before, and the thread was created before that. A pending transition of the scheduler
is where the whole stack brings its thread (`PendingIsReached`); a thread of the process
is where the part that was replayed, and the turn it is in the middle of, bring it
(`PositionsAreReached`); and a thread exists, known or not, when the one that creates it
has come past the creation (`SpawnedExist`, `KnownAreAnnounced`). Going back keeps all of
it because the first abandoned transition of a thread is the one its remaining turns lead
to. That is also the refinement: `StepIsAbstract` maps
`simulateRunningTransition` to `Run` when nothing is left to replay, `reflectStateAtTransitionIndex`
to `Backtrack`, and every other step to none.

**The lifecycle.** `TraceLifecycle_proofs` proves, for any bound on traces and operations
(`BoundsAssumption`: at least one of each) and any set of events:

| Theorem | Says |
|---|---|
| `LifecycleInvariant` | the inductive invariant |
| `LifecycleTypes` | `Spec => []TypeOK` |
| `OneTraceAtATimeAlways` | the assertion of `mc_fork_new_trace` never fails |
| `TraceIsInStepAlways` | the scheduler decodes the answer to its last question |
| `NoTraceOutlivesAlways` | when the scheduler is gone, the signal that ends its trace has been sent |

Its conjuncts are the parts a reader would name. `Control`: where `mc_terminate_trace`
returns to, and that `mc_reset` is never set when a trace is forked. `Room`: a run of the
loop has a transition left to push. `InOrder`: all traces but the last are reaped.
`TracePid`: `trace_pid` names the last one, or it is gone, or the scheduler stands between
`fork` and the assignment. `ChildSignal`: a SIGCHLD still pending is about the last trace.
`YoungTrace`: while a child has the scheduler's handlers, the scheduler waits for it with
nothing replayed, unless both got a ^C. `InStep`: where permit, trace and answer are, seen
from each point of the loop, as long as nothing ended the trace from outside. Each is kept by a
lemma of its own (`TypeOKKept` .. `LeftBehindKept`), one step per action.

**The condition variable.** `ConditionVariable_proofs` proves, for any number of threads
and any bound on the signals:

| Theorem | Says |
|---|---|
| `BookkeepingInvariant` | the inductive invariant: the type, `WaitersOnly` and `LaterSignalsReachMore` together |
| `WaitersOnlyAlways` | only a thread that waits, and waits once, may use up a signal or a broadcast |
| `LaterSignalsReachMoreAlways` | the groups of the signals grow, oldest first |

The assumptions are that `LastThread` and `MaxSignals` are naturals. The two properties
need each other: a new group contains every older one because the older ones hold
only threads in the queue. The work is in the thread that leaves: `RemoveAtLeaves`
and `RemoveFirstRemoves` say what the library's operators leave, `SignalsLeftAreFewer`
that at most one group goes, `LeftInOrder` and `QueueWithout` that the rest keeps its
order and that everybody else still waits.

That it implements what a condition variable promises needs no other assumption:

| Theorem | Says |
|---|---|
| `CanExitIsMayLeaveAlways` | the policy lets a thread leave exactly when it may have been woken |
| `SemanticsImplemented` | `Spec => ImplementsSemantics` |

The policy stores a group of threads per signal; `WakeupSemantics` speaks of the sets of
threads that may have been woken. Between the two are matchings of threads to
signals (`Matchable`): a set may have been woken if each of its threads can be given a signal
of its own, and `PossibleIsMaximal` says that the refinement mapping computes the
largest of these sets. Because the groups form a chain (`LaterSignalsReachMore`), a set
that cannot be made larger is as large as any (`Exchange`), and what one operation
does to the largest sets can be computed: a signal adds one thread to each, wherever one is left
(`SignalSpreads`); a thread that leaves takes the first group it is in, and what
can be matched to the other groups is what could be matched together with it (`LeavingUsesOneUp`).
The latter is the reason why the code uses up the *first* signal.

**The state sequence.** `StateSequence_proofs` proves all the properties that the run
`state_sequence` checks, for any number of runners, objects, views and states of an object:

| Theorem | Says |
|---|---|
| `BookkeepingInvariant` | the inductive invariant: who owns what the views point at, histories that are not empty, pending transitions about objects that exist, one transition per step |
| `TypeCorrect` | `Spec => []TypeOK`, `PointersAreMade` among it: a view points at a state its owner has, or had when it was destroyed |
| `PastViewsStayAlways` | a view that is not the last one never changes, and is lost only if a cut took it over |
| `EnabledRunnersMoveAlways` | a runner is listed as enabled exactly when executing it adds a view |
| `SequenceIsPathAlways` | the views that can be read are the path the transitions led along, but for direct changes and the step after a cut; the last one is the current state, unless a cut has just made it the last |

The only assumption is `BoundsAssumption`: the bounds are naturals, with room for the
main thread's object. `Bookkeeping` is `Store` (the objects, those of the consumed
sequences, and the views), `StepsOK` and `PendingOK`. Every action keeps the store and
does two things less: no sequence, consumed or in use, loses a state (`MemoryGrows`, from
`HistoriesGrow` for the one in use), and only the last view changes
(`PastPointersStay`). One lemma per action says so (`PointedKeeps` for the two that
change the last view, `FollowKeeps`, `ConsumeKeeps`). Then `ViewStays`: a view that points
where it did says what it said, however much was appended. That only views a cut took
over dangle (`OursDoNotDangle`) needs `LaterViewsAreOurs`: all others point into the
sequence in use, which is never destroyed.

The path is not inductive alone: the step that `follow` adds starts at the current state,
so the last view must be one of the latest states, and a new object must not be in a
view that earlier steps are judged by. `Path` adds both; it holds of the memory as it was,
whether it still exists or not. After a cut the first fails, which is what `seams` is for:
the step that comes next is from the last state of the old sequence. `PathFollow`,
`PathPointed` and `PathConsume` are the actions.

**The search.** `DporSearch_proofs` proves, of `McMiniSpec` (the search with its livelock
check), for every set of programs and of command lines, any number of threads, and any limits:

| Theorem | Says |
|---|---|
| `SearchInvariant` | the inductive invariant |
| `DepthCountsStackAlways` | the depth "-m" compares is the number of transitions on the stack |
| `BacktrackSetsAreUsefulAlways` | a branch was enabled, is new, does not sleep, and is never in the first state |
| `SleepIsJustifiedAlways` | a thread sleeps because its transition was explored before and commutes with all since |
| `EverybodyHadATurnAlways` | a livelock is reported only after everybody had a turn, without a GOAL() |
| `ClocksAreHappensBeforeAlways` | the clock of a transition says which transitions happen before it |
| `StackFitsByDefault` | the room reserved for the livelock check is enough, unless "-lc" or "-t" asks for more |

The assumptions say what the program and the command line are. `ProgramsAssumption`: each
operation is one McMini knows, on an object of its kind, and a loop goes back to an
operation of its thread.
`LauncherAssumption`: the constants are naturals, a cycle has at least one turn, and the
reserve is smaller than the stack. `SearchAssumption`: "-t" gives threads, numbers are
naturals, and the mark for "no thread" is none.

`SearchInv` has three layers. `StackInv` is about the stacks alone, so that the search and the
livelock check, which push on the same stacks, need it proved once (`AdvanceKeeps`), and
going back once (`ExploreKeeps`). `Succession` is its heart: each transition on the stack, and
each pending one, is the one after its thread's last. With it a sleeping thread's
transition in an earlier state is the one it has now, since a thread depends on
itself and would have woken (`AsleepStays`); and the first abandoned transition of a thread is what
it goes on with (`PosBackIsPosAfter`). The depth is taken back in two
ways, by counting down while undoing and by counting up while replaying;
`DepthBackIsDepth` shows that both give `Depths`. `ClocksLookBack` says that a clock knows of no later
transition, so that the maximum of several clocks exists. That nothing is ever added to the first
state is due to the zero of a new clock: transition 0 happens before everything.
`ClocksAreMade` says how the clock of each transition comes of those it depends on; it is kept by
whatever pushes a transition (`AdvanceClocks`) and by going back, which takes clocks from the
stack (`ExploredStacks`). `HappenBefore` is a recursive function, and with it `ClocksTellBefore` is
an induction over the transitions, by the least counterexample. `Scheduled` and `Checked` are what the loops know of the thread to run and of a
cycle in progress.

`StackFitsByDefault` has a hypothesis, `DefaultsKept`: there are at most `MaxThreads` threads,
and each search with `-l` keeps `-lc` at most its default and gives no sequence with `-t` that is
longer than its limit on a trace. `livelock_overflow` shows that it cannot be dropped. `FitInv`
counts the check out: a trace is at most one transition longer than the limit, and each thread that had
a turn has used at most `CycleLimit` of the room for one cycle.

**The target and its objects.** `TargetProgram_proofs` proves, for any number of threads, objects
and programs:

| Theorem | Says |
|---|---|
| `TypeCorrect` | `Spec => []TypeOK`, for every program |
| `Synchronisation` | `Spec => [](KeepsTheRules(program) => SynchronisationHolds)`: mutual exclusion, semaphores, reader-writer locks and barriers |
| `UnapplyIsExactAlways` | `Spec => [](KeepsTheRules(program) => UnapplyIsExact)` |
| `EnabledAreCoenabled` | `Spec => [](KeepsTheRules(program) => EnabledTogetherAreCoenabled)` |

The assumptions are `LastThreadAssumption`, `ObjectsAssumption` (the kinds of objects are
disjoint; initial counts are naturals, a barrier has at least one thread, a condition
variable has a mutex) and `ProgramsAssumption`. The first theorem needs no rule.
`AppliedEffect` and `AnnouncedEffect` say once what the two halves of a step do to each
kind of object; the rest cites them.

The invariant is `Typed /\ Regular`. `Positions`: no thread is past its end.
`ThreadsAreCreated`: who has started was created by an operation that ran, and while the main
thread initialises nobody else is there (so that an initialisation finds an object nobody has used,
`NothingRanWhileInitialising`). The others tie the state of each kind of
object to what the threads have run of their lists, counted by `Ran`; `RanStep` is the step of
these counts, `TurnsStep` that of a thread that takes and gives in turns.

* `MutexInv`: who unlocks is the one that is between a lock and its unlock, so the
  mutex without an owner is free only when nobody is. `InitialMutexes` has the two states
  a mutex goes through before its initialisation, which is also what undoing it must
  give back.
* `SemInv`: the count, and a queue with nobody in it twice, or leaving it would not
  take a thread out (`RemovedOnce`).
* `LockInv`: at most one writer of the three kinds, none while a reader is inside, and
  those inside are those the shadow names. `ReleaseRWWLock` never looks for the writer of an
  `MCRWLock`, which is what `KeepsToOneKind` is for.
* `BarrierInv`: the shadow lets the second parity begin only after enough have come to
  the first, and counts only threads that did come.

For `EnabledAreCoenabled` the pairs that the classes exclude are collected in `NeverTogether`
(`ClassAnswers`): a lock finds the mutex unlocked and an unlock finds it locked (`LockOrUnlock`); two
that enqueue on one condition variable would both hold its mutex; two at a reader-writer lock would
both be in front of its queue (`InFront`); and a thread that is being created or joined does
not run (`TargetDoesNotRun`).

**Going back.** `ShadowState_proofs` joins the last two. It proves of `McMiniSpec`, for any number of
threads, objects and programs:

| Theorem | Says |
|---|---|
| `ShadowInvariant` | the inductive invariant, `McMiniSpec => []CarefulInv` |
| `ModelIsReplayAlways` | `McMiniSpec => [](Careful => ModelIsReplay)`: the shadow objects are those a fresh run of the stack gives |
| `OnlyEnabledThreadsRunAlways` | `McMiniSpec => [](Careful => OnlyEnabledThreadsRun)`: McMini never waits for a thread that blocks |
| `NoFalseAlarms` | `McMiniSpec => [](Careful => ReportsReal)`: what it has recorded, the program can do |
| `ReportsAreRealAlways` | `McMiniSpec => [](Careful => ReportsAreReal)`: so is what a search has reported when it stops |

Besides the assumptions of the two modules there is a hypothesis on the search, `Careful`: it
begins at the beginning (no `-t`), and its program keeps the rules and `UsesInitialised`.
Neither half of the latter can be dropped: `static_mutex` and `barrier_lost` report
deadlocks that do not exist, in programs that keep all other rules. Limits, round robin, the
livelock check, GOAL(), `abort()` and stopping early are covered. With `-t` a search
runs what it is told to, enabled or not.

The reference is the program itself: `RealAt(n)` is where a run of the first *n*
transitions on the stack leads. The invariant says, of the `Careful` searches,

* `Exact`: the shadow objects are those of `RealAt(Len(transitionStack))` (`Agree`), but for a
  thread whose creation or join was announced in an abandoned trace: the shadow keeps
  it as one that has not started;
* `Trodden`: each transition on the stack could run where it ran, and the program is `Sound`
  all along, which is the invariant of `TargetProgram_proofs` as a fact about a
  state instead of a run;
* `Recorded`: the copies of the initial states are those at registration, and cover
  every object there is; what cannot be undone is on the stack of irreversible states;
* `Offered`: what is searched from a state can run in it, and where something is left
  to search, something was searched;
* `NextCanRun`: so can the thread that was chosen to run next.

Going back is exact in both ways. `Rerun` starts at the copies and applies the
transitions without announcing anything; `Rebuilt` shows that the announcements change nothing
else, once the main thread has initialised, since all they do then is to name
threads. There is nothing to branch to before that: a branch point has two threads that can
run. `RevertStep` undoes one transition, `UnapplyIsExact` at the state it left; between the branch
point and the top nothing is irreversible, because `irreversible` has it recorded.

A report is then a statement about `Reachable`, the states that a brute-force exploration
finds. It is a recursive function with a bound, the number of transitions a program has.
`NeverTwice` says that no thread passes the same place twice (there is no loop, and a thread
that has finished is not created again), so no stack is longer (`StackIsShort`)
and what is on it was explored (`StackIsReachable`). A verdict "deadlock" is about the
threads McMini knows, a deadlock of the program about those that exist: `VerdictIsReal` needs that who exists is
known. `RaceIsReal` needs that the pending transitions are those of a reachable state.

**Independence.** `Independence_proofs` proves of the target program what partial-order reduction
rests on, for any number of threads, objects and programs:

| Theorem | Says |
|---|---|
| `IndependenceHoldsAlways` | `Spec => [](KeepsTheRules(program) /\ UsesInitialised(program) /\ WaitsWithOwnMutex(program) => IndependenceHolds)` |

The assumptions are those of `ShadowState_proofs`, which it extends. Without the last two
hypotheses it is not true. What a thread announces next can act on an object that the other's
transition changes (a third thread entering a barrier of two as it announces its wait; a mutex
registered when the first lock of it is announced), and no class is asked about that. Two waits
on two condition variables with one mutex disable each other (section 3).

The invariant is that of `TargetProgram_proofs` with `PreparedHere`, the facts about one state that
`ShadowState_proofs` has of each transition on the stack (`Sound`, `Prepared`): the
program is where it can be, and its objects are initialised as far as the main thread has come.
Two threads that can both run have left the initialisations behind (`TwoHaveBegun`), so
announcing changes nothing but the states of threads (`SteppedEffect`): a step is then one
function per object (`MutexAfter` and the like) of its own state, and two steps commute if
they do on each object.

* On mutexes, condition variables and reader-writer locks two independent enabled transitions never
  meet (`MutexNotShared`, `CondNotShared`, `RWLockNotShared`). Most pairs are dependent by
  declaration. Two unlocks are not, but both threads would hold the mutex (`GiverHolds`); an unlock and
  a wait are not, but one finds the mutex locked and the other unlocked (`LockOrUnlock`); two waits
  for one mutex are on one condition variable, by `WaitsWithOwnMutex`, and so dependent; two
  readers are not both in front of the queue.
* On a semaphore they may meet (`SemPair`): two posts add up; a post and a wait do as the wait
  was possible before; and who enqueues does so behind the one that leaves (`LeavesAndEnters`).
* On the state of a thread they meet when one creates or joins the thread the other does
  (`ThreadsCommute`).

That neither disables the other (`StaysEnabledFollows`) and that neither enables what does not wait for
it (`KeepsEnabledFollows`) follows object by object: what an operation looks at has not changed
(`SameFor`). The second asks only one of the two to be enabled, so that
`MutexNotShared` is of no use, and the declarations alone must do (`IndependentOnMutex`).

**Model-checked only**, because

* liveness is out of the prover's reach: `EveryWaitEnds`, `McMiniEnds`, `CrashIsReported`,
  `SearchEnds`;
* they say that DPOR finds everything, which relates the search to all the runs it has left
  out: `NoDeadlockMissed`, `RacesAreFound`. The proofs have what such an argument would start from:
  sleeping is justified, the clocks are the happens-before relation, and what runs is enabled;
* `LivelockTypeOK` is about every search, and types the objects, which a `-t` that runs disabled
  transitions takes anywhere. The stacks in it are in `SearchInv`, for every search; the objects
  in `Exact`, for the `Careful` ones;
* they are about programs the theorem leaves out: `IndependenceHolds` of programs that wait at
  a barrier or do not initialise what they use.

## 6. Where the code and its documentation disagree

Six runs show a sentence of the documentation that the code does not keep; the
quotations are in `PROJECT.json`.

* **Static mutexes** (`static_mutex`). A mutex without `pthread_mutex_init` becomes
  unlocked after its initial state was copied, so that a reset makes it undefined
  again until another lock is announced. A lock already pending then
  counts as blocked, and the search can report a deadlock that does not exist.
* **Barriers forget** (`barrier_lost`). A thread enters the shadow barrier when
  its wait is announced; the copy that going back restores has nobody in it. A thread
  that is already stopped at the barrier is not put back, and the search reports a
  deadlock the program does not have.
* **Who wakes** (`who_wakes`). `MCCondWait` says that two waits on one condition
  variable are never coenabled, since only one can lock the mutex; `MCTransition.h`
  defines coenabled as enabled in one state, and after a signal to two waiters both
  are. The search therefore never tries the other one, and misses a deadlock.
* **Going back** (`mcmini_back`). `mcmini back` resets the position in the sequence of
  `-t` and not the count that `getCurrentlyEnabledThreads` keeps of it. The trace that is
  to repeat the given one then leaves it early.
* **The livelock check overflows** (`livelock_overflow`). The room for it on the stack is
  computed from the default cycle limit; with a larger `-lc` it runs over the end of the
  arrays.
* **Views dangle** (`views_dangle`). McMini 2.0's `consume_into_subsequence`
  (`docs/design/src/mcmini/model/state_sequence.cpp:131-138`) moves the views and copies the
  objects, since the parameter of the constructor at line 64 is an lvalue. The new
  sequence's views point into the consumed one and are lost with it; the header
  (`state_sequence.hpp:119-122`) says that they remain valid.

Disagreements without a run of their own are listed with the modules they are in
(section 3), where the models keep what the code does. More of them:

* `consume_into_subsequence` takes over all objects, those that the last state of the
  subsequence does not have included; `state_sequence.hpp:126-128` says that they "will
  not exist in the resulting sequence". It takes over their whole histories, too: the next
  transition is tried in, and applied to, the last state before the cut, so that the step
  after the cut is not one of a path (lines 16-22). `seams` marks it, and
  `SequenceIsPath` makes an exception of it.
* A child that calls `_exit` is taken for one that was killed: `signals.cpp:81-84` says
  that only the scheduler ends a child so, and 98-100 promise to report "exit with failure
  between thread operations". The wait it interrupts returns, the scheduler decodes what is
  left in the mailbox, and then waits for ever for a process that is gone.
  `McMiniEnds` and `CrashIsReported` make an exception of it; a FIXME at
  `mcmini_private.h:333-337` knows of such waits.
* Exiting at the first deadlock, data race or livelock leaves the shared memory file
  (`ExitAtFirstResult`): only `mc_stop_model_checking` unlinks it.
* McMini 2.0's `coordinator.hpp:140` says that `execute_runner` first takes the step in
  the model and then in the process; the code does it the other way round, and
  `get_depth_into_program` counts a trace that nothing is ever pushed to.

## 7. What is not modelled

* The condition variable policies of glibc and of a fixed order, and `MCBarrierEnqueue`:
  nothing in the program makes them. A reader-writer lock without an init: its
  handler reports an error before the static initialisation is reached.
* A barrier used twice and a semaphore initialised twice: planned (the code says of the
  first that it is incomplete; the second keeps the count it had).
* A condition variable that is bound to another mutex later: the mutex is fixed
  (`CondMutex`). The code drops the binding when the last waiter leaves; a thread at its
  `cond_wait` is a waiter and never finds it dropped.
* Thread identity (`pthread_t` to tid): planned. The map from addresses of the target to
  object ids: no object changes its address, and ids are not used again.
* Job control (^Z, `CLD_STOPPED`), and `mc_trace_panic` (SIGUSR1 to the scheduler), which
  nothing calls.
* The exits of the handlers and of `applyToState` for programs whose behaviour is
  undefined (`MCMutexUnlock.cpp:17-23`, `MCCondEnqueue.cpp:103-136`,
  `MCRWLockUnlock.cpp:17-23`, `MCRWLockReaderLock.cpp:35-79` and the like for the other
  locks, the assertion at `MCBarrierWait.cpp:14`): reports and assertions that no program
  of the runs comes to, and that `ProgramRules` excludes from the proofs about programs.
* In the comparison of states of early stopping (`stateIsRevisited`), the values of global
  variables; and an old state that has fewer objects than the new one, where the code reads
  behind the end of the old vector: the model takes the states for different.
* Values of variables, data in the mailbox, names and printed text: no property
  depends on them. The launcher's flags about output, and how it finds the target.
* Printing, the gdb front end, and of `docs/design` the coordinator, the process sources
  and `classic_dpor`, which are declarations and stubs.
