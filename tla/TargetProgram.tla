---- MODULE TargetProgram ----
(***************************************************************************)
(* A program under McMini, with every interleaving of its threads: what    *)
(* the search has to cover with far fewer traces.  Each thread has a fixed *)
(* list of operations; a step runs the pending operation of one enabled    *)
(* thread and announces the next one.                                      *)
(*                                                                         *)
(* The properties are the promises include/MCTransition.h asks of every    *)
(* transition class; partial-order reduction is sound only under them.     *)
(***************************************************************************)
EXTENDS VisibleOperations, FiniteSetsExt

CONSTANT Programs   \* a set of functions from Threads to sequences of [type, obj]

\* What a program may list: each operation acts on an object of its kind.
Operations ==
    [type : {"create", "join"}, obj : Threads]
    \cup [type : MutexOperationTypes, obj : Mutexes]
    \cup [type : SemOperationTypes, obj : Semaphores]
    \cup [type : CondOperationTypes, obj : Conds]
    \cup [type : BarrierOperationTypes, obj : Barriers]
    \cup [type : MCRWLockTypes \cup MCRWWLockTypes, obj : RWLocks]
    \cup [type : GlobalOperationTypes, obj : Variables]
    \cup [type : {"exit", "abort", "progress"}, obj : {NoObject}]
    \cup [type : {"repeat"}, obj : Nat]

\* A loop goes back to some operation of the same thread.
ASSUME ProgramsAssumption ==
    \A prg \in Programs :
        /\ prg \in [Threads -> Seq(Operations)]
        /\ \A t \in Threads : \A p \in DOMAIN prg[t] :
              prg[t][p].type = "repeat" =>
                 /\ prg[t][p].obj \in DOMAIN prg[t]
                 /\ prg[t][prg[t][p].obj].type # "repeat"

VARIABLES
    program,        \* the program that runs
    objects,        \* the shadow objects
    pos             \* the operation each thread is blocked at

vars == <<program, objects, pos>>

\* Operation number p of thread t in program prg: the start, the operations of
\* its routine, the finish.
TransitionAt(prg, t, p) ==
    CASE p = 0 -> [tid |-> t, type |-> "start", obj |-> NoObject]
      [] p \in DOMAIN prg[t] -> [tid |-> t, type |-> prg[t][p].type, obj |-> prg[t][p].obj]
      [] OTHER -> [tid |-> t, type |-> "finish", obj |-> NoObject]

\* Mutant: a thread goes on after its finish.
RunsPastFinish(prg, t, p) == p + 1

\* The operation a thread announces after it ran number p.  After its finish it
\* announces the finish again.  A routine that loops ends in a "repeat", which is no
\* operation: obj is the operation it goes back to.
NextPosition(prg, t, p) ==
    LET q == IF p = Len(prg[t]) + 1 THEN p ELSE p + 1
    IN  IF q \in DOMAIN prg[t] /\ prg[t][q].type = "repeat" THEN prg[t][q].obj ELSE q

Pending(t) == TransitionAt(program, t, pos[t])

Known(t) == objects.thread[t] # "none"
Enabled(t) == transitionEnabledInState(objects, Pending(t))

Init ==
    /\ program \in Programs
    /\ objects = NoObjects
    /\ pos = [t \in Threads |-> 0]

\* The process is gone once a thread has run its abort().
Aborted == \E t \in Threads :
              pos[t] > 0 /\ TransitionAt(program, t, pos[t] - 1).type = "abort"

Successor(t) == TransitionAt(program, t, NextPosition(program, t, pos[t]))

\* The objects after thread t ran its pending operation and announced the next.
Stepped(o, t) == readTransition(applyToState(o, Pending(t)), Successor(t))

Run(t) ==
    /\ ~ Aborted
    /\ Enabled(t)
    /\ pos' = [pos EXCEPT ![t] = NextPosition(program, t, @)]
    /\ objects' = Stepped(objects, t)
    /\ UNCHANGED program

Next == \E t \in Threads : Run(t)

Spec == Init /\ [][Next]_vars

-----------------------------------------------------------------------------

TypeOK ==
    /\ program \in Programs
    /\ objects \in ObjectStates
    /\ pos \in [Threads -> Nat]
    /\ \A t \in Threads : pos[t] <= Len(program[t]) + 1

Others(t) == {u \in Threads \ {t} : Known(u)}

\* "if t1 and t2 are enabled in s, then there is a unique state s' such that
\* s (t1t2) -> s' and s (t2t1) -> s'" (MCTransition.h): two transitions that call
\* themselves independent commute, what they announce afterwards included.
IndependentCommute ==
    \A t \in Threads : \A u \in Others(t) :
        Enabled(t) /\ Enabled(u) /\ ~ dependentTransitions(Pending(t), Pending(u)) =>
            Stepped(Stepped(objects, t), u) = Stepped(Stepped(objects, u), t)

\* "if t1 is enabled in s and s (t1) -> s', then t2 is enabled in s iff t2 is
\* enabled in s'" (MCTransition.h), t2 being any pending transition the code
\* declares independent of t1.
KeepsEnabledness(t, u) ==
    Enabled(t) /\ ~ dependentTransitions(Pending(t), Pending(u)) =>
        (Enabled(u) <=> transitionEnabledInState(Stepped(objects, t), Pending(u)))

\* Operations that something they are declared independent of may enable: a sem_post,
\* the unlock of a condition variable's mutex, the reader before in the queue, the
\* last thread to enter the barrier.
Waits == {"sem_wait", "cond_wait", "reader_lock", "rww_reader_lock", "barrier_wait"}

\* For these half of the promise: nothing they are declared independent of disables
\* them.
StaysEnabled(t, u) ==
    Enabled(t) /\ Enabled(u) /\ ~ dependentTransitions(Pending(t), Pending(u)) =>
        transitionEnabledInState(Stepped(objects, t), Pending(u))

IndependentKeepEnabled ==
    \A t \in Threads : \A u \in Others(t) :
        IF Pending(u).type \in Waits THEN StaysEnabled(t, u) ELSE KeepsEnabledness(t, u)

\* What "independent" promises (MCTransition.h), both halves of it: DPOR explores only
\* one order of what dependentTransitions calls independent.
IndependenceHolds == IndependentCommute /\ IndependentKeepEnabled

\* Two transitions that some state enables together are declared coenabled: where
\* the classes say otherwise the search adds no backtrack point at all.  Two cond_waits
\* are left out: the code takes "coenabled" for "both can be run".
EnabledTogetherAreCoenabled ==
    \A t \in Threads : \A u \in Others(t) :
        Enabled(t) /\ Enabled(u) /\ {Pending(t).type, Pending(u).type} # {"cond_wait"} =>
            coenabledTransitions(objects, Pending(t), objects, Pending(u))

\* "the effect of unapplying the transition must be the EXACT opposite of applying
\* the transition" (MCTransition.h).
UnapplyIsExact ==
    \A t \in Threads :
        Enabled(t) /\ isReversibleInState(Pending(t)) =>
            unapplyToState(applyToState(objects, Pending(t)), Pending(t)) = objects

\* Operations as a program lists them: those of some types on x.
On(types, x) == [type : types, obj : {x}]

\* The number of the operations ops that thread t runs before it comes to number n.
Before(prg, t, n, ops) == Cardinality({p \in DOMAIN prg[t] : p < n /\ prg[t][p] \in ops})

\* The number of them that it has run, and those that all threads have run.
Ran(t, ops) == Before(program, t, pos[t], ops)

AllRan(ops) ==
    {at \in UNION {{t} \X DOMAIN program[t] : t \in Threads} :
        at[2] < pos[at[1]] /\ program[at[1]][at[2]] \in ops}

\* A thread has locked a mutex (a cond_wait does too) and not yet unlocked it (nor
\* given it up in a cond_enqueue).
WaitingWith(m) == {c \in Conds : CondMutex[c] = m}
Takes(m) == On({"mutex_lock"}, m) \cup [type : {"cond_wait"}, obj : WaitingWith(m)]
Gives(m) == On({"mutex_unlock"}, m) \cup [type : {"cond_enqueue"}, obj : WaitingWith(m)]

Holds(t, m) == Ran(t, Takes(m)) > Ran(t, Gives(m))

\* A successful trylock is not seen in the positions.
Tried(m) ==
    \E t \in Threads : \E p \in DOMAIN program[t] : program[t][p] \in On({"mutex_trylock"}, m)

\* The shadow mutex stores no owner.  It still excludes, through any number of
\* condition waits: no two threads are between a lock and its unlock, and it is
\* locked exactly while one is.
MutualExclusion ==
    \A m \in Mutexes :
        /\ \A t, u \in Threads : Holds(t, m) /\ Holds(u, m) => t = u
        /\ (\E t \in Threads : Holds(t, m)) => objects.mutex[m] = "locked"
        /\ objects.mutex[m] = "locked" => Tried(m) \/ \E t \in Threads : Holds(t, m)

\* Semaphores neither lose nor invent permits, and the threads in the queue are
\* exactly those between their sem_enqueue and the end of their sem_wait.
Posts(s) == On({"sem_post"}, s)
Queues(s) == On({"sem_enqueue"}, s)
Leaves(s) == On({"sem_wait"}, s)

SemaphoresConservePermits ==
    \A s \in Semaphores : objects.sem[s].registered =>
        /\ objects.sem[s].count =
              InitialCount[s] + Cardinality(AllRan(Posts(s))) - Cardinality(AllRan(Leaves(s)))
        /\ \A t \in Threads :
              t \in ToSet(objects.sem[s].waitingQueue) <=> Ran(t, Queues(s)) > Ran(t, Leaves(s))

\* The threads in a reader-writer lock, as their operations tell: a writer is alone in
\* it, and the shadow names exactly those inside.
Enters(l) ==
    On({"reader_lock", "writer_lock", "rww_reader_lock", "writer1_lock", "writer2_lock"}, l)
Exits(l) == On({"rwlock_unlock", "rwwlock_unlock"}, l)

Inside(t, l) == Ran(t, Enters(l)) > Ran(t, Exits(l))

WritersAreAlone ==
    \A l \in RWLocks :
        LET lock == objects.rwlock[l]
            in == {t \in Threads : Inside(t, l)}
        IN  /\ in = ToSet(lock.active_readers)
                     \cup ({lock.active_writer[k] : k \in Writers} \ {Nobody})
            /\ isWriterLocked(lock) => Cardinality(in) = 1 /\ ~ isReaderLocked(lock)

\* No thread has passed a barrier (that is used once) before as many threads as were
\* announced in barrier_init have come to it.
Meets(b) == On({"barrier_wait"}, b)

BarrierHolds ==
    \A b \in Barriers :
        AllRan(Meets(b)) # {} =>
            BarrierCount[b] <=
                Cardinality({t \in Threads : \/ Ran(t, Meets(b)) > 0
                                             \/ Known(t) /\ Pending(t).obj = b
                                                  /\ Pending(t).type = "barrier_wait"})

\* What each kind of object is there for.
SynchronisationHolds ==
    MutualExclusion /\ SemaphoresConservePermits /\ WritersAreAlone /\ BarrierHolds
====
