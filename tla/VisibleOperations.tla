---- MODULE VisibleOperations ----
(***************************************************************************)
(* The visible operations McMini knows (the MCTransition subclasses) over  *)
(* all the shadow objects they act on.  The families of classes have       *)
(* modules of their own; here they meet: the object store, what a          *)
(* transition does to it, and which transitions depend on each other.      *)
(*                                                                         *)
(* A transition is a record [tid, type, obj]: thread tid performs an       *)
(* operation of that type on obj (a thread for create and join; NoObject   *)
(* if it has none).                                                        *)
(***************************************************************************)
EXTENDS MutexOperations, SemaphoreOperations, ConditionOperations, BarrierOperations,
        RWWLockOperations, MiscOperations

CONSTANTS
    Mutexes, Semaphores, Conds, Barriers, RWLocks,
    Variables,      \* the annotated global variables
    NoObject,
    InitialCount,   \* the value sem_init gives each semaphore
    BarrierCount,   \* the number of threads barrier_init gives each barrier
    CondMutex       \* the mutex each condition variable is waited on with

Objects == Mutexes \cup Semaphores \cup Conds \cup Barriers \cup RWLocks \cup Variables

ASSUME ObjectsAssumption ==
    /\ NoObject \notin Threads \cup Objects
    /\ Nobody \notin Threads
    /\ \A S, T \in {Mutexes, Semaphores, Conds, Barriers, RWLocks, Variables} :
          S = T \/ S \cap T = {}
    /\ InitialCount \in [Semaphores -> Nat]
    /\ BarrierCount \in [Barriers -> Nat \ {0}]
    /\ CondMutex \in [Conds -> Mutexes]

-----------------------------------------------------------------------------
(* MCObjectStore holds an object from the moment its first operation is      *)
(* announced.                                                                *)

ObjectStates == [thread  : [Threads -> ThreadStates],
                 mutex   : [Mutexes -> MutexStates],
                 sem     : [Semaphores -> SemStates],
                 cond    : [Conds -> CondStates],
                 barrier : [Barriers -> BarrierStates],
                 rwlock  : [RWLocks -> RWLockStates]]

\* Before the trace: only the main thread is known.
NoObjects ==
    [thread  |-> [t \in Threads |-> IF t = Main THEN "alive" ELSE "none"],
     mutex   |-> [m \in Mutexes |-> "none"],
     sem     |-> [s \in Semaphores |-> NoSem],
     cond    |-> [c \in Conds |-> NewCond],
     barrier |-> [b \in Barriers |-> NewBarrier(FALSE)],
     rwlock  |-> [l \in RWLocks |-> NewRWLock]]

\* The thread an operation of ThreadOperations is about.
Subject(tr) == IF tr.type \in {"create", "join"} THEN tr.obj ELSE tr.tid

\* The class of a transition, for the state its object has in o.
Operation(o, tr) ==
    CASE tr.type \in ThreadOperationTypes ->
            ThreadOperation(tr.type, o.thread[Subject(tr)], tr.tid)
      [] tr.type \in MutexOperationTypes   -> MutexOperation(tr.type, o.mutex[tr.obj])
      [] tr.type \in SemOperationTypes     ->
            SemOperation(tr.type, o.sem[tr.obj], tr.tid, InitialCount[tr.obj])
      [] tr.type \in CondOperationTypes    -> CondOperation(tr.type, o.cond[tr.obj], tr.tid)
      [] tr.type \in BarrierOperationTypes ->
            BarrierOperation(tr.type, o.barrier[tr.obj], tr.tid, BarrierCount[tr.obj])
      [] tr.type \in MCRWLockTypes  -> RWLockOperation(tr.type, o.rwlock[tr.obj], tr.tid)
      [] tr.type \in MCRWWLockTypes -> RWWLockOperation(tr.type, o.rwlock[tr.obj], tr.tid)
      [] tr.type \in MiscOperationTypes -> MiscOperation(tr.type)

\* o with the state of that object replaced.
Updated(o, tr, new) ==
    CASE tr.type \in ThreadOperationTypes  -> [o EXCEPT !.thread[Subject(tr)] = new]
      [] tr.type \in MutexOperationTypes   -> [o EXCEPT !.mutex[tr.obj] = new]
      [] tr.type \in SemOperationTypes     -> [o EXCEPT !.sem[tr.obj] = new]
      [] tr.type \in CondOperationTypes    -> [o EXCEPT !.cond[tr.obj] = new]
      [] tr.type \in BarrierOperationTypes -> [o EXCEPT !.barrier[tr.obj] = new]
      [] tr.type \in MCRWLockTypes \cup MCRWWLockTypes -> [o EXCEPT !.rwlock[tr.obj] = new]

\* The handler of the mailbox (MCReadThreadCreate, MCReadMutexLock...) registers an
\* object it does not know, and sometimes touches it.
readTransition(o, tr) ==
    IF tr.type \in MiscOperationTypes THEN o
    ELSE Updated(o, tr, Operation(o, tr).announced)

\* MCObjectStore::registerNewObject: the same, but with the state the object has the
\* moment it is registered.  It is kept as the initial state of the object.
registerNewObject(o, tr) ==
    CASE tr.type \in MutexOperationTypes -> [o EXCEPT !.mutex[tr.obj] = RegisteredMutex(@)]
      [] tr.type = "barrier_wait"        -> o
      [] OTHER                           -> readTransition(o, tr)

\* A cond_enqueue releases the mutex of the condition variable, a cond_wait takes it.
CondMutexOperation(o, tr) ==
    LET m == CondMutex[tr.obj]
    IN  IF tr.type = "cond_wait" THEN MCMutexLock(o.mutex[m]) ELSE MCMutexUnlock(o.mutex[m])

UsesCondMutex(tr) == tr.type \in {"cond_enqueue", "cond_wait"}

transitionEnabledInState(o, tr) ==
    /\ MCThreadEnabled(o.thread[tr.tid])
    /\ Operation(o, tr).enabled
    /\ UsesCondMutex(tr) => CondMutexOperation(o, tr).enabled

applyToState(o, tr) ==
    IF tr.type \in MiscOperationTypes THEN o
    ELSE LET applied == Updated(o, tr, Operation(o, tr).applied)
         IN  IF UsesCondMutex(tr)
             THEN [applied EXCEPT !.mutex[CondMutex[tr.obj]] = CondMutexOperation(o, tr).applied]
             ELSE applied

unapplyToState(o, tr) == Updated(o, tr, Operation(o, tr).unapplied)

\* The objects of a transition that was copied onto the stack (staticCopy).
staticCopy(o) == [o EXCEPT !.barrier = [b \in Barriers |-> CopiedBarrier(@[b])]]

-----------------------------------------------------------------------------
(* dependentWith, coenabledWith, isRacingWith.  Each class answers for       *)
(* itself; the caller asks both ways round.                                  *)

Class(type) ==
    CASE type \in ThreadOperationTypes  -> ThreadClass(type)
      [] type \in MutexOperationTypes   -> MutexClass(type)
      [] type \in SemOperationTypes     -> SemClass(type)
      [] type \in CondOperationTypes    -> CondClass(type)
      [] type \in BarrierOperationTypes -> BarrierClass(type)
      [] type \in MCRWLockTypes         -> RWLockClass(type)
      [] type \in MCRWWLockTypes        -> RWWLockClass(type)
      [] type \in MiscOperationTypes    -> MiscClass(type)

isReversibleInState(tr) == Class(tr.type).reversible

countsAgainstThreadExecutionDepth(tr) == Class(tr.type).countsDepth

ensuresDeadlockIsImpossible(tr) == tr.tid \in Class(tr.type).endsProgram

\* What MCTransition::transitionsDependentCommon asks of the two.
Names(t1, tid) == Class(t1.type).aboutTarget /\ t1.obj = tid

\* Two mutex transitions of different threads.
MutexesDependent(t1, t2) ==
    /\ t1.obj = t2.obj
    /\ t2.type \in MutexClass(t1.type).dependent \/ t1.type \in MutexClass(t2.type).dependent

MutexesCoenabled(t1, t2) ==
    t1.obj = t2.obj =>
        /\ t2.type \notin MutexClass(t1.type).neverCoenabled
        /\ t1.type \notin MutexClass(t2.type).neverCoenabled

\* What a cond_enqueue and a cond_wait are to other mutex operations.
AsMutexOperation(tr) ==
    [tid |-> tr.tid, obj |-> CondMutex[tr.obj],
     type |-> IF tr.type = "cond_wait" THEN "mutex_lock" ELSE "mutex_unlock"]

\* MCCondWait::dependentWith asks whether the two are coenabled, not dependent.
dependentWith(t1, t2) ==
    CASE t1.type \in ThreadOperationTypes -> t2.tid = t1.tid \/ Names(t1, t2.tid)
      [] UsesCondMutex(t1) /\ t2.type \in MutexOperationTypes ->
            IF t1.type = "cond_wait" THEN MutexesCoenabled(AsMutexOperation(t1), t2)
            ELSE MutexesDependent(AsMutexOperation(t1), t2)
      [] OTHER -> t2.obj = t1.obj /\ t2.type \in Class(t1.type).dependent

\* o: the state of the object of t1.
coenabledWith(o, t1, t2) ==
    CASE t1.type \in ThreadOperationTypes -> t2.tid # t1.tid /\ ~ Names(t1, t2.tid)
      [] UsesCondMutex(t1) /\ t2.type \in MutexOperationTypes ->
            MutexesCoenabled(AsMutexOperation(t1), t2)
      [] t1.type = "barrier_wait" ->
            ~ wouldBlockIfWaitedOn(o.barrier[t1.obj], t1.tid, BarrierCount[t1.obj])
      [] OTHER -> ~ (t2.obj = t1.obj /\ t2.type \in Class(t1.type).neverCoenabled)

isRacingWith(t1, t2) ==
    /\ t1.obj = t2.obj
    /\ t2.type \in Class(t1.type).racing \/ t1.type \in Class(t2.type).racing

dependentTransitions(t1, t2) ==
    t1.tid = t2.tid \/ dependentWith(t1, t2) \/ dependentWith(t2, t1)

\* o1, o2: the objects of t1 and of t2.
coenabledTransitions(o1, t1, o2, t2) ==
    t1.tid # t2.tid /\ coenabledWith(o1, t1, t2) /\ coenabledWith(o2, t2, t1)
====
