---- MODULE Independence_proofs ----
(***************************************************************************)
(* What the transition classes call independent is independent             *)
(* (MCTransition.h): of two threads that can both run, whose transitions   *)
(* do not depend on each other, it does not matter who runs first, and     *)
(* neither takes from the other that it can run.  Partial-order reduction  *)
(* explores one order only and rests on this.                              *)
(*                                                                         *)
(* It holds for every program that keeps the rules, initialises what it    *)
(* uses and waits for each condition variable with a mutex of its own      *)
(* (ProgramRules), for any number of threads and objects.                  *)
(***************************************************************************)
EXTENDS ShadowState_proofs

-----------------------------------------------------------------------------
(* What independent transitions are not about                                *)

\* The operations that lock or unlock a mutex, those of its condition variables included.
Touches(tr, m) ==
    \/ tr.type \in MutexOperationTypes /\ tr.obj = m
    \/ UsesCondMutex(tr) /\ CondMutex[tr.obj] = m

\* What a class says it depends on.
LEMMA MutexDependence ==
    /\ MutexClass("mutex_init").dependent = MutexOperationTypes
    /\ MutexClass("mutex_lock").dependent = {"mutex_lock", "mutex_unlock"}
    /\ MutexClass("mutex_lock").neverCoenabled = {"mutex_unlock"}
    /\ MutexClass("mutex_trylock").dependent = {"mutex_lock", "mutex_unlock", "mutex_trylock"}
    /\ MutexClass("mutex_trylock").neverCoenabled = {}
  BY DEF MutexClass, DependsOn, MCTransition, MCMutexInitClass, MCMutexLockClass,
         MCMutexTrylockClass, MCMutexUnlockClass

\* The same for semaphores (MCSemEnqueue, MCSemWait),
LEMMA SemDependence ==
    /\ SemClass("sem_enqueue").dependent = {"sem_init", "sem_enqueue"}
    /\ SemClass("sem_wait").dependent = {"sem_init", "sem_wait"}
  BY DEF SemClass, DependsOn, MCTransition, MCSemEnqueueClass, MCSemWaitClass

\* for condition variables,
LEMMA CondDependence ==
    \A type \in CondOperationTypes : CondClass(type).dependent = CondOperationTypes
  <1>1. \A type \in CondOperationTypes :
           CondClass(type) \in {MCCondInitClass, MCCondEnqueueClass, MCCondWaitClass,
                                MCCondSignalClass, MCCondBroadcastClass}
    BY DEF CondOperationTypes, CondClass
  <1>2. /\ MCCondInitClass.dependent = CondOperationTypes
        /\ MCCondEnqueueClass.dependent = CondOperationTypes
        /\ MCCondWaitClass.dependent = CondOperationTypes
        /\ MCCondSignalClass.dependent = CondOperationTypes
        /\ MCCondBroadcastClass.dependent = CondOperationTypes
    BY DEF DependsOn, MCTransition, MCCondInitClass, MCCondEnqueueClass, MCCondWaitClass,
           MCCondSignalClass, MCCondBroadcastClass
  <1> QED BY <1>1, <1>2

\* for reader-writer locks,
LEMMA RWLockDependence ==
    \A type \in MCRWLockTypes :
       RWLockClass(type).dependent =
          IF type = "reader_lock" THEN MCRWLockTypes \ {"reader_lock"} ELSE MCRWLockTypes
  <1>1. \A type \in MCRWLockTypes \ {"reader_lock"} :
           RWLockClass(type) \in {MCRWLockInitClass, MCRWLockReaderEnqueueClass,
                                  MCRWLockWriterEnqueueClass, MCRWLockWriterLockClass,
                                  MCRWLockUnlockClass}
    BY DEF MCRWLockTypes, RWLockClass
  <1>2. RWLockClass("reader_lock") = MCRWLockReaderLockClass
    BY DEF RWLockClass
  <1>3. /\ MCRWLockInitClass.dependent = MCRWLockTypes
        /\ MCRWLockReaderEnqueueClass.dependent = MCRWLockTypes
        /\ MCRWLockWriterEnqueueClass.dependent = MCRWLockTypes
        /\ MCRWLockWriterLockClass.dependent = MCRWLockTypes
        /\ MCRWLockUnlockClass.dependent = MCRWLockTypes
        /\ MCRWLockReaderLockClass.dependent = MCRWLockTypes \ {"reader_lock"}
    BY DEF DependsOn, MCTransition, MCRWLockInitClass, MCRWLockReaderEnqueueClass,
           MCRWLockWriterEnqueueClass, MCRWLockReaderLockClass, MCRWLockWriterLockClass,
           MCRWLockUnlockClass
  <1> QED BY <1>1, <1>2, <1>3

\* and for reader-writer-writer locks.
LEMMA RWWLockDependence ==
    \A type \in MCRWWLockTypes :
       RWWLockClass(type).dependent =
          IF type = "rww_reader_lock" THEN MCRWWLockTypes \ {"rww_reader_lock"}
          ELSE MCRWWLockTypes
  <1>1. \A type \in MCRWWLockTypes \ {"rww_reader_lock"} :
           RWWLockClass(type) \in {MCRWWLockInitClass, MCRWWLockReaderEnqueueClass,
                                   MCRWWLockWriter1EnqueueClass, MCRWWLockWriter2EnqueueClass,
                                   MCRWWLockWriter1LockClass, MCRWWLockWriter2LockClass,
                                   MCRWWLockUnlockClass}
    BY DEF MCRWWLockTypes, RWWLockClass
  <1>2. RWWLockClass("rww_reader_lock") = MCRWWLockReaderLockClass
    BY DEF RWWLockClass
  <1>3. /\ MCRWWLockInitClass.dependent = MCRWWLockTypes
        /\ MCRWWLockReaderEnqueueClass.dependent = MCRWWLockTypes
        /\ MCRWWLockWriter1EnqueueClass.dependent = MCRWWLockTypes
        /\ MCRWWLockWriter2EnqueueClass.dependent = MCRWWLockTypes
        /\ MCRWWLockWriter1LockClass.dependent = MCRWWLockTypes
        /\ MCRWWLockWriter2LockClass.dependent = MCRWWLockTypes
        /\ MCRWWLockUnlockClass.dependent = MCRWWLockTypes
        /\ MCRWWLockReaderLockClass.dependent = MCRWWLockTypes \ {"rww_reader_lock"}
    BY DEF DependsOn, MCTransition, MCRWWLockInitClass, MCRWWLockReaderEnqueueClass,
           MCRWWLockWriter1EnqueueClass, MCRWWLockWriter2EnqueueClass, MCRWWLockReaderLockClass,
           MCRWWLockWriter1LockClass, MCRWWLockWriter2LockClass, MCRWWLockUnlockClass
  <1> QED BY <1>1, <1>2, <1>3

\* Independent transitions that act on one object of these kinds.
LEMMA IndependentOnes ==
    ASSUME NEW t1 \in Transitions, NEW t2 \in Transitions, ~ dependentTransitions(t1, t2)
    PROVE  /\ t1.tid # t2.tid
           /\ t1.type \in {"create", "join"} => t1.obj # t2.tid
           /\ t1.type \in SemOperationTypes /\ t1.obj = t2.obj =>
                 /\ t1.type = "sem_enqueue" => t2.type \notin {"sem_init", "sem_enqueue"}
                 /\ t1.type = "sem_wait" => t2.type \notin {"sem_init", "sem_wait"}
           /\ t1.type \in CondOperationTypes /\ t2.type \in CondOperationTypes => t1.obj # t2.obj
           /\ t1.type \in MCRWLockTypes /\ t2.type \in MCRWLockTypes /\ t1.obj = t2.obj =>
                 t1.type = "reader_lock" /\ t2.type = "reader_lock"
           /\ t1.type \in MCRWWLockTypes /\ t2.type \in MCRWWLockTypes /\ t1.obj = t2.obj =>
                 t1.type = "rww_reader_lock" /\ t2.type = "rww_reader_lock"
  <1>1. t1.tid # t2.tid /\ ~ dependentWith(t1, t2) /\ ~ dependentWith(t2, t1)
    BY DEF dependentTransitions
  <1>2. t1.type \in {"create", "join"} => t1.obj # t2.tid
    <2> SUFFICES ASSUME t1.type \in {"create", "join"}
                 PROVE  t1.obj # t2.tid
      OBVIOUS
    <2>1. t1.type \in ThreadOperationTypes
      BY DEF ThreadOperationTypes
    <2>2. ~ UsesCondMutex(t1)
      BY DEF UsesCondMutex
    <2>3. Class(t1.type).aboutTarget
      <3>1. Class(t1.type) \in {MCThreadCreateClass, MCThreadJoinClass}
        BY <2>1, ClassOfItsKind DEF ThreadClass
      <3> QED BY <3>1 DEF MCThreadCreateClass, MCThreadJoinClass, MCTransition
    <2>4. dependentWith(t1, t2) <=> t2.tid = t1.tid \/ Names(t1, t2.tid)
      BY <2>1, <2>2 DEF dependentWith
    <2> QED BY <1>1, <2>3, <2>4 DEF Names
  <1>3. ASSUME NEW a \in Transitions, NEW b \in Transitions, ~ dependentWith(a, b),
               a.type \notin ThreadOperationTypes,
               ~ (UsesCondMutex(a) /\ b.type \in MutexOperationTypes)
        PROVE  ~ (b.obj = a.obj /\ b.type \in Class(a.type).dependent)
    BY <1>3 DEF dependentWith
  <1>4. ASSUME t1.type \in SemOperationTypes, t1.obj = t2.obj
        PROVE  /\ t1.type = "sem_enqueue" => t2.type \notin {"sem_init", "sem_enqueue"}
               /\ t1.type = "sem_wait" => t2.type \notin {"sem_init", "sem_wait"}
    <2>1. t1.type \notin ThreadOperationTypes /\ ~ UsesCondMutex(t1)
      BY <1>4, OneFamilyOnly DEF UsesCondMutex
    <2>2. Class(t1.type) = SemClass(t1.type)
      BY <1>4, ClassOfItsKind
    <2> QED BY <1>1, <1>3, <1>4, <2>1, <2>2, SemDependence
  <1>5. ASSUME t1.type \in CondOperationTypes, t2.type \in CondOperationTypes
        PROVE  t1.obj # t2.obj
    <2>1. t1.type \notin ThreadOperationTypes /\ t2.type \notin MutexOperationTypes
      BY <1>5, OneFamilyOnly
    <2>2. Class(t1.type) = CondClass(t1.type)
      BY <1>5, ClassOfItsKind
    <2> QED BY <1>1, <1>3, <1>5, <2>1, <2>2, CondDependence
  <1>6. ASSUME NEW a \in Transitions, NEW b \in Transitions, ~ dependentWith(a, b), a.obj = b.obj
        PROVE  /\ a.type \in MCRWLockTypes /\ b.type \in MCRWLockTypes =>
                     a.type = "reader_lock" /\ b.type = "reader_lock"
               /\ a.type \in MCRWWLockTypes /\ b.type \in MCRWWLockTypes =>
                     a.type = "rww_reader_lock" /\ b.type = "rww_reader_lock"
    <2>1. CASE a.type \in MCRWLockTypes /\ b.type \in MCRWLockTypes
      <3>1. /\ a.type \notin ThreadOperationTypes /\ ~ UsesCondMutex(a)
            /\ a.type \notin MCRWWLockTypes
        BY <2>1, OneFamilyOnly DEF UsesCondMutex
      <3>2. Class(a.type) = RWLockClass(a.type)
        BY <2>1, ClassOfItsKind
      <3> QED BY <1>3, <1>6, <2>1, <3>1, <3>2, RWLockDependence
    <2>2. CASE a.type \in MCRWWLockTypes /\ b.type \in MCRWWLockTypes
      <3>1. /\ a.type \notin ThreadOperationTypes /\ ~ UsesCondMutex(a)
            /\ a.type \notin MCRWLockTypes
        BY <2>2, OneFamilyOnly DEF UsesCondMutex
      <3>2. Class(a.type) = RWWLockClass(a.type)
        BY <2>2, ClassOfItsKind
      <3> QED BY <1>3, <1>6, <2>2, <3>1, <3>2, RWWLockDependence
    <2> QED BY <2>1, <2>2
  <1> QED BY <1>1, <1>2, <1>4, <1>5, <1>6

\* Independent transitions that touch the same mutex.
LEMMA IndependentOnMutex ==
    ASSUME NEW t1 \in Transitions, NEW t2 \in Transitions, ~ dependentTransitions(t1, t2),
           NEW m, Touches(t1, m), Touches(t2, m)
    PROVE  \/ /\ t1.type \in {"mutex_unlock", "cond_enqueue"}
              /\ t2.type \in {"mutex_unlock", "cond_enqueue", "cond_wait"}
           \/ /\ t1.type = "cond_wait"
              /\ t2.type \in {"mutex_unlock", "cond_enqueue", "cond_wait"}
  <1>1. ~ dependentWith(t1, t2) /\ ~ dependentWith(t2, t1)
    BY DEF dependentTransitions
  <1>2. ASSUME NEW a \in Transitions, NEW b \in Transitions, ~ dependentWith(a, b),
               ~ dependentWith(b, a), Touches(a, m), Touches(b, m),
               a.type \in {"mutex_init", "mutex_lock", "mutex_trylock"}
        PROVE  FALSE
    <2>1. a.type \in MutexOperationTypes /\ a.obj = m
      BY <1>2, OneFamilyOnly DEF Touches, UsesCondMutex, MutexOperationTypes
    <2>2. a.type \notin ThreadOperationTypes /\ ~ UsesCondMutex(a)
      BY <2>1, OneFamilyOnly DEF UsesCondMutex
    <2>3. Class(a.type) = MutexClass(a.type)
      BY <2>1, ClassOfItsKind
    <2>4. CASE b.type \in MutexOperationTypes
      <3>1. b.obj = m /\ b.type \notin ThreadOperationTypes /\ ~ UsesCondMutex(b)
        BY <1>2, <2>4, OneFamilyOnly DEF Touches, UsesCondMutex
      <3>2. Class(b.type) = MutexClass(b.type)
        BY <2>4, ClassOfItsKind
      <3>3. b.type \notin MutexClass(a.type).dependent /\ a.type \notin MutexClass(b.type).dependent
        BY <1>2, <2>1, <2>2, <2>3, <3>1, <3>2 DEF dependentWith
      <3> QED BY <1>2, <2>4, <3>3, MutexDependence DEF MutexOperationTypes
    <2>5. CASE b.type \notin MutexOperationTypes
      <3>1. UsesCondMutex(b) /\ CondMutex[b.obj] = m
        BY <1>2, <2>5 DEF Touches
      <3>2. b.type \notin ThreadOperationTypes
        BY <3>1, OneFamilyOnly DEF UsesCondMutex
      <3>3. /\ b.type = "cond_wait" => ~ MutexesCoenabled(AsMutexOperation(b), a)
            /\ b.type = "cond_enqueue" => ~ MutexesDependent(AsMutexOperation(b), a)
        BY <1>2, <2>1, <3>1, <3>2 DEF dependentWith, UsesCondMutex
      <3>4. AsMutexOperation(b).obj = a.obj
        BY <2>1, <3>1 DEF AsMutexOperation
      <3>5. CASE b.type = "cond_wait"
        <4>1. AsMutexOperation(b).type = "mutex_lock"
          BY <3>5 DEF AsMutexOperation
        <4>2. \/ a.type \in MutexClass("mutex_lock").neverCoenabled
              \/ "mutex_lock" \in MutexClass(a.type).neverCoenabled
          BY <3>3, <3>5, <4>1 DEF MutexesCoenabled
        <4>3. MutexClass("mutex_init").neverCoenabled = {}
          BY DEF MutexClass, DependsOn, MCTransition, MCMutexInitClass
        <4> QED BY <1>2, <4>2, <4>3, MutexDependence
      <3>6. CASE b.type = "cond_enqueue"
        <4>1. AsMutexOperation(b).type = "mutex_unlock"
          BY <3>6 DEF AsMutexOperation
        <4>2. "mutex_unlock" \notin MutexClass(a.type).dependent
          BY <3>3, <3>4, <3>6, <4>1 DEF MutexesDependent
        <4> QED BY <1>2, <4>2, MutexDependence DEF MutexOperationTypes
      <3> QED BY <3>1, <3>5, <3>6 DEF UsesCondMutex
    <2> QED BY <2>4, <2>5
  <1>3. /\ t1.type \notin {"mutex_init", "mutex_lock", "mutex_trylock"}
        /\ t2.type \notin {"mutex_init", "mutex_lock", "mutex_trylock"}
    BY <1>1, <1>2
  <1>4. /\ t1.type \in MutexOperationTypes \cup {"cond_enqueue", "cond_wait"}
        /\ t2.type \in MutexOperationTypes \cup {"cond_enqueue", "cond_wait"}
    BY DEF Touches, UsesCondMutex
  <1> QED BY <1>3, <1>4 DEF MutexOperationTypes

-----------------------------------------------------------------------------
(* What a step does to each object                                           *)

\* tr: the transition that runs, su: what its thread announces next.
MutexAfter(tr, m, state) ==
    IF tr.type \in MutexOperationTypes /\ tr.obj = m
    THEN MutexOperation(tr.type, state).applied
    ELSE IF UsesCondMutex(tr) /\ CondMutex[tr.obj] = m
    THEN IF tr.type = "cond_wait" THEN "locked" ELSE "unlocked"
    ELSE state

SemAfter(tr, s, sem) ==
    IF tr.type \in SemOperationTypes /\ tr.obj = s
    THEN SemOperation(tr.type, sem, tr.tid, InitialCount[s]).applied ELSE sem

CondAfter(tr, c, cond) ==
    IF tr.type \in CondOperationTypes /\ tr.obj = c
    THEN CondOperation(tr.type, cond, tr.tid).applied ELSE cond

RWLockAfter(tr, l, lock) ==
    IF tr.type \in MCRWLockTypes /\ tr.obj = l THEN RWLockOperation(tr.type, lock, tr.tid).applied
    ELSE IF tr.type \in MCRWWLockTypes /\ tr.obj = l
    THEN RWWLockOperation(tr.type, lock, tr.tid).applied
    ELSE lock

ThreadAfter(tr, su, x, state) ==
    LET applied == IF tr.type \in ThreadOperationTypes /\ Subject(tr) = x
                   THEN ThreadOperation(tr.type, state, tr.tid).applied ELSE state
    IN  IF su.type \in {"create", "join"} /\ su.obj = x THEN addNewThread(applied) ELSE applied

Effects(o, n, tr, su) ==
    /\ \A x \in Threads : n.thread[x] = ThreadAfter(tr, su, x, o.thread[x])
    /\ \A m \in Mutexes : n.mutex[m] = MutexAfter(tr, m, o.mutex[m])
    /\ \A s \in Semaphores : n.sem[s] = SemAfter(tr, s, o.sem[s])
    /\ \A c \in Conds : n.cond[c] = CondAfter(tr, c, o.cond[c])
    /\ \A b \in Barriers : n.barrier[b] = o.barrier[b]
    /\ \A l \in RWLocks : n.rwlock[l] = RWLockAfter(tr, l, o.rwlock[l])

\* The mutexes the program initialises are initialised.
MutexesInitialised(o) ==
    \A m \in Mutexes : Uses(program, On({"mutex_init"}, m)) => o.mutex[m] \in Initialised

\* The main thread has made its initialisations: they are over, and so are the announcements
\* that change more than the threads.
Begun ==
    /\ Lawful(program)
    /\ Sound(program, Here)
    /\ Prepared(program, Here)
    /\ InitDone(program, Here)

\* What the lemmas below use of such a state.
LEMMA BegunFacts ==
    ASSUME Begun, NEW t \in Threads
    PROVE  /\ Positions /\ objects \in ObjectStates
           /\ Pending(t) \in Transitions /\ Pending(t).tid = t
           /\ Successor(t) \in Transitions /\ Successor(t).tid = t
           /\ Successor(t) = Due(program, Follow(program, Here, t), t)
           /\ Pending(t) = Due(program, Here, t)
           /\ Enabled(t) <=> CanRun(program, Here, t)
           /\ Placed(program, Follow(program, Here, t))
           /\ MutexesInitialised(objects)
  <1>1. Lawful(program) /\ Sound(program, Here) /\ Placed(program, Here)
    BY DEF Begun, Sound
  <1>2. Positions /\ objects \in ObjectStates
    BY <1>1, SoundHere DEF Typed, TypeOK
  <1>3. Pending(t) \in Transitions /\ Pending(t).tid = t
    BY <1>2, PendingType
  <1>4. Pending(t) = Due(program, Here, t) /\ (Enabled(t) <=> CanRun(program, Here, t))
    BY DEF Due, Pending, Here, Enabled, CanRun
  <1>5. Placed(program, Follow(program, Here, t))
    BY <1>1, FollowLeads
  <1>6. Successor(t) = Due(program, Follow(program, Here, t), t)
    BY <1>2 DEF Due, Successor, Follow, Here, Positions
  <1>7. Successor(t) \in Transitions /\ Successor(t).tid = t
    BY <1>1, <1>5, <1>6, DueType
  <1>8. MutexesInitialised(objects)
    <2> SUFFICES ASSUME NEW m \in Mutexes, Uses(program, On({"mutex_init"}, m))
                 PROVE  objects.mutex[m] \in Initialised
      BY DEF MutexesInitialised
    <2>1. "mutex_init" \in InitTypes
      BY DEF InitTypes
    <2>2. PICK p \in DOMAIN program[Main] :
             program[Main][p].type = "mutex_init" /\ program[Main][p].obj = m
      BY <1>1, <2>1, UsesInMain
    <2>3. p < Here.pos[Main]
      BY <2>1, <2>2 DEF Begun, InitDone
    <2>4. Here.objects.mutex[m] \in Initialised
      BY <2>2, <2>3 DEF Begun, Prepared, MutexesReady
    <2> QED BY <2>4 DEF Here
  <1> QED BY <1>2, <1>3, <1>4, <1>5, <1>6, <1>7, <1>8

\* From here on a thread neither initialises anything nor comes to a barrier, and uses only
\* mutexes that are initialised.
LEMMA InitialisesNothing ==
    ASSUME Begun, NEW t \in Threads, Enabled(t)
    PROVE  /\ Pending(t).type \notin InitTypes \cup {"barrier_wait"}
           /\ Successor(t).type \notin InitTypes \cup {"barrier_wait"}
           /\ Successor(t).type \in MutexOperationTypes =>
                 Uses(program, On({"mutex_init"}, Successor(t).obj))
           /\ \A m \in Mutexes : Touches(Pending(t), m) => Uses(program, On({"mutex_init"}, m))
  <1>1. Lawful(program) /\ Sound(program, Here) /\ Placed(program, Here) /\ InitDone(program, Here)
    BY DEF Begun, Sound
  <1>2. /\ CanRun(program, Here, t)
        /\ Pending(t) = Due(program, Here, t)
        /\ Successor(t) = Due(program, Follow(program, Here, t), t)
        /\ Placed(program, Follow(program, Here, t))
    BY BegunFacts
  <1>3. Pending(t).type \notin InitTypes /\ Successor(t).type \notin InitTypes
    BY <1>1, <1>2, InitialisesBefore
  <1>4. /\ Pending(t).type # "barrier_wait"
        /\ Pending(t).type \in MutexOperationTypes =>
              Uses(program, On({"mutex_init"}, Pending(t).obj))
        /\ UsesCondMutex(Pending(t)) => Uses(program, On({"mutex_init"}, CondMutex[Pending(t).obj]))
    BY <1>1, <1>2, DueIsInitialised
  <1>5. /\ Successor(t).type # "barrier_wait"
        /\ Successor(t).type \in MutexOperationTypes =>
              Uses(program, On({"mutex_init"}, Successor(t).obj))
    BY <1>1, <1>2, DueIsInitialised
  <1>6. \A m \in Mutexes : Touches(Pending(t), m) => Uses(program, On({"mutex_init"}, m))
    BY <1>4 DEF Touches
  <1> QED BY <1>3, <1>4, <1>5, <1>6

\* A transition that only touches mutexes leaves them initialised.
LEMMA MutexStaysInitialised ==
    ASSUME NEW tr, NEW m, NEW state \in Initialised
    PROVE  MutexAfter(tr, m, state) \in Initialised
  <1>1. ASSUME tr.type \in MutexOperationTypes
        PROVE  MutexOperation(tr.type, state).applied \in Initialised
    BY <1>1 DEF Initialised, MutexOperationTypes, MutexOperation, MCMutexInit, MCMutexLock,
               MCMutexTrylock, MCMutexUnlock
  <1>2. "locked" \in Initialised /\ "unlocked" \in Initialised
    BY DEF Initialised
  <1> QED BY <1>1, <1>2 DEF MutexAfter

\* A step once everything is initialised does to each object what its operation does.
LEMMA SteppedEffect ==
    ASSUME Begun, NEW t \in Threads, Enabled(t), NEW o \in ObjectStates, MutexesInitialised(o)
    PROVE  /\ Stepped(o, t) \in ObjectStates
           /\ MutexesInitialised(Stepped(o, t))
           /\ Effects(o, Stepped(o, t), Pending(t), Successor(t))
  <1> DEFINE tr == Pending(t)
             su == Successor(t)
             a == applyToState(o, tr)
             n == readTransition(a, su)
  <1>1. tr \in Transitions /\ su \in Transitions
    BY BegunFacts
  <1>2. /\ tr.type \notin InitTypes \cup {"barrier_wait"}
        /\ su.type \notin InitTypes \cup {"barrier_wait"}
        /\ su.type \in MutexOperationTypes => Uses(program, On({"mutex_init"}, su.obj))
    BY InitialisesNothing
  <1>3. Stepped(o, t) = n
    BY DEF Stepped
  <1> HIDE DEF tr, su
  <1>4. a \in ObjectStates
    BY <1>1, AppliedType
  <1>5. /\ \A x \in Threads :
              a.thread[x] = IF tr.type \in ThreadOperationTypes /\ Subject(tr) = x
                            THEN ThreadOperation(tr.type, o.thread[x], tr.tid).applied
                            ELSE o.thread[x]
        /\ \A m \in Mutexes :
              a.mutex[m] = IF tr.type \in MutexOperationTypes /\ tr.obj = m
                           THEN MutexOperation(tr.type, o.mutex[m]).applied
                           ELSE IF UsesCondMutex(tr) /\ CondMutex[tr.obj] = m
                           THEN CondMutexOperation(o, tr).applied ELSE o.mutex[m]
        /\ \A s \in Semaphores : a.sem[s] = SemAfter(tr, s, o.sem[s])
        /\ \A c \in Conds : a.cond[c] = CondAfter(tr, c, o.cond[c])
        /\ \A b \in Barriers : a.barrier[b] = o.barrier[b]
        /\ \A l \in RWLocks : a.rwlock[l] = RWLockAfter(tr, l, o.rwlock[l])
    BY <1>1, AppliedEffect, AppliedCond DEF SemAfter, CondAfter, RWLockAfter
  <1>6. \A m \in Mutexes : a.mutex[m] = MutexAfter(tr, m, o.mutex[m])
    <2>1. UsesCondMutex(tr) =>
             CondMutexOperation(o, tr).applied = IF tr.type = "cond_wait" THEN "locked"
                                                 ELSE "unlocked"
      BY DEF CondMutexOperation, MCMutexLock, MCMutexUnlock
    <2> HIDE DEF a
    <2> QED BY <1>5, <2>1 DEF MutexAfter
  <1>7. MutexesInitialised(a)
    <2> HIDE DEF a
    <2> QED BY <1>6, MutexStaysInitialised DEF MutexesInitialised
  <1> HIDE DEF a
  <1>8. /\ n \in ObjectStates
        /\ \A x \in Threads :
              n.thread[x] = IF su.type \in {"create", "join"} /\ su.obj = x
                            THEN addNewThread(a.thread[x]) ELSE a.thread[x]
        /\ \A m \in Mutexes :
              n.mutex[m] = IF su.type \in MutexOperationTypes /\ su.obj = m
                           THEN MutexOperation(su.type, a.mutex[m]).announced ELSE a.mutex[m]
        /\ \A s \in Semaphores :
              n.sem[s] = IF su.type = "sem_init" /\ su.obj = s /\ ~ a.sem[s].registered
                         THEN [registered |-> TRUE, count |-> InitialCount[s],
                               waitingQueue |-> << >>]
                         ELSE a.sem[s]
        /\ \A c \in Conds : n.cond[c] = a.cond[c]
        /\ \A b \in Barriers :
              n.barrier[b] = IF su.type \in BarrierOperationTypes /\ su.obj = b
                             THEN BarrierOperation(su.type, a.barrier[b], su.tid,
                                                   BarrierCount[b]).announced
                             ELSE a.barrier[b]
        /\ \A l \in RWLocks : n.rwlock[l] = a.rwlock[l]
    BY <1>1, <1>4, AnnouncedEffect, AnnouncedRest, AnnouncedType
  <1>9. \A m \in Mutexes : n.mutex[m] = a.mutex[m]
    <2> SUFFICES ASSUME NEW m \in Mutexes, su.type \in MutexOperationTypes, su.obj = m
                 PROVE  MutexOperation(su.type, a.mutex[m]).announced = a.mutex[m]
      BY <1>8
    <2>1. a.mutex[m] \in Initialised
      BY <1>2, <1>7 DEF MutexesInitialised
    <2>2. su.type \in {"mutex_lock", "mutex_trylock", "mutex_unlock"}
      BY <1>2 DEF MutexOperationTypes, InitTypes
    <2>3. StaticallyInitialised(a.mutex[m]) = a.mutex[m]
      BY <2>1 DEF Initialised, StaticallyInitialised, RegisteredMutex
    <2> QED BY <2>2, <2>3 DEF MutexOperation, MCMutexLock, MCMutexTrylock, MCMutexUnlock
  <1>10. /\ \A s \in Semaphores : n.sem[s] = a.sem[s]
         /\ \A b \in Barriers : n.barrier[b] = a.barrier[b]
    BY <1>2, <1>8 DEF InitTypes, BarrierOperationTypes
  <1>11. \A x \in Threads : n.thread[x] = ThreadAfter(tr, su, x, o.thread[x])
    BY <1>5, <1>8 DEF ThreadAfter
  <1> HIDE DEF n
  <1>12. Effects(o, n, tr, su)
    BY <1>5, <1>6, <1>8, <1>9, <1>10, <1>11 DEF Effects
  <1>13. MutexesInitialised(n)
    BY <1>7, <1>9 DEF MutexesInitialised
  <1> QED BY <1>3, <1>8, <1>12, <1>13 DEF tr, su

\* When two threads can run, the main thread has made its initialisations.
LEMMA TwoHaveBegun ==
    ASSUME Lawful(program), Sound(program, Here), Prepared(program, Here),
           NEW t \in Threads, NEW u \in Threads, t # u,
           objects.thread[t] = "alive", objects.thread[u] = "alive"
    PROVE  Begun
  <1>1. PICK x \in {t, u} : x # Main
    OBVIOUS
  <1>2. StartedIn(Here, x)
    BY DEF StartedIn, Here
  <1>3. InitDone(program, Here)
    <2> SUFFICES ASSUME NEW p \in DOMAIN program[Main], program[Main][p].type \in InitTypes,
                        ~ (p < Here.pos[Main])
                 PROVE  FALSE
      BY DEF InitDone
    <2>1. p \in Nat /\ Here.pos[Main] \in Nat
      <3>1. Main \in Threads
        BY LastThreadAssumption DEF Main, Threads
      <3>2. Placed(program, Here)
        BY DEF Sound
      <3>3. DOMAIN program[Main] = 1 .. Len(program[Main]) /\ Len(program[Main]) \in Nat
        BY <3>1, <3>2, DueType
      <3> QED BY <3>1, <3>2, <3>3 DEF Placed
    <2>2. Here.pos[Main] <= p
      BY <2>1
    <2> QED BY <1>1, <1>2, <2>2 DEF Sound, Created
  <1> QED BY <1>3 DEF Begun

-----------------------------------------------------------------------------
(* Who runs first does not matter                                            *)

\* Two threads that can run and whose transitions are independent.
Both(t, u) ==
    /\ Begun /\ WaitsWithOwnMutex(program)
    /\ Enabled(t) /\ Enabled(u)
    /\ ~ dependentTransitions(Pending(t), Pending(u))

\* Each is another thread than the other's transition creates or joins.
LEMMA BothFacts ==
    ASSUME NEW t \in Threads, NEW u \in Threads, Both(t, u)
    PROVE  /\ Both(u, t) /\ t # u
           /\ Pending(t).type \in {"create", "join"} => Pending(t).obj # u
           /\ objects.thread[t] = "alive"
  <1>1. Pending(t).tid = t /\ Pending(u).tid = u /\ Positions
    BY BegunFacts DEF Both
  <1>2. /\ Pending(t).tid # Pending(u).tid
        /\ Pending(t).type \in {"create", "join"} => Pending(t).obj # Pending(u).tid
    BY BegunFacts, IndependentOnes DEF Both
  <1>3. objects.thread[t] = "alive"
    BY <1>1, EnabledFacts DEF Both
  <1>4. Both(u, t)
    BY DEF Both, dependentTransitions
  <1> QED BY <1>1, <1>2, <1>3, <1>4

\* It only matters who runs first to a thread that one of them runs or is about.
LEMMA ThreadsCommute ==
    ASSUME NEW t \in Threads, NEW u \in Threads, Both(t, u), NEW x \in Threads
    PROVE  ThreadAfter(Pending(u), Successor(u), x,
                       ThreadAfter(Pending(t), Successor(t), x, objects.thread[x]))
           = ThreadAfter(Pending(t), Successor(t), x,
                         ThreadAfter(Pending(u), Successor(u), x, objects.thread[x]))
  <1> DEFINE tt == Pending(t)
             tu == Pending(u)
             st == Successor(t)
             su == Successor(u)
  <1>1. /\ t # u /\ tt.tid = t /\ tu.tid = u
        /\ tt.type \in {"create", "join"} => tt.obj # u
        /\ tu.type \in {"create", "join"} => tu.obj # t
        /\ objects.thread[t] = "alive" /\ objects.thread[u] = "alive"
    <2>1. Begun
      BY DEF Both
    <2> QED BY <2>1, BothFacts, BegunFacts
  <1>2. ASSUME NEW tr, NEW su0, NEW v, tr.tid = v
        PROVE  /\ x # v => \A state : ThreadAfter(tr, su0, x, state)
                                 = LET made == IF tr.type = "create" /\ tr.obj = x THEN "alive"
                                               ELSE state
                                   IN  IF su0.type \in {"create", "join"} /\ su0.obj = x
                                       THEN addNewThread(made) ELSE made
               /\ x = v => \A state \in {"alive", "dead"} :
                              ThreadAfter(tr, su0, x, state) \in {"alive", "dead"}
               /\ x # v /\ ~ (tr.type \in {"create", "join"} /\ tr.obj = x) =>
                     \A state \in {"alive", "dead"} : ThreadAfter(tr, su0, x, state) = state
    <2>1. ASSUME x # v, NEW state
          PROVE  (IF tr.type \in ThreadOperationTypes /\ Subject(tr) = x
                  THEN ThreadOperation(tr.type, state, tr.tid).applied ELSE state)
                 = IF tr.type = "create" /\ tr.obj = x THEN "alive" ELSE state
      BY <1>2, <2>1 DEF ThreadOperationTypes, Subject, ThreadOperation, MCThreadStart,
                        MCThreadCreate, MCThreadJoin, MCThreadFinish
    <2>2. ASSUME x = v, NEW state \in {"alive", "dead"}
          PROVE  (IF tr.type \in ThreadOperationTypes /\ Subject(tr) = x
                  THEN ThreadOperation(tr.type, state, tr.tid).applied ELSE state)
                 \in {"alive", "dead"}
      BY <1>2, <2>2 DEF ThreadOperationTypes, Subject, ThreadOperation, MCThreadStart,
                        MCThreadCreate, MCThreadJoin, MCThreadFinish
    <2>3. \A state \in {"alive", "dead"} : addNewThread(state) = state
      BY DEF addNewThread
    <2> QED BY <2>1, <2>2, <2>3 DEF ThreadAfter
  <1> HIDE DEF tt, tu, st, su
  <1>3. CASE x = t
    <2>1. ThreadAfter(tt, st, x, "alive") \in {"alive", "dead"}
      BY <1>1, <1>2, <1>3
    <2>2. \A state \in {"alive", "dead"} : ThreadAfter(tu, su, x, state) = state
      BY <1>1, <1>2, <1>3
    <2>3. /\ ThreadAfter(tu, su, x, ThreadAfter(tt, st, x, "alive"))
             = ThreadAfter(tt, st, x, "alive")
          /\ ThreadAfter(tu, su, x, "alive") = "alive"
      BY <2>1, <2>2
    <2> QED BY <1>1, <1>3, <2>3 DEF tt, tu, st, su
  <1>4. CASE x = u
    <2>1. ThreadAfter(tu, su, x, "alive") \in {"alive", "dead"}
      BY <1>1, <1>2, <1>4
    <2>2. \A state \in {"alive", "dead"} : ThreadAfter(tt, st, x, state) = state
      BY <1>1, <1>2, <1>4
    <2>3. /\ ThreadAfter(tt, st, x, ThreadAfter(tu, su, x, "alive"))
             = ThreadAfter(tu, su, x, "alive")
          /\ ThreadAfter(tt, st, x, "alive") = "alive"
      BY <2>1, <2>2
    <2> QED BY <1>1, <1>4, <2>3 DEF tt, tu, st, su
  <1>5. CASE x # t /\ x # u
    <2>1. \A state : ThreadAfter(tt, st, x, state)
                        = LET made == IF tt.type = "create" /\ tt.obj = x THEN "alive" ELSE state
                          IN  IF st.type \in {"create", "join"} /\ st.obj = x
                              THEN addNewThread(made) ELSE made
      BY <1>1, <1>2, <1>5
    <2>2. \A state : ThreadAfter(tu, su, x, state)
                        = LET made == IF tu.type = "create" /\ tu.obj = x THEN "alive" ELSE state
                          IN  IF su.type \in {"create", "join"} /\ su.obj = x
                              THEN addNewThread(made) ELSE made
      BY <1>1, <1>2, <1>5
    <2>3. ThreadAfter(tu, su, x, ThreadAfter(tt, st, x, objects.thread[x]))
          = ThreadAfter(tt, st, x, ThreadAfter(tu, su, x, objects.thread[x]))
      BY <2>1, <2>2 DEF addNewThread
    <2> QED BY <2>3 DEF tt, tu, st, su
  <1> QED BY <1>3, <1>4, <1>5

\* Two independent transitions that can both run are not about the same mutex: whoever unlocks
\* it holds it, and nobody else does.
LEMMA MutexNotShared ==
    ASSUME NEW t \in Threads, NEW u \in Threads, Both(t, u), NEW m \in Mutexes,
           Touches(Pending(t), m), Touches(Pending(u), m)
    PROVE  FALSE
  <1> DEFINE gives == {"mutex_unlock", "cond_enqueue"}
  <1>1. /\ Positions /\ t # u
        /\ Pending(t) \in Transitions /\ Pending(u) \in Transitions
        /\ Enabled(t) /\ Enabled(u) /\ WaitsWithOwnMutex(program)
        /\ ~ dependentTransitions(Pending(t), Pending(u))
    BY BegunFacts, BothFacts DEF Both
  <1>2. MutexInv /\ LocksInTurns(program)
    BY SoundHere DEF Both, Begun, Lawful, KeepsTheRules
  <1>3. \/ Pending(t).type \in gives /\ Pending(u).type \in gives \cup {"cond_wait"}
        \/ Pending(t).type = "cond_wait" /\ Pending(u).type \in gives \cup {"cond_wait"}
    BY <1>1, IndependentOnMutex
  <1>4. ASSUME NEW v \in Threads, Touches(Pending(v), m)
        PROVE  /\ Pending(v).type \in gives => PendingIn(v, Gives(m))
               /\ Pending(v).type = "cond_wait" =>
                     PendingIn(v, Takes(m)) /\ CondMutex[Pending(v).obj] = m
    <2>1. /\ Pending(v).type = "mutex_unlock" => Pending(v).obj = m
          /\ Pending(v).type \in {"cond_enqueue", "cond_wait"} => CondMutex[Pending(v).obj] = m
      BY <1>4 DEF Touches, UsesCondMutex, MutexOperationTypes
    <2> QED BY <1>1, <2>1, TakesAndGives
  <1>5. CASE Pending(t).type \in gives /\ Pending(u).type \in gives
    <2>1. Holds(t, m) /\ Holds(u, m)
      BY <1>1, <1>2, <1>4, <1>5, GiverHolds
    <2> QED BY <1>1, <1>2, <2>1 DEF MutexInv, MutualExclusion
  <1>6. CASE Pending(t).type \in gives /\ Pending(u).type = "cond_wait"
    BY <1>1, <1>2, <1>4, <1>6, LockOrUnlock
  <1>7. CASE Pending(t).type = "cond_wait" /\ Pending(u).type \in gives
    BY <1>1, <1>2, <1>4, <1>7, LockOrUnlock
  <1>8. CASE Pending(t).type = "cond_wait" /\ Pending(u).type = "cond_wait"
    <2>1. Pending(t).obj # Pending(u).obj
      BY <1>1, <1>8, IndependentOnes DEF CondOperationTypes
    <2>2. ASSUME NEW v \in Threads, Pending(v).type = "cond_wait"
          PROVE  Pending(v).obj \in Conds /\ Uses(program, On({"cond_wait"}, Pending(v).obj))
      <3>1. PendingIn(v, On({"cond_wait"}, Pending(v).obj))
        BY <1>1, <2>2, PendingOn
      <3>2. Pending(v) \in Transitions
        BY <1>1, PendingType
      <3>3. Pending(v).type \in CondOperationTypes
        BY <2>2 DEF CondOperationTypes
      <3> QED BY <3>1, <3>2, <3>3, OneFamily DEF PendingIn, Uses
    <2>3. CondMutex[Pending(t).obj] = CondMutex[Pending(u).obj]
      BY <1>4, <1>8
    <2> QED BY <1>1, <1>8, <2>1, <2>2, <2>3 DEF WaitsWithOwnMutex
  <1> QED BY <1>3, <1>5, <1>6, <1>7, <1>8

\* The two orders agree on every mutex,
LEMMA MutexesCommute ==
    ASSUME NEW t \in Threads, NEW u \in Threads, Both(t, u), NEW m \in Mutexes, NEW state
    PROVE  MutexAfter(Pending(u), m, MutexAfter(Pending(t), m, state))
           = MutexAfter(Pending(t), m, MutexAfter(Pending(u), m, state))
  <1>1. ~ Touches(Pending(t), m) \/ ~ Touches(Pending(u), m)
    BY MutexNotShared
  <1>2. \A tr : ~ Touches(tr, m) => \A s : MutexAfter(tr, m, s) = s
    BY DEF Touches, MutexAfter
  <1> QED BY <1>1, <1>2

\* Condition variables: all that is done to one of them is dependent.
LEMMA CondNotShared ==
    ASSUME NEW t \in Threads, NEW u \in Threads, Both(t, u),
           Pending(t).type \in CondOperationTypes, Pending(u).type \in CondOperationTypes
    PROVE  Pending(t).obj # Pending(u).obj
  BY BegunFacts, IndependentOnes DEF Both

\* on every condition variable,
LEMMA CondsCommute ==
    ASSUME NEW t \in Threads, NEW u \in Threads, Both(t, u), NEW c \in Conds, NEW cond
    PROVE  CondAfter(Pending(u), c, CondAfter(Pending(t), c, cond))
           = CondAfter(Pending(t), c, CondAfter(Pending(u), c, cond))
  BY CondNotShared DEF CondAfter

\* What a reader-writer lock is used for it is used for by all.
LEMMA OneKindOfLock ==
    ASSUME Begun, NEW v \in Threads, NEW w \in Threads, Pending(v).obj = Pending(w).obj,
           Pending(v).type \in MCRWLockTypes, Pending(w).type \in MCRWWLockTypes
    PROVE  FALSE
  <1>1. Positions /\ Pending(v) \in Transitions /\ KeepsToOneKind(program)
    BY BegunFacts DEF Begun, Lawful, KeepsTheRules
  <1>2. "start" \notin MCRWLockTypes \cup MCRWWLockTypes
           /\ "finish" \notin MCRWLockTypes \cup MCRWWLockTypes
    BY DEF MCRWLockTypes, MCRWWLockTypes
  <1>3. /\ PendingIn(v, On(MCRWLockTypes, Pending(v).obj))
        /\ PendingIn(w, On(MCRWWLockTypes, Pending(v).obj))
    BY <1>1, <1>2, PendingOn
  <1>4. /\ Uses(program, On(MCRWLockTypes, Pending(v).obj))
        /\ Uses(program, On(MCRWWLockTypes, Pending(v).obj))
    BY <1>3 DEF PendingIn, Uses
  <1>5. Pending(v).obj \in RWLocks
    BY <1>1, OneFamily
  <1> QED BY <1>1, <1>4, <1>5 DEF KeepsToOneKind

\* Reader-writer locks: two readers are independent, but one of them is in front of the other.
LEMMA RWLockNotShared ==
    ASSUME NEW t \in Threads, NEW u \in Threads, Both(t, u),
           Pending(t).type \in MCRWLockTypes \cup MCRWWLockTypes,
           Pending(u).type \in MCRWLockTypes \cup MCRWWLockTypes
    PROVE  Pending(t).obj # Pending(u).obj
  <1> SUFFICES ASSUME Pending(t).obj = Pending(u).obj
               PROVE  FALSE
    OBVIOUS
  <1>1. /\ Positions /\ t # u
        /\ Pending(t) \in Transitions /\ Pending(u) \in Transitions
        /\ Enabled(t) /\ Enabled(u)
        /\ ~ dependentTransitions(Pending(t), Pending(u))
        /\ Begun
    BY BegunFacts, BothFacts DEF Both
  <1>2. \/ Pending(t).type = "reader_lock" /\ Pending(u).type = "reader_lock"
        \/ Pending(t).type = "rww_reader_lock" /\ Pending(u).type = "rww_reader_lock"
    BY <1>1, OneKindOfLock, IndependentOnes
  <1>3. /\ Head(objects.rwlock[Pending(t).obj].acquire_queue) = t
        /\ Head(objects.rwlock[Pending(u).obj].acquire_queue) = u
    BY <1>1, <1>2, InFront
  <1> QED BY <1>1, <1>3

\* on every reader-writer lock,
LEMMA RWLocksCommute ==
    ASSUME NEW t \in Threads, NEW u \in Threads, Both(t, u), NEW l \in RWLocks, NEW lock
    PROVE  RWLockAfter(Pending(u), l, RWLockAfter(Pending(t), l, lock))
           = RWLockAfter(Pending(t), l, RWLockAfter(Pending(u), l, lock))
  <1>1. \/ ~ (Pending(t).type \in MCRWLockTypes \cup MCRWWLockTypes /\ Pending(t).obj = l)
        \/ ~ (Pending(u).type \in MCRWLockTypes \cup MCRWWLockTypes /\ Pending(u).obj = l)
    BY RWLockNotShared
  <1>2. \A tr : ~ (tr.type \in MCRWLockTypes \cup MCRWWLockTypes /\ tr.obj = l) =>
                   \A k : RWLockAfter(tr, l, k) = k
    BY DEF RWLockAfter
  <1> QED BY <1>1, <1>2

\* To enter the queue behind and to leave it (enterWaitingQueue, leaveWaitingQueue).
LEMMA LeavesAndEnters ==
    ASSUME NEW q \in Seq(Threads), OnceEach(q), NEW t \in Threads, NEW u \in Threads, t # u,
           u \in ToSet(q)
    PROVE  Without(Append(q, t), u) = Append(Without(q, u), t)
  <1> DEFINE n == Len(q)
             r == Append(q, t)
  <1>1. /\ n \in Nat /\ r \in Seq(Threads) /\ Len(r) = n + 1
        /\ r[n + 1] = t /\ \A i \in 1 .. n : r[i] = q[i]
    OBVIOUS
  <1>2. \E i \in 1 .. n : q[i] = u
    BY DEF ToSet
  <1>3. \E i \in 1 .. Len(r) : r[i] = u
    <2> HIDE DEF r, n
    <2>1. PICK i \in 1 .. n : q[i] = u
      BY <1>2
    <2>2. i \in 1 .. Len(r) /\ r[i] = u
      BY <1>1, <2>1
    <2> QED BY <2>2
  <1>4. PICK k \in 1 .. n : q[k] = u /\ Without(q, u) = RemoveAt(q, k)
    BY <1>2, WithoutRemoves
  <1>5. PICK j \in 1 .. Len(r) : r[j] = u /\ Without(r, u) = RemoveAt(r, j)
    <2> HIDE DEF r
    <2> QED BY <1>1, <1>3, WithoutRemoves
  <1> HIDE DEF r
  <1>6. j \in 1 .. n /\ j = k
    <2>1. j \in 1 .. n
      BY <1>1, <1>5
    <2> QED BY <1>1, <1>4, <1>5, <2>1 DEF OnceEach
  <1>7. /\ RemoveAt(q, k) \in Seq(Threads) /\ Len(RemoveAt(q, k)) = n - 1
        /\ \A i \in 1 .. n - 1 : RemoveAt(q, k)[i] = q[IF i < k THEN i ELSE i + 1]
    BY RemoveAtLeaves
  <1>8. /\ RemoveAt(r, k) \in Seq(Threads) /\ Len(RemoveAt(r, k)) = n
        /\ \A i \in 1 .. n : RemoveAt(r, k)[i] = r[IF i < k THEN i ELSE i + 1]
    <2>1. k \in 1 .. Len(r)
      BY <1>1
    <2>2. /\ RemoveAt(r, k) \in Seq(Threads) /\ Len(RemoveAt(r, k)) = Len(r) - 1
          /\ \A i \in 1 .. Len(r) - 1 : RemoveAt(r, k)[i] = r[IF i < k THEN i ELSE i + 1]
      BY <1>1, <2>1, RemoveAtLeaves
    <2> QED BY <1>1, <2>2
  <1> DEFINE left == RemoveAt(q, k)
             longer == RemoveAt(r, k)
  <1>9. longer = Append(left, t)
    <2> HIDE DEF left, longer, n
    <2>1. left \in Seq(Threads) /\ Len(left) = n - 1 /\ longer \in Seq(Threads) /\ Len(longer) = n
      BY <1>7, <1>8 DEF left, longer
    <2>2. /\ Append(left, t) \in Seq(Threads) /\ Len(Append(left, t)) = n
          /\ \A i \in 1 .. n - 1 : Append(left, t)[i] = left[i]
          /\ Append(left, t)[n] = t
      BY <1>1, <2>1
    <2>3. ASSUME NEW i \in 1 .. n
          PROVE  longer[i] = Append(left, t)[i]
      <3>1. longer[i] = r[IF i < k THEN i ELSE i + 1]
        BY <1>8 DEF longer
      <3>2. CASE i = n
        <4>1. longer[i] = r[n + 1]
          BY <3>1, <3>2
        <4> QED BY <1>1, <2>2, <3>2, <4>1
      <3>3. CASE i \in 1 .. n - 1
        <4>1. left[i] = q[IF i < k THEN i ELSE i + 1]
          BY <1>7, <3>3 DEF left
        <4>2. (IF i < k THEN i ELSE i + 1) \in 1 .. n
          BY <1>1, <3>3
        <4>3. r[IF i < k THEN i ELSE i + 1] = q[IF i < k THEN i ELSE i + 1]
          BY <1>1, <4>2
        <4> QED BY <2>2, <3>1, <3>3, <4>1, <4>3
      <3>4. i = n \/ i \in 1 .. n - 1
        BY <1>1
      <3> QED BY <3>2, <3>3, <3>4
    <2> QED BY <2>1, <2>2, <2>3, SeqEqual
  <1> QED BY <1>4, <1>5, <1>6, <1>9 DEF r

SemOf(registered, count, queue) ==
    [registered |-> registered, count |-> count, waitingQueue |-> queue]

\* What the three operations make of a semaphore.
LEMMA SemOperations ==
    ASSUME NEW r, NEW c \in Int, NEW q, NEW t, NEW initial
    PROVE  /\ SemOperation("sem_enqueue", SemOf(r, c, q), t, initial).applied
                 = SemOf(r, c, Append(q, t))
           /\ c > 0 => SemOperation("sem_wait", SemOf(r, c, q), t, initial).applied
                          = SemOf(r, c - 1, Without(q, t))
           /\ SemOperation("sem_post", SemOf(r, c, q), t, initial).applied = SemOf(r, c + 1, q)
  BY DEF SemOf, SemOperation, MCSemEnqueue, MCSemWait, MCSemPost, Enqueue

\* A thread that may leave the queue of a semaphore is in it, in one place, and the semaphore is
\* known.
LEMMA SemFacts ==
    ASSUME Begun, SemInv, NEW t \in Threads, Enabled(t), NEW s \in Semaphores,
           Pending(t).type \in SemOperationTypes, Pending(t).obj = s
    PROVE  /\ objects.sem[s] \in SemStates /\ objects.sem[s].registered
           /\ OnceEach(objects.sem[s].waitingQueue)
           /\ Pending(t).type \in {"sem_enqueue", "sem_wait", "sem_post"}
           /\ Pending(t).type = "sem_wait" =>
                 /\ t \in ToSet(objects.sem[s].waitingQueue)
                 /\ ThreadCanExit(objects.sem[s], t)
  <1>1. /\ Positions /\ objects \in ObjectStates
        /\ Pending(t) = Due(program, Here, t) /\ Pending(t).tid = t
        /\ CanRun(program, Here, t)
    BY BegunFacts
  <1>2. Pending(t).type \in {"sem_enqueue", "sem_wait", "sem_post"}
    BY InitialisesNothing DEF SemOperationTypes, InitTypes
  <1>3. objects.sem[s].registered
    <2>1. Pending(t).type \in SemOperationTypes \ {"sem_init"}
      BY <1>2
    <2>2. Here.objects.sem[Due(program, Here, t).obj].registered
      BY <1>1, <2>1, SemsReadyStep DEF Begun, Prepared
    <2> QED BY <1>1, <2>2 DEF Here
  <1>4. objects.sem[s] \in SemStates
    BY <1>1 DEF ObjectStates
  <1>5. OnceEach(objects.sem[s].waitingQueue)
    BY <1>3 DEF SemInv
  <1>6. ASSUME Pending(t).type = "sem_wait"
        PROVE  /\ t \in ToSet(objects.sem[s].waitingQueue)
               /\ ThreadCanExit(objects.sem[s], t)
    <2>1. PendingIn(t, Leaves(s))
      BY <1>1, <1>6, PendingOn DEF Leaves
    <2>2. Ran(t, Queues(s)) = Ran(t, Leaves(s)) + 1
      BY <2>1 DEF Begun, Lawful, KeepsTheRules, WaitsInTurns, InTurns, PendingIn, Ran
    <2>3. Ran(t, Leaves(s)) \in Nat
      BY DEF SemInv, InTurnsSoFar
    <2>4. t \in ToSet(objects.sem[s].waitingQueue)
      BY <1>3, <2>2, <2>3 DEF SemInv, SemaphoresConservePermits
    <2> DEFINE tr == Pending(t)
               sem == objects.sem[s]
    <2>5. Operation(objects, tr).enabled
      BY <1>1, EnabledFacts
    <2>6. tr.type = "sem_wait" /\ tr.obj = s /\ tr.tid = t
      BY <1>1, <1>6
    <2> HIDE DEF tr
    <2>7. Operation(objects, tr) = SemOperation("sem_wait", sem, t, InitialCount[s])
      BY <2>6, OneFamilyOnly DEF Operation, SemOperationTypes
    <2> HIDE DEF sem
    <2>8. SemOperation("sem_wait", sem, t, InitialCount[s]).enabled <=> ThreadCanExit(sem, t)
      BY DEF SemOperation, MCSemWait
    <2> QED BY <2>4, <2>5, <2>7, <2>8 DEF sem
  <1> QED BY <1>2, <1>3, <1>4, <1>5, <1>6

\* Two of them on one semaphore, in the one order.
LEMMA SemPair ==
    ASSUME NEW t \in Threads, NEW u \in Threads, Both(t, u), SemInv, NEW s \in Semaphores,
           Pending(t).type \in SemOperationTypes, Pending(u).type \in SemOperationTypes,
           Pending(t).obj = s, Pending(u).obj = s,
           Pending(u).type # "sem_enqueue",
           Pending(u).type = "sem_wait" => Pending(t).type = "sem_enqueue"
    PROVE  SemAfter(Pending(u), s, SemAfter(Pending(t), s, objects.sem[s]))
           = SemAfter(Pending(t), s, SemAfter(Pending(u), s, objects.sem[s]))
  <1> DEFINE tt == Pending(t)
             tu == Pending(u)
             sem == objects.sem[s]
             r == sem.registered
             c == sem.count
             q == sem.waitingQueue
  <1>1. /\ t # u /\ tt.tid = t /\ tu.tid = u
        /\ tt.type \in {"sem_enqueue", "sem_wait", "sem_post"}
        /\ tu.type \in {"sem_enqueue", "sem_wait", "sem_post"}
        /\ sem \in SemStates /\ OnceEach(q)
        /\ tt.type = "sem_wait" => ThreadCanExit(sem, t)
        /\ tu.type = "sem_wait" => ThreadCanExit(sem, u) /\ u \in ToSet(q)
    BY BothFacts, BegunFacts, SemFacts DEF Both
  <1>2. sem = SemOf(r, c, q) /\ c \in Nat /\ q \in Seq(Threads)
    BY <1>1 DEF SemStates, SemOf
  <1>3. tt.type = "sem_wait" \/ tu.type = "sem_wait" => c > 0
    BY <1>1 DEF ThreadCanExit
  <1>4. tu.type = "sem_post" \/ (tt.type = "sem_enqueue" /\ tu.type = "sem_wait")
    BY <1>1
  <1>5. \A v : /\ SemAfter(tt, s, v) = SemOperation(tt.type, v, t, InitialCount[s]).applied
               /\ SemAfter(tu, s, v) = SemOperation(tu.type, v, u, InitialCount[s]).applied
    BY <1>1 DEF SemAfter
  <1> HIDE DEF tt, tu, r, c, q, sem
  <1>6. \A n \in Int : \A p :
           /\ tt.type = "sem_enqueue" => SemAfter(tt, s, SemOf(r, n, p)) = SemOf(r, n, Append(p, t))
           /\ tt.type = "sem_wait" /\ n > 0 =>
                 SemAfter(tt, s, SemOf(r, n, p)) = SemOf(r, n - 1, Without(p, t))
           /\ tt.type = "sem_post" => SemAfter(tt, s, SemOf(r, n, p)) = SemOf(r, n + 1, p)
           /\ tu.type = "sem_wait" /\ n > 0 =>
                 SemAfter(tu, s, SemOf(r, n, p)) = SemOf(r, n - 1, Without(p, u))
           /\ tu.type = "sem_post" => SemAfter(tu, s, SemOf(r, n, p)) = SemOf(r, n + 1, p)
    BY <1>5, SemOperations
  <1>7. CASE tt.type = "sem_post" /\ tu.type = "sem_post"
    BY <1>2, <1>6, <1>7 DEF tt, tu, sem
  <1>8. CASE tt.type = "sem_enqueue" /\ tu.type = "sem_post"
    BY <1>2, <1>6, <1>8 DEF tt, tu, sem
  <1>9. CASE tt.type = "sem_wait" /\ tu.type = "sem_post"
    BY <1>2, <1>3, <1>6, <1>9 DEF tt, tu, sem
  <1>10. CASE tt.type = "sem_enqueue" /\ tu.type = "sem_wait"
    <2>1. Without(Append(q, t), u) = Append(Without(q, u), t)
      BY <1>1, <1>2, <1>10, LeavesAndEnters
    <2>2. /\ SemAfter(tt, s, sem) = SemOf(r, c, Append(q, t))
          /\ SemAfter(tu, s, sem) = SemOf(r, c - 1, Without(q, u))
      BY <1>2, <1>3, <1>6, <1>10
    <2>3. /\ SemAfter(tu, s, SemOf(r, c, Append(q, t))) = SemOf(r, c - 1, Without(Append(q, t), u))
          /\ SemAfter(tt, s, SemOf(r, c - 1, Without(q, u)))
                = SemOf(r, c - 1, Append(Without(q, u), t))
      BY <1>2, <1>3, <1>6, <1>10
    <2> QED BY <2>1, <2>2, <2>3 DEF tt, tu, sem
  <1> QED BY <1>1, <1>4, <1>7, <1>8, <1>9, <1>10

\* and, whatever the two do to one semaphore, on every semaphore.
LEMMA SemsCommute ==
    ASSUME NEW t \in Threads, NEW u \in Threads, Both(t, u), SemInv, NEW s \in Semaphores
    PROVE  SemAfter(Pending(u), s, SemAfter(Pending(t), s, objects.sem[s]))
           = SemAfter(Pending(t), s, SemAfter(Pending(u), s, objects.sem[s]))
  <1>1. CASE ~ (Pending(t).type \in SemOperationTypes /\ Pending(t).obj = s)
    BY <1>1 DEF SemAfter
  <1>2. CASE ~ (Pending(u).type \in SemOperationTypes /\ Pending(u).obj = s)
    BY <1>2 DEF SemAfter
  <1>3. CASE /\ Pending(t).type \in SemOperationTypes /\ Pending(t).obj = s
             /\ Pending(u).type \in SemOperationTypes /\ Pending(u).obj = s
    <2>1. /\ Pending(t).type \in {"sem_enqueue", "sem_wait", "sem_post"}
          /\ Pending(u).type \in {"sem_enqueue", "sem_wait", "sem_post"}
      BY <1>3, SemFacts DEF Both
    <2>2. ~ (Pending(t).type = Pending(u).type /\ Pending(t).type \in {"sem_enqueue", "sem_wait"})
      BY <1>3, BegunFacts, IndependentOnes DEF Both
    <2>3. Both(u, t)
      BY BothFacts
    <2>4. CASE \/ Pending(u).type = "sem_post"
               \/ Pending(t).type = "sem_enqueue" /\ Pending(u).type = "sem_wait"
      BY <1>3, <2>4, SemPair
    <2>5. CASE \/ Pending(t).type = "sem_post"
               \/ Pending(u).type = "sem_enqueue" /\ Pending(t).type = "sem_wait"
      BY <1>3, <2>3, <2>5, SemPair
    <2> QED BY <2>1, <2>2, <2>4, <2>5
  <1> QED BY <1>1, <1>2, <1>3

\* Both orders lead to the same objects.
LEMMA OrdersMeet ==
    ASSUME NEW t \in Threads, NEW u \in Threads, Both(t, u), SemInv
    PROVE  Stepped(Stepped(objects, t), u) = Stepped(Stepped(objects, u), t)
  <1> DEFINE o == objects
             a == Stepped(o, t)
             b == Stepped(o, u)
             n1 == Stepped(a, u)
             n2 == Stepped(b, t)
             tt == Pending(t)
             tu == Pending(u)
             st == Successor(t)
             su == Successor(u)
  <1>1. Begun /\ Enabled(t) /\ Enabled(u)
    BY DEF Both
  <1>2. o \in ObjectStates /\ MutexesInitialised(o)
    BY <1>1, BegunFacts
  <1>3. /\ a \in ObjectStates /\ MutexesInitialised(a) /\ Effects(o, a, tt, st)
        /\ b \in ObjectStates /\ MutexesInitialised(b) /\ Effects(o, b, tu, su)
    BY <1>1, <1>2, SteppedEffect
  <1> HIDE DEF a, b
  <1>4. /\ n1 \in ObjectStates /\ Effects(a, n1, tu, su)
        /\ n2 \in ObjectStates /\ Effects(b, n2, tt, st)
    BY <1>1, <1>3, SteppedEffect
  <1> HIDE DEF n1, n2, tt, tu, st, su, o
  <1>5. ASSUME NEW x \in Threads
        PROVE  n1.thread[x] = n2.thread[x]
    <2>1. ThreadAfter(tu, su, x, ThreadAfter(tt, st, x, o.thread[x]))
          = ThreadAfter(tt, st, x, ThreadAfter(tu, su, x, o.thread[x]))
      BY ThreadsCommute DEF tt, tu, st, su, o
    <2> QED BY <1>3, <1>4, <2>1 DEF Effects
  <1>6. ASSUME NEW m \in Mutexes
        PROVE  n1.mutex[m] = n2.mutex[m]
    <2>1. MutexAfter(tu, m, MutexAfter(tt, m, o.mutex[m]))
          = MutexAfter(tt, m, MutexAfter(tu, m, o.mutex[m]))
      BY MutexesCommute DEF tt, tu
    <2> QED BY <1>3, <1>4, <2>1 DEF Effects
  <1>7. ASSUME NEW s \in Semaphores
        PROVE  n1.sem[s] = n2.sem[s]
    <2>1. SemAfter(tu, s, SemAfter(tt, s, o.sem[s])) = SemAfter(tt, s, SemAfter(tu, s, o.sem[s]))
      BY SemsCommute DEF tt, tu, o
    <2> QED BY <1>3, <1>4, <2>1 DEF Effects
  <1>8. ASSUME NEW c \in Conds
        PROVE  n1.cond[c] = n2.cond[c]
    <2>1. CondAfter(tu, c, CondAfter(tt, c, o.cond[c]))
             = CondAfter(tt, c, CondAfter(tu, c, o.cond[c]))
      BY CondsCommute DEF tt, tu
    <2> QED BY <1>3, <1>4, <2>1 DEF Effects
  <1>9. ASSUME NEW l \in RWLocks
        PROVE  n1.rwlock[l] = n2.rwlock[l]
    <2>1. RWLockAfter(tu, l, RWLockAfter(tt, l, o.rwlock[l]))
          = RWLockAfter(tt, l, RWLockAfter(tu, l, o.rwlock[l]))
      BY RWLocksCommute DEF tt, tu
    <2> QED BY <1>3, <1>4, <2>1 DEF Effects
  <1>10. \A k \in Barriers : n1.barrier[k] = n2.barrier[k]
    BY <1>3, <1>4 DEF Effects
  <1>11. n1 = n2
    BY <1>4, <1>5, <1>6, <1>7, <1>8, <1>9, <1>10 DEF ObjectStates
  <1> QED BY <1>11 DEF n1, n2, a, b, o

-----------------------------------------------------------------------------
(* Nobody stops the other                                                    *)

\* What a thread does to the states of other threads, as far as it is not about them.
LEMMA OtherThreads ==
    ASSUME Lawful(program), Sound(program, Here), NEW t \in Threads, Enabled(t),
           NEW u \in Threads, u # t
    PROVE  /\ ~ (Pending(t).type \in {"create", "join"} /\ Pending(t).obj = u) =>
                 (Stepped(objects, t).thread[u] = "alive" <=> objects.thread[u] = "alive")
           /\ Stepped(objects, t).thread[u] = "dead" <=> objects.thread[u] = "dead"
  <1> DEFINE f == Follow(program, Here, t)
             tr == Due(program, Here, t)
             su == Due(program, f, t)
             v == objects.thread[u]
             applied == IF tr.type \in ThreadOperationTypes /\ Subject(tr) = u
                        THEN ThreadOperation(tr.type, v, tr.tid).applied ELSE v
  <1>1. Placed(program, Here) /\ Positions
    BY SoundHere DEF Sound, Typed
  <1>2. tr = Pending(t) /\ CanRun(program, Here, t) /\ f.objects = Stepped(objects, t)
    <2>1. tr = Pending(t)
      BY DEF Due, Pending, Here
    <2>2. CanRun(program, Here, t)
      BY <2>1 DEF CanRun, Enabled, Here
    <2>3. f.objects = Stepped(objects, t)
      BY DEF Follow, Here, Stepped, Pending, Successor
    <2> QED BY <2>1, <2>2, <2>3
  <1>3. /\ tr.tid = t
        /\ f.objects.thread[u] = IF su.type \in {"create", "join"} /\ su.obj = u
                                 THEN addNewThread(applied) ELSE applied
    BY <1>1, ThreadsAfter DEF Here
  <1>4. v = "dead" => f.objects.thread[u] = "dead"
    BY <1>2, DeadStays DEF Here
  <1> HIDE DEF f, tr, su, v
  <1>5. /\ applied = "dead" => v = "dead"
        /\ ~ (tr.type \in {"create", "join"} /\ tr.obj = u) => applied = v
    BY <1>3 DEF ThreadOperationTypes, Subject, ThreadOperation, MCThreadStart,
                MCThreadCreate, MCThreadJoin, MCThreadFinish
  <1> HIDE DEF applied
  <1>6. /\ addNewThread(applied) = "alive" <=> applied = "alive"
        /\ addNewThread(applied) = "dead" <=> applied = "dead"
    BY DEF addNewThread
  <1> QED BY <1>2, <1>3, <1>4, <1>5, <1>6 DEF v

\* Of what an operation that waits for something else than a semaphore or a barrier looks at,
\* nothing has changed from o to n.
SameFor(tr, o, n) ==
    /\ tr.type = "join" => (n.thread[tr.obj] = "dead" <=> o.thread[tr.obj] = "dead")
    /\ \A m \in Mutexes : Touches(tr, m) /\ tr.type \in {"mutex_lock", "cond_wait"} =>
          n.mutex[m] = o.mutex[m]
    /\ tr.type = "cond_wait" => n.cond[tr.obj] = o.cond[tr.obj]
    /\ tr.type \in MCRWLockTypes \cup MCRWWLockTypes => n.rwlock[tr.obj] = o.rwlock[tr.obj]

\* Then it is enabled in n if it is in o.
LEMMA SameEnabled ==
    ASSUME NEW tr \in Transitions, NEW o, NEW n, SameFor(tr, o, n),
           tr.type \notin {"sem_wait", "barrier_wait"}
    PROVE  /\ Operation(n, tr).enabled <=> Operation(o, tr).enabled
           /\ UsesCondMutex(tr) =>
                 (CondMutexOperation(n, tr).enabled <=> CondMutexOperation(o, tr).enabled)
  <1>1. CASE tr.type \in ThreadOperationTypes
    <2>1. /\ Operation(o, tr) = ThreadOperation(tr.type, o.thread[Subject(tr)], tr.tid)
          /\ Operation(n, tr) = ThreadOperation(tr.type, n.thread[Subject(tr)], tr.tid)
          /\ ~ UsesCondMutex(tr)
      BY <1>1, OneFamilyOnly DEF Operation, UsesCondMutex
    <2>2. \A state : /\ ThreadOperation("start", state, tr.tid).enabled = TRUE
                     /\ ThreadOperation("create", state, tr.tid).enabled = TRUE
                     /\ ThreadOperation("join", state, tr.tid).enabled = (state = "dead")
                     /\ ThreadOperation("finish", state, tr.tid).enabled = (tr.tid # Main)
      BY DEF ThreadOperation, MCThreadStart, MCThreadCreate, MCThreadJoin, MCThreadFinish
    <2>3. tr.type = "join" => Subject(tr) = tr.obj
      BY DEF Subject
    <2> QED BY <1>1, <2>1, <2>2, <2>3 DEF ThreadOperationTypes, SameFor
  <1>2. CASE tr.type \in MutexOperationTypes
    <2>1. /\ Operation(o, tr) = MutexOperation(tr.type, o.mutex[tr.obj])
          /\ Operation(n, tr) = MutexOperation(tr.type, n.mutex[tr.obj])
          /\ ~ UsesCondMutex(tr)
      BY <1>2, OneFamilyOnly DEF Operation, UsesCondMutex
    <2>2. \A m : /\ MutexOperation("mutex_init", m).enabled = TRUE
                 /\ MutexOperation("mutex_trylock", m).enabled = TRUE
                 /\ MutexOperation("mutex_unlock", m).enabled = TRUE
      BY DEF MutexOperation, MCMutexInit, MCMutexTrylock, MCMutexUnlock
    <2>3. tr.type = "mutex_lock" => n.mutex[tr.obj] = o.mutex[tr.obj]
      BY <1>2, OneFamily DEF SameFor, Touches
    <2> QED BY <1>2, <2>1, <2>2, <2>3 DEF MutexOperationTypes
  <1>3. CASE tr.type \in SemOperationTypes
    <2>1. /\ Operation(o, tr) = SemOperation(tr.type, o.sem[tr.obj], tr.tid, InitialCount[tr.obj])
          /\ Operation(n, tr) = SemOperation(tr.type, n.sem[tr.obj], tr.tid, InitialCount[tr.obj])
          /\ ~ UsesCondMutex(tr)
      BY <1>3, OneFamilyOnly DEF Operation, UsesCondMutex
    <2>2. \A s, c : /\ SemOperation("sem_init", s, tr.tid, c).enabled = TRUE
                    /\ SemOperation("sem_enqueue", s, tr.tid, c).enabled = TRUE
                    /\ SemOperation("sem_post", s, tr.tid, c).enabled = TRUE
      BY DEF SemOperation, MCSemInit, MCSemEnqueue, MCSemPost
    <2> QED BY <1>3, <2>1, <2>2 DEF SemOperationTypes
  <1>4. CASE tr.type \in CondOperationTypes
    <2>1. /\ Operation(o, tr) = CondOperation(tr.type, o.cond[tr.obj], tr.tid)
          /\ Operation(n, tr) = CondOperation(tr.type, n.cond[tr.obj], tr.tid)
      BY <1>4, OneFamilyOnly DEF Operation
    <2>2. \A c : /\ CondOperation("cond_init", c, tr.tid).enabled = TRUE
                 /\ CondOperation("cond_enqueue", c, tr.tid).enabled = TRUE
                 /\ CondOperation("cond_signal", c, tr.tid).enabled = TRUE
                 /\ CondOperation("cond_broadcast", c, tr.tid).enabled = TRUE
      BY DEF CondOperation, MCCondInit, MCCondEnqueue, MCCondSignal, MCCondBroadcast
    <2>3. Operation(n, tr).enabled <=> Operation(o, tr).enabled
      BY <1>4, <2>1, <2>2 DEF CondOperationTypes, SameFor
    <2>4. UsesCondMutex(tr) =>
             (CondMutexOperation(n, tr).enabled <=> CondMutexOperation(o, tr).enabled)
      <3>1. tr.type = "cond_wait" => n.mutex[CondMutex[tr.obj]] = o.mutex[CondMutex[tr.obj]]
        BY <1>4, OneFamily, ObjectsAssumption DEF SameFor, Touches, UsesCondMutex
      <3>2. \A m : MCMutexUnlock(m).enabled = TRUE
        BY DEF MCMutexUnlock
      <3>3. CASE tr.type = "cond_wait"
        <4>1. CondMutexOperation(n, tr) = CondMutexOperation(o, tr)
          BY <3>1, <3>3 DEF CondMutexOperation
        <4> QED BY <4>1
      <3>4. CASE tr.type # "cond_wait"
        <4>1. CondMutexOperation(n, tr).enabled = TRUE /\ CondMutexOperation(o, tr).enabled = TRUE
          BY <3>2, <3>4 DEF CondMutexOperation
        <4> QED BY <4>1
      <3> QED BY <3>3, <3>4
    <2> QED BY <2>3, <2>4
  <1>5. CASE tr.type \in BarrierOperationTypes
    <2>1. /\ tr.type = "barrier_init"
          /\ Operation(o, tr)
                = BarrierOperation(tr.type, o.barrier[tr.obj], tr.tid, BarrierCount[tr.obj])
          /\ Operation(n, tr)
                = BarrierOperation(tr.type, n.barrier[tr.obj], tr.tid, BarrierCount[tr.obj])
          /\ ~ UsesCondMutex(tr)
      BY <1>5, OneFamilyOnly DEF Operation, UsesCondMutex, BarrierOperationTypes
    <2>2. \A b, c : BarrierOperation("barrier_init", b, tr.tid, c).enabled = TRUE
      BY DEF BarrierOperation, MCBarrierInit
    <2> QED BY <2>1, <2>2
  <1>6. CASE tr.type \in MCRWLockTypes
    <2>1. /\ Operation(o, tr) = RWLockOperation(tr.type, o.rwlock[tr.obj], tr.tid)
          /\ Operation(n, tr) = RWLockOperation(tr.type, n.rwlock[tr.obj], tr.tid)
          /\ ~ UsesCondMutex(tr)
      BY <1>6, OneFamilyOnly DEF Operation, UsesCondMutex
    <2> QED BY <1>6, <2>1 DEF SameFor
  <1>7. CASE tr.type \in MCRWWLockTypes
    <2>1. /\ Operation(o, tr) = RWWLockOperation(tr.type, o.rwlock[tr.obj], tr.tid)
          /\ Operation(n, tr) = RWWLockOperation(tr.type, n.rwlock[tr.obj], tr.tid)
          /\ ~ UsesCondMutex(tr)
      BY <1>7, OneFamilyOnly DEF Operation, UsesCondMutex
    <2> QED BY <1>7, <2>1 DEF SameFor
  <1>8. CASE tr.type \in MiscOperationTypes
    <2>1. Operation(o, tr) = MiscOperation(tr.type) /\ Operation(n, tr) = MiscOperation(tr.type)
             /\ ~ UsesCondMutex(tr)
      BY <1>8, OneFamilyOnly DEF Operation, UsesCondMutex
    <2> QED BY <2>1
  <1> QED BY <1>1, <1>2, <1>3, <1>4, <1>5, <1>6, <1>7, <1>8, OneFamily

\* Nothing that is independent of a transition disables it.
LEMMA StaysEnabledFollows ==
    ASSUME NEW t \in Threads, NEW u \in Threads, Both(t, u), SemInv
    PROVE  transitionEnabledInState(Stepped(objects, t), Pending(u))
  <1> DEFINE o == objects
             n == Stepped(objects, t)
             tt == Pending(t)
             tu == Pending(u)
             s == tu.obj
  <1>1. /\ Begun /\ Enabled(t) /\ Enabled(u) /\ t # u
        /\ Lawful(program) /\ Sound(program, Here)
        /\ Positions /\ o \in ObjectStates /\ MutexesInitialised(o)
        /\ tt \in Transitions /\ tu \in Transitions /\ tu.tid = u /\ tt.tid = t
    BY BothFacts, BegunFacts DEF Both, Begun
  <1>2. /\ o.thread[u] = "alive"
        /\ Operation(o, tu).enabled
        /\ UsesCondMutex(tu) => CondMutexOperation(o, tu).enabled
    BY <1>1, EnabledFacts
  <1>3. n.thread[u] = "alive"
    BY <1>1, <1>2, BothFacts, OtherThreads
  <1>4. Effects(o, n, tt, Successor(t))
    BY <1>1, SteppedEffect
  <1>5. CASE tu.type = "sem_wait"
    <2> DEFINE sem == o.sem[s]
               r == sem.registered
               c == sem.count
               q == sem.waitingQueue
    <2>1. tu.type \in SemOperationTypes /\ s \in Semaphores /\ ~ UsesCondMutex(tu)
      BY <1>1, <1>5, OneFamily DEF SemOperationTypes, UsesCondMutex
    <2>2. sem \in SemStates /\ u \in ToSet(q) /\ ThreadCanExit(sem, u)
      BY <1>1, <1>5, <2>1, SemFacts
    <2>3. /\ sem = SemOf(r, c, q) /\ c \in Nat /\ c > 0
          /\ q \in Seq(Threads) /\ q # << >> /\ Head(q) = u
      BY <2>2 DEF SemStates, SemOf, ThreadCanExit, ToSet
    <2>4. n.sem[s] = SemAfter(tt, s, sem)
      BY <1>4, <2>1 DEF Effects
    <2>5. n.sem[s] \in {SemOf(r, c, q), SemOf(r, c, Append(q, t)), SemOf(r, c + 1, q)}
      <3>1. CASE tt.type \in SemOperationTypes /\ tt.obj = s
        <4>1. tt.type \in {"sem_enqueue", "sem_wait", "sem_post"}
          BY <1>1, <2>1, <3>1, SemFacts
        <4>2. tt.type # "sem_wait"
          BY <1>1, <1>5, <3>1, IndependentOnes DEF Both
        <4>3. n.sem[s] = SemOperation(tt.type, sem, t, InitialCount[s]).applied
          BY <1>1, <2>4, <3>1 DEF SemAfter
        <4> HIDE DEF n, tt, s, sem, r, c, q
        <4>4. /\ SemOperation("sem_enqueue", SemOf(r, c, q), t, InitialCount[s]).applied
                    = SemOf(r, c, Append(q, t))
              /\ SemOperation("sem_post", SemOf(r, c, q), t, InitialCount[s]).applied
                    = SemOf(r, c + 1, q)
          BY <2>3, SemOperations
        <4> QED BY <2>3, <4>1, <4>2, <4>3, <4>4
      <3>2. CASE ~ (tt.type \in SemOperationTypes /\ tt.obj = s)
        BY <2>3, <2>4, <3>2 DEF SemAfter
      <3> QED BY <3>1, <3>2
    <2>6. Append(q, t) # << >> /\ Head(Append(q, t)) = u
      <3> HIDE DEF q
      <3> QED BY <2>3
    <2>7. ThreadCanExit(n.sem[s], u)
      <3> HIDE DEF n, tt, tu, s, sem, r, c, q
      <3> QED BY <2>3, <2>5, <2>6 DEF SemOf, ThreadCanExit
    <2>8. Operation(n, tu) = SemOperation("sem_wait", n.sem[s], u, InitialCount[s])
      <3> HIDE DEF n
      <3> QED BY <1>1, <1>5, <2>1, OneFamilyOnly DEF Operation
    <2>9. SemOperation("sem_wait", n.sem[s], u, InitialCount[s]).enabled
             <=> ThreadCanExit(n.sem[s], u)
      <3> HIDE DEF n, s
      <3> QED BY DEF SemOperation, MCSemWait
    <2>10. Operation(n, tu).enabled
      <3> HIDE DEF n, tu, s
      <3> QED BY <2>7, <2>8, <2>9
    <2> HIDE DEF n, tu
    <2> QED BY <1>1, <1>3, <2>1, <2>10 DEF transitionEnabledInState, MCThreadEnabled, tu, n
  <1>6. CASE tu.type # "sem_wait"
    <2>1. tu.type # "barrier_wait"
      BY <1>1, InitialisesNothing
    <2>2. tu.type = "join" => (n.thread[tu.obj] = "dead" <=> o.thread[tu.obj] = "dead")
      <3> SUFFICES ASSUME tu.type = "join"
                   PROVE  n.thread[tu.obj] = "dead" <=> o.thread[tu.obj] = "dead"
        OBVIOUS
      <3>1. tu.obj \in Threads
        BY <1>1, OneFamily DEF ThreadOperationTypes, Subject
      <3>2. tu.obj # t
        BY <1>1, BothFacts
      <3> QED BY <1>1, <3>1, <3>2, OtherThreads
    <2>3. \A m \in Mutexes : Touches(tu, m) => n.mutex[m] = o.mutex[m]
      <3> SUFFICES ASSUME NEW m \in Mutexes, Touches(tu, m)
                   PROVE  n.mutex[m] = o.mutex[m]
        OBVIOUS
      <3>1. ~ Touches(tt, m)
        BY MutexNotShared
      <3> QED BY <1>4, <3>1 DEF Effects, MutexAfter, Touches
    <2>4. tu.type = "cond_wait" => n.cond[tu.obj] = o.cond[tu.obj]
      <3> SUFFICES ASSUME tu.type = "cond_wait"
                   PROVE  n.cond[tu.obj] = o.cond[tu.obj]
        OBVIOUS
      <3>1. tu.type \in CondOperationTypes /\ tu.obj \in Conds
        BY <1>1, OneFamily DEF CondOperationTypes
      <3> QED BY <1>4, <3>1, CondNotShared DEF Effects, CondAfter
    <2>5. tu.type \in MCRWLockTypes \cup MCRWWLockTypes => n.rwlock[tu.obj] = o.rwlock[tu.obj]
      <3> SUFFICES ASSUME tu.type \in MCRWLockTypes \cup MCRWWLockTypes
                   PROVE  n.rwlock[tu.obj] = o.rwlock[tu.obj]
        OBVIOUS
      <3>1. tu.obj \in RWLocks
        BY <1>1, OneFamily
      <3> QED BY <1>4, <3>1, RWLockNotShared DEF Effects, RWLockAfter
    <2>6. SameFor(tu, o, n)
      BY <2>2, <2>3, <2>4, <2>5 DEF SameFor
    <2> HIDE DEF n, tu, o
    <2>7. /\ Operation(n, tu).enabled
          /\ UsesCondMutex(tu) => CondMutexOperation(n, tu).enabled
      BY <1>1, <1>2, <1>6, <2>1, <2>6, SameEnabled
    <2> QED BY <1>1, <1>3, <2>7 DEF transitionEnabledInState, MCThreadEnabled, tu, n
  <1> QED BY <1>5, <1>6


\* Nor does it enable what does not wait for it.
LEMMA KeepsEnabledFollows ==
    ASSUME Lawful(program), Sound(program, Here), Prepared(program, Here),
           NEW t \in Threads, NEW u \in Threads, Enabled(t),
           ~ dependentTransitions(Pending(t), Pending(u)),
           Pending(u).type \notin Waits
    PROVE  Enabled(u) <=> transitionEnabledInState(Stepped(objects, t), Pending(u))
  <1> DEFINE o == objects
             n == Stepped(objects, t)
             tt == Pending(t)
             tu == Pending(u)
  <1>1. /\ Positions /\ o.thread[t] = "alive"
        /\ tt \in Transitions /\ tt.tid = t /\ tu \in Transitions /\ tu.tid = u
    BY SoundHere, PendingType, EnabledFacts DEF Typed
  <1>2. ~ dependentTransitions(tu, tt)
    BY DEF dependentTransitions
  <1>3. /\ t # u
        /\ tt.type \in {"create", "join"} => tt.obj # u
        /\ tu.type \in {"create", "join"} => tu.obj # t
    BY <1>1, <1>2, IndependentOnes
  <1>4. n.thread[u] = "alive" <=> o.thread[u] = "alive"
    BY <1>3, OtherThreads
  <1>5. CASE o.thread[u] # "alive"
    <2> HIDE DEF n, tu
    <2> QED BY <1>1, <1>4, <1>5 DEF Enabled, transitionEnabledInState, MCThreadEnabled, tu, n
  <1>6. CASE o.thread[u] = "alive"
    <2>1. Begun
      BY <1>1, <1>3, <1>6, TwoHaveBegun
    <2>2. Effects(o, n, tt, Successor(t))
      BY <2>1, BegunFacts, SteppedEffect
    <2>3. tu.type = "join" => (n.thread[tu.obj] = "dead" <=> o.thread[tu.obj] = "dead")
      <3> SUFFICES ASSUME tu.type = "join"
                   PROVE  n.thread[tu.obj] = "dead" <=> o.thread[tu.obj] = "dead"
        OBVIOUS
      <3>1. tu.obj \in Threads
        BY <1>1, OneFamily DEF ThreadOperationTypes, Subject
      <3> QED BY <1>3, <3>1, OtherThreads
    <2>4. \A m \in Mutexes : Touches(tu, m) /\ tu.type \in {"mutex_lock", "cond_wait"} =>
             n.mutex[m] = o.mutex[m]
      <3> SUFFICES ASSUME NEW m \in Mutexes, Touches(tu, m),
                          tu.type \in {"mutex_lock", "cond_wait"}
                   PROVE  n.mutex[m] = o.mutex[m]
        OBVIOUS
      <3>1. tu.type = "mutex_lock"
        BY DEF Waits
      <3>2. ~ Touches(tt, m)
        BY <1>1, <3>1, IndependentOnMutex
      <3> QED BY <2>2, <3>2 DEF Effects, MutexAfter, Touches
    <2>5. tu.type # "cond_wait" /\ tu.type \notin {"sem_wait", "barrier_wait"}
      BY DEF Waits
    <2>6. tu.type \in MCRWLockTypes \cup MCRWWLockTypes => n.rwlock[tu.obj] = o.rwlock[tu.obj]
      <3> SUFFICES ASSUME tu.type \in MCRWLockTypes \cup MCRWWLockTypes
                   PROVE  n.rwlock[tu.obj] = o.rwlock[tu.obj]
        OBVIOUS
      <3>1. tu.obj \in RWLocks
        BY <1>1, OneFamily
      <3>2. tu.type \notin {"reader_lock", "rww_reader_lock"}
        BY DEF Waits
      <3>3. ASSUME tt.type \in MCRWLockTypes, tt.obj = tu.obj PROVE FALSE
        BY <1>1, <2>1, <3>2, <3>3, IndependentOnes, OneKindOfLock
      <3>4. ASSUME tt.type \in MCRWWLockTypes, tt.obj = tu.obj PROVE FALSE
        BY <1>1, <2>1, <3>2, <3>4, IndependentOnes, OneKindOfLock
      <3> QED BY <2>2, <3>1, <3>3, <3>4 DEF Effects, RWLockAfter
    <2>7. SameFor(tu, o, n)
      BY <2>3, <2>4, <2>5, <2>6 DEF SameFor
    <2> HIDE DEF n, tu
    <2>8. /\ Operation(n, tu).enabled <=> Operation(o, tu).enabled
          /\ UsesCondMutex(tu) =>
                (CondMutexOperation(n, tu).enabled <=> CondMutexOperation(o, tu).enabled)
      <3> HIDE DEF o
      <3> QED BY <1>1, <2>5, <2>7, SameEnabled
    <2> QED BY <1>1, <1>4, <2>8
            DEF Enabled, transitionEnabledInState, MCThreadEnabled, tu, n
  <1> QED BY <1>5, <1>6


-----------------------------------------------------------------------------
(* Independence, in every state                                              *)

\* Both halves of the promise, in a sound state whose objects are prepared.
LEMMA IndependenceFollows ==
    ASSUME Lawful(program), WaitsWithOwnMutex(program), Sound(program, Here),
           Prepared(program, Here), SemInv
    PROVE  IndependenceHolds
  <1>1. ASSUME NEW t \in Threads, NEW u \in Others(t), Enabled(t), Enabled(u),
               ~ dependentTransitions(Pending(t), Pending(u))
        PROVE  u \in Threads /\ Both(t, u)
    <2>1. u \in Threads /\ t # u
      BY DEF Others
    <2>2. objects.thread[t] = "alive" /\ objects.thread[u] = "alive"
      BY <1>1, <2>1, SoundHere, EnabledFacts DEF Typed
    <2>3. Begun
      BY <2>1, <2>2, TwoHaveBegun
    <2> QED BY <1>1, <2>1, <2>3 DEF Both
  <1>2. IndependentCommute
    BY <1>1, OrdersMeet DEF IndependentCommute
  <1>3. ASSUME NEW t \in Threads, NEW u \in Others(t)
        PROVE  IF Pending(u).type \in Waits THEN StaysEnabled(t, u) ELSE KeepsEnabledness(t, u)
    <2>1. StaysEnabled(t, u)
      BY <1>1, <1>3, StaysEnabledFollows DEF StaysEnabled
    <2>2. Pending(u).type \notin Waits => KeepsEnabledness(t, u)
      BY <1>3, KeepsEnabledFollows DEF KeepsEnabledness, Others
    <2> QED BY <2>1, <2>2
  <1> QED BY <1>2, <1>3 DEF IndependentKeepEnabled, IndependenceHolds

\* The states a program reaches are sound, and their objects prepared.
PreparedHere == Lawful(program) => Sound(program, Here) /\ Prepared(program, Here)

\* It is so at first,
LEMMA PreparedHereInit == Init => PreparedHere
  BY SoundInit, PreparedInit DEF PreparedHere

\* and after every step.
LEMMA PreparedHereStep == PreparedHere /\ [Next]_vars => PreparedHere'
  <1> SUFFICES ASSUME PreparedHere, [Next]_vars PROVE PreparedHere'
    OBVIOUS
  <1>1. ASSUME NEW t \in Threads, Run(t) PROVE PreparedHere'
    <2> SUFFICES ASSUME Lawful(program)'
                 PROVE  (Sound(program, Here) /\ Prepared(program, Here))'
      BY DEF PreparedHere
    <2>1. program' = program /\ Lawful(program) /\ Sound(program, Here) /\ Prepared(program, Here)
      BY <1>1 DEF Run, PreparedHere
    <2>2. Sound(program, Here)'
      BY <1>1, <2>1, SoundStep
    <2>3. CanRun(program, Here, t) /\ Here' = Follow(program, Here, t)
      BY <1>1 DEF Run, Enabled, CanRun, Due, Pending, Here, Follow, Stepped, Successor
    <2>4. Prepared(program, Here)'
      BY <2>1, <2>3, PreparedStep
    <2> QED BY <2>2, <2>4
  <1>2. CASE UNCHANGED vars
    BY <1>2 DEF vars, PreparedHere, Here
  <1> QED BY <1>1, <1>2 DEF Next

\* What MCTransition.h promises of transitions that call themselves independent holds of
\* the dependence relation of the code: whatever the program, as long as it keeps the
\* rules, initialises what it uses and gives no mutex up for two condition variables, two
\* enabled transitions that dependentTransitions does not relate lead to the same objects
\* in either order, what the threads announce next included; neither disables the other;
\* and neither enables the other, unless that waits for what it is not declared dependent
\* on.
THEOREM IndependenceHoldsAlways ==
    Spec => [](KeepsTheRules(program) /\ UsesInitialised(program) /\ WaitsWithOwnMutex(program)
                  => IndependenceHolds)
  <1>1. Spec => []PreparedHere
    BY PreparedHereInit, PreparedHereStep, PTL DEF Spec
  <1>2. Typed /\ Regular /\ PreparedHere =>
           (KeepsTheRules(program) /\ UsesInitialised(program) /\ WaitsWithOwnMutex(program)
               => IndependenceHolds)
    BY IndependenceFollows DEF Typed, TypeOK, Regular, PreparedHere, Lawful
  <1> QED BY <1>1, <1>2, AlwaysRegular, PTL
====
