---- MODULE TraceHandshake_proofs ----
(***************************************************************************)
(* The handshake hands one baton around: the scheduler has it, or it lies  *)
(* in one semaphore of the thread the scheduler runs, or that thread has   *)
(* it.  Baton says where it is in every state; it is inductive, for every  *)
(* program and any number of threads, and the properties follow from it.   *)
(*                                                                         *)
(* And the two processes implement the sequential trace.  The invariant    *)
(* Books counts: the transition stack is a run of the program, the         *)
(* scheduler's pending transitions are where that run ends, and a thread   *)
(* of the trace process is where the part of the stack that was run again  *)
(* (or for the first time) brings it.  The agreement of the two processes, *)
(* the faithful replay and the refinement follow, for every program.       *)
(***************************************************************************)
EXTENDS TraceHandshake, FiniteSetTheorems, SequenceTheorems, WellFoundedInduction, TLAPS

-----------------------------------------------------------------------------
(* The inductive invariant *)

\* While the scheduler is not waiting, nothing runs and no semaphore is posted.
SchedulerHasBaton ==
    schedulerPc # "wait_for_thread" =>
        /\ \A t \in Threads : /\ pc[t] \in Quiet
                              /\ pthreadSem[t] = 0
                              /\ dporSchedulerSem[t] = 0
        /\ createBinarySem = 0

\* While it waits, every other thread is out of the game, except that the one being
\* created by `tid` may not have registered itself yet.
OthersWait ==
    schedulerPc = "wait_for_thread" =>
        \A t \in Threads \ {tid} :
            /\ pc[t] \in Quiet \cup {"wrapper"}
            /\ pthreadSem[t] = 0
            /\ dporSchedulerSem[t] = 0
            /\ pc[t] = "wrapper" =>
                  /\ pc[tid] = "creating"
                  /\ Created(tid, pos[tid]) = t
                  /\ createBinarySem = 0

\* The thread that is run: permit unused, out running, or answer given.
ThreadHasBaton ==
    schedulerPc = "wait_for_thread" =>
        /\ \/ /\ pthreadSem[tid] = 1 /\ dporSchedulerSem[tid] = 0
              /\ pc[tid] \in Quiet
           \/ /\ pthreadSem[tid] = 0 /\ dporSchedulerSem[tid] = 0
              /\ pc[tid] \notin Quiet \cup {"wrapper"}
           \/ /\ pthreadSem[tid] = 0 /\ dporSchedulerSem[tid] = 1
              /\ pc[tid] \in Quiet
              /\ shmTransition = [executor |-> tid, pos |-> pos[tid]]
        /\ pc[tid] \in {"awake", "exit_awake"} =>
              shmTransition = [executor |-> tid, pos |-> pos[tid]]
        /\ createBinarySem \in {0, 1}
        /\ createBinarySem = 1 => pc[tid] = "creating"

\* Between traces there is no thread, and a kill is pending only in waitpid.
TraceIsReaped ==
    /\ schedulerPc \in {"fork", "backtrack", "done"} \/ (schedulerPc = "waitpid" /\ ~ killed)
          => \A t \in Threads : pc[t] = "absent"
    /\ killed => schedulerPc = "waitpid"

\* A thread that was chosen (not replayed) is one the scheduler knows.
ChosenIsKnown ==
    schedulerPc \in {"wake_thread", "wait_for_thread", "simulate"}
       /\ replayed >= Len(transitionStack)
          => nextTransitions[tid] # Unknown

\* The scheduler simulates a transition only when the whole stack was replayed.
ReplayIsOver ==
    schedulerPc \in {"choose", "simulate"} => replayed >= Len(transitionStack)

Baton ==
    /\ TypeOK
    /\ ReplayIsOver
    /\ ChosenIsKnown
    /\ SchedulerHasBaton
    /\ OthersWait
    /\ ThreadHasBaton
    /\ TraceIsReaped
    /\ MailboxIsFresh

-----------------------------------------------------------------------------
(* Lemmas about the program *)

\* Positions stay positions.
LEMMA NextPositionType ==
    ASSUME NEW t \in Threads, NEW p \in Positions
    PROVE  NextPosition(t, p) \in Positions
  BY DEF NextPosition, Positions

\* A thread created by an operation of t is a thread, and not t itself.
LEMMA CreatedType ==
    ASSUME NEW t \in Threads, NEW p \in Positions
    PROVE  /\ Created(t, p) \in Threads \cup {NoThread}
           /\ Created(t, p) # t
  <1>1. Program[t] \in Seq((Threads \ {Main}) \cup {NoThread})
    BY ProgramAssumption
  <1>2. \A i \in DOMAIN Program[t] :
           Program[t][i] \in (Threads \ {Main}) \cup {NoThread}
    BY <1>1
  <1> QED BY <1>2, ProgramAssumption DEF Created

\* A position past the last operation still belongs to the thread.
LEMMA FinishType == \A t \in Threads : FINISH(t) \in Positions
  <1> TAKE t \in Threads
  <1>1. Program[t] \in Seq((Threads \ {Main}) \cup {NoThread})
    BY ProgramAssumption
  <1> QED BY <1>1 DEF FINISH, Positions

\* Every non-empty set of naturals has a least element (from the well-foundedness
\* of < on the naturals; no induction rule is needed).
LEMMA LeastElement ==
    ASSUME NEW S \in SUBSET Nat, S # {}
    PROVE  \E n \in S : \A m \in S : n <= m
  <1>1. \E x \in S : \A y \in S : ~ (<<y, x>> \in OpToRel(<, Nat))
    BY NatLessThanWellFounded, WFMin
  <1>2. \A x \in Nat : \A y \in Nat : ~ (<<y, x>> \in OpToRel(<, Nat)) => x <= y
    BY DEF OpToRel
  <1> QED BY <1>1, <1>2

-----------------------------------------------------------------------------
(* The baton is never lost and never doubled *)

\* In the initial state the scheduler has the baton.
LEMMA BatonInit == Init => Baton
  <1> SUFFICES ASSUME Init PROVE Baton
    OBVIOUS
  <1>0. << >> \in Seq(Transition)
    OBVIOUS
  <1>1. TypeOK
    BY <1>0, ProgramAssumption DEF Init, TypeOK, SchedulerPcs, ThreadPcs, Positions, START,
       Transition
  <1>2. /\ SchedulerHasBaton /\ OthersWait /\ ThreadHasBaton /\ TraceIsReaped
        /\ MailboxIsFresh /\ ChosenIsKnown /\ ReplayIsOver
    BY DEF Init, SchedulerHasBaton, OthersWait, ThreadHasBaton, TraceIsReaped,
       MailboxIsFresh, ChosenIsKnown, ReplayIsOver, Quiet
  <1> QED BY <1>1, <1>2 DEF Baton

\* The pending transitions that reflectStateAtTransitionIndex rebuilds are of their type.
LEMMA ReflectType ==
    ASSUME TypeOK, NEW k \in Nat, reflectStateAtTransitionIndex(k)
    PROVE  nextTransitions' \in [Threads -> Positions \cup {Unknown}]
  <1>1. SUFFICES ASSUME NEW t \in Threads
                 PROVE  nextTransitions'[t] \in Positions \cup {Unknown}
    BY DEF reflectStateAtTransitionIndex
  <1> DEFINE after == {i \in k + 1 .. Len(transitionStack) : transitionStack[i].tid = t}
  <1>2. CASE after = {}
    BY <1>2 DEF reflectStateAtTransitionIndex, TypeOK
  <1>3. CASE after # {}
    <2>1. after \in SUBSET Nat /\ after \subseteq DOMAIN transitionStack
      BY DEF TypeOK
    <2>2. \E i \in after : \A j \in after : i <= j
      BY <1>3, <2>1, LeastElement
    <2> DEFINE first == CHOOSE i \in after : \A j \in after : i <= j
    <2>3. first \in after
      BY <2>2
    <2>4. transitionStack[first].pos \in Positions
      <3>1. \A i \in DOMAIN transitionStack : transitionStack[i] \in Transition
        BY DEF TypeOK
      <3>2. first \in DOMAIN transitionStack
        BY <2>1, <2>3
      <3> HIDE DEF first
      <3> QED BY <3>1, <3>2 DEF Transition
    <2>5. nextTransitions'[t] = transitionStack[first].pos
      BY <1>3 DEF reflectStateAtTransitionIndex
    <2> QED BY <2>4, <2>5
  <1> QED BY <1>2, <1>3

\* Every step keeps every variable in its type.
LEMMA TypeNext == Baton /\ [Next]_vars => TypeOK'
  <1> SUFFICES ASSUME Baton, [Next]_vars PROVE TypeOK'
    OBVIOUS
  <1>0. TypeOK
    BY DEF Baton
  <1> USE DEF TypeOK, SchedulerPcs, ThreadPcs
  <1>1. CASE mc_fork_new_trace
    BY <1>0, <1>1 DEF mc_fork_new_trace, START, Positions
  <1>2. CASE ReplayNext
    <2>1. replayed < Len(transitionStack) => transitionStack[replayed + 1] \in Transition
      BY <1>0
    <2> QED BY <1>0, <1>2, <2>1 DEF ReplayNext, Transition
  <1>3. ASSUME NEW t \in Threads, ChooseNext(t) PROVE TypeOK'
    BY <1>0, <1>3 DEF ChooseNext
  <1>4. CASE mc_shared_sem_wake_thread
    BY <1>0, <1>4 DEF mc_shared_sem_wake_thread
  <1>5. CASE mc_shared_sem_wait_for_thread
    BY <1>0, <1>5 DEF mc_shared_sem_wait_for_thread
  <1>6. CASE simulateRunningTransition
    <2>0. replayed >= Len(transitionStack)
      BY <1>6 DEF simulateRunningTransition, Baton, ReplayIsOver
    <2>1. nextTransitions[tid] \in Positions
      BY <1>0, <1>6, <2>0 DEF simulateRunningTransition, Baton, ChosenIsKnown
    <2>2. [tid |-> tid, pos |-> nextTransitions[tid]] \in Transition
      BY <1>0, <2>1 DEF Transition
    <2>3. transitionStack' \in Seq(Transition)
      BY <1>0, <1>6, <2>2 DEF simulateRunningTransition
    <2>4. nextTransitions' \in [Threads -> Positions \cup {Unknown}]
      BY <1>0, <1>6 DEF simulateRunningTransition, START, Positions
    <2> QED BY <1>0, <1>6, <2>3, <2>4 DEF simulateRunningTransition
  <1>7. CASE mc_terminate_trace
    BY <1>0, <1>7 DEF mc_terminate_trace
  <1>8. CASE mc_wait_for_trace
    BY <1>0, <1>8 DEF mc_wait_for_trace
  <1>9. ASSUME NEW k \in 1 .. Len(transitionStack) - 1, reflectStateAtTransitionIndex(k)
        PROVE  TypeOK'
    <2>1. nextTransitions' \in [Threads -> Positions \cup {Unknown}]
      BY <1>0, <1>9, ReflectType
    <2>2. transitionStack' \in Seq(Transition)
      BY <1>0, <1>9 DEF reflectStateAtTransitionIndex
    <2> QED BY <1>0, <1>9, <2>1, <2>2 DEF reflectStateAtTransitionIndex
  <1>10. CASE mc_stop_model_checking
    BY <1>0, <1>10 DEF mc_stop_model_checking
  <1>11. ASSUME NEW t \in Threads, ThreadStep(t) PROVE TypeOK'
    <2> USE <1>0 DEF schedulerVars
    <2>1. CASE mc_shared_sem_wait_for_scheduler(t)
      <3>1. NextPosition(t, pos[t]) \in Positions
        BY NextPositionType
      <3> QED BY <2>1, <3>1 DEF mc_shared_sem_wait_for_scheduler
    <2>2. CASE ReachWrapper(t)
      BY <2>2 DEF ReachWrapper
    <2>3. CASE RegisterThread(t)
      BY <2>3 DEF RegisterThread
    <2>4. CASE ThreadIsRegistered(t)
      BY <2>4 DEF ThreadIsRegistered
    <2>5. CASE thread_post_visible_operation_hit(t)
      BY <2>5 DEF thread_post_visible_operation_hit
    <2>6. CASE mc_shared_sem_wake_scheduler(t)
      BY <2>6 DEF mc_shared_sem_wake_scheduler
    <2> QED BY <1>11, <2>1, <2>2, <2>3, <2>4, <2>5, <2>6 DEF ThreadStep
  <1>12. CASE sigusr1_handler_trace
    BY <1>0, <1>12 DEF sigusr1_handler_trace, schedulerVars
  <1>13. CASE UNCHANGED vars
    BY <1>0, <1>13 DEF vars
  <1> QED
    BY <1>1, <1>2, <1>3, <1>4, <1>5, <1>6, <1>7, <1>8, <1>9, <1>10, <1>11, <1>12, <1>13
    DEF Next, SchedulerStep, Terminated

\* Every step leaves the baton in exactly one place.
LEMMA BatonNext == Baton /\ [Next]_vars => Baton'
  <1> SUFFICES ASSUME Baton, [Next]_vars PROVE Baton'
    OBVIOUS
  <1>0. TypeOK /\ TypeOK'
    BY TypeNext DEF Baton
  <1> DEFINE Rest == /\ SchedulerHasBaton /\ OthersWait /\ ThreadHasBaton
                     /\ TraceIsReaped /\ MailboxIsFresh /\ ChosenIsKnown
                     /\ ReplayIsOver
  <1>a. Rest
    BY DEF Baton
  <1> SUFFICES Rest'
    BY <1>0 DEF Baton
  <1> USE <1>0, <1>a DEF TypeOK, SchedulerHasBaton, OthersWait, ThreadHasBaton,
       TraceIsReaped, MailboxIsFresh, ChosenIsKnown, ReplayIsOver, Quiet
  <1>1. CASE mc_fork_new_trace
    BY <1>1 DEF mc_fork_new_trace
  <1>2. CASE ReplayNext
    BY <1>2 DEF ReplayNext
  <1>3. ASSUME NEW t \in Threads, ChooseNext(t) PROVE Rest'
    BY <1>3 DEF ChooseNext, EnabledInModel
  <1>4. CASE mc_shared_sem_wake_thread
    BY <1>4 DEF mc_shared_sem_wake_thread
  <1>5. CASE mc_shared_sem_wait_for_thread
    BY <1>5 DEF mc_shared_sem_wait_for_thread
  <1>6. CASE simulateRunningTransition
    BY <1>6 DEF simulateRunningTransition
  <1>7. CASE mc_terminate_trace
    BY <1>7 DEF mc_terminate_trace
  <1>8. CASE mc_wait_for_trace
    BY <1>8 DEF mc_wait_for_trace
  <1>9. ASSUME NEW k \in 1 .. Len(transitionStack) - 1, reflectStateAtTransitionIndex(k)
        PROVE  Rest'
    BY <1>9 DEF reflectStateAtTransitionIndex
  <1>10. CASE mc_stop_model_checking
    BY <1>10 DEF mc_stop_model_checking
  <1>11. ASSUME NEW t \in Threads, ThreadStep(t) PROVE Rest'
    <2> USE DEF schedulerVars
    <2>1. CASE mc_shared_sem_wait_for_scheduler(t)
      BY <2>1 DEF mc_shared_sem_wait_for_scheduler
    <2>2. CASE ReachWrapper(t)
      <3>1. t = tid /\ schedulerPc = "wait_for_thread"
        BY <2>2 DEF ReachWrapper
      <3>2. /\ Created(t, pos[t]) \in Threads \cup {NoThread}
            /\ Created(t, pos[t]) # t
        BY CreatedType
      <3> QED BY <2>2, <3>1, <3>2, ProgramAssumption DEF ReachWrapper
    <2>3. CASE RegisterThread(t)
      BY <2>3 DEF RegisterThread
    <2>4. CASE ThreadIsRegistered(t)
      BY <2>4 DEF ThreadIsRegistered
    <2>5. CASE thread_post_visible_operation_hit(t)
      BY <2>5 DEF thread_post_visible_operation_hit
    <2>6. CASE mc_shared_sem_wake_scheduler(t)
      BY <2>6 DEF mc_shared_sem_wake_scheduler
    <2> QED BY <1>11, <2>1, <2>2, <2>3, <2>4, <2>5, <2>6 DEF ThreadStep
  <1>12. CASE sigusr1_handler_trace
    BY <1>12 DEF sigusr1_handler_trace, schedulerVars
  <1>13. CASE UNCHANGED vars
    BY <1>13 DEF vars
  <1> QED
    BY <1>1, <1>2, <1>3, <1>4, <1>5, <1>6, <1>7, <1>8, <1>9, <1>10, <1>11, <1>12, <1>13
    DEF Next, SchedulerStep, Terminated

-----------------------------------------------------------------------------
(* The theorems *)

\* The baton is an invariant of the handshake.
THEOREM BatonInvariant == Spec => []Baton
  BY BatonInit, BatonNext, PTL DEF Spec

\* Type correctness, for every program.
THEOREM TypeCorrect == Spec => []TypeOK
  <1>1. Baton => TypeOK
    BY DEF Baton
  <1> QED BY <1>1, BatonInvariant, PTL

\* One thread at a time: a thread of the traced program runs (mc_thread_routine_wrapper
\* and the pthread wrappers) only while mc_run_thread_to_next_visible_operation waits
\* for it.
THEOREM OneThreadRunsAlways == Spec => []OneThreadRuns
  <1>1. Baton => OneThreadRuns
    BY DEF Baton, TypeOK, SchedulerHasBaton, OthersWait, ThreadHasBaton, OneThreadRuns, Quiet
  <1> QED BY <1>1, BatonInvariant, PTL

\* The semaphores of trace_sleep_list are binary, and no permit outlives its round.
THEOREM PermitsAreNotKeptAlways == Spec => []PermitsAreNotKept
  <1>1. Baton => PermitsAreNotKept
    <2> SUFFICES ASSUME Baton, NEW t \in Threads
                 PROVE  PermitsAreNotKept!(t)
      BY DEF PermitsAreNotKept
    <2>1. CASE schedulerPc = "wait_for_thread" /\ tid = t
      BY <2>1 DEF Baton, ThreadHasBaton, Quiet
    <2>2. CASE ~ (schedulerPc = "wait_for_thread" /\ tid = t)
      <3>1. pthreadSem[t] = 0 /\ dporSchedulerSem[t] = 0
        BY <2>2 DEF Baton, SchedulerHasBaton, OthersWait
      <3> QED BY <3>1
    <2> QED BY <2>1, <2>2
  <1> QED BY <1>1, BatonInvariant, PTL

\* simulateRunningTransition never decodes an old message or another thread's.
THEOREM MailboxIsFreshAlways == Spec => []MailboxIsFresh
  <1>1. Baton => MailboxIsFresh
    BY DEF Baton
  <1> QED BY <1>1, BatonInvariant, PTL

\* mc_fork_new_trace never runs while a thread of an older trace is alive.
THEOREM NoTraceLeftBehindAlways == Spec => []NoTraceLeftBehind
  <1>1. Baton => NoTraceLeftBehind
    <2> SUFFICES ASSUME Baton, schedulerPc \in {"fork", "backtrack", "done"}
                 PROVE  (\A t \in Threads : pc[t] = "absent") /\ ~ killed
      BY DEF NoTraceLeftBehind
    <2> QED BY DEF Baton, TypeOK, TraceIsReaped
  <1> QED BY <1>1, BatonInvariant, PTL

-----------------------------------------------------------------------------
(* Where every thread is: the inductive invariant *)

\* How many of the first n transitions of h thread t ran.
TurnsIn(h, n, t) == Cardinality({i \in 1 .. n : h[i].tid = t})

\* The operation they bring it to.
Reached(h, n, t) ==
    IF TurnsIn(h, n, t) > FINISH(t) THEN FINISH(t) ELSE TurnsIn(h, n, t)

\* One of them is its MCThreadFinish.
Finished(h, n, t) == \E i \in 1 .. n : h[i] = [tid |-> t, pos |-> FINISH(t)]

\* One of them is the MCThreadCreate of t.
CreatedIn(h, n, t) == t = Main \/ \E i \in 1 .. n : Created(h[i].tid, h[i].pos) = t

\* h is a run: each transition is the operation its thread has come to, and that
\* thread was created before.  The main thread never runs its exit.
IsRun(h) ==
    \A i \in 1 .. Len(h) :
        /\ h[i].pos = TurnsIn(h, i - 1, h[i].tid)
        /\ h[i].pos <= FINISH(h[i].tid)
        /\ h[i].tid = Main => h[i].pos # FINISH(Main)
        /\ CreatedIn(h, i - 1, h[i].tid)

\* A thread has come to the operation that creates t.
Spawned(t) ==
    t = Main \/ \E u \in Threads : \E i \in DOMAIN Program[u] : Program[u][i] = t /\ i <= pos[u]

\* Every thread is pending where the stack brings it.
PendingIsReached ==
    \A t \in Threads :
        IF nextTransitions[t] = Unknown
        THEN TurnsIn(transitionStack, Len(transitionStack), t) = 0
        ELSE nextTransitions[t] = Reached(transitionStack, Len(transitionStack), t)

\* The scheduler knows every thread whose creation it was told of.
KnownAreAnnounced ==
    /\ nextTransitions[Main] # Unknown
    /\ \A u \in Threads : \A i \in DOMAIN Program[u] :
          nextTransitions[u] # Unknown /\ i <= nextTransitions[u] /\ Program[u][i] # NoThread
             => nextTransitions[Program[u][i]] # Unknown

InTrace == schedulerPc \in {"replay", "choose", "wake_thread", "wait_for_thread", "simulate"}

\* The thread that is run has taken its permit.
Taken ==
    \/ schedulerPc = "simulate"
    \/ schedulerPc = "wait_for_thread" /\ pthreadSem[tid] = 0

\* How much was replayed, and which thread goes on.
ReplayIsOnItsWay ==
    /\ InTrace => replayed <= Len(transitionStack)
    /\ schedulerPc \in {"choose", "simulate"} => replayed = Len(transitionStack)
    /\ schedulerPc \in {"wake_thread", "wait_for_thread", "simulate"} =>
          IF replayed < Len(transitionStack)
          THEN tid = transitionStack[replayed + 1].tid
          ELSE EnabledInModel(tid)

\* Where the threads of the trace process are.
PositionsAreReached ==
    InTrace =>
        \A t \in Threads :
            pos[t] = IF Taken /\ t = tid
                     THEN NextPosition(t, Reached(transitionStack, replayed, t))
                     ELSE Reached(transitionStack, replayed, t)

\* t is being created.
Coming(t) == pc[tid] \in {"running", "creating"} /\ Created(tid, pos[tid]) = t

\* Which threads the trace process has.
SpawnedExist ==
    InTrace =>
        /\ \A t \in Threads :
              ~ (Taken /\ t = tid) /\ ~ Coming(t) =>
                  (pc[t] = "await" <=> Spawned(t) /\ ~ Finished(transitionStack, replayed, t))
        /\ Taken =>
              (pc[tid] \in {"exit_hit", "exit_awake", "absent"}
                  <=> Reached(transitionStack, replayed, tid) = FINISH(tid))
        /\ pc[tid] = "creating" =>
              /\ Created(tid, pos[tid]) \in Threads
              /\ createBinarySem = 1 => pc[Created(tid, pos[tid])] = "await"

Books ==
    /\ IsRun(transitionStack)
    /\ PendingIsReached
    /\ KnownAreAnnounced
    /\ ReplayIsOnItsWay
    /\ PositionsAreReached
    /\ SpawnedExist

-----------------------------------------------------------------------------
(* Counting turns *)

\* The turns of a thread are a number; none has had one before the first transition.
LEMMA TurnsType ==
    ASSUME NEW h, NEW n \in Nat, NEW t
    PROVE  /\ IsFiniteSet({i \in 1 .. n : h[i].tid = t})
           /\ TurnsIn(h, n, t) \in Nat
           /\ n = 0 => TurnsIn(h, n, t) = 0
  <1> DEFINE of == {i \in 1 .. n : h[i].tid = t}
  <1>1. IsFiniteSet(1 .. n)
    BY FS_Interval
  <1>2. IsFiniteSet(of)
    BY <1>1, FS_Subset
  <1>3. Cardinality(of) \in Nat
    BY <1>2, FS_CardinalityType
  <1>4. n = 0 => of = {}
    OBVIOUS
  <1> QED BY <1>2, <1>3, <1>4, FS_EmptySet DEF TurnsIn

\* One more transition is one more turn of its thread.
LEMMA TurnsStep ==
    ASSUME NEW h, NEW n \in Nat, NEW t
    PROVE  TurnsIn(h, n + 1, t) =
              IF h[n + 1].tid = t THEN TurnsIn(h, n, t) + 1 ELSE TurnsIn(h, n, t)
  <1> DEFINE before == {i \in 1 .. n : h[i].tid = t}
             after == {i \in 1 .. n + 1 : h[i].tid = t}
  <1>1. CASE h[n + 1].tid = t
    <2>1. after = before \cup {n + 1} /\ n + 1 \notin before
      BY <1>1
    <2>2. IsFiniteSet(before)
      <3>1. IsFiniteSet(1 .. n)
        BY FS_Interval
      <3>2. before \in SUBSET (1 .. n)
        OBVIOUS
      <3> HIDE DEF before
      <3> QED BY <3>1, <3>2, FS_Subset
    <2>3. Cardinality(after) = Cardinality(before) + 1
      BY <2>1, <2>2, FS_AddElement
    <2> QED BY <1>1, <2>3 DEF TurnsIn
  <1>2. CASE h[n + 1].tid # t
    <2>1. after = before
      BY <1>2
    <2> QED BY <1>2, <2>1 DEF TurnsIn
  <1> QED BY <1>1, <1>2

\* Turns are never taken back.
LEMMA TurnsMonotone ==
    ASSUME NEW h, NEW n \in Nat, NEW m \in 0 .. n, NEW t
    PROVE  TurnsIn(h, m, t) <= TurnsIn(h, n, t)
  <1> DEFINE fewer == {i \in 1 .. m : h[i].tid = t}
             more == {i \in 1 .. n : h[i].tid = t}
  <1>1. fewer \subseteq more
    OBVIOUS
  <1>2. IsFiniteSet(more)
    <2>1. IsFiniteSet(1 .. n)
      BY FS_Interval
    <2>2. more \in SUBSET (1 .. n)
      OBVIOUS
    <2> HIDE DEF more
    <2> QED BY <2>1, <2>2, FS_Subset
  <1>3. Cardinality(fewer) <= Cardinality(more)
    BY <1>1, <1>2, FS_Subset
  <1> QED BY <1>3 DEF TurnsIn

\* Two stacks that begin alike give the same turns; so does a stretch in which the
\* thread does not run.
LEMMA TurnsSame ==
    ASSUME NEW h, NEW g, NEW n \in Nat, NEW m \in 0 .. n, NEW t,
           \A i \in 1 .. m : g[i] = h[i],
           \A i \in m + 1 .. n : h[i].tid # t
    PROVE  TurnsIn(h, n, t) = TurnsIn(g, m, t)
  <1>1. {i \in 1 .. n : h[i].tid = t} = {i \in 1 .. m : g[i].tid = t}
    OBVIOUS
  <1> QED BY <1>1 DEF TurnsIn

\* A thread that had more than p turns ran its operation p.
LEMMA EveryTurnIsAnOperation ==
    ASSUME NEW h \in Seq(Transition), IsRun(h), NEW n \in 0 .. Len(h), NEW t \in Threads,
           NEW p \in Nat, p < TurnsIn(h, n, t)
    PROVE  \E i \in 1 .. n : h[i] = [tid |-> t, pos |-> p]
  <1> DEFINE enough == {m \in 0 .. n : p < TurnsIn(h, m, t)}
  <1>1. enough \in SUBSET Nat /\ enough # {}
    OBVIOUS
  <1>2. PICK m \in enough : \A k \in enough : m <= k
    BY <1>1, LeastElement
  <1>3. TurnsIn(h, 0, t) = 0
    BY TurnsType
  <1>4. m \in 1 .. n
    BY <1>2, <1>3
  <1>5. m - 1 \in Nat /\ m - 1 + 1 = m
    BY <1>4
  <1>6. TurnsIn(h, m - 1, t) \in Nat /\ TurnsIn(h, m, t) \in Nat
    <2>1. m \in Nat
      BY <1>4
    <2> QED BY <2>1, <1>5, TurnsType
  <1>7. ~ (p < TurnsIn(h, m - 1, t))
    BY <1>2, <1>4
  <1>8. TurnsIn(h, m, t) = IF h[m].tid = t THEN TurnsIn(h, m - 1, t) + 1
                           ELSE TurnsIn(h, m - 1, t)
    <2>1. TurnsIn(h, m - 1 + 1, t) = IF h[m - 1 + 1].tid = t THEN TurnsIn(h, m - 1, t) + 1
                                     ELSE TurnsIn(h, m - 1, t)
      BY <1>5, TurnsStep
    <2> QED BY <2>1, <1>5
  <1>9. h[m].tid = t /\ TurnsIn(h, m - 1, t) = p
    BY <1>2, <1>6, <1>7, <1>8
  <1>10. h[m].pos = p
    BY <1>4, <1>9 DEF IsRun
  <1>11. h[m] \in Transition
    BY <1>4
  <1> QED BY <1>4, <1>9, <1>10, <1>11 DEF Transition

\* A thread has finished when it had more turns than operations.
LEMMA FinishedByTurns ==
    ASSUME NEW h \in Seq(Transition), IsRun(h), NEW n \in 0 .. Len(h), NEW t \in Threads
    PROVE  Finished(h, n, t) <=> TurnsIn(h, n, t) > FINISH(t)
  <1>0. n \in Nat /\ TurnsIn(h, n, t) \in Nat /\ FINISH(t) \in Nat
    <2>1. n \in Nat
      OBVIOUS
    <2> QED BY <2>1, TurnsType, FinishType DEF Positions
  <1>1. ASSUME Finished(h, n, t) PROVE TurnsIn(h, n, t) > FINISH(t)
    <2>1. PICK i \in 1 .. n : h[i] = [tid |-> t, pos |-> FINISH(t)]
      BY <1>1 DEF Finished
    <2>2. i - 1 \in Nat /\ i - 1 + 1 = i /\ i \in 0 .. n /\ i \in 1 .. Len(h)
      OBVIOUS
    <2>3. TurnsIn(h, i - 1, t) = FINISH(t)
      BY <2>1, <2>2 DEF IsRun
    <2>4. TurnsIn(h, i - 1 + 1, t) = TurnsIn(h, i - 1, t) + 1
      BY <2>1, <2>2, TurnsStep
    <2>5. TurnsIn(h, i, t) <= TurnsIn(h, n, t)
      BY <1>0, <2>2, TurnsMonotone
    <2> QED BY <1>0, <2>2, <2>3, <2>4, <2>5
  <1>2. ASSUME TurnsIn(h, n, t) > FINISH(t) PROVE Finished(h, n, t)
    BY <1>0, <1>2, EveryTurnIsAnOperation DEF Finished
  <1> QED BY <1>1, <1>2

\* The turn of a thread that has not finished brings it to its next position.
LEMMA ReachedStep ==
    ASSUME NEW h, NEW n \in Nat, NEW t \in Threads
    PROVE  /\ Reached(h, n, t) \in Positions
           /\ h[n + 1].tid # t => Reached(h, n + 1, t) = Reached(h, n, t)
           /\ h[n + 1].tid = t /\ TurnsIn(h, n, t) <= FINISH(t) =>
                 Reached(h, n + 1, t) = NextPosition(t, Reached(h, n, t))
  <1>1. TurnsIn(h, n, t) \in Nat /\ FINISH(t) \in Nat
    BY TurnsType, FinishType DEF Positions
  <1>2. TurnsIn(h, n + 1, t) =
           IF h[n + 1].tid = t THEN TurnsIn(h, n, t) + 1 ELSE TurnsIn(h, n, t)
    BY TurnsStep
  <1> QED BY <1>1, <1>2 DEF Reached, NextPosition, Positions

\* Which operation creates a thread, and that it is one of its creator's routine.
LEMMA CreatedByProgram ==
    ASSUME NEW u \in Threads, NEW p \in Positions, NEW t \in Threads
    PROVE  /\ Created(u, p) = t <=> p \in DOMAIN Program[u] /\ Program[u][p] = t
           /\ Created(u, p) = t => p + 1 <= FINISH(u) /\ t # Main
  <1>1. Program[u] \in Seq((Threads \ {Main}) \cup {NoThread})
    BY ProgramAssumption
  <1>2. DOMAIN Program[u] = 1 .. Len(Program[u]) /\ Len(Program[u]) \in Nat
    BY <1>1
  <1>3. \A i \in DOMAIN Program[u] : Program[u][i] \in (Threads \ {Main}) \cup {NoThread}
    BY <1>1
  <1>4. t # NoThread
    BY ProgramAssumption
  <1> QED BY <1>2, <1>3, <1>4 DEF Created, FINISH, Positions

\* A thread that was created in a run has a creator that is past that operation.
LEMMA CreatorIsPast ==
    ASSUME NEW h \in Seq(Transition), IsRun(h), NEW n \in 0 .. Len(h), NEW t \in Threads,
           CreatedIn(h, n, t), t # Main
    PROVE  \E u \in Threads : \E i \in DOMAIN Program[u] :
              Program[u][i] = t /\ i + 1 <= Reached(h, n, u)
  <1>1. PICK i \in 1 .. n : Created(h[i].tid, h[i].pos) = t
    BY DEF CreatedIn
  <1> DEFINE u == h[i].tid
             p == h[i].pos
  <1>2. h[i] \in Transition /\ i \in 1 .. Len(h) /\ n \in Nat
    OBVIOUS
  <1>3. u \in Threads /\ p \in Positions
    BY <1>2 DEF Transition
  <1>4. p \in DOMAIN Program[u] /\ Program[u][p] = t /\ p + 1 <= FINISH(u)
    BY <1>1, <1>3, CreatedByProgram
  <1>5. i - 1 \in Nat /\ i - 1 + 1 = i /\ i \in 0 .. n
    OBVIOUS
  <1>6. TurnsIn(h, i - 1, u) = p
    BY <1>2 DEF IsRun
  <1>7. TurnsIn(h, i - 1 + 1, u) = p + 1
    BY <1>5, <1>6, TurnsStep
  <1>8. TurnsIn(h, i, u) <= TurnsIn(h, n, u)
    BY <1>2, <1>5, TurnsMonotone
  <1>9. TurnsIn(h, n, u) \in Nat /\ FINISH(u) \in Nat
    BY <1>2, <1>3, TurnsType, FinishType DEF Positions
  <1>10. p + 1 <= Reached(h, n, u)
    BY <1>3, <1>4, <1>5, <1>7, <1>8, <1>9 DEF Reached, Positions
  <1> QED BY <1>3, <1>4, <1>10

\* Cutting a run leaves a run.
LEMMA RunCut ==
    ASSUME NEW h \in Seq(Transition), IsRun(h), NEW k \in 0 .. Len(h)
    PROVE  /\ SubSeq(h, 1, k) \in Seq(Transition)
           /\ Len(SubSeq(h, 1, k)) = k
           /\ \A i \in 1 .. k : SubSeq(h, 1, k)[i] = h[i]
           /\ IsRun(SubSeq(h, 1, k))
  <1> DEFINE g == SubSeq(h, 1, k)
  <1>1. g \in Seq(Transition) /\ Len(g) = k /\ \A i \in 1 .. k : g[i] = h[i]
    OBVIOUS
  <1> HIDE DEF g
  <1>2. SUFFICES ASSUME NEW i \in 1 .. k
                 PROVE  /\ g[i].pos = TurnsIn(g, i - 1, g[i].tid)
                        /\ g[i].pos <= FINISH(g[i].tid)
                        /\ g[i].tid = Main => g[i].pos # FINISH(Main)
                        /\ CreatedIn(g, i - 1, g[i].tid)
    BY <1>1 DEF IsRun, g
  <1>3. i \in 1 .. Len(h) /\ i - 1 \in Nat /\ g[i] = h[i]
    BY <1>1
  <1>4. TurnsIn(h, i - 1, h[i].tid) = TurnsIn(g, i - 1, h[i].tid)
    <2>1. \A j \in 1 .. i - 1 : g[j] = h[j]
      BY <1>1
    <2>2. i - 1 \in 0 .. i - 1 /\ \A j \in i - 1 + 1 .. i - 1 : h[j].tid # h[i].tid
      BY <1>3
    <2> HIDE DEF g
    <2> QED BY <1>3, <2>1, <2>2, TurnsSame
  <1>5. CreatedIn(g, i - 1, g[i].tid)
    <2>1. \A j \in 1 .. i - 1 : g[j] = h[j]
      BY <1>1
    <2>2. CreatedIn(h, i - 1, h[i].tid)
      BY <1>3 DEF IsRun
    <2> QED BY <1>3, <2>1, <2>2 DEF CreatedIn
  <1> QED BY <1>3, <1>4, <1>5 DEF IsRun

\* A thread that was created and has not finished, other than the main thread at its
\* exit, extends a run by the operation it has come to.
LEMMA RunGoesOn ==
    ASSUME NEW h \in Seq(Transition), IsRun(h), NEW t \in Threads,
           CreatedIn(h, Len(h), t), ~ Finished(h, Len(h), t),
           ~ (t = Main /\ Reached(h, Len(h), t) = FINISH(Main))
    PROVE  LET g == Append(h, [tid |-> t, pos |-> Reached(h, Len(h), t)])
           IN  /\ g \in Seq(Transition)
               /\ Len(g) = Len(h) + 1
               /\ \A i \in 1 .. Len(h) : g[i] = h[i]
               /\ g[Len(h) + 1] = [tid |-> t, pos |-> Reached(h, Len(h), t)]
               /\ IsRun(g)
  <1> DEFINE p == Reached(h, Len(h), t)
             x == [tid |-> t, pos |-> p]
             g == Append(h, x)
  <1>0. Len(h) \in Nat /\ TurnsIn(h, Len(h), t) \in Nat /\ FINISH(t) \in Nat
    <2>1. Len(h) \in Nat
      OBVIOUS
    <2> QED BY <2>1, TurnsType, FinishType DEF Positions
  <1>1. TurnsIn(h, Len(h), t) <= FINISH(t)
    <2>1. Len(h) \in 0 .. Len(h)
      BY <1>0
    <2> QED BY <1>0, <2>1, FinishedByTurns
  <1>2. p = TurnsIn(h, Len(h), t) /\ p <= FINISH(t) /\ p \in Positions
    BY <1>0, <1>1 DEF Reached, Positions
  <1> HIDE DEF p
  <1>3. x \in Transition
    BY <1>2 DEF Transition
  <1>4. /\ g \in Seq(Transition) /\ Len(g) = Len(h) + 1
        /\ \A i \in 1 .. Len(h) : g[i] = h[i]
        /\ g[Len(h) + 1] = x
    BY <1>3, AppendProperties
  <1> HIDE DEF g
  <1>5. ASSUME NEW i \in 1 .. Len(h) + 1
        PROVE  /\ g[i].pos = TurnsIn(g, i - 1, g[i].tid)
               /\ g[i].pos <= FINISH(g[i].tid)
               /\ g[i].tid = Main => g[i].pos # FINISH(Main)
               /\ CreatedIn(g, i - 1, g[i].tid)
    <2>0. i - 1 \in Nat /\ i - 1 \in 0 .. i - 1 /\ \A j \in 1 .. i - 1 : g[j] = h[j]
      BY <1>0, <1>4
    <2>1. \A u : TurnsIn(h, i - 1, u) = TurnsIn(g, i - 1, u)
      <3> TAKE u
      <3>1. {j \in 1 .. i - 1 : h[j].tid = u} = {j \in 1 .. i - 1 : g[j].tid = u}
        BY <2>0
      <3> QED BY <3>1 DEF TurnsIn
    <2>2. CASE i \in 1 .. Len(h)
      <3>1. g[i] = h[i]
        BY <1>4, <2>2
      <3>2. CreatedIn(h, i - 1, h[i].tid)
        BY <2>2 DEF IsRun
      <3>3. CreatedIn(g, i - 1, g[i].tid)
        BY <3>1, <3>2, <2>0 DEF CreatedIn
      <3> QED BY <2>1, <2>2, <3>1, <3>3 DEF IsRun
    <2>3. CASE i = Len(h) + 1
      <3>1. g[i].tid = t /\ g[i].pos = p /\ i - 1 = Len(h)
        BY <1>0, <1>4, <2>3
      <3>2. CreatedIn(g, i - 1, t)
        BY <2>0, <3>1 DEF CreatedIn
      <3>3. ~ (t = Main /\ p = FINISH(Main))
        BY DEF p
      <3> QED BY <1>2, <2>1, <3>1, <3>2, <3>3
    <2> QED BY <1>0, <2>2, <2>3
  <1>6. IsRun(g)
    BY <1>4, <1>5 DEF IsRun
  <1> QED BY <1>4, <1>6 DEF g, p

-----------------------------------------------------------------------------
(* The books are kept *)

\* Before the first trace nothing has run and only the main thread is known.
LEMMA BooksInit == Init => Books
  <1> SUFFICES ASSUME Init PROVE Books
    OBVIOUS
  <1>1. transitionStack = << >> /\ Len(transitionStack) = 0
    BY DEF Init
  <1>2. \A t \in Threads : TurnsIn(transitionStack, 0, t) = 0
    BY TurnsType
  <1>3. \A t \in Threads : Reached(transitionStack, 0, t) = 0
    BY <1>2, FinishType DEF Reached, Positions
  <1>4. IsRun(transitionStack)
    BY <1>1 DEF IsRun
  <1>5. PendingIsReached
    BY <1>1, <1>2, <1>3 DEF Init, PendingIsReached, START
  <1>6. KnownAreAnnounced
    <2>1. nextTransitions[Main] = 0 /\ 0 # Unknown
      BY ProgramAssumption, UnknownAssumption DEF Init, START, Positions
    <2>2. \A u \in Threads : \A i \in DOMAIN Program[u] :
             ~ (nextTransitions[u] # Unknown /\ i <= nextTransitions[u])
      <3> TAKE u \in Threads
      <3>1. Program[u] \in Seq((Threads \ {Main}) \cup {NoThread})
        BY ProgramAssumption
      <3>2. \A i \in DOMAIN Program[u] : i \in Nat /\ i > 0
        BY <3>1
      <3> QED BY <3>2 DEF Init, START
    <2> QED BY <2>1, <2>2 DEF KnownAreAnnounced
  <1>7. ReplayIsOnItsWay /\ PositionsAreReached /\ SpawnedExist
    BY DEF Init, InTrace, ReplayIsOnItsWay, PositionsAreReached, SpawnedExist
  <1> QED BY <1>4, <1>5, <1>6, <1>7 DEF Books

\* A step that leaves the scheduler's stack and pending transitions alone leaves their
\* books alone.
LEMMA StackBooksKept ==
    ASSUME Books, UNCHANGED <<transitionStack, nextTransitions>>
    PROVE  /\ IsRun(transitionStack)' /\ PendingIsReached' /\ KnownAreAnnounced'
           /\ \A t : EnabledInModel(t)' <=> EnabledInModel(t)
           /\ \A n, t : Reached(transitionStack, n, t)' = Reached(transitionStack, n, t)
           /\ \A n, t : Finished(transitionStack, n, t)' <=> Finished(transitionStack, n, t)
  BY DEF Books, IsRun, PendingIsReached, KnownAreAnnounced, EnabledInModel, Alive, Reached,
     TurnsIn, Finished, CreatedIn

\* A new trace starts where every stack starts.
LEMMA BooksFork ==
    ASSUME Baton, Books, mc_fork_new_trace
    PROVE  Books'
  <1>1. /\ IsRun(transitionStack)' /\ PendingIsReached' /\ KnownAreAnnounced'
        /\ \A n, t : Reached(transitionStack, n, t)' = Reached(transitionStack, n, t)
        /\ \A n, t : Finished(transitionStack, n, t)' <=> Finished(transitionStack, n, t)
    BY StackBooksKept DEF mc_fork_new_trace
  <1>2. \A t \in Threads : Reached(transitionStack, 0, t) = 0
    <2>1. \A t \in Threads : TurnsIn(transitionStack, 0, t) = 0
      BY TurnsType
    <2> QED BY <2>1, FinishType DEF Reached, Positions
  <1>3. ReplayIsOnItsWay'
    <2>1. Len(transitionStack) \in Nat
      BY DEF Baton, TypeOK
    <2> QED BY <2>1 DEF mc_fork_new_trace, ReplayIsOnItsWay
  <1>4. PositionsAreReached'
    BY <1>1, <1>2 DEF mc_fork_new_trace, PositionsAreReached, Taken, START
  <1>5. SpawnedExist'
    <2>1. \A t \in Threads : Spawned(t)' <=> t = Main
      <3> SUFFICES ASSUME NEW u \in Threads
                   PROVE  \A i \in DOMAIN Program[u] : ~ (i <= pos'[u])
        BY DEF Spawned
      <3>1. Program[u] \in Seq((Threads \ {Main}) \cup {NoThread})
        BY ProgramAssumption
      <3>2. \A i \in DOMAIN Program[u] : i \in Nat /\ i > 0
        BY <3>1
      <3> QED BY <3>2 DEF mc_fork_new_trace, START
    <2>2. \A t : ~ Finished(transitionStack, 0, t)
      BY DEF Finished
    <2>3. /\ pc' = [t \in Threads |-> IF t = Main THEN "await" ELSE "absent"]
          /\ schedulerPc' = "replay" /\ replayed' = 0 /\ tid' \in Threads
      BY DEF mc_fork_new_trace, Baton, TypeOK
    <2> QED BY <1>1, <2>1, <2>2, <2>3 DEF SpawnedExist, Taken, Coming
  <1> QED BY <1>1, <1>3, <1>4, <1>5 DEF Books

\* The scheduler goes to its next thread or lets it go: nothing moves in the trace.
LEMMA BooksQuiet ==
    ASSUME Baton, Books,
           \/ ReplayNext
           \/ \E t \in Threads : ChooseNext(t)
           \/ mc_shared_sem_wake_thread
    PROVE  Books'
  <1>1. /\ IsRun(transitionStack)' /\ PendingIsReached' /\ KnownAreAnnounced'
        /\ \A t : EnabledInModel(t)' <=> EnabledInModel(t)
        /\ \A n, t : Reached(transitionStack, n, t)' = Reached(transitionStack, n, t)
        /\ \A n, t : Finished(transitionStack, n, t)' <=> Finished(transitionStack, n, t)
    BY StackBooksKept DEF ReplayNext, ChooseNext, mc_shared_sem_wake_thread
  <1>2. /\ schedulerPc \in {"replay", "choose", "wake_thread"}
        /\ tid \in Threads /\ pthreadSem \in [Threads -> Nat]
        /\ \A t \in Threads : pc[t] \in {"absent", "await"} /\ pthreadSem[t] = 0
        /\ Len(transitionStack) \in Nat /\ replayed \in Nat
    BY DEF Baton, TypeOK, SchedulerHasBaton, Quiet, ReplayNext, ChooseNext,
       mc_shared_sem_wake_thread
  <1>3. /\ UNCHANGED <<transitionStack, nextTransitions, replayed, pc, pos>>
        /\ \/ /\ schedulerPc = "replay"
              /\ IF replayed < Len(transitionStack)
                 THEN tid' = transitionStack[replayed + 1].tid /\ schedulerPc' = "wake_thread"
                 ELSE schedulerPc' = "choose" /\ tid' = tid
           \/ schedulerPc = "choose" /\ schedulerPc' = "wake_thread" /\ EnabledInModel(tid')
           \/ /\ schedulerPc = "wake_thread" /\ schedulerPc' = "wait_for_thread"
              /\ tid' = tid /\ pthreadSem'[tid] = 1
    BY <1>2 DEF ReplayNext, ChooseNext, mc_shared_sem_wake_thread
  <1>4. ReplayIsOnItsWay'
    BY <1>1, <1>2, <1>3 DEF Books, ReplayIsOnItsWay, InTrace
  <1>5. InTrace /\ InTrace' /\ ~ Taken /\ ~ Taken'
    BY <1>2, <1>3 DEF InTrace, Taken
  <1>6. PositionsAreReached'
    BY <1>1, <1>3, <1>5 DEF Books, PositionsAreReached
  <1>7. tid' \in Threads
    <2>1. replayed < Len(transitionStack) => transitionStack[replayed + 1] \in Transition
      BY DEF Baton, TypeOK
    <2> QED BY <1>2, <2>1 DEF Transition, ReplayNext, ChooseNext, mc_shared_sem_wake_thread
  <1>8. \A t \in Threads : ~ Coming(t) /\ ~ Coming(t)'
    BY <1>2, <1>3, <1>7 DEF Coming
  <1>9. \A t \in Threads : Spawned(t)' <=> Spawned(t)
    BY <1>3 DEF Spawned
  <1>10. SpawnedExist'
    BY <1>1, <1>2, <1>3, <1>5, <1>7, <1>8, <1>9 DEF Books, SpawnedExist
  <1> QED BY <1>1, <1>4, <1>6, <1>10 DEF Books

\* A thread that is created at some point of a run that was executed so far is one the
\* trace process has come to.
LEMMA CreatedAreSpawned ==
    ASSUME Baton, Books, InTrace, NEW t \in Threads, CreatedIn(transitionStack, replayed, t)
    PROVE  Spawned(t)
  <1>1. CASE t = Main
    BY <1>1 DEF Spawned
  <1>2. CASE t # Main
    <2>1. transitionStack \in Seq(Transition) /\ replayed \in 0 .. Len(transitionStack)
      BY DEF Baton, TypeOK, Books, ReplayIsOnItsWay
    <2>2. PICK u \in Threads : \E i \in DOMAIN Program[u] :
             Program[u][i] = t /\ i + 1 <= Reached(transitionStack, replayed, u)
      BY <1>2, <2>1, CreatorIsPast DEF Books
    <2>3. PICK i \in DOMAIN Program[u] :
             Program[u][i] = t /\ i + 1 <= Reached(transitionStack, replayed, u)
      BY <2>2
    <2>4. Reached(transitionStack, replayed, u) \in Nat /\ replayed \in Nat
      BY <2>1, ReachedStep DEF Positions
    <2>5. pos[u] = Reached(transitionStack, replayed, u)
          \/ pos[u] = NextPosition(u, Reached(transitionStack, replayed, u))
      BY DEF Books, PositionsAreReached
    <2>6. i \in Nat
      <3>1. Program[u] \in Seq((Threads \ {Main}) \cup {NoThread})
        BY ProgramAssumption
      <3> QED BY <3>1
    <2>7. i <= pos[u]
      BY <2>3, <2>4, <2>5, <2>6 DEF NextPosition
    <2> QED BY <2>3, <2>7 DEF Spawned
  <1> QED BY <1>1, <1>2

\* When the thread that was run has answered, the trace process is where one more
\* transition of the stack brings it.  g is the stack after that: the same in a replay,
\* one transition longer else.
LEMMA ThreadIsBack ==
    ASSUME Baton, Books, InTrace, Taken, pc[tid] \in Quiet,
           NEW g \in Seq(Transition), IsRun(g), replayed < Len(g),
           \A i \in 1 .. replayed : g[i] = transitionStack[i],
           g[replayed + 1].tid = tid
    PROVE  /\ \A t \in Threads : pos[t] = Reached(g, replayed + 1, t)
           /\ \A t \in Threads :
                 pc[t] = "await" <=> Spawned(t) /\ ~ Finished(g, replayed + 1, t)
  <1> DEFINE n == replayed
             h == transitionStack
  <1>0. /\ n \in Nat /\ n <= Len(h) /\ h \in Seq(Transition) /\ Len(h) \in Nat
        /\ tid \in Threads /\ n \in 0 .. Len(h) /\ n \in 0 .. Len(g) /\ n + 1 \in 1 .. Len(g)
    BY DEF Baton, TypeOK, Books, ReplayIsOnItsWay
  <1> HIDE DEF n
  <1>1. \A t \in Threads : TurnsIn(g, n, t) = TurnsIn(h, n, t)
    <2> TAKE t \in Threads
    <2>1. {i \in 1 .. n : g[i].tid = t} = {i \in 1 .. n : h[i].tid = t}
      BY DEF n
    <2> QED BY <2>1 DEF TurnsIn
  <1>2. \A t \in Threads : Reached(g, n, t) = Reached(h, n, t)
    BY <1>1 DEF Reached
  <1>3. TurnsIn(g, n, tid) <= FINISH(tid) /\ g[n + 1].pos = TurnsIn(g, n, tid)
    <2>1. n + 1 - 1 = n
      BY <1>0
    <2>2. g[n + 1].tid = tid
      BY DEF n
    <2> QED BY <1>0, <2>1, <2>2 DEF IsRun
  <1>4. ASSUME NEW t \in Threads PROVE pos[t] = Reached(g, n + 1, t)
    <2>1. g[n + 1].tid = tid
      BY DEF n
    <2> QED BY <1>0, <1>2, <1>3, <2>1, ReachedStep DEF n, Books, PositionsAreReached
  <1>5. ASSUME NEW t \in Threads
        PROVE  pc[t] = "await" <=> Spawned(t) /\ ~ Finished(g, n + 1, t)
    <2>1. ~ Coming(t)
      BY DEF Coming, Quiet
    <2>2. Finished(g, n, t) <=> Finished(h, n, t)
      BY DEF n, Finished
    <2>3. Finished(g, n + 1, t) <=>
             Finished(g, n, t) \/ g[n + 1] = [tid |-> t, pos |-> FINISH(t)]
      BY <1>0 DEF Finished
    <2>4. CASE t # tid
      <3>1. g[n + 1].tid = tid
        BY DEF n
      <3>2. pc[t] = "await" <=> Spawned(t) /\ ~ Finished(h, n, t)
        BY <2>1, <2>4 DEF n, Books, SpawnedExist
      <3> QED BY <2>2, <2>3, <2>4, <3>1, <3>2
    <2>5. CASE t = tid
      <3>1. Spawned(tid)
        <4>1. CreatedIn(g, n, tid)
          <5>1. n + 1 - 1 = n /\ g[n + 1].tid = tid
            BY <1>0 DEF n
          <5> QED BY <1>0, <5>1 DEF IsRun
        <4>2. CreatedIn(h, n, tid)
          BY <4>1 DEF n, CreatedIn
        <4> QED BY <1>0, <4>2, CreatedAreSpawned DEF n
      <3>2. ~ Finished(g, n, tid)
        <4>1. TurnsIn(g, n, tid) \in Nat /\ FINISH(tid) \in Nat
          BY <1>0, TurnsType, FinishType DEF Positions
        <4> QED BY <1>0, <1>3, <4>1, FinishedByTurns
      <3>3. Reached(h, n, tid) = TurnsIn(g, n, tid)
        <4>1. TurnsIn(g, n, tid) \in Nat /\ FINISH(tid) \in Nat
          BY <1>0, TurnsType, FinishType DEF Positions
        <4> QED BY <1>0, <1>1, <1>3, <4>1 DEF Reached
      <3>4. g[n + 1] = [tid |-> tid, pos |-> FINISH(tid)] <=> Reached(h, n, tid) = FINISH(tid)
        <4>1. g[n + 1] \in Transition
          BY <1>0
        <4>2. g[n + 1].tid = tid
          BY DEF n
        <4> QED BY <1>3, <3>3, <4>1, <4>2 DEF Transition
      <3>5. pc[tid] = "absent" <=> Reached(h, n, tid) = FINISH(tid)
        BY DEF n, Books, SpawnedExist, Quiet
      <3> QED BY <2>3, <2>5, <3>1, <3>2, <3>4, <3>5 DEF Quiet
    <2> QED BY <2>4, <2>5
  <1> QED BY <1>4, <1>5 DEF n

\* The answer of a thread during a replay, or of the one that was chosen.
LEMMA BooksAnswer ==
    ASSUME Baton, Books, mc_shared_sem_wait_for_thread
    PROVE  Books'
  <1>1. /\ IsRun(transitionStack)' /\ PendingIsReached' /\ KnownAreAnnounced'
        /\ \A t : EnabledInModel(t)' <=> EnabledInModel(t)
        /\ \A n, t : Reached(transitionStack, n, t)' = Reached(transitionStack, n, t)
        /\ \A n, t : Finished(transitionStack, n, t)' <=> Finished(transitionStack, n, t)
    BY StackBooksKept DEF mc_shared_sem_wait_for_thread
  <1>2. /\ schedulerPc = "wait_for_thread" /\ InTrace /\ InTrace'
        /\ UNCHANGED <<tid, transitionStack, nextTransitions, pthreadSem, pc, pos,
                       createBinarySem>>
        /\ tid \in Threads /\ Len(transitionStack) \in Nat
        /\ replayed \in Nat /\ replayed <= Len(transitionStack)
    BY DEF mc_shared_sem_wait_for_thread, InTrace, Baton, TypeOK, Books, ReplayIsOnItsWay
  <1>3. pthreadSem[tid] = 0 /\ pc[tid] \in Quiet /\ Taken
    BY <1>2 DEF mc_shared_sem_wait_for_thread, Baton, TypeOK, ThreadHasBaton, Taken
  <1>4. \A t : ~ Coming(t) /\ ~ Coming(t)'
    BY <1>2, <1>3 DEF Coming, Quiet
  <1>5. \A t \in Threads : Spawned(t)' <=> Spawned(t)
    BY <1>2 DEF Spawned
  <1>6. CASE replayed < Len(transitionStack)
    <2>1. schedulerPc' = "replay" /\ replayed' = replayed + 1
      BY <1>6 DEF mc_shared_sem_wait_for_thread
    <2>2. transitionStack[replayed + 1].tid = tid
      BY <1>2, <1>6 DEF Books, ReplayIsOnItsWay
    <2>3. /\ \A t \in Threads : pos[t] = Reached(transitionStack, replayed + 1, t)
          /\ \A t \in Threads :
                pc[t] = "await" <=> Spawned(t) /\ ~ Finished(transitionStack, replayed + 1, t)
      BY <1>2, <1>3, <1>6, <2>2, ThreadIsBack DEF Baton, TypeOK, Books
    <2>4. ReplayIsOnItsWay'
      BY <1>2, <1>6, <2>1 DEF ReplayIsOnItsWay
    <2>5. PositionsAreReached'
      BY <1>1, <1>2, <2>1, <2>3 DEF PositionsAreReached, Taken
    <2>6. SpawnedExist'
      BY <1>1, <1>2, <1>3, <1>5, <2>1, <2>3 DEF SpawnedExist, Taken, Quiet
    <2> QED BY <1>1, <2>4, <2>5, <2>6 DEF Books
  <1>7. CASE ~ (replayed < Len(transitionStack))
    <2>1. schedulerPc' = "simulate" /\ replayed' = replayed /\ replayed = Len(transitionStack)
      BY <1>2, <1>7 DEF mc_shared_sem_wait_for_thread
    <2>2. ReplayIsOnItsWay'
      BY <1>1, <1>2, <2>1 DEF Books, ReplayIsOnItsWay
    <2>3. Taken'
      BY <2>1 DEF Taken
    <2>4. PositionsAreReached'
      BY <1>1, <1>2, <1>3, <2>1, <2>3 DEF Books, PositionsAreReached
    <2>5. SpawnedExist'
      BY <1>1, <1>2, <1>3, <1>4, <1>5, <2>1, <2>3 DEF Books, SpawnedExist
    <2> QED BY <1>1, <2>2, <2>4, <2>5 DEF Books
  <1> QED BY <1>6, <1>7

\* A thread that is alive after the stack was created in it and has not finished.
LEMMA AliveInRun ==
    ASSUME Baton, NEW t \in Threads, Alive(transitionStack, t)
    PROVE  /\ CreatedIn(transitionStack, Len(transitionStack), t)
           /\ ~ Finished(transitionStack, Len(transitionStack), t)
  <1>1. DOMAIN transitionStack = 1 .. Len(transitionStack)
    BY DEF Baton, TypeOK
  <1> QED BY <1>1 DEF Alive, CreatedIn, Finished

\* What the scheduler pushes, and the operation it decodes.
LEMMA SimulatedTransition ==
    ASSUME Baton, Books, simulateRunningTransition
    PROVE  LET h == transitionStack
               n == Len(transitionStack)
               g == transitionStack'
           IN  /\ tid \in Threads /\ n \in Nat /\ replayed = n
               /\ EnabledInModel(tid)
               /\ shmTransition = [executor |-> tid, pos |-> pos[tid]]
               /\ nextTransitions[tid] = Reached(h, n, tid)
               /\ nextTransitions[tid] \in Positions
               /\ pos[tid] = NextPosition(tid, nextTransitions[tid])
               /\ g \in Seq(Transition) /\ IsRun(g) /\ Len(g) = n + 1
               /\ \A i \in 1 .. n : g[i] = h[i]
               /\ g[n + 1] = [tid |-> tid, pos |-> nextTransitions[tid]]
               /\ \A t \in Threads : TurnsIn(g, n, t) = TurnsIn(h, n, t)
  <1> DEFINE h == transitionStack
             n == Len(transitionStack)
             g == transitionStack'
  <1>1. /\ schedulerPc = "simulate" /\ tid \in Threads /\ n \in Nat /\ h \in Seq(Transition)
        /\ shmTransition = [executor |-> tid, pos |-> pos[tid]]
    BY DEF simulateRunningTransition, Baton, TypeOK, MailboxIsFresh
  <1>2. replayed = n /\ EnabledInModel(tid)
    BY <1>1 DEF Books, ReplayIsOnItsWay
  <1>3. nextTransitions[tid] = Reached(h, n, tid)
    BY <1>1, <1>2 DEF Books, PendingIsReached, EnabledInModel
  <1>4. nextTransitions[tid] \in Positions
    BY <1>1, <1>3, ReachedStep
  <1>5. pos[tid] = NextPosition(tid, nextTransitions[tid])
    BY <1>1, <1>2, <1>3 DEF Books, PositionsAreReached, InTrace, Taken
  <1>6. CreatedIn(h, n, tid) /\ ~ Finished(h, n, tid)
    BY <1>1, <1>2, AliveInRun DEF EnabledInModel
  <1>7. ~ (tid = Main /\ Reached(h, n, tid) = FINISH(Main))
    BY <1>2, <1>3 DEF EnabledInModel
  <1>8. g = Append(h, [tid |-> tid, pos |-> Reached(h, n, tid)])
    BY <1>3 DEF simulateRunningTransition
  <1>9. /\ g \in Seq(Transition) /\ IsRun(g) /\ Len(g) = n + 1
        /\ \A i \in 1 .. n : g[i] = h[i]
        /\ g[n + 1] = [tid |-> tid, pos |-> Reached(h, n, tid)]
    <2>1. IsRun(h)
      BY DEF Books
    <2> QED BY <1>1, <1>6, <1>7, <1>8, <2>1, RunGoesOn
  <1>10. ASSUME NEW t \in Threads PROVE TurnsIn(g, n, t) = TurnsIn(h, n, t)
    <2>1. {i \in 1 .. n : g[i].tid = t} = {i \in 1 .. n : h[i].tid = t}
      BY <1>9
    <2> QED BY <2>1 DEF TurnsIn
  <1> QED BY <1>1, <1>2, <1>3, <1>4, <1>5, <1>9, <1>10

\* A transition is pushed and its thread's next operation decoded.
LEMMA BooksSimulate ==
    ASSUME Baton, Books, simulateRunningTransition
    PROVE  Books'
  <1> DEFINE h == transitionStack
             n == Len(transitionStack)
             g == transitionStack'
             child == Created(tid, pos[tid])
  <1>1. /\ tid \in Threads /\ n \in Nat /\ replayed = n /\ EnabledInModel(tid)
        /\ shmTransition = [executor |-> tid, pos |-> pos[tid]]
        /\ nextTransitions[tid] = Reached(h, n, tid)
        /\ nextTransitions[tid] \in Positions
        /\ pos[tid] = NextPosition(tid, nextTransitions[tid])
        /\ g \in Seq(Transition) /\ IsRun(g) /\ Len(g) = n + 1
        /\ \A i \in 1 .. n : g[i] = h[i]
        /\ g[n + 1] = [tid |-> tid, pos |-> nextTransitions[tid]]
        /\ \A t \in Threads : TurnsIn(g, n, t) = TurnsIn(h, n, t)
    BY SimulatedTransition
  <1>2. /\ schedulerPc = "simulate" /\ schedulerPc' = "choose" /\ replayed' = n + 1
        /\ InTrace /\ InTrace' /\ Taken /\ ~ Taken'
        /\ UNCHANGED <<tid, pc, pos, pthreadSem>>
        /\ nextTransitions' = [t \in Threads |->
              IF t = tid THEN pos[tid]
              ELSE IF t = child /\ nextTransitions[t] = Unknown THEN START
              ELSE nextTransitions[t]]
    BY <1>1 DEF simulateRunningTransition, InTrace, Taken
  <1>3. pc[tid] \in Quiet
    BY <1>1, <1>2 DEF Baton, SchedulerHasBaton
  <1>4. /\ \A t \in Threads : pos[t] = Reached(g, n + 1, t)
        /\ \A t \in Threads : pc[t] = "await" <=> Spawned(t) /\ ~ Finished(g, n + 1, t)
    <2>1. replayed < Len(g) /\ g[replayed + 1].tid = tid
      BY <1>1
    <2>2. \A i \in 1 .. replayed : g[i] = transitionStack[i]
      BY <1>1
    <2>3. /\ \A t \in Threads : pos[t] = Reached(g, replayed + 1, t)
          /\ \A t \in Threads :
                pc[t] = "await" <=> Spawned(t) /\ ~ Finished(g, replayed + 1, t)
      <3> HIDE DEF g
      <3> QED BY <1>1, <1>2, <1>3, <2>1, <2>2, ThreadIsBack
    <2> QED BY <1>1, <2>3
  <1>5. PendingIsReached'
    <2>1. SUFFICES ASSUME NEW t \in Threads
                   PROVE  IF nextTransitions'[t] = Unknown THEN TurnsIn(g, n + 1, t) = 0
                          ELSE nextTransitions'[t] = Reached(g, n + 1, t)
      BY <1>1 DEF PendingIsReached
    <2>2. CASE t = tid
      <3>1. nextTransitions'[t] = pos[tid] /\ pos[tid] = Reached(g, n + 1, t)
        BY <1>2, <1>4, <2>2
      <3>2. Reached(g, n + 1, t) \in Positions
        BY <1>1, ReachedStep
      <3> QED BY <3>1, <3>2, UnknownAssumption
    <2>3. CASE t # tid
      <3>1. TurnsIn(g, n + 1, t) = TurnsIn(h, n, t)
        <4>1. g[n + 1].tid # t
          BY <1>1, <2>3
        <4>2. TurnsIn(g, n + 1, t) = TurnsIn(g, n, t)
          BY <1>1, <4>1, TurnsStep
        <4> QED BY <1>1, <4>2
      <3>2. Reached(g, n + 1, t) = Reached(h, n, t)
        BY <3>1 DEF Reached
      <3>3. TurnsIn(h, n, t) = 0 => Reached(h, n, t) = START
        BY FinishType DEF Reached, START, Positions
      <3>4. START # Unknown
        BY UnknownAssumption DEF START, Positions
      <3> QED BY <1>2, <2>3, <3>1, <3>2, <3>3, <3>4 DEF Books, PendingIsReached
    <2> QED BY <2>2, <2>3
  <1>6. KnownAreAnnounced'
    <2>1. \A t \in Threads : nextTransitions[t] # Unknown => nextTransitions'[t] # Unknown
      <3>1. pos[tid] \in Positions /\ START \in Positions
        BY <1>1 DEF Baton, TypeOK, START, Positions
      <3> QED BY <1>2, <3>1, UnknownAssumption
    <2>2. nextTransitions'[Main] # Unknown
      BY <2>1, ProgramAssumption DEF Books, KnownAreAnnounced
    <2>3. ASSUME NEW u \in Threads, NEW i \in DOMAIN Program[u],
                 nextTransitions'[u] # Unknown, i <= nextTransitions'[u],
                 Program[u][i] # NoThread
          PROVE  nextTransitions'[Program[u][i]] # Unknown
      <3>1. i \in Nat /\ i > 0 /\ Program[u][i] \in Threads
        <4>1. Program[u] \in Seq((Threads \ {Main}) \cup {NoThread})
          BY ProgramAssumption
        <4> QED BY <2>3, <4>1
      <3>2. CASE nextTransitions[u] # Unknown /\ i <= nextTransitions[u]
        BY <2>1, <2>3, <3>1, <3>2 DEF Books, KnownAreAnnounced
      <3>3. CASE ~ (nextTransitions[u] # Unknown /\ i <= nextTransitions[u])
        <4>1. u = tid
          BY <1>2, <2>3, <3>1, <3>3 DEF START
        <4>2. i = pos[tid] /\ i \in Positions
          BY <1>1, <1>2, <2>3, <3>1, <3>3, <4>1, UnknownAssumption
             DEF NextPosition, Positions
        <4>3. child = Program[u][i]
          BY <4>1, <4>2 DEF Created
        <4>4. Program[u][i] # tid
          BY <4>1, ProgramAssumption
        <4> QED BY <1>2, <2>1, <3>1, <4>3, <4>4, UnknownAssumption DEF START, Positions
      <3> QED BY <3>2, <3>3
    <2> QED BY <2>2, <2>3 DEF KnownAreAnnounced
  <1>7. ReplayIsOnItsWay'
    BY <1>1, <1>2 DEF ReplayIsOnItsWay
  <1>8. PositionsAreReached'
    BY <1>1, <1>2, <1>4 DEF PositionsAreReached
  <1>9. SpawnedExist'
    <2>1. \A t \in Threads : Spawned(t)' <=> Spawned(t)
      BY <1>2 DEF Spawned
    <2>2. (\A t \in Threads :
             pc[t] = "await" <=> Spawned(t) /\ ~ Finished(transitionStack, replayed, t))'
      BY <1>2, <1>4, <2>1 DEF Finished
    <2>3. pc'[tid'] # "creating"
      BY <1>2, <1>3 DEF Quiet
    <2> QED BY <1>2, <2>2, <2>3 DEF SpawnedExist
  <1> QED BY <1>1, <1>5, <1>6, <1>7, <1>8, <1>9 DEF Books

\* Going back gives every thread the operation a run of the rest brings it to, and
\* forgets no thread.
LEMMA PendingAfterBacktrack ==
    ASSUME Baton, Books, NEW k \in 1 .. Len(transitionStack) - 1,
           reflectStateAtTransitionIndex(k), NEW t \in Threads
    PROVE  IF nextTransitions[t] = Unknown
           THEN nextTransitions'[t] = Unknown /\ TurnsIn(transitionStack', k, t) = 0
           ELSE nextTransitions'[t] = Reached(transitionStack', k, t)
  <1> DEFINE h == transitionStack
             n == Len(transitionStack)
             g == transitionStack'
             after == {i \in k + 1 .. n : h[i].tid = t}
             first == CHOOSE i \in after : \A j \in after : i <= j
  <1>1. h \in Seq(Transition) /\ n \in Nat /\ k \in 0 .. n /\ k \in Nat /\ IsRun(h)
    BY DEF Baton, TypeOK, Books
  <1>2. g = SubSeq(h, 1, k)
    BY DEF reflectStateAtTransitionIndex
  <1>3. \A i \in 1 .. k : g[i] = h[i]
    BY <1>1, <1>2, RunCut
  <1>4. nextTransitions'[t] = IF after = {} THEN nextTransitions[t] ELSE h[first].pos
    BY DEF reflectStateAtTransitionIndex
  <1>5. nextTransitions[t] = Unknown => TurnsIn(h, n, t) = 0
    BY DEF Books, PendingIsReached
  <1>6. nextTransitions[t] # Unknown => nextTransitions[t] = Reached(h, n, t)
    BY DEF Books, PendingIsReached
  <1> HIDE DEF g, first
  <1>7. CASE after = {}
    <2>1. \A i \in k + 1 .. n : h[i].tid # t
      BY <1>7
    <2>2. TurnsIn(h, n, t) = TurnsIn(g, k, t)
      BY <1>1, <1>3, <2>1, TurnsSame
    <2>3. Reached(h, n, t) = Reached(g, k, t)
      BY <2>2 DEF Reached
    <2> QED BY <1>4, <1>5, <1>6, <1>7, <2>2, <2>3 DEF g
  <1>8. CASE after # {}
    <2>1. after \in SUBSET Nat
      BY <1>1
    <2>2. first \in after /\ \A j \in after : first <= j
      BY <1>8, <2>1, LeastElement DEF first
    <2>3. /\ first \in 1 .. n /\ first - 1 \in Nat /\ first - 1 + 1 = first
          /\ k \in 0 .. first - 1 /\ first \in 0 .. n /\ h[first].tid = t
      BY <1>1, <2>2
    <2>4. \A i \in k + 1 .. first - 1 : h[i].tid # t
      BY <1>1, <2>2, <2>3
    <2>5. TurnsIn(h, first - 1, t) = TurnsIn(g, k, t)
      BY <1>3, <2>3, <2>4, TurnsSame
    <2>6. h[first].pos = TurnsIn(h, first - 1, t) /\ h[first].pos <= FINISH(t)
      BY <2>3, <1>1 DEF IsRun
    <2>7. TurnsIn(g, k, t) \in Nat /\ FINISH(t) \in Nat
      BY <1>1, TurnsType, FinishType DEF Positions
    <2>8. h[first].pos = Reached(g, k, t)
      BY <2>5, <2>6, <2>7 DEF Reached
    <2>9. TurnsIn(h, n, t) # 0
      <3>1. TurnsIn(h, first - 1 + 1, t) = TurnsIn(h, first - 1, t) + 1
        BY <2>3, TurnsStep
      <3>2. TurnsIn(h, first, t) <= TurnsIn(h, n, t)
        BY <1>1, <2>3, TurnsMonotone
      <3>3. TurnsIn(h, n, t) \in Nat
        BY <1>1, TurnsType
      <3> QED BY <2>3, <2>5, <2>7, <3>1, <3>2, <3>3
    <2> QED BY <1>4, <1>5, <1>8, <2>8, <2>9 DEF g
  <1> QED BY <1>7, <1>8

\* The scheduler goes back to a branch point.
LEMMA BooksBacktrack ==
    ASSUME Baton, Books, NEW k \in 1 .. Len(transitionStack) - 1,
           reflectStateAtTransitionIndex(k)
    PROVE  Books'
  <1>1. /\ IsRun(transitionStack) /\ transitionStack \in Seq(Transition)
        /\ k \in 0 .. Len(transitionStack) /\ k \in Nat /\ Len(transitionStack) \in Nat
    BY DEF Baton, TypeOK, Books
  <1>2. /\ transitionStack' = SubSeq(transitionStack, 1, k)
        /\ schedulerPc' = "fork" /\ ~ InTrace'
    BY DEF reflectStateAtTransitionIndex, InTrace
  <1>3. IsRun(transitionStack)' /\ Len(transitionStack') = k
    BY <1>1, <1>2, RunCut
  <1>4. PendingIsReached'
    <2>1. SUFFICES ASSUME NEW t \in Threads
                   PROVE  IF nextTransitions'[t] = Unknown
                          THEN TurnsIn(transitionStack', k, t) = 0
                          ELSE nextTransitions'[t] = Reached(transitionStack', k, t)
      BY <1>3 DEF PendingIsReached
    <2>2. Reached(transitionStack', k, t) # Unknown
      BY <1>1, ReachedStep, UnknownAssumption
    <2> QED BY <2>2, PendingAfterBacktrack
  <1>5. ASSUME NEW t \in Threads
        PROVE  /\ nextTransitions'[t] = Unknown <=> nextTransitions[t] = Unknown
               /\ nextTransitions'[t] # Unknown => nextTransitions'[t] <= nextTransitions[t]
    <2>1. /\ nextTransitions[t] = Unknown => nextTransitions'[t] = Unknown
          /\ nextTransitions[t] # Unknown =>
                nextTransitions'[t] = Reached(transitionStack', k, t)
      BY PendingAfterBacktrack
    <2>2. Reached(transitionStack', k, t) \in Positions
      BY <1>1, ReachedStep
    <2>3. nextTransitions[t] # Unknown =>
             nextTransitions[t] = Reached(transitionStack, Len(transitionStack), t)
      BY DEF Books, PendingIsReached
    <2>4. TurnsIn(transitionStack', k, t) = TurnsIn(transitionStack, k, t)
      <3>1. \A i \in 1 .. k : transitionStack'[i] = transitionStack[i]
        BY <1>1, <1>2, RunCut
      <3>2. {i \in 1 .. k : transitionStack'[i].tid = t}
              = {i \in 1 .. k : transitionStack[i].tid = t}
        BY <3>1
      <3> QED BY <3>2 DEF TurnsIn
    <2>5. TurnsIn(transitionStack, k, t) <= TurnsIn(transitionStack, Len(transitionStack), t)
      BY <1>1, TurnsMonotone
    <2>6. /\ TurnsIn(transitionStack, k, t) \in Nat /\ FINISH(t) \in Nat
          /\ TurnsIn(transitionStack, Len(transitionStack), t) \in Nat
      BY <1>1, TurnsType, FinishType DEF Positions
    <2>7. Reached(transitionStack', k, t)
             <= Reached(transitionStack, Len(transitionStack), t)
      BY <2>4, <2>5, <2>6 DEF Reached
    <2> QED BY <2>1, <2>2, <2>3, <2>7, UnknownAssumption
  <1>6. KnownAreAnnounced'
    <2>1. nextTransitions'[Main] # Unknown
      BY <1>5, ProgramAssumption DEF Books, KnownAreAnnounced
    <2>2. ASSUME NEW u \in Threads, NEW i \in DOMAIN Program[u],
                 nextTransitions'[u] # Unknown, i <= nextTransitions'[u],
                 Program[u][i] # NoThread
          PROVE  nextTransitions'[Program[u][i]] # Unknown
      <3>1. i \in Nat /\ Program[u][i] \in Threads
        <4>1. Program[u] \in Seq((Threads \ {Main}) \cup {NoThread})
          BY ProgramAssumption
        <4> QED BY <2>2, <4>1
      <3>2. nextTransitions[u] # Unknown /\ nextTransitions'[u] <= nextTransitions[u]
        BY <1>5, <2>2
      <3>3. nextTransitions[u] \in Nat /\ nextTransitions'[u] \in Nat
        <4>1. TypeOK'
          BY TypeNext DEF Next, SchedulerStep
        <4> QED BY <2>2, <3>2, <4>1 DEF Baton, TypeOK, Positions
      <3>4. i <= nextTransitions[u]
        BY <2>2, <3>1, <3>2, <3>3
      <3> QED BY <1>5, <2>2, <3>1, <3>2, <3>4 DEF Books, KnownAreAnnounced
    <2> QED BY <2>1, <2>2 DEF KnownAreAnnounced
  <1>7. ReplayIsOnItsWay' /\ PositionsAreReached' /\ SpawnedExist'
    BY <1>2 DEF ReplayIsOnItsWay, PositionsAreReached, SpawnedExist, InTrace
  <1> QED BY <1>3, <1>4, <1>6, <1>7 DEF Books

\* Between two traces nothing is booked.
LEMMA BooksBetweenTraces ==
    ASSUME Baton, Books,
           \/ mc_terminate_trace
           \/ mc_wait_for_trace
           \/ mc_stop_model_checking
           \/ sigusr1_handler_trace
    PROVE  Books'
  <1>1. UNCHANGED <<transitionStack, nextTransitions>>
    BY DEF mc_terminate_trace, mc_wait_for_trace, mc_stop_model_checking,
       sigusr1_handler_trace, schedulerVars
  <1>2. schedulerPc' \in {"waitpid", "backtrack", "done"}
    BY DEF mc_terminate_trace, mc_wait_for_trace, mc_stop_model_checking,
       sigusr1_handler_trace, schedulerVars, Baton, TraceIsReaped
  <1>3. ReplayIsOnItsWay' /\ PositionsAreReached' /\ SpawnedExist'
    BY <1>2 DEF ReplayIsOnItsWay, PositionsAreReached, SpawnedExist, InTrace
  <1> QED BY <1>1, <1>3, StackBooksKept DEF Books

\* While the scheduler waits, and only then, the trace process moves.
LEMMA StepOfTrace ==
    ASSUME Baton, Books, NEW t \in Threads, ThreadStep(t)
    PROVE  /\ schedulerPc = "wait_for_thread" /\ InTrace /\ InTrace'
           /\ UNCHANGED <<schedulerPc, tid, transitionStack, replayed, nextTransitions>>
           /\ tid \in Threads
           /\ pc[t] = "wrapper" \/ t = tid
           /\ ReplayIsOnItsWay'
           /\ \A u \in Threads : u # tid => pthreadSem[u] = 0
  <1>1. UNCHANGED <<schedulerPc, tid, transitionStack, replayed, nextTransitions>>
    BY DEF ThreadStep, mc_shared_sem_wait_for_scheduler, ReachWrapper, RegisterThread,
       ThreadIsRegistered, thread_post_visible_operation_hit, mc_shared_sem_wake_scheduler,
       schedulerVars
  <1>2. schedulerPc = "wait_for_thread"
    <2>1. (pc[t] = "await" /\ pthreadSem[t] > 0) \/ pc[t] \notin Quiet
      BY DEF ThreadStep, mc_shared_sem_wait_for_scheduler, ReachWrapper, RegisterThread,
         ThreadIsRegistered, thread_post_visible_operation_hit, mc_shared_sem_wake_scheduler,
         Quiet
    <2> QED BY <2>1 DEF Baton, SchedulerHasBaton
  <1>3. pc[t] = "wrapper" \/ t = tid
    BY <1>2 DEF ThreadStep, mc_shared_sem_wait_for_scheduler, ReachWrapper, RegisterThread,
       ThreadIsRegistered, thread_post_visible_operation_hit, mc_shared_sem_wake_scheduler,
       Quiet, Baton, OthersWait
  <1>4. ReplayIsOnItsWay'
    BY <1>1, StackBooksKept DEF Books, ReplayIsOnItsWay, InTrace
  <1>5. \A u \in Threads : u # tid => pthreadSem[u] = 0
    BY <1>2 DEF Baton, OthersWait
  <1> QED BY <1>1, <1>2, <1>3, <1>4, <1>5 DEF InTrace, Baton, TypeOK

\* A thread takes its permit and goes on to its next operation.
LEMMA BooksPermit ==
    ASSUME Baton, Books, NEW t \in Threads, mc_shared_sem_wait_for_scheduler(t)
    PROVE  Books'
  <1>1. /\ schedulerPc = "wait_for_thread" /\ InTrace /\ InTrace'
        /\ UNCHANGED <<schedulerPc, tid, transitionStack, replayed, nextTransitions>>
        /\ tid \in Threads /\ ReplayIsOnItsWay'
    BY StepOfTrace DEF ThreadStep
  <1>2. t = tid /\ pthreadSem[tid] = 1 /\ pc[tid] = "await"
    <2>1. t = tid
      BY StepOfTrace DEF ThreadStep, mc_shared_sem_wait_for_scheduler
    <2> QED BY <1>1, <2>1 DEF mc_shared_sem_wait_for_scheduler, Baton, ThreadHasBaton, TypeOK
  <1>3. ~ Taken /\ Taken'
    BY <1>1, <1>2 DEF Taken, mc_shared_sem_wait_for_scheduler, Baton, TypeOK
  <1>4. /\ IsRun(transitionStack)' /\ PendingIsReached' /\ KnownAreAnnounced'
        /\ \A n, u : Reached(transitionStack, n, u)' = Reached(transitionStack, n, u)
        /\ \A n, u : Finished(transitionStack, n, u)' <=> Finished(transitionStack, n, u)
    BY <1>1, StackBooksKept
  <1>5. /\ pos' = [pos EXCEPT ![tid] = NextPosition(tid, pos[tid])]
        /\ pc' = [pc EXCEPT ![tid] = IF pos[tid] = FINISH(tid) THEN "exit_hit" ELSE "running"]
        /\ pos[tid] \in Positions
        /\ pos \in [Threads -> Positions] /\ pc \in [Threads -> ThreadPcs]
        /\ createBinarySem' = createBinarySem
    BY <1>2 DEF mc_shared_sem_wait_for_scheduler, Baton, TypeOK
  <1>6. \A u \in Threads : pos[u] = Reached(transitionStack, replayed, u)
    BY <1>1, <1>3 DEF Books, PositionsAreReached
  <1>7. PositionsAreReached'
    BY <1>1, <1>3, <1>4, <1>5, <1>6 DEF PositionsAreReached
  <1>8. ASSUME NEW u \in Threads, u # tid, ~ Coming(u)'
        PROVE  Spawned(u)' <=> Spawned(u)
    <2>1. NextPosition(tid, pos[tid]) >= pos[tid] /\ pos[tid] \in Nat
      BY <1>5 DEF NextPosition, Positions
    <2>2. \A c \in Threads : \A i \in DOMAIN Program[c] : i \in Nat
      <3> TAKE c \in Threads
      <3>1. Program[c] \in Seq((Threads \ {Main}) \cup {NoThread})
        BY ProgramAssumption
      <3> QED BY <3>1
    <2>3. \A c \in Threads : pos[c] \in Nat /\ pos'[c] \in Nat
      BY <1>5, <2>1 DEF NextPosition, Positions
    <2>4. ASSUME Spawned(u) PROVE Spawned(u)'
      <3>1. \A c \in Threads : pos'[c] >= pos[c]
        BY <1>5, <2>1, <2>3
      <3>2. \A c \in Threads : \A i \in DOMAIN Program[c] : i <= pos[c] => i <= pos'[c]
        BY <2>2, <2>3, <3>1
      <3> QED BY <2>4, <3>2 DEF Spawned
    <2>5. ASSUME Spawned(u)', ~ Spawned(u) PROVE FALSE
      <3>1. PICK c \in Threads : \E i \in DOMAIN Program[c] : Program[c][i] = u /\ i <= pos'[c]
        BY <2>5 DEF Spawned
      <3>2. PICK i \in DOMAIN Program[c] : Program[c][i] = u /\ i <= pos'[c]
        BY <3>1
      <3>3. ~ (i <= pos[c])
        BY <2>5, <3>2 DEF Spawned
      <3>4. c = tid /\ pos[tid] # FINISH(tid) /\ i = pos[tid] + 1 /\ i = pos'[tid]
        BY <1>5, <2>2, <2>3, <3>2, <3>3 DEF NextPosition, Positions
      <3>5. Created(tid, pos'[tid]) = u
        BY <3>2, <3>4 DEF Created
      <3>6. pc'[tid] = "running"
        BY <1>5, <3>4
      <3> QED BY <1>1, <1>8, <3>5, <3>6 DEF Coming
    <2> QED BY <2>4, <2>5
  <1>9. SpawnedExist'
    <2>1. \A u \in Threads : ~ Coming(u)
      BY <1>2 DEF Coming
    <2>2. ASSUME NEW u \in Threads, u # tid, ~ Coming(u)'
          PROVE  pc'[u] = "await" <=> Spawned(u)' /\ ~ Finished(transitionStack, replayed, u)'
      BY <1>1, <1>3, <1>4, <1>5, <1>8, <2>1, <2>2 DEF Books, SpawnedExist
    <2>3. pc'[tid] \in {"exit_hit", "exit_awake", "absent"}
             <=> Reached(transitionStack, replayed, tid) = FINISH(tid)
      BY <1>5, <1>6, <1>1
    <2>4. pc'[tid] # "creating"
      BY <1>1, <1>5
    <2> QED BY <1>1, <1>3, <1>4, <2>2, <2>3, <2>4 DEF SpawnedExist
  <1> QED BY <1>1, <1>4, <1>7, <1>9 DEF Books

\* The thread that has just been created was not there before: its creator has only now
\* come to the operation.
LEMMA NewThreadIsFresh ==
    ASSUME Baton, Books, InTrace, Taken, NEW t \in Threads, Created(tid, pos[tid]) = t
    PROVE  Spawned(t) /\ ~ Finished(transitionStack, replayed, t)
  <1> DEFINE h == transitionStack
  <1>1. /\ tid \in Threads /\ pos[tid] \in Positions /\ h \in Seq(Transition) /\ IsRun(h)
        /\ replayed \in Nat /\ Len(h) \in Nat /\ replayed <= Len(h)
    BY DEF Baton, TypeOK, Books, ReplayIsOnItsWay
  <1>2. pos[tid] \in DOMAIN Program[tid] /\ Program[tid][pos[tid]] = t /\ t # Main
    BY <1>1, CreatedByProgram
  <1>3. Spawned(t)
    <2>1. pos[tid] <= pos[tid]
      BY <1>1 DEF Positions
    <2> QED BY <1>1, <1>2, <2>1 DEF Spawned
  <1>4. ASSUME Finished(h, replayed, t) PROVE FALSE
    <2>1. PICK j \in 1 .. replayed : h[j] = [tid |-> t, pos |-> FINISH(t)]
      BY <1>4 DEF Finished
    <2>2. j \in 1 .. Len(h) /\ j - 1 \in 0 .. Len(h) /\ j - 1 \in 0 .. replayed
      BY <1>1
    <2>3. CreatedIn(h, j - 1, t)
      BY <1>1, <2>1, <2>2 DEF IsRun
    <2>4. PICK u \in Threads : \E i \in DOMAIN Program[u] :
             Program[u][i] = t /\ i + 1 <= Reached(h, j - 1, u)
      BY <1>1, <1>2, <2>2, <2>3, CreatorIsPast
    <2>5. PICK i \in DOMAIN Program[u] : Program[u][i] = t /\ i + 1 <= Reached(h, j - 1, u)
      BY <2>4
    <2>6. t # NoThread
      BY ProgramAssumption
    <2>7. u = tid /\ i = pos[tid]
      BY <1>1, <1>2, <2>5, <2>6, ProgramAssumption
    <2>8. Reached(h, j - 1, tid) <= Reached(h, replayed, tid)
      <3>1. TurnsIn(h, j - 1, tid) <= TurnsIn(h, replayed, tid)
        BY <1>1, <2>2, TurnsMonotone
      <3>2. /\ TurnsIn(h, j - 1, tid) \in Nat /\ TurnsIn(h, replayed, tid) \in Nat
            /\ FINISH(tid) \in Nat
        <4>1. j - 1 \in Nat
          BY <2>2
        <4> QED BY <1>1, <4>1, TurnsType, FinishType DEF Positions
      <3> QED BY <3>1, <3>2 DEF Reached
    <2>9. pos[tid] = NextPosition(tid, Reached(h, replayed, tid))
      BY <1>1 DEF Books, PositionsAreReached
    <2>10. Reached(h, j - 1, tid) \in Nat /\ Reached(h, replayed, tid) \in Nat
      <3>1. j - 1 \in Nat
        BY <2>2
      <3> QED BY <1>1, <3>1, ReachedStep DEF Positions
    <2>11. i \in Nat
      BY <1>1, <2>7 DEF Positions
    <2> QED BY <2>5, <2>7, <2>8, <2>9, <2>10, <2>11 DEF NextPosition
  <1> QED BY <1>3, <1>4

\* A thread creates another, reports, or blocks again.
LEMMA BooksThread ==
    ASSUME Baton, Books, NEW t \in Threads,
           \/ ReachWrapper(t)
           \/ RegisterThread(t)
           \/ ThreadIsRegistered(t)
           \/ thread_post_visible_operation_hit(t)
           \/ mc_shared_sem_wake_scheduler(t)
    PROVE  Books'
  <1>1. /\ schedulerPc = "wait_for_thread" /\ InTrace /\ InTrace'
        /\ UNCHANGED <<schedulerPc, tid, transitionStack, replayed, nextTransitions>>
        /\ tid \in Threads /\ ReplayIsOnItsWay'
        /\ pc[t] = "wrapper" \/ t = tid
    BY StepOfTrace DEF ThreadStep
  <1>2. /\ IsRun(transitionStack)' /\ PendingIsReached' /\ KnownAreAnnounced'
        /\ \A n, u : Reached(transitionStack, n, u)' = Reached(transitionStack, n, u)
        /\ \A n, u : Finished(transitionStack, n, u)' <=> Finished(transitionStack, n, u)
    BY <1>1, StackBooksKept
  <1>3. UNCHANGED <<pos, pthreadSem>> /\ (Taken' <=> Taken)
    BY <1>1 DEF ReachWrapper, RegisterThread, ThreadIsRegistered,
       thread_post_visible_operation_hit, mc_shared_sem_wake_scheduler, Taken
  <1>4. PositionsAreReached'
    BY <1>1, <1>2, <1>3 DEF Books, PositionsAreReached
  <1>5. \A u : Spawned(u)' <=> Spawned(u)
    BY <1>3 DEF Spawned
  <1>6. pc[tid] \notin Quiet /\ pthreadSem[tid] = 0 /\ Taken
    <2>1. pc[tid] \notin Quiet
      BY <1>1 DEF ReachWrapper, RegisterThread, ThreadIsRegistered,
         thread_post_visible_operation_hit, mc_shared_sem_wake_scheduler, Quiet, Baton,
         OthersWait, ThreadHasBaton
    <2> QED BY <1>1, <2>1 DEF Baton, ThreadHasBaton, Taken
  <1>7. pc \in [Threads -> ThreadPcs] /\ createBinarySem \in {0, 1}
    BY <1>1 DEF Baton, TypeOK, ThreadHasBaton
  <1>8. SpawnedExist'
    <2> DEFINE Others(p) == \A u \in Threads : u # tid /\ ~ Coming(u)' =>
                  (p[u] = "await" <=> Spawned(u) /\ ~ Finished(transitionStack, replayed, u))
               Own(p) == p[tid] \in {"exit_hit", "exit_awake", "absent"}
                            <=> Reached(transitionStack, replayed, tid) = FINISH(tid)
    <2>1. SUFFICES /\ Others(pc') /\ Own(pc')
                   /\ pc'[tid] = "creating" =>
                         /\ Created(tid, pos[tid]) \in Threads
                         /\ createBinarySem' = 1 => pc'[Created(tid, pos[tid])] = "await"
      BY <1>1, <1>2, <1>3, <1>5, <1>6 DEF SpawnedExist
    <2>2. /\ \A u \in Threads : u # tid /\ ~ Coming(u) =>
                  (pc[u] = "await" <=> Spawned(u) /\ ~ Finished(transitionStack, replayed, u))
          /\ Own(pc)
          /\ pc[tid] = "creating" =>
                /\ Created(tid, pos[tid]) \in Threads
                /\ createBinarySem = 1 => pc[Created(tid, pos[tid])] = "await"
      BY <1>1, <1>6 DEF Books, SpawnedExist
    <2>3. CASE ReachWrapper(t)
      <3>1. t = tid /\ pc[tid] = "running" /\ createBinarySem = 0
        BY <1>1, <1>7, <2>3 DEF ReachWrapper, Baton, ThreadHasBaton
      <3>2. /\ Created(tid, pos[tid]) \in Threads \cup {NoThread}
            /\ Created(tid, pos[tid]) # tid
        BY <1>1, CreatedType DEF Baton, TypeOK
      <3>3. CASE Created(tid, pos[tid]) = NoThread
        <4>1. pc' = [pc EXCEPT ![tid] = "hit"]
          BY <2>3, <3>1, <3>3 DEF ReachWrapper
        <4>2. \A u \in Threads : ~ Coming(u)
          BY <3>3, ProgramAssumption DEF Coming
        <4> QED BY <1>7, <2>2, <3>1, <4>1, <4>2
      <3>4. CASE Created(tid, pos[tid]) # NoThread
        <4>1. pc' = [pc EXCEPT ![tid] = "creating", ![Created(tid, pos[tid])] = "wrapper"]
          BY <2>3, <3>1, <3>4 DEF ReachWrapper
        <4>2. createBinarySem' = 0
          BY <2>3, <3>1 DEF ReachWrapper
        <4>3. \A u \in Threads : Coming(u)' <=> Coming(u)
          BY <1>1, <1>3, <1>7, <3>1, <3>2, <3>4, <4>1 DEF Coming
        <4>4. \A u \in Threads : ~ Coming(u) => u # Created(tid, pos[tid])
          BY <3>1 DEF Coming
        <4> QED BY <1>7, <2>2, <3>1, <3>2, <3>4, <4>1, <4>2, <4>3, <4>4
      <3> QED BY <3>3, <3>4
    <2>4. CASE RegisterThread(t)
      <3>1. t # tid /\ pc[tid] = "creating" /\ Created(tid, pos[tid]) = t
        BY <1>1, <1>6, <1>7, <2>4 DEF RegisterThread, Baton, OthersWait, ThreadHasBaton, Quiet
      <3>2. pc' = [pc EXCEPT ![t] = "await"]
        BY <2>4 DEF RegisterThread
      <3>3. \A u \in Threads : Coming(u)' <=> Coming(u)
        BY <1>1, <1>3, <1>7, <3>1, <3>2 DEF Coming
      <3>4. \A u \in Threads : ~ Coming(u) => u # t
        BY <3>1 DEF Coming
      <3> QED BY <1>7, <2>2, <3>1, <3>2, <3>3, <3>4
    <2>5. CASE ThreadIsRegistered(t)
      <3>1. t = tid /\ pc[tid] = "creating" /\ createBinarySem = 1
        BY <1>1, <1>7, <2>5 DEF ThreadIsRegistered
      <3>2. pc' = [pc EXCEPT ![tid] = "hit"]
        BY <2>5, <3>1 DEF ThreadIsRegistered
      <3>3. \A u \in Threads : Coming(u) => /\ pc[u] = "await" /\ Spawned(u)
                                           /\ ~ Finished(transitionStack, replayed, u)
        BY <1>1, <1>6, <2>2, <3>1, NewThreadIsFresh DEF Coming
      <3> QED BY <1>7, <2>2, <3>1, <3>2, <3>3
    <2>6. CASE thread_post_visible_operation_hit(t) \/ mc_shared_sem_wake_scheduler(t)
      <3>1. t = tid /\ pc[tid] \in {"hit", "awake", "exit_hit", "exit_awake"}
        BY <1>1, <2>6 DEF thread_post_visible_operation_hit, mc_shared_sem_wake_scheduler
      <3>2. pc' = [pc EXCEPT ![tid] = CASE pc[tid] = "hit" -> "awake"
                                        [] pc[tid] = "exit_hit" -> "exit_awake"
                                        [] pc[tid] = "awake" -> "await"
                                        [] pc[tid] = "exit_awake" -> "absent"]
        BY <1>7, <2>6, <3>1
           DEF thread_post_visible_operation_hit, mc_shared_sem_wake_scheduler
      <3>3. \A u \in Threads : ~ Coming(u)
        BY <3>1 DEF Coming
      <3> QED BY <1>7, <2>2, <3>1, <3>2, <3>3
    <2> QED BY <2>3, <2>4, <2>5, <2>6
  <1> QED BY <1>1, <1>2, <1>4, <1>8 DEF Books

\* Every step keeps the books.
LEMMA BooksNext == Baton /\ Books /\ [Next]_vars => Books'
  <1> SUFFICES ASSUME Baton, Books, [Next]_vars PROVE Books'
    OBVIOUS
  <1>1. CASE SchedulerStep
    BY <1>1, BooksFork, BooksQuiet, BooksAnswer, BooksSimulate, BooksBacktrack,
       BooksBetweenTraces DEF SchedulerStep
  <1>2. ASSUME NEW t \in Threads, ThreadStep(t) PROVE Books'
    BY <1>2, BooksPermit, BooksThread DEF ThreadStep
  <1>3. CASE sigusr1_handler_trace
    BY <1>3, BooksBetweenTraces
  <1>4. CASE UNCHANGED vars
    <2>1. \A t : Spawned(t)' <=> Spawned(t)
      BY <1>4 DEF vars, Spawned
    <2>2. \A t : Coming(t)' <=> Coming(t)
      BY <1>4 DEF vars, Coming
    <2>3. (Taken' <=> Taken) /\ (InTrace' <=> InTrace)
      BY <1>4 DEF vars, Taken, InTrace
    <2>4. UNCHANGED <<schedulerPc, tid, transitionStack, replayed, nextTransitions, pc, pos,
                      createBinarySem>>
      BY <1>4 DEF vars
    <2>5. ReplayIsOnItsWay' /\ PositionsAreReached' /\ SpawnedExist'
      BY <2>1, <2>2, <2>3, <2>4, StackBooksKept
         DEF Books, ReplayIsOnItsWay, PositionsAreReached, SpawnedExist
    <2> QED BY <2>4, <2>5, StackBooksKept DEF Books
  <1> QED BY <1>1, <1>2, <1>3, <1>4 DEF Next, Terminated

-----------------------------------------------------------------------------
(* The theorems *)

\* The books are kept in every reachable state.
THEOREM BooksInvariant == Spec => []Books
  BY BatonInvariant, BooksInit, BooksNext, PTL DEF Spec

\* Whenever the search loop (mc_search_dpor_branch_with_thread) chooses, each thread it
\* may choose is blocked in mc_shared_sem_wait_for_scheduler, at the transition the model
\* has as its next.
THEOREM ModelMatchesTraceAlways == Spec => []ModelMatchesTrace
  <1>1. Baton /\ Books => ModelMatchesTrace
    <2> SUFFICES ASSUME Baton, Books, schedulerPc = "choose", NEW t \in Threads
                 PROVE  /\ EnabledInModel(t) => pc[t] = "await"
                        /\ pc[t] = "await" => nextTransitions[t] = pos[t]
      BY DEF ModelMatchesTrace
    <2> DEFINE h == transitionStack
               n == Len(transitionStack)
    <2>1. /\ InTrace /\ ~ Taken /\ replayed = n /\ h \in Seq(Transition) /\ n \in Nat
          /\ tid \in Threads /\ ~ Coming(t)
      BY DEF InTrace, Taken, Books, ReplayIsOnItsWay, Baton, TypeOK, SchedulerHasBaton,
         Coming, Quiet
    <2>2. pc[t] = "await" <=> Spawned(t) /\ ~ Finished(h, n, t)
      BY <2>1 DEF Books, SpawnedExist
    <2>3. pos[t] = Reached(h, n, t)
      BY <2>1 DEF Books, PositionsAreReached
    <2>4. ASSUME EnabledInModel(t) PROVE pc[t] = "await"
      <3>1. CreatedIn(h, n, t) /\ ~ Finished(h, n, t)
        BY <2>4, AliveInRun DEF EnabledInModel
      <3> QED BY <2>1, <2>2, <3>1, CreatedAreSpawned
    <2>5. ASSUME Spawned(t) PROVE nextTransitions[t] # Unknown
      <3>1. CASE t = Main
        BY <3>1 DEF Books, KnownAreAnnounced
      <3>2. CASE t # Main
        <4>1. PICK u \in Threads : \E i \in DOMAIN Program[u] : Program[u][i] = t /\ i <= pos[u]
          BY <2>5, <3>2 DEF Spawned
        <4>2. PICK i \in DOMAIN Program[u] : Program[u][i] = t /\ i <= pos[u]
          BY <4>1
        <4>3. i \in Nat /\ i > 0
          <5>1. Program[u] \in Seq((Threads \ {Main}) \cup {NoThread})
            BY ProgramAssumption
          <5> QED BY <5>1
        <4>4. pos[u] = Reached(h, n, u)
          BY <2>1 DEF Books, PositionsAreReached
        <4>5. nextTransitions[u] # Unknown
          <5>1. nextTransitions[u] = Unknown => Reached(h, n, u) = 0
            BY FinishType DEF Books, PendingIsReached, Reached, Positions
          <5> QED BY <4>2, <4>3, <4>4, <5>1
        <4>6. nextTransitions[u] = pos[u]
          BY <4>4, <4>5 DEF Books, PendingIsReached
        <4>7. t # NoThread
          BY ProgramAssumption
        <4> QED BY <4>2, <4>5, <4>6, <4>7 DEF Books, KnownAreAnnounced
      <3> QED BY <3>1, <3>2
    <2> QED BY <2>2, <2>3, <2>4, <2>5 DEF Books, PendingIsReached
  <1> QED BY <1>1, BatonInvariant, BooksInvariant, PTL

\* The replay loop of mc_fork_next_trace_at_current_state finds every thread at the operation of
\* the transition it is to repeat.
THEOREM ReplayIsFaithfulAlways == Spec => []ReplayIsFaithful
  <1>1. Baton /\ Books => ReplayIsFaithful
    <2> SUFFICES ASSUME Baton, Books, schedulerPc = "wake_thread"
                 PROVE  /\ pc[tid] = "await"
                        /\ replayed < Len(transitionStack) =>
                              pos[tid] = transitionStack[replayed + 1].pos
      BY DEF ReplayIsFaithful
    <2> DEFINE h == transitionStack
               n == replayed
    <2>1. /\ InTrace /\ ~ Taken /\ h \in Seq(Transition) /\ IsRun(h) /\ tid \in Threads
          /\ n \in Nat /\ Len(h) \in Nat /\ n <= Len(h) /\ n \in 0 .. Len(h)
          /\ ~ Coming(tid)
      BY DEF InTrace, Taken, Books, ReplayIsOnItsWay, Baton, TypeOK, SchedulerHasBaton,
         Coming, Quiet
    <2>2. pc[tid] = "await" <=> Spawned(tid) /\ ~ Finished(h, n, tid)
      BY <2>1 DEF Books, SpawnedExist
    <2>3. pos[tid] = Reached(h, n, tid)
      BY <2>1 DEF Books, PositionsAreReached
    <2>4. CASE n < Len(h)
      <3>1. h[n + 1].tid = tid /\ n + 1 \in 1 .. Len(h) /\ n + 1 - 1 = n
        BY <2>1, <2>4 DEF Books, ReplayIsOnItsWay
      <3>2. /\ h[n + 1].pos = TurnsIn(h, n, tid) /\ h[n + 1].pos <= FINISH(tid)
            /\ CreatedIn(h, n, tid)
        BY <2>1, <3>1 DEF IsRun
      <3>3. TurnsIn(h, n, tid) \in Nat /\ FINISH(tid) \in Nat
        BY <2>1, TurnsType, FinishType DEF Positions
      <3>4. ~ Finished(h, n, tid) /\ Reached(h, n, tid) = TurnsIn(h, n, tid)
        BY <2>1, <3>2, <3>3, FinishedByTurns DEF Reached
      <3> QED BY <2>1, <2>2, <2>3, <3>2, <3>4, CreatedAreSpawned
    <2>5. CASE ~ (n < Len(h))
      <3>1. n = Len(h) /\ EnabledInModel(tid)
        BY <2>1, <2>5 DEF Books, ReplayIsOnItsWay
      <3>2. CreatedIn(h, n, tid) /\ ~ Finished(h, n, tid)
        BY <2>1, <3>1, AliveInRun DEF EnabledInModel
      <3> QED BY <2>1, <2>2, <2>5, <3>2, CreatedAreSpawned
    <2> QED BY <2>4, <2>5
  <1> QED BY <1>1, BatonInvariant, BooksInvariant, PTL

-----------------------------------------------------------------------------
(* The refinement *)

\* Turns of a whole stack.
LEMMA TurnsAreTurnsIn ==
    ASSUME NEW h \in Seq(Transition), NEW t
    PROVE  Turns(h, t) = TurnsIn(h, Len(h), t)
  <1>1. DOMAIN h = 1 .. Len(h)
    OBVIOUS
  <1> QED BY <1>1 DEF Turns, TurnsIn

\* The sequential trace has the operators of TraceProgram under names of its own.
LEMMA SameProgram ==
    /\ Abstract!START = START
    /\ \A t : Abstract!FINISH(t) = FINISH(t)
    /\ \A h, t : Abstract!Turns(h, t) = Turns(h, t)
    /\ \A h, t : Abstract!Alive(h, t) = Alive(h, t)
    /\ \A t, p : Abstract!NextPosition(t, p) = NextPosition(t, p)
    /\ \A t, p : Abstract!Created(t, p) = Created(t, p)
  <1>1. Abstract!START = START
    BY DEF Abstract!START, START
  <1>2. \A t : Abstract!FINISH(t) = FINISH(t)
    BY DEF Abstract!FINISH, FINISH
  <1>3. \A h, t : Abstract!Turns(h, t) = Turns(h, t)
    BY DEF Abstract!Turns, Turns, Abstract!Cardinality, Cardinality
  <1>4. \A t, p : Abstract!Created(t, p) = Created(t, p)
    BY DEF Abstract!Created, Created
  <1>5. \A h, t : Abstract!Alive(h, t) = Alive(h, t)
    BY <1>2, <1>4 DEF Abstract!Alive, Alive
  <1>6. \A t, p : Abstract!NextPosition(t, p) = NextPosition(t, p)
    BY <1>2 DEF Abstract!NextPosition, NextPosition
  <1> QED BY <1>1, <1>2, <1>3, <1>4, <1>5, <1>6

\* Every step of the two processes is one of the sequential trace, or none.
LEMMA StepIsAbstract ==
    Baton /\ Books /\ [Next]_vars => [Abstract!Next]_Abstract!vars
  <1> SUFFICES ASSUME Baton, Books, [Next]_vars
               PROVE  Abstract!Next \/ UNCHANGED <<transitionStack, nextTransitions>>
    BY DEF Abstract!vars
  <1>1. CASE simulateRunningTransition
    <2>1. /\ tid \in Threads /\ EnabledInModel(tid)
          /\ shmTransition = [executor |-> tid, pos |-> pos[tid]]
          /\ pos[tid] = NextPosition(tid, nextTransitions[tid])
      BY <1>1, SimulatedTransition
    <2>2. Abstract!Run(tid)
      BY <1>1, <2>1, SameProgram DEF simulateRunningTransition, EnabledInModel, Abstract!Run
    <2> QED BY <2>1, <2>2 DEF Abstract!Next
  <1>2. ASSUME NEW k \in 1 .. Len(transitionStack) - 1, reflectStateAtTransitionIndex(k)
        PROVE  Abstract!Next
    <2>1. /\ transitionStack \in Seq(Transition) /\ k \in 0 .. Len(transitionStack)
          /\ IsRun(transitionStack)
      BY DEF Baton, TypeOK, Books
    <2>2. transitionStack' = SubSeq(transitionStack, 1, k)
      BY <1>2 DEF reflectStateAtTransitionIndex
    <2>3. transitionStack' \in Seq(Transition) /\ Len(transitionStack') = k
      BY <2>1, <2>2, RunCut
    <2>4. \A t \in Threads : Turns(transitionStack', t) = TurnsIn(transitionStack', k, t)
      BY <2>3, TurnsAreTurnsIn
    <2>5. \A t \in Threads :
             nextTransitions'[t] =
                IF nextTransitions[t] = Unknown THEN Unknown
                ELSE IF Turns(transitionStack', t) > FINISH(t) THEN FINISH(t)
                ELSE Turns(transitionStack', t)
      BY <1>2, <2>4, PendingAfterBacktrack DEF Reached
    <2>6. nextTransitions' = [t \in Threads |-> nextTransitions'[t]]
      BY <1>2 DEF reflectStateAtTransitionIndex
    <2>7. nextTransitions' = [t \in Threads |->
             IF nextTransitions[t] = Unknown THEN Unknown
             ELSE IF Turns(transitionStack', t) > FINISH(t) THEN FINISH(t)
             ELSE Turns(transitionStack', t)]
      BY <2>5, <2>6
    <2>8. Abstract!Backtrack(k)
      BY <2>2, <2>7, SameProgram DEF Abstract!Backtrack
    <2> QED BY <2>8 DEF Abstract!Next
  <1>3. CASE /\ ~ simulateRunningTransition
             /\ \A k \in 1 .. Len(transitionStack) - 1 : ~ reflectStateAtTransitionIndex(k)
    BY <1>3 DEF Next, vars, SchedulerStep, ThreadStep, Terminated, sigusr1_handler_trace,
       schedulerVars, mc_fork_new_trace, ReplayNext, ChooseNext, mc_shared_sem_wake_thread,
       mc_shared_sem_wait_for_thread, mc_terminate_trace, mc_wait_for_trace,
       mc_stop_model_checking, mc_shared_sem_wait_for_scheduler, ReachWrapper, RegisterThread,
       ThreadIsRegistered, thread_post_visible_operation_hit, mc_shared_sem_wake_scheduler
  <1> QED BY <1>1, <1>2, <1>3

\* The scheduler and the trace process, whatever their interleaving, kills, replays and
\* backtracks, are the sequential trace the search is written against.
THEOREM SequentialTraceImplemented == Spec => ImplementsSequentialTrace
  <1>1. Init => Abstract!Init
    BY SameProgram DEF Init, Abstract!Init
  <1> QED BY <1>1, StepIsAbstract, BatonInvariant, BooksInvariant, PTL
       DEF Spec, ImplementsSequentialTrace, Abstract!Spec
====
