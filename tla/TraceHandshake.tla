---- MODULE TraceHandshake ----
(***************************************************************************)
(* The two processes of McMini.  The scheduler process never runs the      *)
(* program: it forks a trace process and lets one thread of it run to its  *)
(* next visible operation at a time, through a pair of semaphores per      *)
(* thread (trace_sleep_list) and one mailbox for all threads               *)
(* (shmTransitionTypeInfo / shmTransitionData).  To explore another        *)
(* interleaving it kills the trace, cuts its transition stack back to a    *)
(* branch point, forks a fresh trace and replays what is left of the stack.*)
(*                                                                         *)
(* Which enabled thread runs and where the scheduler backtracks to is a    *)
(* free choice here (DporSearch models it).                                *)
(***************************************************************************)
EXTENDS TraceProgram

CONSTANT Unknown    \* the pending transition of a thread the scheduler has not heard of

ASSUME UnknownAssumption == Unknown \notin Positions

VARIABLES
    \* The scheduler process
    schedulerPc,        \* where the search loop is
    tid,                \* the thread the scheduler is running
    transitionStack,    \* MCStack::transitionStack[0 .. transitionStackTop]
    replayed,           \* how much of transitionStack the trace process has run
    nextTransitions,    \* MCStack::nextTransitions, Unknown for an unregistered thread
    \* Shared memory
    dporSchedulerSem,   \* mc_shared_sem::dpor_scheduler_sem of each thread
    pthreadSem,         \* mc_shared_sem::pthread_sem of each thread
    shmTransition,      \* the mailbox: who wrote it, and the operation it announces
    \* The trace process
    killed,             \* SIGUSR1 was sent to the trace process, which has not exited yet
    pc,                 \* where each thread of the trace process is
    pos,                \* the operation each thread has reached
    createBinarySem     \* mc_pthread_create_binary_sem

schedulerVars == <<schedulerPc, tid, transitionStack, replayed, nextTransitions>>
traceVars == <<killed, pc, pos, createBinarySem>>
vars == <<schedulerPc, tid, transitionStack, replayed, nextTransitions,
          dporSchedulerSem, pthreadSem, shmTransition,
          killed, pc, pos, createBinarySem>>

SchedulerPcs == {"fork", "replay", "choose", "wake_thread", "wait_for_thread",
                 "simulate", "waitpid", "backtrack", "done"}

\*  absent     no such thread in this process (yet, any more)
\*  wrapper    created, has not registered itself yet
\*  await      in mc_shared_sem_wait_for_scheduler
\*  running    running the code of the program
\*  creating   in pthread_create, waiting for the new thread to register
\*  hit        about to write the mailbox
\*  awake      about to post dpor_scheduler_sem
\*  exit_hit, exit_awake      the same, after its MCThreadFinish was run
ThreadPcs == {"absent", "wrapper", "await", "running", "creating", "hit",
              "awake", "exit_hit", "exit_awake"}

-----------------------------------------------------------------------------

Init ==
    /\ schedulerPc = "fork"
    /\ tid = Main
    /\ transitionStack = << >>
    /\ replayed = 0
    /\ nextTransitions = [t \in Threads |-> IF t = Main THEN START ELSE Unknown]
    /\ dporSchedulerSem = [t \in Threads |-> 0]
    /\ pthreadSem = [t \in Threads |-> 0]
    /\ shmTransition = [executor |-> Main, pos |-> START]
    /\ killed = FALSE
    /\ pc = [t \in Threads |-> "absent"]
    /\ pos = [t \in Threads |-> START]
    /\ createBinarySem = 0

-----------------------------------------------------------------------------
(* The scheduler process *)

\* Reset the semaphores and fork: the trace process has only its main thread,
\* which waits for its start.
mc_fork_new_trace ==
    /\ schedulerPc = "fork"
    /\ dporSchedulerSem' = [t \in Threads |-> 0]
    /\ pthreadSem' = [t \in Threads |-> 0]
    /\ killed' = FALSE
    /\ pc' = [t \in Threads |-> IF t = Main THEN "await" ELSE "absent"]
    /\ pos' = [t \in Threads |-> START]
    /\ createBinarySem' = 0
    /\ replayed' = 0
    /\ schedulerPc' = "replay"
    /\ UNCHANGED <<tid, transitionStack, nextTransitions, shmTransition>>

\* Mutant: the replay loop starts at 1.
SkipsFirst ==
    /\ schedulerPc = "replay"
    /\ LET next == IF replayed = 0 THEN 1 ELSE replayed
       IN  IF next < Len(transitionStack)
           THEN /\ tid' = transitionStack[next + 1].tid
                /\ replayed' = next
                /\ schedulerPc' = "wake_thread"
           ELSE schedulerPc' = "choose" /\ UNCHANGED <<tid, replayed>>
    /\ UNCHANGED <<transitionStack, nextTransitions, dporSchedulerSem,
                   pthreadSem, shmTransition, killed, pc, pos, createBinarySem>>

\* The replay loop runs the thread of each remaining transition, in order.
ReplayNext ==
    /\ schedulerPc = "replay"
    /\ IF replayed < Len(transitionStack)
       THEN /\ tid' = transitionStack[replayed + 1].tid
            /\ schedulerPc' = "wake_thread"
       ELSE /\ schedulerPc' = "choose"
            /\ UNCHANGED tid
    /\ UNCHANGED <<transitionStack, replayed, nextTransitions, dporSchedulerSem,
                   pthreadSem, shmTransition, killed, pc, pos, createBinarySem>>

\* The thread is alive in the scheduler's model and its pending transition is
\* not the main thread's exit.  An operation that blocks (a held mutex...) is
\* disabled in more states; that only removes choices.
EnabledInModel(t) ==
    /\ nextTransitions[t] # Unknown
    /\ Alive(transitionStack, t)
    /\ ~ (t = Main /\ nextTransitions[t] = FINISH(Main))

ChooseNext(t) ==
    /\ schedulerPc = "choose"
    /\ EnabledInModel(t)
    /\ tid' = t
    /\ schedulerPc' = "wake_thread"
    /\ UNCHANGED <<transitionStack, replayed, nextTransitions, dporSchedulerSem,
                   pthreadSem, shmTransition, killed, pc, pos, createBinarySem>>

\* Mutant: the scheduler goes on without waiting for the thread.
WakeWithoutWaiting ==
    /\ schedulerPc = "wake_thread"
    /\ pthreadSem' = [pthreadSem EXCEPT ![tid] = @ + 1]
    /\ schedulerPc' = "choose"
    /\ UNCHANGED <<tid, transitionStack, replayed, nextTransitions,
                   dporSchedulerSem, shmTransition, killed, pc, pos, createBinarySem>>

\* First half of mc_run_thread_to_next_visible_operation: V(pthread_sem).
mc_shared_sem_wake_thread ==
    /\ schedulerPc = "wake_thread"
    /\ pthreadSem' = [pthreadSem EXCEPT ![tid] = @ + 1]
    /\ schedulerPc' = "wait_for_thread"
    /\ UNCHANGED <<tid, transitionStack, replayed, nextTransitions,
                   dporSchedulerSem, shmTransition, killed, pc, pos, createBinarySem>>

\* Mutant: the wait does not block.
DoesNotBlock ==
    /\ schedulerPc = "wait_for_thread"
    /\ dporSchedulerSem' = [dporSchedulerSem EXCEPT ![tid] = @ - 1]
    /\ IF replayed < Len(transitionStack)
       THEN replayed' = replayed + 1 /\ schedulerPc' = "replay"
       ELSE schedulerPc' = "simulate" /\ UNCHANGED replayed
    /\ UNCHANGED <<tid, transitionStack, nextTransitions, pthreadSem,
                   shmTransition, killed, pc, pos, createBinarySem>>

\* Mutant: the replay loop does not advance.
NoReplayProgress ==
    /\ schedulerPc = "wait_for_thread"
    /\ dporSchedulerSem[tid] > 0
    /\ dporSchedulerSem' = [dporSchedulerSem EXCEPT ![tid] = @ - 1]
    /\ schedulerPc' = IF replayed < Len(transitionStack) THEN "replay" ELSE "simulate"
    /\ UNCHANGED <<tid, transitionStack, replayed, nextTransitions, pthreadSem,
                   shmTransition, killed, pc, pos, createBinarySem>>

\* Second half: P(dpor_scheduler_sem).  The replay loop ignores what the thread
\* announced; the search loop goes on to simulate the transition.
mc_shared_sem_wait_for_thread ==
    /\ schedulerPc = "wait_for_thread"
    /\ dporSchedulerSem[tid] > 0
    /\ dporSchedulerSem' = [dporSchedulerSem EXCEPT ![tid] = @ - 1]
    /\ IF replayed < Len(transitionStack)
       THEN replayed' = replayed + 1 /\ schedulerPc' = "replay"
       ELSE schedulerPc' = "simulate" /\ UNCHANGED replayed
    /\ UNCHANGED <<tid, transitionStack, nextTransitions, pthreadSem,
                   shmTransition, killed, pc, pos, createBinarySem>>

\* Mutant: the transition is pushed after the mailbox was decoded.
DecodesBeforePushing ==
    LET child == Created(shmTransition.executor, shmTransition.pos)
    IN  /\ schedulerPc = "simulate"
        /\ nextTransitions' = [t \in Threads |->
              IF t = tid THEN shmTransition.pos
              ELSE IF t = child /\ nextTransitions[t] = Unknown THEN START
              ELSE nextTransitions[t]]
        /\ transitionStack' = Append(transitionStack,
                                     [tid |-> tid, pos |-> nextTransitions'[tid]])
        /\ replayed' = replayed + 1
        /\ schedulerPc' = "choose"
        /\ UNCHANGED <<tid, dporSchedulerSem, pthreadSem, shmTransition,
                       killed, pc, pos, createBinarySem>>

\* Push the transition and decode the mailbox into the thread's next one.  A
\* MCThreadCreate of a thread never seen before registers it, at its start.
simulateRunningTransition ==
    LET child == Created(shmTransition.executor, shmTransition.pos)
    IN  /\ schedulerPc = "simulate"
        /\ transitionStack' = Append(transitionStack,
                                     [tid |-> tid, pos |-> nextTransitions[tid]])
        /\ nextTransitions' = [t \in Threads |->
              IF t = tid THEN shmTransition.pos
              ELSE IF t = child /\ nextTransitions[t] = Unknown THEN START
              ELSE nextTransitions[t]]
        /\ replayed' = replayed + 1
        /\ schedulerPc' = "choose"
        /\ UNCHANGED <<tid, dporSchedulerSem, pthreadSem, shmTransition,
                       killed, pc, pos, createBinarySem>>

\* End of a trace: SIGUSR1, then waitpid, which returns when the process is gone.
mc_terminate_trace ==
    /\ schedulerPc = "choose"
    /\ killed' = TRUE
    /\ schedulerPc' = "waitpid"
    /\ UNCHANGED <<tid, transitionStack, replayed, nextTransitions,
                   dporSchedulerSem, pthreadSem, shmTransition, pc, pos, createBinarySem>>

\* Mutant: the scheduler does not wait for the trace process to exit.
NoWaitpid ==
    /\ schedulerPc = "waitpid"
    /\ schedulerPc' = "backtrack"
    /\ UNCHANGED <<tid, transitionStack, replayed, nextTransitions,
                   dporSchedulerSem, pthreadSem, shmTransition, killed, pc, pos,
                   createBinarySem>>

mc_wait_for_trace ==
    /\ schedulerPc = "waitpid"
    /\ ~ killed
    /\ schedulerPc' = "backtrack"
    /\ UNCHANGED <<tid, transitionStack, replayed, nextTransitions,
                   dporSchedulerSem, pthreadSem, shmTransition, killed, pc, pos,
                   createBinarySem>>

\* Mutant: a thread's last abandoned transition instead of its first.
LastInsteadOfFirst(k) ==
    /\ schedulerPc = "backtrack"
    /\ transitionStack' = SubSeq(transitionStack, 1, k)
    /\ nextTransitions' = [t \in Threads |->
          LET after == {i \in k + 1 .. Len(transitionStack) : transitionStack[i].tid = t}
          IN  IF after = {} THEN nextTransitions[t]
              ELSE transitionStack[CHOOSE i \in after : \A j \in after : i >= j].pos]
    /\ schedulerPc' = "fork"
    /\ UNCHANGED <<tid, replayed, dporSchedulerSem, pthreadSem, shmTransition,
                   killed, pc, pos, createBinarySem>>

\* Go back to the state after the first k transitions.  The pending transition of
\* a thread is the one it ran first after that point; a thread that did not run
\* since keeps the one it has.
reflectStateAtTransitionIndex(k) ==
    /\ schedulerPc = "backtrack"
    /\ transitionStack' = SubSeq(transitionStack, 1, k)
    /\ nextTransitions' = [t \in Threads |->
          LET after == {i \in k + 1 .. Len(transitionStack) : transitionStack[i].tid = t}
          IN  IF after = {} THEN nextTransitions[t]
              ELSE transitionStack[CHOOSE i \in after : \A j \in after : i <= j].pos]
    /\ schedulerPc' = "fork"
    /\ UNCHANGED <<tid, replayed, dporSchedulerSem, pthreadSem, shmTransition,
                   killed, pc, pos, createBinarySem>>

\* No branch point is left.
mc_stop_model_checking ==
    /\ schedulerPc = "backtrack"
    /\ schedulerPc' = "done"
    /\ UNCHANGED <<tid, transitionStack, replayed, nextTransitions,
                   dporSchedulerSem, pthreadSem, shmTransition, killed, pc, pos,
                   createBinarySem>>

-----------------------------------------------------------------------------
(* The trace process *)

\* Mutant: the thread looks at the semaphore and does not take the permit.
PermitIsKept(t) ==
    /\ pc[t] = "await"
    /\ pthreadSem[t] > 0
    /\ pc' = [pc EXCEPT ![t] = IF pos[t] = FINISH(t) THEN "exit_hit" ELSE "running"]
    /\ pos' = [pos EXCEPT ![t] = NextPosition(t, @)]
    /\ UNCHANGED <<schedulerVars, dporSchedulerSem, pthreadSem, shmTransition, killed,
                   createBinarySem>>

\* P(pthread_sem): the scheduler lets t execute the operation it is blocked at.
\* After MCThreadFinish the thread only has to take its leave.
mc_shared_sem_wait_for_scheduler(t) ==
    /\ pc[t] = "await"
    /\ pthreadSem[t] > 0
    /\ pthreadSem' = [pthreadSem EXCEPT ![t] = @ - 1]
    /\ pc' = [pc EXCEPT ![t] = IF pos[t] = FINISH(t) THEN "exit_hit" ELSE "running"]
    /\ pos' = [pos EXCEPT ![t] = NextPosition(t, @)]
    /\ UNCHANGED <<schedulerVars, dporSchedulerSem, shmTransition, killed, createBinarySem>>

\* The thread arrives at the wrapper of its next operation.  pthread_create
\* creates the real thread first, and waits until it has registered itself.
ReachWrapper(t) ==
    /\ pc[t] = "running"
    /\ LET child == Created(t, pos[t])
       IN  pc' = IF child = NoThread
                 THEN [pc EXCEPT ![t] = "hit"]
                 ELSE [pc EXCEPT ![t] = "creating", ![child] = "wrapper"]
    /\ UNCHANGED <<schedulerVars, dporSchedulerSem, pthreadSem, shmTransition,
                   killed, pos, createBinarySem>>

\* A new thread takes its tid, lets its creator go on and waits for its start.
RegisterThread(t) ==
    /\ pc[t] = "wrapper"
    /\ createBinarySem' = createBinarySem + 1
    /\ pc' = [pc EXCEPT ![t] = "await"]
    /\ UNCHANGED <<schedulerVars, dporSchedulerSem, pthreadSem, shmTransition,
                   killed, pos>>

ThreadIsRegistered(t) ==
    /\ pc[t] = "creating"
    /\ createBinarySem > 0
    /\ createBinarySem' = createBinarySem - 1
    /\ pc' = [pc EXCEPT ![t] = "hit"]
    /\ UNCHANGED <<schedulerVars, dporSchedulerSem, pthreadSem, shmTransition,
                   killed, pos>>

\* Mutant: the thread leaves without writing the mailbox.
ExitIsNotAnnounced(t) ==
    /\ pc[t] \in {"hit", "exit_hit"}
    /\ shmTransition' = IF pc[t] = "hit" THEN [executor |-> t, pos |-> pos[t]]
                        ELSE shmTransition
    /\ pc' = [pc EXCEPT ![t] = IF @ = "hit" THEN "awake" ELSE "exit_awake"]
    /\ UNCHANGED <<schedulerVars, dporSchedulerSem, pthreadSem, killed, pos,
                   createBinarySem>>

\* Announce the operation in the mailbox.
thread_post_visible_operation_hit(t) ==
    /\ pc[t] \in {"hit", "exit_hit"}
    /\ shmTransition' = [executor |-> t, pos |-> pos[t]]
    /\ pc' = [pc EXCEPT ![t] = IF @ = "hit" THEN "awake" ELSE "exit_awake"]
    /\ UNCHANGED <<schedulerVars, dporSchedulerSem, pthreadSem, killed, pos,
                   createBinarySem>>

\* V(dpor_scheduler_sem); then block at the operation, or leave for good.
mc_shared_sem_wake_scheduler(t) ==
    /\ pc[t] \in {"awake", "exit_awake"}
    /\ dporSchedulerSem' = [dporSchedulerSem EXCEPT ![t] = @ + 1]
    /\ pc' = [pc EXCEPT ![t] = IF @ = "awake" THEN "await" ELSE "absent"]
    /\ UNCHANGED <<schedulerVars, pthreadSem, shmTransition, killed, pos,
                   createBinarySem>>

\* The SIGUSR1 handler of the trace process: _exit, all threads at once.
sigusr1_handler_trace ==
    /\ killed
    /\ pc' = [t \in Threads |-> "absent"]
    /\ killed' = FALSE
    /\ UNCHANGED <<schedulerVars, dporSchedulerSem, pthreadSem, shmTransition,
                   pos, createBinarySem>>

-----------------------------------------------------------------------------

SchedulerStep ==
    \/ mc_fork_new_trace
    \/ ReplayNext
    \/ \E t \in Threads : ChooseNext(t)
    \/ mc_shared_sem_wake_thread
    \/ mc_shared_sem_wait_for_thread
    \/ simulateRunningTransition
    \/ mc_terminate_trace
    \/ mc_wait_for_trace
    \/ \E k \in 1 .. Len(transitionStack) - 1 : reflectStateAtTransitionIndex(k)
    \/ mc_stop_model_checking

ThreadStep(t) ==
    \/ mc_shared_sem_wait_for_scheduler(t)
    \/ ReachWrapper(t)
    \/ RegisterThread(t)
    \/ ThreadIsRegistered(t)
    \/ thread_post_visible_operation_hit(t)
    \/ mc_shared_sem_wake_scheduler(t)

\* McMini has exited.
Terminated == schedulerPc = "done" /\ UNCHANGED vars

Next ==
    \/ SchedulerStep
    \/ \E t \in Threads : ThreadStep(t)
    \/ sigusr1_handler_trace
    \/ Terminated

Spec == Init /\ [][Next]_vars

\* The kernel runs both processes and every runnable thread, and a thread that
\* runs reaches its next visible operation.
FairSpec ==
    /\ Spec
    /\ WF_vars(SchedulerStep)
    /\ \A t \in Threads : WF_vars(ThreadStep(t))
    /\ WF_vars(sigusr1_handler_trace)

-----------------------------------------------------------------------------
(* Properties *)

Quiet == {"absent", "await"}

TypeOK ==
    /\ schedulerPc \in SchedulerPcs
    /\ tid \in Threads
    /\ transitionStack \in Seq(Transition)
    /\ replayed \in Nat
    /\ nextTransitions \in [Threads -> Positions \cup {Unknown}]
    /\ dporSchedulerSem \in [Threads -> Nat]
    /\ pthreadSem \in [Threads -> Nat]
    /\ shmTransition \in [executor : Threads, pos : Positions]
    /\ killed \in BOOLEAN
    /\ pc \in [Threads -> ThreadPcs]
    /\ pos \in [Threads -> Positions]
    /\ createBinarySem \in Nat

\* A thread of the program executes, or is about to report back, only while the
\* scheduler waits for that very thread.  With two threads out at once the trace
\* would not be the interleaving the transition stack says it is.
OneThreadRuns ==
    \A t \in Threads :
        /\ pc[t] \notin Quiet \cup {"wrapper"} =>
              schedulerPc = "wait_for_thread" /\ tid = t
        /\ pc[t] = "wrapper" =>
              pc[tid] = "creating" /\ Created(tid, pos[tid]) = t

\* The baton.  While the scheduler waits for a thread, exactly one of three things
\* holds: the thread has an unused permit, it is out running, or its answer is there.
\* At any other time no semaphore of the table is posted, so no permit of an
\* earlier round (or of an earlier trace) can let a thread go twice.
PermitsAreNotKept ==
    \A t \in Threads :
        /\ pthreadSem[t] + dporSchedulerSem[t] <= 1
        /\ pthreadSem[t] + dporSchedulerSem[t] = 1 =>
              /\ schedulerPc = "wait_for_thread"
              /\ tid = t
              /\ pc[t] \in Quiet

\* What the scheduler decodes was written by the thread it has just run, about
\* the operation that thread is blocked at: one mailbox serves every thread and
\* is never cleared.
MailboxIsFresh ==
    schedulerPc = "simulate" => shmTransition = [executor |-> tid, pos |-> pos[tid]]

\* Whenever the scheduler chooses, its model and the real process agree: a thread
\* it may run is blocked at exactly the operation it believes pending.  This must
\* hold again after a branch is abandoned and the rest of the stack replayed.
ModelMatchesTrace ==
    schedulerPc = "choose" =>
        \A t \in Threads :
            /\ EnabledInModel(t) => pc[t] = "await"
            /\ pc[t] = "await" => nextTransitions[t] = pos[t]

\* A replay repeats the recorded run: the thread the replay loop is about to wake
\* exists in the new process and is blocked at the operation that the recorded
\* transition executed.
ReplayIsFaithful ==
    schedulerPc = "wake_thread" =>
        /\ pc[tid] = "await"
        /\ replayed < Len(transitionStack) =>
              pos[tid] = transitionStack[replayed + 1].pos

\* "Ensure that a child does not already exist to prevent fork bombing": no thread
\* of an earlier trace is left, and nothing it wrote can reach the next one.
NoTraceLeftBehind ==
    schedulerPc \in {"fork", "backtrack", "done"} =>
        /\ \A t \in Threads : pc[t] = "absent"
        /\ ~ killed

\* The scheduler never waits for ever.  A thread that it lets go comes back with an
\* answer, and after every backtrack the replay of the whole remaining stack runs to
\* its end: the scheduler gets to choose again.
EveryWaitEnds == schedulerPc \in {"fork", "wake_thread"} ~> schedulerPc = "choose"

\* The two processes implement the sequential trace the search is written against.
Abstract == INSTANCE SequentialTrace WITH
    history <- transitionStack,
    pending <- nextTransitions

ImplementsSequentialTrace == Abstract!Spec
====
