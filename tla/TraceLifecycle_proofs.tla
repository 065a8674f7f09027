---- MODULE TraceLifecycle_proofs ----
(***************************************************************************)
(* Whatever signals, crashes and restarts come in between, for any bound   *)
(* on the search: the scheduler has at most one trace, the two are in step *)
(* whenever the scheduler acts on what the trace told it, and no trace is  *)
(* left behind.                                                            *)
(***************************************************************************)
EXTENDS TraceLifecycle, TLAPS

-----------------------------------------------------------------------------
(* The inductive invariant *)

\* The scheduler is on its way out: nothing that stops it is taken back.
Leaving ==
    \/ pc \in {"stop", "exit", "exited"}
    \/ pc \in {"terminate", "waitpid", "clear"} /\ ret = "exit"

\* The scheduler is ending a trace to go on with another one.
Ending(next) == pc \in {"terminate", "waitpid", "clear"} /\ ret = next

\* The scheduler runs the operations of a trace, or is about to.
Exploring ==
    \/ pc \in {"replay", "post", "wait", "blocked", "decode", "choose"}
    \/ pc = "loop" /\ ret = "post"

\* A trace that has not replaced the handlers of the scheduler yet.
Young == {"forked", "armed", "bare"}

\* Where mc_terminate_trace was called from, and that the loop has an iteration to end.
Control ==
    /\ pc \in {"terminate", "waitpid", "clear"} => ret \in {"next", "fork", "exit"}
    /\ pc = "loop" => ret \in {"next", "post"}
    /\ pc \in {"fork", "forked", "next"} \/ Ending("fork") => ~ mcReset
    /\ masked # {} => Leaving
    /\ region = "unlinked" => Leaving
    /\ traceId >= 1 => ~ mcReset

\* There is room on the stack for the transition that the scheduler is about to run,
\* and the replay of a new trace starts at the first one.
Room ==
    /\ replayed <= depth
    /\ (\/ pc \in {"fork", "forked", "replay", "wait", "blocked", "post", "decode"}
        \/ pc = "loop" /\ ret = "post"
        \/ Ending("fork"))
           => depth < MaxOps
    /\ pc \in {"fork", "forked"} \/ Ending("fork") => replayed = 0
    /\ pc \in {"post", "decode", "choose"} \/ (pc = "loop" /\ ret = "post") => replayed = depth

\* Traces come one after the other, and the last one is the only one that may run.
InOrder ==
    /\ \A i \in Traces : i < forks => proc[i] = "reaped"
    /\ \A i \in Traces : i > forks =>
          proc[i] = "none" /\ cause[i] = "none" /\ sig[i] = {} /\ ran[i] = 0
    /\ forks # 0 => proc[forks] # "none"
    /\ forks # 0 => (cause[forks] = "none" <=> proc[forks] \in Living)

\* trace_pid names the last trace, or the trace is gone, or the scheduler was
\* interrupted between fork and the assignment.
TracePid ==
    /\ tracePid \in {NoTrace, forks}
    /\ Exploring \/ pc \in {"waitpid", "clear"} \/ (pc = "terminate" /\ ret = "next") => tracePid # NoTrace
    /\ pc = "clear" => proc[forks] = "reaped"
    /\ pc \in {"fork", "forked", "next"} => tracePid = NoTrace
    /\ pc = "forked" => forks # 0
    /\ pc = "loop" /\ ret = "next" /\ ~ mcReset => tracePid = NoTrace
    /\ tracePid = NoTrace /\ forks # 0 /\ ~ Leaving /\ pc # "forked" => proc[forks] = "reaped"

\* A SIGCHLD that was not handled yet is about the last trace, which is not running.
ChildSignal ==
    chld # "none" => /\ forks # 0
                     /\ chld = cause[forks]
                     /\ proc[forks] \in {"zombie", "reaped"}

\* A trace that still has the scheduler's handlers has not answered: the scheduler waits
\* for it or is about to end it ('-t'), unless both got a ^C.
YoungTrace ==
    pc # "exited" /\ forks # 0 /\ proc[forks] \in Young =>
        /\ answer = 0
        /\ \/ sig[forks] # {}
           \/ pc \in {"forked", "replay", "wait", "blocked"} /\ replayed = 0
           \/ /\ (pc = "stop" /\ region = "mapped") \/ (pc = "terminate" /\ ret = "exit")
              /\ tracePid # NoTrace /\ traceId >= 1
        /\ "SIGINT" \in pending => sig[forks] # {}

\* What may still happen.
AlarmIsAnEvent ==
    /\ events \subseteq Events
    /\ "SIGALRM" \in pending => "alarm" \in Events \ events

\* Nothing disturbed the last trace.
Undisturbed == "SIGINT" \notin pending /\ ~ EndedByItself

\* The trace is at rest after its first n operations; no permit, no answer is left.
Resting(n) ==
    /\ permit = 0 /\ answer = 0
    /\ proc[forks] \in Young \cup {"ready"}
    /\ ran[forks] = n

\* The permit for the operation after the first n is on its way, or the trace runs it,
\* or its answer is on its way.
Going(n) ==
    \/ /\ permit = 1 /\ answer = 0
       /\ proc[forks] \in Young \cup {"ready"} /\ ran[forks] = n
    \/ /\ permit = 0 /\ answer = 0
       /\ proc[forks] = "running" /\ ran[forks] = n
    \/ /\ permit = 0 /\ answer = 1
       /\ proc[forks] = "ready" /\ ran[forks] = n + 1
       /\ mailbox = [trace |-> forks, op |-> n + 1]

\* Where an undisturbed trace is, seen from the scheduler.
InStep ==
    Undisturbed =>
        /\ Exploring \/ pc = "forked" => sig[forks] = {} /\ cause[forks] = "none"
        /\ pc \in {"forked", "replay"} => Resting(replayed)
        /\ pc \in {"wait", "blocked"} => Going(replayed)
        /\ pc = "decode" => Resting(depth + 1) /\ mailbox = [trace |-> forks, op |-> depth + 1]
        /\ pc \in {"post", "choose"} \/ (pc = "loop" /\ ret = "post") => Resting(depth)
        /\ Ending("next") \/ (pc = "loop" /\ ret = "next") =>
              /\ permit = 0 /\ answer = 0
              /\ proc[forks] \in Young \cup {"ready", "zombie", "reaped"}

\* The scheduler has gone, and so will its trace.
LeftBehind == NoTraceOutlivesTheScheduler

LifecycleInv ==
    /\ TypeOK
    /\ Control
    /\ Room
    /\ InOrder
    /\ TracePid
    /\ ChildSignal
    /\ YoungTrace
    /\ AlarmIsAnEvent
    /\ InStep
    /\ LeftBehind

-----------------------------------------------------------------------------
(* Every step keeps it *)

\* What the exit of the scheduler adds to the signals on their way.
LEMMA ParentDiedTells ==
    ASSUME TypeOK
    PROVE  /\ ParentDied \in [Traces -> SUBSET {"SIGINT", "SIGUSR1"}]
           /\ \A i \in Traces : /\ sig[i] \subseteq ParentDied[i]
                                /\ proc[i] \in Living \ {"forked"} => "SIGUSR1" \in ParentDied[i]
  <1>1. \A i \in Traces : sig[i] \in SUBSET {"SIGINT", "SIGUSR1"}
    BY DEF TypeOK
  <1> QED BY <1>1 DEF ParentDied

\* The scheduler comes out of mc_terminate_trace where it has to.
LEMMA ControlKept ==
    ASSUME LifecycleInv, [Next]_vars
    PROVE  Control'
  <1> USE BoundsAssumption, EventsAssumption DEF LifecycleInv, TypeOK, Control, Leaving,
       Ending
  <1>1. CASE SchedulerStep
    BY <1>1 DEF SchedulerStep, mc_fork_new_trace, Goto, At, Awake, searchVars,
       SetTracePid, traceVars, shmVars, mc_shared_sem_wake_thread,
       mc_shared_sem_wait_for_thread, Returned, simulateRunningTransition,
       mc_report_undefined_behavior, ContinueTrace, EndTrace, ExitAtFirstResult,
       ParentDied, ExecutionLimitReached, mc_restore_initial_trace, LoopAgain,
       mc_terminate_trace, AfterTerminate, mc_wait_for_trace, ClearTracePid,
       mc_explore_branch, ResultsArePrinted, mc_stop_model_checking, mc_exit
  <1>2. CASE Handlers
    BY <1>2 DEF Handlers, sigint_handler_scheduler, searchVars, traceVars, shmVars,
       alarm_handler, ParentDied, sigchld_handler_scheduler, Returned
  <1>3. ASSUME NEW i \in Traces, TraceStep(i)
        PROVE  Control'
    BY <1>3 DEF TraceStep, install_sighandles_for_trace, schedulerVars, Unhandled,
       shmVars, searchVars, mc_shared_sem_wait_for_scheduler,
       mc_shared_sem_wake_scheduler, HandleSignal, Ends
  <1>4. CASE Environment
    BY <1>4 DEF Environment, Interrupt, Happens, searchVars, shmVars, Alarm, traceVars,
       McminiBack, TargetEnds, Ends, Unhandled
  <1>5. CASE UNCHANGED vars
    BY <1>5 DEF vars
  <1> QED BY <1>1, <1>2, <1>3, <1>4, <1>5 DEF Next

\* A new trace keeps fewer transitions than the last one had.
LEMMA RoomKept ==
    ASSUME LifecycleInv, [Next]_vars
    PROVE  Room'
  <1> USE BoundsAssumption, EventsAssumption DEF LifecycleInv, TypeOK, Control, Room,
       Ending, NoTrace
  <1>1. CASE SchedulerStep
    BY <1>1 DEF SchedulerStep, mc_fork_new_trace, Goto, At, Awake, searchVars,
       SetTracePid, traceVars, shmVars, mc_shared_sem_wake_thread,
       mc_shared_sem_wait_for_thread, Returned, simulateRunningTransition,
       mc_report_undefined_behavior, ContinueTrace, EndTrace, ExitAtFirstResult,
       ParentDied, ExecutionLimitReached, mc_restore_initial_trace, LoopAgain,
       mc_terminate_trace, AfterTerminate, mc_wait_for_trace, ClearTracePid,
       mc_explore_branch, ResultsArePrinted, mc_stop_model_checking, mc_exit
  <1>2. CASE Handlers
    BY <1>2 DEF Handlers, sigint_handler_scheduler, searchVars, traceVars, shmVars,
       alarm_handler, ParentDied, sigchld_handler_scheduler, Returned
  <1>3. ASSUME NEW i \in Traces, TraceStep(i)
        PROVE  Room'
    BY <1>3 DEF TraceStep, install_sighandles_for_trace, schedulerVars, Unhandled,
       shmVars, searchVars, mc_shared_sem_wait_for_scheduler,
       mc_shared_sem_wake_scheduler, HandleSignal, Ends
  <1>4. CASE Environment
    BY <1>4 DEF Environment, Interrupt, Happens, searchVars, shmVars, Alarm, traceVars,
       McminiBack, TargetEnds, Ends, Unhandled
  <1>5. CASE UNCHANGED vars
    BY <1>5 DEF vars
  <1> QED BY <1>1, <1>2, <1>3, <1>4, <1>5 DEF Next

\* What happens is taken from what may happen.
LEMMA AlarmIsAnEventKept ==
    ASSUME LifecycleInv, [Next]_vars
    PROVE  AlarmIsAnEvent'
  <1> USE BoundsAssumption, EventsAssumption DEF LifecycleInv, TypeOK, AlarmIsAnEvent
  <1>1. CASE SchedulerStep
    BY <1>1 DEF SchedulerStep, mc_fork_new_trace, Goto, At, Awake, searchVars,
       SetTracePid, traceVars, shmVars, mc_shared_sem_wake_thread,
       mc_shared_sem_wait_for_thread, Returned, simulateRunningTransition,
       mc_report_undefined_behavior, ContinueTrace, EndTrace, ExitAtFirstResult,
       ParentDied, ExecutionLimitReached, mc_restore_initial_trace, LoopAgain,
       mc_terminate_trace, AfterTerminate, mc_wait_for_trace, ClearTracePid,
       mc_explore_branch, ResultsArePrinted, mc_stop_model_checking, mc_exit
  <1>2. CASE Handlers
    BY <1>2 DEF Handlers, sigint_handler_scheduler, searchVars, traceVars, shmVars,
       alarm_handler, ParentDied, sigchld_handler_scheduler, Returned
  <1>3. ASSUME NEW i \in Traces, TraceStep(i)
        PROVE  AlarmIsAnEvent'
    BY <1>3 DEF TraceStep, install_sighandles_for_trace, schedulerVars, Unhandled,
       shmVars, searchVars, mc_shared_sem_wait_for_scheduler,
       mc_shared_sem_wake_scheduler, HandleSignal, Ends
  <1>4. CASE Environment
    BY <1>4 DEF Environment, Interrupt, Happens, searchVars, shmVars, Alarm, traceVars,
       McminiBack, TargetEnds, Ends, Unhandled
  <1>5. CASE UNCHANGED vars
    BY <1>5 DEF vars
  <1> QED BY <1>1, <1>2, <1>3, <1>4, <1>5 DEF Next

\* A step keeps the types; the room that is left on the stack is what bounds its depth.
LEMMA TypeOKKept ==
    ASSUME LifecycleInv, [Next]_vars
    PROVE  TypeOK'
  <1> USE BoundsAssumption, EventsAssumption DEF LifecycleInv, TypeOK, Room, Pcs,
       Living, Phases, Causes, Traces, NoTrace, AllEvents, Ending
  <1>1. CASE mc_fork_new_trace
    <2>1. forks' \in Traces \cup {0}
      BY <1>1 DEF mc_fork_new_trace, Goto, At, Awake, searchVars
    <2>2. proc' \in [Traces -> Phases]
      BY <1>1 DEF mc_fork_new_trace, Goto, At, Awake, searchVars
    <2>3. permit' \in Nat /\ answer' \in Nat /\ pc' \in Pcs /\ code' \in {0, 1}
      BY <1>1 DEF mc_fork_new_trace, Goto, At, Awake, searchVars
    <2>4. /\ pending' \subseteq {"SIGINT", "SIGALRM"} /\ masked' \subseteq {"SIGINT", "SIGCHLD"}
          /\ chld' \in Causes
      BY <1>1 DEF mc_fork_new_trace, Goto, At, Awake, searchVars
    <2> QED BY <1>1, <2>1, <2>2, <2>3, <2>4 DEF mc_fork_new_trace, Goto, At, Awake, searchVars
  <1>2. CASE SetTracePid
    BY <1>2 DEF SetTracePid, Goto, At, Awake, searchVars, traceVars, shmVars
  <1>3. CASE mc_shared_sem_wake_thread
    BY <1>3 DEF mc_shared_sem_wake_thread, Goto, At, Awake, searchVars, traceVars
  <1>4. CASE mc_shared_sem_wait_for_thread
    BY <1>4 DEF mc_shared_sem_wait_for_thread, Returned, At, Awake, traceVars
  <1>5. CASE simulateRunningTransition
    <2>1. /\ depth \in 0 .. MaxOps /\ depth < MaxOps
          /\ depth' = depth + 1 /\ replayed' = depth + 1
      <3>1. depth \in 0 .. MaxOps /\ pc = "decode"
        BY <1>5 DEF simulateRunningTransition, Goto, At, Awake, traceVars, shmVars
      <3>2. depth < MaxOps
        BY <3>1
      <3>3. depth' = depth + 1 /\ replayed' = depth + 1
        BY <1>5 DEF simulateRunningTransition
      <3> QED BY <3>1, <3>2, <3>3
    <2>2. depth' \in 0 .. MaxOps /\ replayed' \in 0 .. MaxOps
      <3> HIDE DEF LifecycleInv, TypeOK, Room
      <3> QED BY <2>1
    <2> QED BY <1>5, <2>2 DEF simulateRunningTransition, Goto, At, Awake, traceVars, shmVars
  <1>6. CASE mc_report_undefined_behavior
    BY <1>6 DEF mc_report_undefined_behavior, Goto, At, Awake, searchVars, traceVars,
       shmVars
  <1>7. CASE ContinueTrace
    BY <1>7 DEF ContinueTrace, Goto, At, Awake, searchVars, traceVars, shmVars
  <1>8. CASE EndTrace
    BY <1>8 DEF EndTrace, Goto, At, Awake, searchVars, traceVars, shmVars
  <1>9. CASE ExitAtFirstResult
    BY <1>9 DEF ExitAtFirstResult, Goto, At, Awake, ParentDied, searchVars, shmVars
  <1>10. CASE ExecutionLimitReached
    BY <1>10 DEF ExecutionLimitReached, Goto, At, Awake, searchVars, traceVars, shmVars
  <1>11. CASE mc_restore_initial_trace
    <2>1. depth' \in 0 .. MaxOps /\ replayed' \in 0 .. MaxOps
      BY <1>11 DEF mc_restore_initial_trace, Goto, At, Awake, traceVars, shmVars
    <2> QED BY <1>11, <2>1 DEF mc_restore_initial_trace, Goto, At, Awake, traceVars, shmVars
  <1>12. CASE LoopAgain
    BY <1>12 DEF LoopAgain, Goto, At, Awake, searchVars, traceVars, shmVars
  <1>13. CASE mc_terminate_trace
    <2>1. sig' \in [Traces -> SUBSET {"SIGINT", "SIGUSR1"}]
      <3>1. \A S \in SUBSET {"SIGINT", "SIGUSR1"} : S \cup {"SIGUSR1"} \in SUBSET {"SIGINT", "SIGUSR1"}
        OBVIOUS
      <3>2. \/ sig' = sig
            \/ sig' = [sig EXCEPT ![tracePid] =
                         IF proc[tracePid] \in Living THEN @ \cup {"SIGUSR1"} ELSE @]
        BY <1>13 DEF mc_terminate_trace
      <3> QED BY <3>1, <3>2
    <2>2. pc' \in Pcs
      <3>1. pc' \in {"waitpid", "loop", ret}
        BY <1>13 DEF mc_terminate_trace, Goto, AfterTerminate
      <3> QED BY <3>1
    <2>3. UNCHANGED <<ret, code, pending, chld, masked, tracePid, forks, traceId, depth, replayed,
                      mcReset, region, proc, cause, ran, permit, answer, mailbox, events>>
      BY <1>13 DEF mc_terminate_trace, Goto, AfterTerminate, searchVars, shmVars
    <2>4. TypeOK
      OBVIOUS
    <2> HIDE DEF LifecycleInv, Room, Ending, Pcs, Living, Phases, Causes, Traces, NoTrace, AllEvents
    <2> QED BY <2>1, <2>2, <2>3, <2>4
  <1>14. CASE mc_wait_for_trace
    <2>1. proc' \in [Traces -> Phases] /\ pc' \in Pcs
      BY <1>14 DEF mc_wait_for_trace, Goto
    <2>2. UNCHANGED <<ret, code, pending, chld, masked, tracePid, forks, traceId, depth, replayed,
                      mcReset, region, cause, sig, ran, permit, answer, mailbox, events>>
      BY <1>14 DEF mc_wait_for_trace, Goto, searchVars, shmVars
    <2> QED BY <2>1, <2>2
  <1>15. CASE ClearTracePid
    BY <1>15 DEF ClearTracePid, Goto, At, Awake, AfterTerminate, searchVars, traceVars,
       shmVars
  <1>16. ASSUME NEW k \in 0 .. depth - 1, mc_explore_branch(k)
        PROVE  TypeOK'
    BY <1>16 DEF mc_explore_branch, Goto, At, Awake, traceVars, shmVars
  <1>17. CASE ResultsArePrinted
    BY <1>17 DEF ResultsArePrinted, Goto, At, Awake, searchVars, traceVars, shmVars
  <1>18. CASE mc_stop_model_checking
    <2>1. sig' \in [Traces -> SUBSET {"SIGINT", "SIGUSR1"}]
      <3>1. sig' = sig \/ sig' = ParentDied
        BY <1>18 DEF mc_stop_model_checking
      <3> QED BY <3>1, ParentDiedTells
    <2>2. /\ pc' \in {"terminate", "exited"} /\ ret' \in {"exit", ret} /\ code' \in {code, 1}
          /\ region' \in {"unlinked", region}
      BY <1>18 DEF mc_stop_model_checking, Goto
    <2>3. UNCHANGED <<pending, chld, masked, tracePid, forks, traceId, depth, replayed, mcReset,
                      proc, cause, ran, permit, answer, mailbox, events>>
      BY <1>18 DEF mc_stop_model_checking, Goto, searchVars, shmVars
    <2> QED BY <2>1, <2>2, <2>3
  <1>19. CASE mc_exit
    BY <1>19 DEF mc_exit, Goto, At, Awake, ParentDied, searchVars, shmVars
  <1>20. CASE sigint_handler_scheduler
    BY <1>20 DEF sigint_handler_scheduler, searchVars, traceVars, shmVars
  <1>21. CASE alarm_handler
    BY <1>21 DEF alarm_handler, ParentDied, searchVars, shmVars
  <1>22. CASE sigchld_handler_scheduler
    <2>1. replayed' \in 0 .. MaxOps
      BY <1>22 DEF sigchld_handler_scheduler, Returned, traceVars, shmVars
    <2>2. pc' \in Pcs /\ code' \in {0, 1} /\ masked' \subseteq {"SIGINT", "SIGCHLD"} /\ chld' \in Causes
      BY <1>22 DEF sigchld_handler_scheduler, Returned, traceVars, shmVars
    <2> QED BY <1>22, <2>1, <2>2 DEF sigchld_handler_scheduler, Returned, traceVars, shmVars
  <1>23. ASSUME NEW i \in Traces, install_sighandles_for_trace(i)
        PROVE  TypeOK'
    <2>1. proc' \in [Traces -> Phases]
      BY <1>23 DEF install_sighandles_for_trace, schedulerVars, Unhandled, shmVars, searchVars
    <2> QED BY <1>23, <2>1 DEF install_sighandles_for_trace, schedulerVars, Unhandled, shmVars, searchVars
  <1>24. ASSUME NEW i \in Traces, mc_shared_sem_wait_for_scheduler(i)
        PROVE  TypeOK'
    BY <1>24 DEF mc_shared_sem_wait_for_scheduler, schedulerVars, Unhandled, searchVars
  <1>25. ASSUME NEW i \in Traces, mc_shared_sem_wake_scheduler(i)
        PROVE  TypeOK'
    BY <1>25 DEF mc_shared_sem_wake_scheduler, schedulerVars, Unhandled, searchVars
  <1>26. ASSUME NEW i \in Traces, NEW s \in {"SIGINT", "SIGUSR1"}, HandleSignal(i, s)
        PROVE  TypeOK'
    <2>1. PICK how \in Causes : Ends(i, how)
      BY <1>26 DEF HandleSignal
    <2>2. /\ proc' \in [Traces -> Phases] /\ cause' \in [Traces -> Causes] /\ chld' \in Causes
          /\ sig' \in [Traces -> SUBSET {"SIGINT", "SIGUSR1"}]
      BY <2>1 DEF Ends
    <2>3. UNCHANGED <<pc, ret, code, pending, masked, tracePid, forks, traceId, depth, replayed,
                      mcReset, region, ran, permit, answer, mailbox, events>>
      BY <1>26 DEF HandleSignal, searchVars, shmVars
    <2> QED BY <2>2, <2>3
  <1>27. CASE Interrupt
    BY <1>27 DEF Interrupt, Happens, searchVars, shmVars
  <1>28. CASE Alarm
    BY <1>28 DEF Alarm, Happens, searchVars, traceVars, shmVars
  <1>29. CASE McminiBack
    BY <1>29 DEF McminiBack, Happens, traceVars, shmVars
  <1>30. ASSUME NEW i \in Traces, NEW e, NEW how \in {"crash", "self"}, TargetEnds(i, e, how)
        PROVE  TypeOK'
    BY <1>30 DEF TargetEnds, Happens, Ends, Unhandled, searchVars, shmVars
  <1>31. CASE UNCHANGED vars
    BY <1>31 DEF vars
  <1> HIDE DEF LifecycleInv, TypeOK, Room, Pcs, Living, Phases, Causes, Traces, NoTrace,
       AllEvents, Ending
  <1> QED BY <1>1, <1>2, <1>3, <1>4, <1>5, <1>6, <1>7, <1>8, <1>9, <1>10, <1>11, <1>12,
       <1>13, <1>14, <1>15, <1>16, <1>17, <1>18, <1>19, <1>20, <1>21, <1>22, <1>23,
       <1>24, <1>25, <1>26, <1>27, <1>28, <1>29, <1>30, <1>31
       DEF Next, SchedulerStep, Handlers, TraceStep, Environment

\* Only the last trace is touched, until the next one is forked.
LEMMA InOrderKept ==
    ASSUME LifecycleInv, [Next]_vars
    PROVE  InOrder'
  <1> USE BoundsAssumption, EventsAssumption DEF LifecycleInv, TypeOK, InOrder,
       TracePid, Living, Phases, Traces, NoTrace, Exploring
  <1>1. CASE mc_fork_new_trace
    <2>1. tracePid = NoTrace /\ forks \in Nat /\ forks' = forks + 1 /\ forks' \in Traces
      BY <1>1 DEF mc_fork_new_trace, Goto, At, Awake, searchVars
    <2>2. \A i \in Traces : i <= forks => proc[i] = "reaped"
      <3>1. forks # 0 => proc[forks] = "reaped"
        <4>1. pc = "fork"
          BY <1>1 DEF mc_fork_new_trace, Goto, At, Awake, searchVars
        <4> HIDE DEF TypeOK, InOrder
        <4> QED BY <4>1, <2>1 DEF Leaving
      <3>2. \A i \in Traces : i < forks => proc[i] = "reaped"
        OBVIOUS
      <3> HIDE DEF LifecycleInv, TypeOK, InOrder, TracePid
      <3> QED BY <2>1, <3>1, <3>2
    <2>3. /\ proc' = [proc EXCEPT ![forks'] = "forked"]
          /\ cause' = cause /\ sig' = sig /\ ran' = ran
      BY <1>1, <2>1 DEF mc_fork_new_trace, Goto, At, Awake, searchVars
    <2> QED BY <2>1, <2>2, <2>3
  <1>2. CASE ExitAtFirstResult
    BY <1>2 DEF ExitAtFirstResult, Goto, At, Awake, ParentDied, searchVars, shmVars
  <1>3. CASE mc_terminate_trace
    BY <1>3 DEF mc_terminate_trace, Goto, At, Awake, AfterTerminate, searchVars, shmVars
  <1>4. CASE mc_wait_for_trace
    BY <1>4 DEF mc_wait_for_trace, Goto, At, Awake, searchVars, shmVars
  <1>5. CASE mc_stop_model_checking
    BY <1>5 DEF mc_stop_model_checking, Goto, At, Awake, ParentDied, searchVars, shmVars
  <1>6. CASE mc_exit
    BY <1>6 DEF mc_exit, Goto, At, Awake, ParentDied, searchVars, shmVars
  <1>7. CASE alarm_handler
    BY <1>7 DEF alarm_handler, ParentDied, searchVars, shmVars
  <1>8. ASSUME NEW i \in Traces, install_sighandles_for_trace(i)
        PROVE  InOrder'
    BY <1>8 DEF install_sighandles_for_trace, schedulerVars, Unhandled, shmVars,
       searchVars
  <1>9. ASSUME NEW i \in Traces, mc_shared_sem_wait_for_scheduler(i)
        PROVE  InOrder'
    BY <1>9 DEF mc_shared_sem_wait_for_scheduler, schedulerVars, Unhandled, searchVars
  <1>10. ASSUME NEW i \in Traces, mc_shared_sem_wake_scheduler(i)
        PROVE  InOrder'
    BY <1>10 DEF mc_shared_sem_wake_scheduler, schedulerVars, Unhandled, searchVars
  <1>11. ASSUME NEW i \in Traces, NEW s \in {"SIGINT", "SIGUSR1"}, HandleSignal(i, s)
        PROVE  InOrder'
    BY <1>11 DEF HandleSignal, Ends, searchVars, shmVars
  <1>12. CASE Interrupt
    BY <1>12 DEF Interrupt, Happens, searchVars, shmVars
  <1>13. ASSUME NEW i \in Traces, NEW e, NEW how \in {"crash", "self"}, TargetEnds(i, e, how)
        PROVE  InOrder'
    BY <1>13 DEF TargetEnds, Happens, Ends, Unhandled, searchVars, shmVars
  <1>14. CASE UNCHANGED <<forks, proc, cause, sig, ran>>
    BY <1>14
  <1> HIDE DEF LifecycleInv, TypeOK, InOrder, TracePid, Living, Phases, Traces, NoTrace,
       Exploring
  <1> QED BY <1>1, <1>2, <1>3, <1>4, <1>5, <1>6, <1>7, <1>8, <1>9, <1>10, <1>11, <1>12,
       <1>13, <1>14
       DEF Next, SchedulerStep, Handlers, TraceStep, Environment, SetTracePid, Goto, At,
       Awake, searchVars, traceVars, shmVars, mc_shared_sem_wake_thread,
       mc_shared_sem_wait_for_thread, Returned, simulateRunningTransition,
       mc_report_undefined_behavior, ContinueTrace, EndTrace, ExecutionLimitReached,
       mc_restore_initial_trace, LoopAgain, ClearTracePid, AfterTerminate,
       mc_explore_branch, ResultsArePrinted, sigint_handler_scheduler,
       sigchld_handler_scheduler, Alarm, Happens, McminiBack, vars

\* trace_pid is set and cleared in step with the life of the trace.
LEMMA TracePidKept ==
    ASSUME LifecycleInv, [Next]_vars
    PROVE  TracePid'
  <1> USE BoundsAssumption, EventsAssumption DEF LifecycleInv, TypeOK, Control, InOrder,
       TracePid, Exploring, Leaving, Ending, Living, Traces, NoTrace
  <1>1. CASE mc_fork_new_trace
    BY <1>1 DEF mc_fork_new_trace, Goto, At, Awake, searchVars
  <1>2. CASE SetTracePid
    BY <1>2 DEF SetTracePid, Goto, At, Awake, searchVars, traceVars, shmVars
  <1>3. CASE mc_shared_sem_wake_thread
    BY <1>3 DEF mc_shared_sem_wake_thread, Goto, At, Awake, searchVars, traceVars
  <1>4. CASE mc_shared_sem_wait_for_thread
    BY <1>4 DEF mc_shared_sem_wait_for_thread, Returned, At, Awake, traceVars
  <1>5. CASE simulateRunningTransition
    BY <1>5 DEF simulateRunningTransition, Goto, At, Awake, traceVars, shmVars
  <1>6. CASE mc_report_undefined_behavior
    BY <1>6 DEF mc_report_undefined_behavior, Goto, At, Awake, searchVars, traceVars,
       shmVars
  <1>7. CASE ContinueTrace
    BY <1>7 DEF ContinueTrace, Goto, At, Awake, searchVars, traceVars, shmVars
  <1>8. CASE EndTrace
    BY <1>8 DEF EndTrace, Goto, At, Awake, searchVars, traceVars, shmVars
  <1>9. CASE ExitAtFirstResult
    BY <1>9 DEF ExitAtFirstResult, Goto, At, Awake, ParentDied, searchVars, shmVars
  <1>10. CASE ExecutionLimitReached
    BY <1>10 DEF ExecutionLimitReached, Goto, At, Awake, searchVars, traceVars, shmVars
  <1>11. CASE mc_restore_initial_trace
    BY <1>11 DEF mc_restore_initial_trace, Goto, At, Awake, traceVars, shmVars
  <1>12. CASE LoopAgain
    BY <1>12 DEF LoopAgain, Goto, At, Awake, searchVars, traceVars, shmVars
  <1>13. CASE mc_terminate_trace
    BY <1>13 DEF mc_terminate_trace, Goto, At, Awake, AfterTerminate, searchVars,
       shmVars
  <1>14. CASE mc_wait_for_trace
    BY <1>14 DEF mc_wait_for_trace, Goto, At, Awake, searchVars, shmVars
  <1>15. CASE ClearTracePid
    BY <1>15 DEF ClearTracePid, Goto, At, Awake, AfterTerminate, searchVars, traceVars,
       shmVars
  <1>16. ASSUME NEW k \in 0 .. depth - 1, mc_explore_branch(k)
        PROVE  TracePid'
    BY <1>16 DEF mc_explore_branch, Goto, At, Awake, traceVars, shmVars
  <1>17. CASE ResultsArePrinted
    BY <1>17 DEF ResultsArePrinted, Goto, At, Awake, searchVars, traceVars, shmVars
  <1>18. CASE mc_stop_model_checking
    BY <1>18 DEF mc_stop_model_checking, Goto, At, Awake, ParentDied, searchVars,
       shmVars
  <1>19. CASE mc_exit
    BY <1>19 DEF mc_exit, Goto, At, Awake, ParentDied, searchVars, shmVars
  <1>20. CASE sigint_handler_scheduler
    BY <1>20 DEF sigint_handler_scheduler, searchVars, traceVars, shmVars
  <1>21. CASE alarm_handler
    BY <1>21 DEF alarm_handler, ParentDied, searchVars, shmVars
  <1>22. CASE sigchld_handler_scheduler
    BY <1>22 DEF sigchld_handler_scheduler, Returned, traceVars, shmVars
  <1>23. ASSUME NEW i \in Traces, install_sighandles_for_trace(i)
        PROVE  TracePid'
    BY <1>23 DEF install_sighandles_for_trace, schedulerVars, Unhandled, shmVars,
       searchVars
  <1>24. ASSUME NEW i \in Traces, mc_shared_sem_wait_for_scheduler(i)
        PROVE  TracePid'
    BY <1>24 DEF mc_shared_sem_wait_for_scheduler, schedulerVars, Unhandled, searchVars
  <1>25. ASSUME NEW i \in Traces, mc_shared_sem_wake_scheduler(i)
        PROVE  TracePid'
    BY <1>25 DEF mc_shared_sem_wake_scheduler, schedulerVars, Unhandled, searchVars
  <1>26. ASSUME NEW i \in Traces, NEW s \in {"SIGINT", "SIGUSR1"}, HandleSignal(i, s)
        PROVE  TracePid'
    BY <1>26 DEF HandleSignal, Ends, searchVars, shmVars
  <1>27. CASE Interrupt
    BY <1>27 DEF Interrupt, Happens, searchVars, shmVars
  <1>28. CASE Alarm
    BY <1>28 DEF Alarm, Happens, searchVars, traceVars, shmVars
  <1>29. CASE McminiBack
    BY <1>29 DEF McminiBack, Happens, traceVars, shmVars
  <1>30. ASSUME NEW i \in Traces, NEW e, NEW how \in {"crash", "self"}, TargetEnds(i, e, how)
        PROVE  TracePid'
    BY <1>30 DEF TargetEnds, Happens, Ends, Unhandled, searchVars, shmVars
  <1>31. CASE UNCHANGED vars
    BY <1>31 DEF vars
  <1> HIDE DEF LifecycleInv, TypeOK, Control, InOrder, TracePid, Exploring, Leaving,
       Ending, Living, Traces, NoTrace
  <1> QED BY <1>1, <1>2, <1>3, <1>4, <1>5, <1>6, <1>7, <1>8, <1>9, <1>10, <1>11, <1>12,
       <1>13, <1>14, <1>15, <1>16, <1>17, <1>18, <1>19, <1>20, <1>21, <1>22, <1>23,
       <1>24, <1>25, <1>26, <1>27, <1>28, <1>29, <1>30, <1>31
       DEF Next, SchedulerStep, Handlers, TraceStep, Environment

\* The SIGCHLD of a trace is handled before the next trace is forked.
LEMMA ChildSignalKept ==
    ASSUME LifecycleInv, [Next]_vars
    PROVE  ChildSignal'
  <1> USE BoundsAssumption, EventsAssumption DEF LifecycleInv, TypeOK, Control, InOrder,
       ChildSignal, Leaving, Living, NoTrace, Traces
  <1>1. CASE mc_fork_new_trace
    BY <1>1 DEF mc_fork_new_trace, Goto, At, Awake, searchVars
  <1>2. CASE mc_wait_for_trace
    BY <1>2 DEF mc_wait_for_trace, Goto, At, Awake, searchVars, shmVars
  <1>3. CASE sigchld_handler_scheduler
    BY <1>3 DEF sigchld_handler_scheduler, Returned, traceVars, shmVars
  <1>4. ASSUME NEW i \in Traces, install_sighandles_for_trace(i)
        PROVE  ChildSignal'
    BY <1>4 DEF install_sighandles_for_trace, schedulerVars, Unhandled, shmVars,
       searchVars
  <1>5. ASSUME NEW i \in Traces, mc_shared_sem_wait_for_scheduler(i)
        PROVE  ChildSignal'
    BY <1>5 DEF mc_shared_sem_wait_for_scheduler, schedulerVars, Unhandled, searchVars
  <1>6. ASSUME NEW i \in Traces, mc_shared_sem_wake_scheduler(i)
        PROVE  ChildSignal'
    BY <1>6 DEF mc_shared_sem_wake_scheduler, schedulerVars, Unhandled, searchVars
  <1>7. ASSUME NEW i \in Traces, NEW s \in {"SIGINT", "SIGUSR1"}, HandleSignal(i, s)
        PROVE  ChildSignal'
    <2>1. proc[i] \in Living /\ i = forks /\ chld = "none"
      <3>1. proc[i] \in Living
        BY <1>7 DEF HandleSignal
      <3>2. i = forks
        BY <3>1
      <3> QED BY <3>1, <3>2
    <2>2. /\ proc'[forks] = "zombie" /\ forks' = forks
          /\ chld' = cause'[forks]
      BY <1>7, <2>1 DEF HandleSignal, Ends, searchVars, shmVars
    <2> QED BY <2>1, <2>2
  <1>8. ASSUME NEW i \in Traces, NEW e, NEW how \in {"crash", "self"}, TargetEnds(i, e, how)
        PROVE  ChildSignal'
    BY <1>8 DEF TargetEnds, Happens, Ends, Unhandled, searchVars, shmVars
  <1>9. CASE UNCHANGED <<chld, forks, proc, cause>>
    BY <1>9
  <1> HIDE DEF LifecycleInv, TypeOK, Control, InOrder, ChildSignal, Leaving, Living,
       NoTrace, Traces
  <1> QED BY <1>1, <1>2, <1>3, <1>4, <1>5, <1>6, <1>7, <1>8, <1>9
       DEF Next, SchedulerStep, Handlers, TraceStep, Environment, SetTracePid, Goto, At,
       Awake, searchVars, traceVars, shmVars, mc_shared_sem_wake_thread,
       mc_shared_sem_wait_for_thread, Returned, simulateRunningTransition,
       mc_report_undefined_behavior, ContinueTrace, EndTrace, ExitAtFirstResult,
       ParentDied, ExecutionLimitReached, mc_restore_initial_trace, LoopAgain,
       mc_terminate_trace, AfterTerminate, ClearTracePid, mc_explore_branch,
       ResultsArePrinted, mc_stop_model_checking, mc_exit, sigint_handler_scheduler,
       alarm_handler, Interrupt, Happens, Alarm, McminiBack, vars

\* The scheduler does not get past the first wait for a trace that has not answered.
LEMMA YoungTraceKept ==
    ASSUME LifecycleInv, [Next]_vars
    PROVE  YoungTrace'
  <1> USE BoundsAssumption, EventsAssumption DEF LifecycleInv, TypeOK, Control, Room,
       InOrder, TracePid, ChildSignal, YoungTrace, Young, Leaving, Living, Traces,
       NoTrace, Exploring, Ending
  <1>1. CASE mc_fork_new_trace
    BY <1>1 DEF mc_fork_new_trace, Goto, At, Awake, searchVars
  <1>2. CASE SetTracePid
    BY <1>2 DEF SetTracePid, Goto, At, Awake, searchVars, traceVars, shmVars
  <1>3. CASE mc_shared_sem_wake_thread
    BY <1>3 DEF mc_shared_sem_wake_thread, Goto, At, Awake, searchVars, traceVars
  <1>4. CASE mc_shared_sem_wait_for_thread
    BY <1>4 DEF mc_shared_sem_wait_for_thread, Returned, At, Awake, traceVars
  <1>5. CASE simulateRunningTransition
    BY <1>5 DEF simulateRunningTransition, Goto, At, Awake, traceVars, shmVars
  <1>6. CASE mc_report_undefined_behavior
    BY <1>6 DEF mc_report_undefined_behavior, Goto, At, Awake, searchVars, traceVars,
       shmVars
  <1>7. CASE ContinueTrace
    BY <1>7 DEF ContinueTrace, Goto, At, Awake, searchVars, traceVars, shmVars
  <1>8. CASE EndTrace
    BY <1>8 DEF EndTrace, Goto, At, Awake, searchVars, traceVars, shmVars
  <1>9. CASE ExitAtFirstResult
    BY <1>9 DEF ExitAtFirstResult, Goto, At, Awake, ParentDied, searchVars, shmVars
  <1>10. CASE ExecutionLimitReached
    BY <1>10 DEF ExecutionLimitReached, Goto, At, Awake, searchVars, traceVars, shmVars
  <1>11. CASE mc_restore_initial_trace
    BY <1>11 DEF mc_restore_initial_trace, Goto, At, Awake, traceVars, shmVars
  <1>12. CASE LoopAgain
    BY <1>12 DEF LoopAgain, Goto, At, Awake, searchVars, traceVars, shmVars
  <1>13. CASE mc_terminate_trace
    <2>1. pc = "terminate" /\ UNCHANGED <<answer, pending, forks, proc, region, traceId>>
      BY <1>13 DEF mc_terminate_trace, Goto, At, AfterTerminate, searchVars, shmVars
    <2>2. CASE mcReset \/ tracePid = NoTrace
      BY <1>13, <2>1, <2>2 DEF mc_terminate_trace, Goto, At, Awake, AfterTerminate, searchVars,
         shmVars
    <2>3. CASE ~ mcReset /\ tracePid # NoTrace
      <3>1. sig' = [sig EXCEPT ![tracePid] =
                        IF proc[tracePid] \in Living THEN @ \cup {"SIGUSR1"} ELSE @]
        BY <1>13, <2>3 DEF mc_terminate_trace
      <3>2. ASSUME forks # 0, proc[forks] \in Young
            PROVE  sig'[forks] # {} /\ answer = 0
        <4>1. tracePid = forks /\ forks \in Traces
          BY <2>3, <3>2
        <4>2. proc[forks] \in Living
          BY <3>2
        <4>3. sig'[forks] # {}
          BY <3>1, <4>1, <4>2
        <4>4. answer = 0
          BY <2>1, <3>2
        <4> QED BY <4>3, <4>4
      <3> QED BY <2>1, <3>2
    <2> QED BY <2>2, <2>3
  <1>14. CASE mc_wait_for_trace
    BY <1>14 DEF mc_wait_for_trace, Goto, At, Awake, searchVars, shmVars
  <1>15. CASE ClearTracePid
    BY <1>15 DEF ClearTracePid, Goto, At, Awake, AfterTerminate, searchVars, traceVars,
       shmVars
  <1>16. ASSUME NEW k \in 0 .. depth - 1, mc_explore_branch(k)
        PROVE  YoungTrace'
    BY <1>16 DEF mc_explore_branch, Goto, At, Awake, traceVars, shmVars
  <1>17. CASE ResultsArePrinted
    BY <1>17 DEF ResultsArePrinted, Goto, At, Awake, searchVars, traceVars, shmVars
  <1>18. CASE mc_stop_model_checking
    BY <1>18 DEF mc_stop_model_checking, Goto, At, Awake, ParentDied, searchVars,
       shmVars
  <1>19. CASE mc_exit
    BY <1>19 DEF mc_exit, Goto, At, Awake, ParentDied, searchVars, shmVars
  <1>20. CASE sigint_handler_scheduler
    BY <1>20 DEF sigint_handler_scheduler, searchVars, traceVars, shmVars
  <1>21. CASE alarm_handler
    BY <1>21 DEF alarm_handler, ParentDied, searchVars, shmVars
  <1>22. CASE sigchld_handler_scheduler
    BY <1>22 DEF sigchld_handler_scheduler, Returned, traceVars, shmVars
  <1>23. ASSUME NEW i \in Traces, install_sighandles_for_trace(i)
        PROVE  YoungTrace'
    BY <1>23 DEF install_sighandles_for_trace, schedulerVars, Unhandled, shmVars,
       searchVars
  <1>24. ASSUME NEW i \in Traces, mc_shared_sem_wait_for_scheduler(i)
        PROVE  YoungTrace'
    BY <1>24 DEF mc_shared_sem_wait_for_scheduler, schedulerVars, Unhandled, searchVars
  <1>25. ASSUME NEW i \in Traces, mc_shared_sem_wake_scheduler(i)
        PROVE  YoungTrace'
    BY <1>25 DEF mc_shared_sem_wake_scheduler, schedulerVars, Unhandled, searchVars
  <1>26. ASSUME NEW i \in Traces, NEW s \in {"SIGINT", "SIGUSR1"}, HandleSignal(i, s)
        PROVE  YoungTrace'
    BY <1>26 DEF HandleSignal, Ends, searchVars, shmVars
  <1>27. CASE Interrupt
    BY <1>27 DEF Interrupt, Happens, searchVars, shmVars
  <1>28. CASE Alarm
    BY <1>28 DEF Alarm, Happens, searchVars, traceVars, shmVars
  <1>29. CASE McminiBack
    BY <1>29 DEF McminiBack, Happens, traceVars, shmVars
  <1>30. ASSUME NEW i \in Traces, NEW e, NEW how \in {"crash", "self"}, TargetEnds(i, e, how)
        PROVE  YoungTrace'
    BY <1>30 DEF TargetEnds, Happens, Ends, Unhandled, searchVars, shmVars
  <1>31. CASE UNCHANGED vars
    BY <1>31 DEF vars
  <1> HIDE DEF LifecycleInv, TypeOK, Control, Room, InOrder, TracePid, ChildSignal,
       YoungTrace, Young, Leaving, Living, Traces, NoTrace, Exploring, Ending
  <1> QED BY <1>1, <1>2, <1>3, <1>4, <1>5, <1>6, <1>7, <1>8, <1>9, <1>10, <1>11, <1>12,
       <1>13, <1>14, <1>15, <1>16, <1>17, <1>18, <1>19, <1>20, <1>21, <1>22, <1>23,
       <1>24, <1>25, <1>26, <1>27, <1>28, <1>29, <1>30, <1>31
       DEF Next, SchedulerStep, Handlers, TraceStep, Environment

\* Every step of the scheduler and of the trace is one half of a round trip.
LEMMA InStepKept ==
    ASSUME LifecycleInv, [Next]_vars
    PROVE  InStep'
  <1> USE BoundsAssumption, EventsAssumption DEF LifecycleInv, TypeOK, Control, Room,
       InOrder, TracePid, ChildSignal, InStep, Young, Leaving, Living, Traces, NoTrace,
       Undisturbed, EndedByItself, Exploring, Ending, Resting, Going
  <1>1. CASE mc_fork_new_trace
    BY <1>1 DEF mc_fork_new_trace, Goto, At, Awake, searchVars
  <1>2. CASE SetTracePid
    BY <1>2 DEF SetTracePid, Goto, At, Awake, searchVars, traceVars, shmVars
  <1>3. CASE mc_shared_sem_wake_thread
    BY <1>3 DEF mc_shared_sem_wake_thread, Goto, At, Awake, searchVars, traceVars
  <1>4. CASE mc_shared_sem_wait_for_thread
    BY <1>4 DEF mc_shared_sem_wait_for_thread, Returned, At, Awake, traceVars
  <1>5. CASE simulateRunningTransition
    BY <1>5 DEF simulateRunningTransition, Goto, At, Awake, traceVars, shmVars
  <1>6. CASE mc_report_undefined_behavior
    BY <1>6 DEF mc_report_undefined_behavior, Goto, At, Awake, searchVars, traceVars,
       shmVars
  <1>7. CASE ContinueTrace
    BY <1>7 DEF ContinueTrace, Goto, At, Awake, searchVars, traceVars, shmVars
  <1>8. CASE EndTrace
    BY <1>8 DEF EndTrace, Goto, At, Awake, searchVars, traceVars, shmVars
  <1>9. CASE ExitAtFirstResult
    BY <1>9 DEF ExitAtFirstResult, Goto, At, Awake, ParentDied, searchVars, shmVars
  <1>10. CASE ExecutionLimitReached
    BY <1>10 DEF ExecutionLimitReached, Goto, At, Awake, searchVars, traceVars, shmVars
  <1>11. CASE mc_restore_initial_trace
    BY <1>11 DEF mc_restore_initial_trace, Goto, At, Awake, traceVars, shmVars
  <1>12. CASE LoopAgain
    BY <1>12 DEF LoopAgain, Goto, At, Awake, searchVars, traceVars, shmVars
  <1>13. CASE mc_terminate_trace
    BY <1>13 DEF mc_terminate_trace, Goto, At, Awake, AfterTerminate, searchVars,
       shmVars
  <1>14. CASE mc_wait_for_trace
    BY <1>14 DEF mc_wait_for_trace, Goto, At, Awake, searchVars, shmVars
  <1>15. CASE ClearTracePid
    BY <1>15 DEF ClearTracePid, Goto, At, Awake, AfterTerminate, searchVars, traceVars,
       shmVars
  <1>16. ASSUME NEW k \in 0 .. depth - 1, mc_explore_branch(k)
        PROVE  InStep'
    BY <1>16 DEF mc_explore_branch, Goto, At, Awake, traceVars, shmVars
  <1>17. CASE ResultsArePrinted
    BY <1>17 DEF ResultsArePrinted, Goto, At, Awake, searchVars, traceVars, shmVars
  <1>18. CASE mc_stop_model_checking
    BY <1>18 DEF mc_stop_model_checking, Goto, At, Awake, ParentDied, searchVars,
       shmVars
  <1>19. CASE mc_exit
    BY <1>19 DEF mc_exit, Goto, At, Awake, ParentDied, searchVars, shmVars
  <1>20. CASE sigint_handler_scheduler
    BY <1>20 DEF sigint_handler_scheduler, searchVars, traceVars, shmVars
  <1>21. CASE alarm_handler
    BY <1>21 DEF alarm_handler, ParentDied, searchVars, shmVars
  <1>22. CASE sigchld_handler_scheduler
    BY <1>22 DEF sigchld_handler_scheduler, Returned, traceVars, shmVars
  <1>23. ASSUME NEW i \in Traces, install_sighandles_for_trace(i)
        PROVE  InStep'
    BY <1>23 DEF install_sighandles_for_trace, schedulerVars, Unhandled, shmVars,
       searchVars
  <1>24. ASSUME NEW i \in Traces, mc_shared_sem_wait_for_scheduler(i)
        PROVE  InStep'
    BY <1>24 DEF mc_shared_sem_wait_for_scheduler, schedulerVars, Unhandled, searchVars
  <1>25. ASSUME NEW i \in Traces, mc_shared_sem_wake_scheduler(i)
        PROVE  InStep'
    BY <1>25 DEF mc_shared_sem_wake_scheduler, schedulerVars, Unhandled, searchVars
  <1>26. ASSUME NEW i \in Traces, NEW s \in {"SIGINT", "SIGUSR1"}, HandleSignal(i, s)
        PROVE  InStep'
    BY <1>26 DEF HandleSignal, Ends, searchVars, shmVars
  <1>27. CASE Interrupt
    BY <1>27 DEF Interrupt, Happens, searchVars, shmVars
  <1>28. CASE Alarm
    BY <1>28 DEF Alarm, Happens, searchVars, traceVars, shmVars
  <1>29. CASE McminiBack
    BY <1>29 DEF McminiBack, Happens, traceVars, shmVars
  <1>30. ASSUME NEW i \in Traces, NEW e, NEW how \in {"crash", "self"}, TargetEnds(i, e, how)
        PROVE  InStep'
    BY <1>30 DEF TargetEnds, Happens, Ends, Unhandled, searchVars, shmVars
  <1>31. CASE UNCHANGED vars
    BY <1>31 DEF vars
  <1> HIDE DEF LifecycleInv, TypeOK, Control, Room, InOrder, TracePid, ChildSignal,
       InStep, Young, Leaving, Living, Traces, NoTrace, Undisturbed, EndedByItself,
       Exploring, Ending, Resting, Going
  <1> QED BY <1>1, <1>2, <1>3, <1>4, <1>5, <1>6, <1>7, <1>8, <1>9, <1>10, <1>11, <1>12,
       <1>13, <1>14, <1>15, <1>16, <1>17, <1>18, <1>19, <1>20, <1>21, <1>22, <1>23,
       <1>24, <1>25, <1>26, <1>27, <1>28, <1>29, <1>30, <1>31
       DEF Next, SchedulerStep, Handlers, TraceStep, Environment

\* The exit of the scheduler reaches every trace but the one the alarm found between fork
\* and prctl.
LEMMA LeftBehindKept ==
    ASSUME LifecycleInv, [Next]_vars
    PROVE  LeftBehind'
  <1> USE BoundsAssumption, EventsAssumption DEF LifecycleInv, TypeOK, Control, InOrder,
       YoungTrace, TracePid, AlarmIsAnEvent, LeftBehind, Young, Living, Leaving,
       NoTraceOutlivesTheScheduler, Unhandled, Traces, NoTrace
  <1>1. CASE mc_fork_new_trace
    BY <1>1 DEF mc_fork_new_trace, Goto, At, Awake, searchVars
  <1>2. CASE mc_shared_sem_wait_for_thread
    BY <1>2 DEF mc_shared_sem_wait_for_thread, Returned, At, Awake, traceVars
  <1>3. CASE ExitAtFirstResult
    <2>1. CASE pc' = "exited"
      <3>1. sig' = ParentDied /\ proc' = proc
        BY <1>3, <2>1 DEF ExitAtFirstResult, Goto, At, Awake, searchVars, shmVars
      <3>2. \A i \in Traces : proc[i] \in Living => i = forks
        OBVIOUS
      <3>3. forks # 0 /\ proc[forks] = "forked" => sig[forks] # {}
        BY <1>3 DEF ExitAtFirstResult, Goto, At, Awake, searchVars, shmVars
      <3> QED BY <3>1, <3>2, <3>3, ParentDiedTells
    <2> QED BY <2>1
  <1>4. CASE LoopAgain
    BY <1>4 DEF LoopAgain, Goto, At, Awake, searchVars, traceVars, shmVars
  <1>5. CASE mc_terminate_trace
    BY <1>5 DEF mc_terminate_trace, Goto, At, Awake, AfterTerminate, searchVars, shmVars
  <1>6. CASE ClearTracePid
    BY <1>6 DEF ClearTracePid, Goto, At, Awake, AfterTerminate, searchVars, traceVars,
       shmVars
  <1>7. CASE mc_stop_model_checking
    <2>1. CASE pc' = "exited"
      <3>1. sig' = ParentDied /\ proc' = proc
        BY <1>7, <2>1 DEF mc_stop_model_checking, Goto, At, Awake, searchVars, shmVars
      <3>2. \A i \in Traces : proc[i] \in Living => i = forks
        OBVIOUS
      <3>3. forks # 0 /\ proc[forks] = "forked" => sig[forks] # {}
        BY <1>7, <2>1 DEF mc_stop_model_checking, Goto, At, Awake, searchVars, shmVars
      <3> QED BY <3>1, <3>2, <3>3, ParentDiedTells
    <2> QED BY <2>1
  <1>8. CASE mc_exit
    <2>1. CASE pc' = "exited"
      <3>1. sig' = ParentDied /\ proc' = proc
        BY <1>8, <2>1 DEF mc_exit, Goto, At, Awake, searchVars, shmVars
      <3>2. \A i \in Traces : proc[i] \in Living => i = forks
        OBVIOUS
      <3>3. forks # 0 /\ proc[forks] = "forked" => sig[forks] # {}
        BY <1>8 DEF mc_exit, Goto, At, Awake, searchVars, shmVars
      <3> QED BY <3>1, <3>2, <3>3, ParentDiedTells
    <2> QED BY <2>1
  <1>9. CASE sigint_handler_scheduler
    BY <1>9 DEF sigint_handler_scheduler, searchVars, traceVars, shmVars
  <1>10. CASE alarm_handler
    BY <1>10 DEF alarm_handler, ParentDied, searchVars, shmVars
  <1>11. CASE sigchld_handler_scheduler
    BY <1>11 DEF sigchld_handler_scheduler, Returned, traceVars, shmVars
  <1>12. ASSUME NEW i \in Traces, install_sighandles_for_trace(i)
        PROVE  LeftBehind'
    BY <1>12 DEF install_sighandles_for_trace, schedulerVars, Unhandled, shmVars,
       searchVars
  <1>13. ASSUME NEW i \in Traces, mc_shared_sem_wait_for_scheduler(i)
        PROVE  LeftBehind'
    BY <1>13 DEF mc_shared_sem_wait_for_scheduler, schedulerVars, Unhandled, searchVars
  <1>14. ASSUME NEW i \in Traces, mc_shared_sem_wake_scheduler(i)
        PROVE  LeftBehind'
    BY <1>14 DEF mc_shared_sem_wake_scheduler, schedulerVars, Unhandled, searchVars
  <1>15. ASSUME NEW i \in Traces, NEW s \in {"SIGINT", "SIGUSR1"}, HandleSignal(i, s)
        PROVE  LeftBehind'
    BY <1>15 DEF HandleSignal, Ends, searchVars, shmVars
  <1>16. CASE Interrupt
    BY <1>16 DEF Interrupt, Happens, searchVars, shmVars
  <1>17. CASE Alarm
    BY <1>17 DEF Alarm, Happens, searchVars, traceVars, shmVars
  <1>18. CASE McminiBack
    BY <1>18 DEF McminiBack, Happens, traceVars, shmVars
  <1>19. ASSUME NEW i \in Traces, NEW e, NEW how \in {"crash", "self"}, TargetEnds(i, e, how)
        PROVE  LeftBehind'
    BY <1>19 DEF TargetEnds, Happens, Ends, Unhandled, searchVars, shmVars
  <1>20. CASE pc' # "exited"
    BY <1>20
  <1>21. CASE UNCHANGED vars
    BY <1>21 DEF vars
  <1> HIDE DEF LifecycleInv, TypeOK, Control, InOrder, YoungTrace, TracePid,
       AlarmIsAnEvent, LeftBehind, Young, Living, Leaving, NoTraceOutlivesTheScheduler,
       Unhandled, Traces, NoTrace
  <1> QED BY <1>1, <1>2, <1>3, <1>4, <1>5, <1>6, <1>7, <1>8, <1>9, <1>10, <1>11, <1>12,
       <1>13, <1>14, <1>15, <1>16, <1>17, <1>18, <1>19, <1>20, <1>21
       DEF Next, SchedulerStep, Handlers, TraceStep, Environment, SetTracePid, Goto, At,
       Awake, searchVars, traceVars, shmVars, mc_shared_sem_wake_thread,
       simulateRunningTransition, mc_report_undefined_behavior, ContinueTrace, EndTrace,
       ExecutionLimitReached, mc_restore_initial_trace, mc_wait_for_trace,
       mc_explore_branch, ResultsArePrinted, vars

\* Before the first fork there is no trace, and room for a transition.
LEMMA LifecycleInit == Init => LifecycleInv
  <1> SUFFICES ASSUME Init
               PROVE  LifecycleInv
    OBVIOUS
  <1> USE BoundsAssumption, EventsAssumption DEF Init
  <1>1. TypeOK
    <2>1. /\ pc \in Pcs /\ ret \in {"loop", "post", "next", "fork", "exit"} /\ code \in {0, 1}
          /\ chld \in Causes /\ mcReset \in BOOLEAN /\ region \in {"mapped", "unlinked"}
      BY DEF Pcs, Causes
    <2>2. /\ tracePid \in Traces \cup {NoTrace} /\ forks \in Traces \cup {0}
          /\ traceId \in Nat /\ depth \in 0 .. MaxOps /\ replayed \in 0 .. MaxOps
          /\ permit \in Nat /\ answer \in Nat
          /\ mailbox \in [trace : Traces \cup {NoTrace}, op : Nat]
      BY DEF NoTrace
    <2>3. /\ proc \in [Traces -> Phases] /\ cause \in [Traces -> Causes]
          /\ sig \in [Traces -> SUBSET {"SIGINT", "SIGUSR1"}] /\ ran \in [Traces -> Nat]
      BY DEF Phases, Causes
    <2> QED BY <2>1, <2>2, <2>3 DEF TypeOK
  <1>2. Control /\ Room /\ TracePid
    BY DEF Control, Room, TracePid, Leaving, Ending, Exploring, NoTrace
  <1>3. InOrder /\ ChildSignal /\ YoungTrace
    BY DEF InOrder, ChildSignal, YoungTrace, Traces
  <1>4. AlarmIsAnEvent /\ LeftBehind
    BY DEF AlarmIsAnEvent, LeftBehind, NoTraceOutlivesTheScheduler
  <1>5. InStep
    BY DEF InStep, Exploring, Ending
  <1> QED BY <1>1, <1>2, <1>3, <1>4, <1>5 DEF LifecycleInv

\* The invariant holds of every run of McMini, whatever is interrupted and restarted.
THEOREM LifecycleInvariant == Spec => []LifecycleInv
  <1>1. LifecycleInv /\ [Next]_vars => LifecycleInv'
    BY TypeOKKept, ControlKept, RoomKept, InOrderKept, TracePidKept, ChildSignalKept,
       YoungTraceKept, AlarmIsAnEventKept, InStepKept, LeftBehindKept DEF LifecycleInv
  <1> QED BY <1>1, LifecycleInit, PTL DEF Spec

-----------------------------------------------------------------------------
(* What follows *)

\* The counters stay in their bounds and the processes in their phases.
THEOREM LifecycleTypes == Spec => []TypeOK
  <1>1. LifecycleInv => TypeOK
    BY DEF LifecycleInv
  <1> QED BY <1>1, LifecycleInvariant, PTL

\* mc_fork_new_trace never finds another trace alive, and its assertion that there is
\* none holds, whatever ended the trace before.
THEOREM OneTraceAtATimeAlways == Spec => []OneTraceAtATime
  <1>1. LifecycleInv => OneTraceAtATime
    BY BoundsAssumption DEF LifecycleInv, TypeOK, InOrder, TracePid, OneTraceAtATime, Leaving,
       Traces, NoTrace
  <1> QED BY <1>1, LifecycleInvariant, PTL

\* What the scheduler decodes is the answer to its last question, from the trace it runs
\* now: no signal of an earlier trace and no 'mcmini back' lets the two slip out of step.
THEOREM TraceIsInStepAlways == Spec => []TraceIsInStep
  <1>1. LifecycleInv => TraceIsInStep
    BY BoundsAssumption DEF LifecycleInv, TypeOK, Control, Room, InOrder, TracePid, InStep,
       TraceIsInStep, Undisturbed, EndedByItself, Exploring, Ending, Resting, Going, Awake,
       Leaving, Traces, NoTrace
  <1> QED BY <1>1, LifecycleInvariant, PTL

\* When the scheduler is gone and no alarm rang, every trace that still lives has the
\* signal that ends it.
THEOREM NoTraceOutlivesAlways == Spec => []NoTraceOutlivesTheScheduler
  <1>1. LifecycleInv => NoTraceOutlivesTheScheduler
    BY DEF LifecycleInv, LeftBehind
  <1> QED BY <1>1, LifecycleInvariant, PTL
====
