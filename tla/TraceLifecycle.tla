---- MODULE TraceLifecycle ----
(***************************************************************************)
(* The life of the trace processes: fork, the handlers a child inherits    *)
(* and replaces, SIGUSR1 and waitpid at the end of a branch, and all the   *)
(* ways a trace or the scheduler can end at a moment nobody chose: the     *)
(* target crashes or calls _exit, the user presses ^C or types             *)
(* 'mcmini back', an hour has passed.                                      *)
(*                                                                         *)
(* One operation of the target is one answer here; TraceHandshake models   *)
(* how its threads produce it.  A pending signal is handled before the     *)
(* next step of the process it is sent to.                                 *)
(***************************************************************************)
EXTENDS Naturals, FiniteSets

CONSTANTS
    MaxTraces,  \* bound: forks
    MaxOps,     \* bound: transitions of a trace
    Events      \* what may happen once each: a subset of AllEvents

AllEvents == {"interrupt", "alarm", "back", "crash", "_exit"}

ASSUME BoundsAssumption == MaxTraces \in Nat \ {0} /\ MaxOps \in Nat \ {0}
ASSUME EventsAssumption == Events \subseteq AllEvents

NoTrace == 0                    \* trace_pid == -1
Traces == 1 .. MaxTraces

VARIABLES
    \* The scheduler
    pc, ret,        \* where it is; where mc_terminate_trace returns to
    code,           \* the status it exits with
    pending,        \* SIGINT, SIGALRM sent to it and not handled yet
    chld,           \* how the child ended that its pending SIGCHLD is about
    masked,         \* signals it is in the handler of
    tracePid,       \* trace_pid
    forks,          \* the traces forked so far
    traceId,
    depth,          \* the height of the transition stack
    replayed,       \* how much of it this trace has run again
    mcReset,        \* mc_reset
    region,         \* the shared memory file: "mapped" or "unlinked"
    \* The traces
    proc,           \* how far each one is
    cause,          \* how it ended
    sig,            \* signals sent to it and not handled yet
    ran,            \* operations it has run
    \* Shared memory
    permit, answer, \* pthread_sem and dpor_scheduler_sem, of all threads
    mailbox,        \* who wrote the mailbox last, and after which operation
    \* The environment
    events          \* what may still happen

searchVars == <<traceId, depth, replayed, mcReset>>
schedulerVars == <<pc, ret, code, pending, chld, masked, tracePid, forks,
                   traceId, depth, replayed, mcReset, region>>
traceVars == <<proc, cause, sig, ran>>
shmVars == <<permit, answer, mailbox>>
vars == <<pc, ret, code, pending, chld, masked, tracePid, forks, traceId, depth,
          replayed, mcReset, region, proc, cause, sig, ran, permit, answer,
          mailbox, events>>

Pcs == {"fork", "forked", "replay", "post", "wait", "blocked", "decode", "choose",
        "loop", "terminate", "waitpid", "clear", "next", "stop", "exit", "exited"}

\*  none      not forked yet
\*  forked    runs with all handlers of the scheduler
\*  armed     the same, and gets SIGUSR1 when the scheduler dies
\*  bare      the scheduler's handlers removed, its own not installed yet
\*  ready     blocked in front of its next operation
\*  running   the program's code runs
\*  zombie    ended, not waited for
\*  reaped
Living == {"forked", "armed", "bare", "ready", "running"}
Phases == {"none", "zombie", "reaped"} \cup Living

\*  killed    it caught SIGUSR1 (or ran a handler of the scheduler) and called _exit
\*  self      the program called _exit
Causes == {"none", "killed", "self", "crash", "SIGINT", "SIGUSR1"}

Init ==
    /\ pc = "fork" /\ ret = "loop" /\ code = 0
    /\ pending = {} /\ chld = "none" /\ masked = {}
    /\ tracePid = NoTrace /\ forks = 0
    /\ traceId = 0 /\ depth = 0 /\ replayed = 0 /\ mcReset = FALSE
    /\ region = "mapped"
    /\ proc = [i \in Traces |-> "none"]
    /\ cause = [i \in Traces |-> "none"]
    /\ sig = [i \in Traces |-> {}]
    /\ ran = [i \in Traces |-> 0]
    /\ permit = 0 /\ answer = 0
    /\ mailbox = [trace |-> NoTrace, op |-> 0]
    /\ events = Events

-----------------------------------------------------------------------------
(* The scheduler process *)

\* Nothing to handle before the next step.
Awake == pending \subseteq masked /\ (chld = "none" \/ "SIGCHLD" \in masked)

At(here) == pc = here /\ Awake

Goto(there) == pc' = there /\ UNCHANGED <<pending, chld, masked>>

\* mc_reset_cv_locks, MC_ASSERT(trace_pid == -1), fork.
mc_fork_new_trace ==
    /\ At("fork")
    /\ IF tracePid # NoTrace
       THEN Goto("exited") /\ code' = 1 /\ UNCHANGED <<forks, proc, permit, answer>>
       ELSE /\ forks < MaxTraces
            /\ forks' = forks + 1
            /\ proc' = [proc EXCEPT ![forks + 1] = "forked"]
            /\ permit' = 0 /\ answer' = 0
            /\ Goto("forked") /\ UNCHANGED code
    /\ UNCHANGED <<ret, tracePid, searchVars, region, cause, sig, ran, mailbox, events>>

SetTracePid ==
    /\ At("forked")
    /\ tracePid' = forks
    /\ Goto("replay")
    /\ UNCHANGED <<ret, code, forks, searchVars, region, traceVars, shmVars, events>>

\* The next transition to replay, or the one to explore: wake its thread.
mc_shared_sem_wake_thread ==
    /\ At("replay") \/ At("post")
    /\ permit' = permit + 1
    /\ Goto("wait")
    /\ UNCHANGED <<ret, code, tracePid, forks, searchVars, region, traceVars, answer,
                   mailbox, events>>

\* sem_wait has returned.
Returned ==
    IF replayed < depth
    THEN pc' = "replay" /\ replayed' = replayed + 1
    ELSE pc' = "decode" /\ UNCHANGED replayed

\* P(dpor_scheduler_sem)
mc_shared_sem_wait_for_thread ==
    /\ At("wait") \/ At("blocked")
    /\ \/ answer > 0 /\ answer' = answer - 1 /\ Returned
       \/ answer = 0 /\ pc = "wait" /\ pc' = "blocked" /\ UNCHANGED <<answer, replayed>>
    /\ UNCHANGED <<ret, code, pending, chld, masked, tracePid, forks, traceId, depth,
                   mcReset, region, traceVars, permit, mailbox, events>>

\* Push the transition and decode the mailbox.
simulateRunningTransition ==
    /\ At("decode")
    /\ depth' = depth + 1 /\ replayed' = depth + 1
    /\ Goto("choose")
    /\ UNCHANGED <<ret, code, tracePid, forks, traceId, mcReset, region, traceVars,
                   shmVars, events>>

\* Decoding the operation found undefined behaviour: the trace is killed and the
\* shared memory file stays.
mc_report_undefined_behavior ==
    /\ At("decode")
    /\ Goto("terminate") /\ ret' = "exit" /\ code' = 1
    /\ UNCHANGED <<tracePid, forks, searchVars, region, traceVars, shmVars, events>>

\* Mutant: the limit of the stack is not looked at.
NoLimit ==
    /\ At("choose")
    /\ Goto("loop") /\ ret' = "post"
    /\ UNCHANGED <<code, tracePid, forks, searchVars, region, traceVars, shmVars, events>>

ContinueTrace ==
    /\ At("choose")
    /\ depth < MaxOps
    /\ Goto("loop") /\ ret' = "post"
    /\ UNCHANGED <<code, tracePid, forks, searchVars, region, traceVars, shmVars, events>>

\* No transition is left: the trace ends.
EndTrace ==
    /\ At("choose")
    /\ Goto("terminate") /\ ret' = "next"
    /\ UNCHANGED <<code, tracePid, forks, searchVars, region, traceVars, shmVars, events>>

\* Mutant: no PR_SET_PDEATHSIG.
NobodyIsTold == sig

\* How the exit of the scheduler reaches a trace: PR_SET_PDEATHSIG.
ParentDied == [i \in Traces |-> IF proc[i] \in Living \ {"forked"}
                                THEN sig[i] \cup {"SIGUSR1"} ELSE sig[i]]

\* The first data race, deadlock or livelock: the scheduler exits and leaves the
\* trace to the kernel.
ExitAtFirstResult ==
    /\ At("choose")
    /\ Goto("exited") /\ code' = 0
    /\ sig' = ParentDied
    /\ UNCHANGED <<ret, tracePid, forks, searchVars, region, proc, cause, ran, shmVars, events>>

\* The stack is full.
ExecutionLimitReached ==
    /\ At("choose")
    /\ depth = MaxOps
    /\ Goto("stop") /\ code' = 1
    /\ UNCHANGED <<ret, tracePid, forks, searchVars, region, traceVars, shmVars, events>>

\* Mutant: mc_reset stays set.
ResetStaysSet ==
    /\ At("loop") /\ mcReset
    /\ depth' = 0 /\ replayed' = 0
    /\ Goto("terminate") /\ ret' = "fork"
    /\ UNCHANGED <<code, tracePid, forks, traceId, mcReset, region, traceVars, shmVars, events>>

\* 'mcmini back': the model goes back to the start, the trace is killed and a new
\* one forked.
mc_restore_initial_trace ==
    /\ At("loop") /\ mcReset
    /\ mcReset' = FALSE /\ depth' = 0 /\ replayed' = 0
    /\ Goto("terminate") /\ ret' = "fork"
    /\ UNCHANGED <<code, tracePid, forks, traceId, region, traceVars, shmVars, events>>

LoopAgain ==
    /\ At("loop") /\ ~ mcReset
    /\ Goto(ret)
    /\ UNCHANGED <<ret, code, tracePid, forks, searchVars, region, traceVars, shmVars, events>>

\* After the trace that is no longer needed is gone.
AfterTerminate == Goto(IF ret = "next" THEN "loop" ELSE ret)

\* Mutant: the scheduler waits for the trace without killing it.
WaitOnly ==
    /\ At("terminate")
    /\ IF mcReset \/ tracePid = NoTrace THEN AfterTerminate ELSE Goto("waitpid")
    /\ UNCHANGED <<ret, code, tracePid, forks, searchVars, region, traceVars, shmVars, events>>

mc_terminate_trace ==
    /\ At("terminate")
    /\ IF mcReset \/ tracePid = NoTrace
       THEN AfterTerminate /\ UNCHANGED sig
       ELSE /\ sig' = [sig EXCEPT ![tracePid] =
                          IF proc[tracePid] \in Living THEN @ \cup {"SIGUSR1"} ELSE @]
            /\ Goto("waitpid")
    /\ UNCHANGED <<ret, code, tracePid, forks, searchVars, region, proc, cause, ran, shmVars, events>>

\* waitpid: the child is a zombie, or nobody's child any more (ECHILD).
mc_wait_for_trace ==
    /\ At("waitpid")
    /\ proc[tracePid] \in {"zombie", "reaped"}
    /\ proc' = [proc EXCEPT ![tracePid] = "reaped"]
    /\ Goto("clear")
    /\ UNCHANGED <<ret, code, tracePid, forks, searchVars, region, cause, sig, ran, shmVars, events>>

ClearTracePid ==
    /\ At("clear")
    /\ tracePid' = NoTrace
    /\ AfterTerminate
    /\ UNCHANGED <<ret, code, forks, searchVars, region, traceVars, shmVars, events>>

\* Mutant: the new trace does not replay them.
NoReplay(k) ==
    /\ At("next")
    /\ forks < MaxTraces
    /\ traceId' = traceId + 1
    /\ depth' = k /\ replayed' = k
    /\ Goto("fork")
    /\ UNCHANGED <<ret, code, tracePid, forks, mcReset, region, traceVars, shmVars, events>>

\* The next branch: the first k transitions are kept for the next trace.
mc_explore_branch(k) ==
    /\ At("next")
    /\ forks < MaxTraces
    /\ traceId' = traceId + 1
    /\ depth' = k /\ replayed' = 0
    /\ Goto("fork")
    /\ UNCHANGED <<ret, code, tracePid, forks, mcReset, region, traceVars, shmVars, events>>

\* No branch is left, or the trace was the one '-t' asked for; or, after a sequence of
\* threads, a later trace has been run again as far as it leaves the sequence.
ResultsArePrinted ==
    /\ \/ At("next")
       \/ At("replay") /\ replayed = depth /\ traceId >= 1
    /\ Goto("stop") /\ code' = 0
    /\ UNCHANGED <<ret, tracePid, forks, searchVars, region, traceVars, shmVars, events>>

\* mc_deallocate_shared_memory_region; a second shm_unlink fails and exits at once.
mc_stop_model_checking ==
    /\ At("stop")
    /\ IF region = "mapped"
       THEN /\ region' = "unlinked"
            /\ Goto("terminate") /\ ret' = "exit"
            /\ UNCHANGED <<code, sig>>
       ELSE Goto("exited") /\ code' = 1 /\ sig' = ParentDied /\ UNCHANGED <<ret, region>>
    /\ UNCHANGED <<tracePid, forks, searchVars, proc, cause, ran, shmVars, events>>

mc_exit ==
    /\ At("exit")
    /\ Goto("exited")
    /\ sig' = ParentDied
    /\ UNCHANGED <<ret, code, tracePid, forks, searchVars, region, proc, cause, ran, shmVars, events>>

sigint_handler_scheduler ==
    /\ pc # "exited"
    /\ "SIGINT" \in pending \ masked
    /\ pending' = pending \ {"SIGINT"} /\ masked' = masked \cup {"SIGINT"}
    /\ pc' = "stop" /\ code' = 0
    /\ UNCHANGED <<ret, chld, tracePid, forks, searchVars, region, traceVars, shmVars, events>>

alarm_handler ==
    /\ pc # "exited"
    /\ "SIGALRM" \in pending
    /\ pending' = pending \ {"SIGALRM"}
    /\ pc' = "exited" /\ code' = 1
    /\ sig' = ParentDied
    /\ UNCHANGED <<ret, chld, masked, tracePid, forks, searchVars, region, proc, cause, ran, shmVars, events>>

\* Mutant: every end of a child is the normal case.
AnyDeathIsNormal ==
    /\ pc # "exited"
    /\ chld # "none" /\ "SIGCHLD" \notin masked
    /\ chld' = "none"
    /\ IF pc = "blocked" THEN Returned ELSE UNCHANGED <<pc, replayed>>
    /\ UNCHANGED <<ret, code, masked, pending, tracePid, forks, traceId, depth, mcReset,
                   region, traceVars, shmVars, events>>

\* A child that exited, or died of ^C, is the normal case: the handler returns, and
\* so does a sem_wait it interrupted (no SA_RESTART), without a permit.  Any other
\* end stops McMini.
sigchld_handler_scheduler ==
    /\ pc # "exited"
    /\ chld # "none" /\ "SIGCHLD" \notin masked
    /\ chld' = "none"
    /\ IF chld \in {"killed", "self", "SIGINT"}
       THEN /\ IF pc = "blocked" THEN Returned ELSE UNCHANGED <<pc, replayed>>
            /\ UNCHANGED <<code, masked>>
       ELSE /\ pc' = "stop" /\ code' = 1 /\ masked' = masked \cup {"SIGCHLD"}
            /\ UNCHANGED replayed
    /\ UNCHANGED <<ret, pending, tracePid, forks, traceId, depth, mcReset, region,
                   traceVars, shmVars, events>>

-----------------------------------------------------------------------------
(* The trace processes *)

\* Trace i ends; the scheduler is told unless a SIGCHLD is pending already.
Ends(i, how) ==
    /\ proc' = [proc EXCEPT ![i] = "zombie"]
    /\ cause' = [cause EXCEPT ![i] = how]
    /\ sig' = [sig EXCEPT ![i] = {}]
    /\ chld' = IF chld = "none" THEN how ELSE chld

Unhandled(i) == sig[i] # {}

\* prctl, then the handlers of the scheduler are removed, then its own installed.
install_sighandles_for_trace(i) ==
    /\ ~ Unhandled(i)
    /\ \/ proc[i] = "forked" /\ proc' = [proc EXCEPT ![i] = "armed"]
       \/ proc[i] = "armed" /\ proc' = [proc EXCEPT ![i] = "bare"]
       \/ proc[i] = "bare" /\ proc' = [proc EXCEPT ![i] = "ready"]
    /\ UNCHANGED <<schedulerVars, cause, sig, ran, shmVars, events>>

\* A thread takes the permit and runs.
mc_shared_sem_wait_for_scheduler(i) ==
    /\ ~ Unhandled(i)
    /\ proc[i] = "ready" /\ permit > 0
    /\ permit' = permit - 1
    /\ proc' = [proc EXCEPT ![i] = "running"]
    /\ UNCHANGED <<schedulerVars, cause, sig, ran, answer, mailbox, events>>

\* It reaches its next operation, writes the mailbox and wakes the scheduler.
mc_shared_sem_wake_scheduler(i) ==
    /\ ~ Unhandled(i)
    /\ proc[i] = "running"
    /\ ran' = [ran EXCEPT ![i] = @ + 1]
    /\ mailbox' = [trace |-> i, op |-> ran[i] + 1]
    /\ answer' = answer + 1
    /\ proc' = [proc EXCEPT ![i] = "ready"]
    /\ UNCHANGED <<schedulerVars, cause, sig, permit, events>>

\* A handler of the scheduler in a child that still has it tries to remove a shared
\* memory file of its own name, which does not exist, and exits.  Later SIGUSR1 is
\* what ends a trace, and SIGINT has its default action.
HandleSignal(i, s) ==
    /\ proc[i] \in Living /\ s \in sig[i]
    /\ Ends(i, CASE proc[i] \in {"forked", "armed"} -> "killed"
                 [] proc[i] = "bare" -> s
                 [] OTHER -> IF s = "SIGUSR1" THEN "killed" ELSE s)
    /\ UNCHANGED <<pc, ret, code, pending, masked, tracePid, forks, searchVars, region,
                   ran, shmVars, events>>

-----------------------------------------------------------------------------
(* The environment *)

Happens(e) == e \in events /\ events' = events \ {e}

\* ^C goes to the whole foreground process group.
Interrupt ==
    /\ Happens("interrupt")
    /\ pc # "exited"
    /\ pending' = pending \cup {"SIGINT"}
    /\ sig' = [i \in Traces |-> IF proc[i] \in Living THEN sig[i] \cup {"SIGINT"} ELSE sig[i]]
    /\ UNCHANGED <<pc, ret, code, chld, masked, tracePid, forks, searchVars, region,
                   proc, cause, ran, shmVars>>

Alarm ==
    /\ Happens("alarm")
    /\ pc # "exited"
    /\ pending' = pending \cup {"SIGALRM"}
    /\ UNCHANGED <<pc, ret, code, chld, masked, tracePid, forks, searchVars, region,
                   traceVars, shmVars>>

\* gdb stops the scheduler somewhere in the search loop of the first trace and sets
\* mc_reset.
McminiBack ==
    /\ Happens("back")
    /\ traceId = 0
    /\ pc \in {"post", "wait", "blocked", "decode", "choose"} \/ (pc \in {"waitpid", "clear"} /\ ret = "next")
    /\ mcReset' = TRUE
    /\ UNCHANGED <<pc, ret, code, pending, chld, masked, tracePid, forks, traceId, depth,
                   replayed, region, traceVars, shmVars>>

\* The program dies of a signal, or calls _exit, which McMini does not intercept.
TargetEnds(i, e, how) ==
    /\ Happens(e)
    /\ proc[i] = "running" /\ ~ Unhandled(i)
    /\ Ends(i, how)
    /\ UNCHANGED <<pc, ret, code, pending, masked, tracePid, forks, searchVars, region,
                   ran, shmVars>>

-----------------------------------------------------------------------------

SchedulerStep ==
    \/ mc_fork_new_trace
    \/ SetTracePid
    \/ mc_shared_sem_wake_thread
    \/ mc_shared_sem_wait_for_thread
    \/ simulateRunningTransition
    \/ mc_report_undefined_behavior
    \/ ContinueTrace
    \/ EndTrace
    \/ ExitAtFirstResult
    \/ ExecutionLimitReached
    \/ mc_restore_initial_trace
    \/ LoopAgain
    \/ mc_terminate_trace
    \/ mc_wait_for_trace
    \/ ClearTracePid
    \/ \E k \in 0 .. depth - 1 : mc_explore_branch(k)
    \/ ResultsArePrinted
    \/ mc_stop_model_checking
    \/ mc_exit

Handlers ==
    \/ sigint_handler_scheduler
    \/ alarm_handler
    \/ sigchld_handler_scheduler

TraceStep(i) ==
    \/ install_sighandles_for_trace(i)
    \/ mc_shared_sem_wait_for_scheduler(i)
    \/ mc_shared_sem_wake_scheduler(i)
    \/ \E s \in {"SIGINT", "SIGUSR1"} : HandleSignal(i, s)

Environment ==
    \/ Interrupt
    \/ Alarm
    \/ McminiBack
    \/ \E i \in Traces : TargetEnds(i, "crash", "crash") \/ TargetEnds(i, "_exit", "self")

Next ==
    \/ SchedulerStep
    \/ Handlers
    \/ \E i \in Traces : TraceStep(i)
    \/ Environment

Spec == Init /\ [][Next]_vars

\* The kernel runs both processes and delivers their signals.
FairSpec ==
    /\ Spec
    /\ WF_vars(SchedulerStep)
    /\ WF_vars(Handlers)
    /\ \A i \in Traces : WF_vars(TraceStep(i))

-----------------------------------------------------------------------------
(* Properties *)

TypeOK ==
    /\ pc \in Pcs /\ ret \in {"loop", "post", "next", "fork", "exit"} /\ code \in {0, 1}
    /\ pending \subseteq {"SIGINT", "SIGALRM"} /\ masked \subseteq {"SIGINT", "SIGCHLD"}
    /\ chld \in Causes
    /\ tracePid \in Traces \cup {NoTrace} /\ forks \in Traces \cup {0}
    /\ traceId \in Nat /\ depth \in 0 .. MaxOps /\ replayed \in 0 .. MaxOps
    /\ mcReset \in BOOLEAN
    /\ region \in {"mapped", "unlinked"}
    /\ proc \in [Traces -> Phases]
    /\ cause \in [Traces -> Causes]
    /\ sig \in [Traces -> SUBSET {"SIGINT", "SIGUSR1"}]
    /\ ran \in [Traces -> Nat]
    /\ permit \in Nat /\ answer \in Nat
    /\ mailbox \in [trace : Traces \cup {NoTrace}, op : Nat]
    /\ events \subseteq AllEvents

\* The trace the scheduler works with; the last one forked.
EndedByItself == forks # 0 /\ cause[forks] \in {"self", "crash", "SIGINT"}

\* "Ensure that a child does not already exist to prevent fork bombing": when the
\* scheduler is about to fork, every trace before has been waited for, and the
\* assertion holds, whatever signal or 'mcmini back' came in between.
OneTraceAtATime ==
    /\ pc = "fork" => tracePid = NoTrace /\ \A i \in Traces : proc[i] \in {"none", "reaped"}
    /\ pc # "exited" => \A i \in Traces : proc[i] \notin {"none", "reaped"} => i = forks

\* Scheduler and trace are in step.  What the scheduler decodes was written by the
\* trace it runs now, after the very operation it asked for, and a trace never runs
\* an operation the scheduler did not ask for: the SIGCHLD of an earlier trace must
\* not interrupt the wait for this one, and 'mcmini back' must start both sides over.
TraceIsInStep ==
    Awake /\ ~ EndedByItself =>
        /\ pc = "decode" => mailbox = [trace |-> tracePid, op |-> depth + 1]
        /\ pc \in {"replay", "post", "choose", "loop"} => permit = 0 /\ answer = 0
        /\ pc \in {"choose", "post"} => ran[tracePid] = depth
        /\ pc = "replay" => ran[tracePid] = replayed

\* A trace outlives the scheduler only if the alarm rang in the moment between fork
\* and prctl; every other one has a signal on its way that ends it.
NoTraceOutlivesTheScheduler ==
    pc = "exited" /\ "alarm" \in events \cup (AllEvents \ Events) =>
        \A i \in Traces : proc[i] \in Living => Unhandled(i)

\* A crash of the target at any moment stops McMini, and not with the status of
\* success unless the user had pressed ^C.
CrashIsReported ==
    \A i \in Traces :
        cause[i] = "crash" ~> pc = "exited" /\ (code = 1 \/ "SIGINT" \in masked)

\* McMini always comes to an end (the fork and depth bounds make the search finite):
\* no wait for a trace lasts for ever, unless the program called _exit.
McMiniEnds ==
    <>(pc = "exited" \/ (pc = "fork" /\ forks = MaxTraces) \/ \E i \in Traces : cause[i] = "self")
====
