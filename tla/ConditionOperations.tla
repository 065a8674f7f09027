---- MODULE ConditionOperations ----
(***************************************************************************)
(* The shadow condition variable (MCConditionVariable), the wakeup policy  *)
(* every condition variable gets (ConditionVariableArbitraryPolicy over    *)
(* SingleGroupPolicy over DefaultPolicy) and the transition classes        *)
(* MCCondInit, MCCondEnqueue, MCCondWait, MCCondSignal and                 *)
(* MCCondBroadcast, as records (see ThreadOperations).                     *)
(*                                                                         *)
(* A cond_wait is announced as two operations: the thread joins the queue  *)
(* and releases the mutex, then waits to be woken and to lock the mutex.   *)
(* Who wakes is decided late: a signal leaves behind the group of threads  *)
(* any one of which may use it up.                                         *)
(***************************************************************************)
EXTENDS SequencesExt, ThreadOperations

CondStates ==
    [wait_queue : Seq(Threads),
     wake_groups : Seq(SUBSET Threads),          \* signals nobody used up yet
     broadcast_eligible_threads : SUBSET Threads]

NewCond == [wait_queue |-> << >>, wake_groups |-> << >>, broadcast_eligible_threads |-> {}]

CondOperationTypes ==
    {"cond_init", "cond_enqueue", "cond_wait", "cond_signal", "cond_broadcast"}

has_waiters(c) == c.wait_queue # << >>

add_waiter(c, t) == [c EXCEPT !.wait_queue = Append(@, t)]

\* Mutant: the latest signal comes first.
SignalInFront(c) ==
    IF has_waiters(c) THEN [c EXCEPT !.wake_groups = <<ToSet(c.wait_queue)>> \o @] ELSE c

\* A signal sent while nobody waits is lost.
receive_signal_message(c) ==
    IF has_waiters(c) THEN [c EXCEPT !.wake_groups = Append(@, ToSet(c.wait_queue))] ELSE c

\* Everybody who waits may leave.  The queue keeps them until they do.
receive_broadcast_message(c) ==
    [c EXCEPT !.broadcast_eligible_threads =
                  @ \cup ToSet(c.wait_queue) \cup UNION ToSet(c.wake_groups),
              !.wake_groups = << >>]

\* Mutant: only the first signal is looked at.
CanUseTheFirst(c, t) ==
    \/ t \in c.broadcast_eligible_threads
    \/ c.wake_groups # << >> /\ t \in Head(c.wake_groups)

thread_can_exit(c, t) ==
    \/ t \in c.broadcast_eligible_threads
    \/ \E i \in DOMAIN c.wake_groups : t \in c.wake_groups[i]

\* Mutant: the latest signal is used up instead of the first.
UsesUpTheLatest(c, t) ==
    IF t \in c.broadcast_eligible_threads THEN c.wake_groups
    ELSE RemoveAt(c.wake_groups,
                  CHOOSE i \in DOMAIN c.wake_groups :
                     /\ t \in c.wake_groups[i]
                     /\ \A j \in DOMAIN c.wake_groups : t \in c.wake_groups[j] => j <= i)

\* A thread that a broadcast woke uses up no signal, another uses up the first it may.
SignalsLeft(c, t) ==
    IF t \in c.broadcast_eligible_threads THEN c.wake_groups
    ELSE RemoveAt(c.wake_groups,
                  CHOOSE i \in DOMAIN c.wake_groups :
                     /\ t \in c.wake_groups[i]
                     /\ \A j \in 1 .. i - 1 : t \notin c.wake_groups[j])

\* A thread that leaves is taken out of everything.
wake_thread(c, t) ==
    LET left == SignalsLeft(c, t)
    IN  [wait_queue |-> IF t \in ToSet(c.wait_queue)
                        THEN RemoveFirst(c.wait_queue, t) ELSE c.wait_queue,
         wake_groups |-> [i \in DOMAIN left |-> left[i] \ {t}],
         broadcast_eligible_threads |-> c.broadcast_eligible_threads \ {t}]

-----------------------------------------------------------------------------

MCCondInit(c) == [announced |-> c, enabled |-> TRUE, applied |-> c]

\* It also unlocks the mutex.
MCCondEnqueue(c, t) == [announced |-> c, enabled |-> TRUE, applied |-> add_waiter(c, t)]

\* It also locks the mutex, and is enabled only if the mutex is free.  It is never run
\* when it is not enabled (wake_thread asserts it).
MCCondWait(c, t) ==
    [announced |-> c, enabled |-> thread_can_exit(c, t),
     applied |-> IF thread_can_exit(c, t) THEN wake_thread(c, t) ELSE c]

MCCondSignal(c) == [announced |-> c, enabled |-> TRUE, applied |-> receive_signal_message(c)]

MCCondBroadcast(c) ==
    [announced |-> c, enabled |-> TRUE, applied |-> receive_broadcast_message(c)]

CondOperation(type, c, t) ==
    CASE type = "cond_init"      -> MCCondInit(c)
      [] type = "cond_enqueue"   -> MCCondEnqueue(c, t)
      [] type = "cond_wait"      -> MCCondWait(c, t)
      [] type = "cond_signal"    -> MCCondSignal(c)
      [] type = "cond_broadcast" -> MCCondBroadcast(c)

-----------------------------------------------------------------------------
(* What the classes answer about themselves (MCCondEnqueue and MCCondWait    *)
(* have more to say of mutexes, see VisibleOperations).  Two cond_enqueues,  *)
(* or two cond_waits, are never enabled together: each comes with the mutex. *)

MCCondInitClass == DependsOn(CondOperationTypes)

MCCondEnqueueClass ==
    [DependsOn(CondOperationTypes) EXCEPT !.neverCoenabled = {"cond_enqueue"}]

MCCondWaitClass == [DependsOn(CondOperationTypes) EXCEPT !.neverCoenabled = {"cond_wait"}]

MCCondSignalClass == DependsOn(CondOperationTypes)

MCCondBroadcastClass == DependsOn(CondOperationTypes)

CondClass(type) ==
    CASE type = "cond_init"      -> MCCondInitClass
      [] type = "cond_enqueue"   -> MCCondEnqueueClass
      [] type = "cond_wait"      -> MCCondWaitClass
      [] type = "cond_signal"    -> MCCondSignalClass
      [] type = "cond_broadcast" -> MCCondBroadcastClass
====
