---- MODULE ConditionVariable ----
(***************************************************************************)
(* One shadow condition variable with any number of threads that wait on   *)
(* it, signal it and broadcast to it in any order.                         *)
(***************************************************************************)
EXTENDS ConditionOperations

CONSTANT MaxSignals     \* bound: the signals that wait to be used up

ASSUME MaxSignalsAssumption == MaxSignals \in Nat

VARIABLE cond

Init == cond = NewCond

\* MCCondEnqueue::applyToState
Enqueue(t) ==
    /\ t \notin ToSet(cond.wait_queue)
    /\ cond' = MCCondEnqueue(cond, t).applied

\* MCCondWait::applyToState.  That the mutex is free is the scheduler's business.
Wait(t) ==
    /\ MCCondWait(cond, t).enabled
    /\ cond' = MCCondWait(cond, t).applied

Signal ==
    /\ Len(cond.wake_groups) < MaxSignals
    /\ cond' = MCCondSignal(cond).applied

Broadcast == cond' = MCCondBroadcast(cond).applied

Next ==
    \/ Signal
    \/ Broadcast
    \/ \E t \in Threads : Enqueue(t) \/ Wait(t)

Spec == Init /\ [][Next]_cond

-----------------------------------------------------------------------------

TypeOK == cond \in CondStates

Queued == ToSet(cond.wait_queue)

\* Only a thread that waits, and waits once, can use up a signal or a broadcast: what
\* a thread left behind by wake_thread never wakes it when it waits again.
WaitersOnly ==
    /\ \A i, j \in DOMAIN cond.wait_queue :
          cond.wait_queue[i] = cond.wait_queue[j] => i = j
    /\ cond.broadcast_eligible_threads \subseteq Queued
    /\ \A i \in DOMAIN cond.wake_groups : cond.wake_groups[i] \subseteq Queued

\* A thread that may use up a signal may use up every later one.  This is why using up
\* the FIRST signal (DefaultPolicy::wake_thread) "allows the most possible threads"
\* to wake.
LaterSignalsReachMore ==
    \A i, j \in DOMAIN cond.wake_groups :
        i <= j => cond.wake_groups[i] \subseteq cond.wake_groups[j]

-----------------------------------------------------------------------------
(* The sets of threads the signals and broadcasts received so far may have   *)
(* woken: those a broadcast woke, and one more for each signal, as many as   *)
(* can be.                                                                   *)

\* Each thread of S can have a signal of its own.
CanBeSignalled(S) ==
    \E signal \in [S -> DOMAIN cond.wake_groups] :
        /\ \A t \in S : t \in cond.wake_groups[signal[t]]
        /\ \A t, u \in S : signal[t] = signal[u] => t = u

Signalled ==
    {S \in SUBSET ((UNION ToSet(cond.wake_groups)) \ cond.broadcast_eligible_threads) :
        CanBeSignalled(S)}

possible ==
    {cond.broadcast_eligible_threads \cup S :
        S \in {S \in Signalled : \A S2 \in Signalled : S \subseteq S2 => S2 = S}}

Semantics == INSTANCE WakeupSemantics
             WITH Waiters <- Threads, waiting <- Queued

\* The policy keeps the promise of condition variables, and no thread that they would
\* let wake is kept asleep.
ImplementsSemantics == Semantics!Spec

\* thread_can_exit answers exactly the question whether the thread may have been woken.
CanExitIsMayLeave ==
    \A t \in Threads : thread_can_exit(cond, t) <=> Semantics!MayLeave(t)
====
