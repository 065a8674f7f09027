---- MODULE BarrierOperations ----
(***************************************************************************)
(* The shadow barrier (MCBarrier) and its transition classes MCBarrierInit *)
(* and MCBarrierWait, as records (see ThreadOperations).                   *)
(*                                                                         *)
(* A thread enters the barrier when its wait is announced, not when it is  *)
(* run: the handler changes the shadow object.                             *)
(***************************************************************************)
EXTENDS FiniteSets, ThreadOperations

BarrierStates ==
    [registered : BOOLEAN,
     isEven     : BOOLEAN,          \* the set that threads enter now
     even       : SUBSET Threads,   \* threadsWaitingOnBarrierEven
     odd        : SUBSET Threads]   \* threadsWaitingOnBarrierOdd

NewBarrier(registered) == [registered |-> registered, isEven |-> FALSE, even |-> {}, odd |-> {}]

BarrierOperationTypes == {"barrier_init", "barrier_wait"}

\* The copy constructor leaves the threads behind.
CopiedBarrier(b) == NewBarrier(b.registered)

isWaitingOnBarrier(b, t) == t \in b.even \cup b.odd

waitingSetForParity(b) == IF b.isEven THEN b.even ELSE b.odd

\* MCBarrier::wait: the last thread to enter turns the parity.
EnterBarrier(b, t, count) ==
    LET entered == waitingSetForParity(b) \cup {t}
        isEven == IF Cardinality(entered) = count THEN ~ b.isEven ELSE b.isEven
    IN  IF isWaitingOnBarrier(b, t) THEN b
        ELSE IF b.isEven THEN [b EXCEPT !.even = entered, !.isEven = isEven]
        ELSE [b EXCEPT !.odd = entered, !.isEven = isEven]

\* A thread of the other parity has been let through.
wouldBlockIfWaitedOn(b, t, count) ==
    /\ isWaitingOnBarrier(b, t) => (t \in b.even) = b.isEven
    /\ Cardinality(waitingSetForParity(b)) < count

MCBarrierInit(b) ==
    [announced |-> [b EXCEPT !.registered = TRUE], enabled |-> TRUE, applied |-> b]

MCBarrierWait(b, t, count) ==
    [announced |-> EnterBarrier(b, t, count), enabled |-> ~ wouldBlockIfWaitedOn(b, t, count),
     applied |-> b]

\* count: the number of threads given to barrier_init.
BarrierOperation(type, b, t, count) ==
    CASE type = "barrier_init" -> MCBarrierInit(b)
      [] type = "barrier_wait" -> MCBarrierWait(b, t, count)

-----------------------------------------------------------------------------
(* What the classes answer about themselves; but MCBarrierWait looks at the  *)
(* state: it is enabled together with nothing while it would block.          *)

MCBarrierInitClass == DependsOn(BarrierOperationTypes)

MCBarrierWaitClass == DependsOn(BarrierOperationTypes)

BarrierClass(type) ==
    CASE type = "barrier_init" -> MCBarrierInitClass
      [] type = "barrier_wait" -> MCBarrierWaitClass
====
