---- MODULE SemaphoreOperations ----
(***************************************************************************)
(* The shadow semaphore (MCSemaphore) and its transition classes           *)
(* MCSemInit, MCSemEnqueue, MCSemWait and MCSemPost, as records (see       *)
(* ThreadOperations).  A sem_wait is announced as two operations: the      *)
(* thread joins a queue, then waits to come first.                         *)
(***************************************************************************)
EXTENDS Sequences, ThreadOperations

SemStates == [registered : BOOLEAN, count : Nat, waitingQueue : Seq(Threads)]

NoSem == [registered |-> FALSE, count |-> 0, waitingQueue |-> << >>]

SemOperationTypes == {"sem_init", "sem_enqueue", "sem_wait", "sem_post"}

\* enterWaitingQueue
Enqueue(queue, t) == Append(queue, t)

\* leaveWaitingQueue removes the first occurrence of the thread.
Without(queue, t) ==
    IF \E i \in DOMAIN queue : queue[i] = t
    THEN LET i == CHOOSE i \in DOMAIN queue :
                     queue[i] = t /\ \A j \in 1 .. i - 1 : queue[j] # t
         IN  SubSeq(queue, 1, i - 1) \o SubSeq(queue, i + 1, Len(queue))
    ELSE queue

\* threadCanExit: the count is positive and nobody waits longer.  On an empty queue
\* std::find returns end(), which is begin().
ThreadCanExit(sem, t) ==
    sem.count > 0 /\ (sem.waitingQueue = << >> \/ Head(sem.waitingQueue) = t)

\* initial: the value given to sem_init.
MCSemInit(sem, initial) ==
    [announced |-> IF sem.registered THEN sem
                   ELSE [registered |-> TRUE, count |-> initial, waitingQueue |-> << >>],
     enabled |-> TRUE,
     applied |-> sem]

MCSemEnqueue(sem, t) ==
    [announced |-> sem, enabled |-> TRUE,
     applied |-> [sem EXCEPT !.waitingQueue = Enqueue(@, t)]]

MCSemWait(sem, t) ==
    [announced |-> sem, enabled |-> ThreadCanExit(sem, t),
     applied |-> [sem EXCEPT !.count = IF @ > 0 THEN @ - 1 ELSE @,
                             !.waitingQueue = Without(@, t)]]

MCSemPost(sem) ==
    [announced |-> sem, enabled |-> TRUE, applied |-> [sem EXCEPT !.count = @ + 1]]

SemOperation(type, sem, t, initial) ==
    CASE type = "sem_init"    -> MCSemInit(sem, initial)
      [] type = "sem_enqueue" -> MCSemEnqueue(sem, t)
      [] type = "sem_wait"    -> MCSemWait(sem, t)
      [] type = "sem_post"    -> MCSemPost(sem)

-----------------------------------------------------------------------------

(* What the classes answer about themselves.  None names a sem_post beside a *)
(* sem_wait.                                                                 *)

MCSemInitClass == MCTransition

\* Mutant: the order of the queue does not matter.
QueueOrderIndependent == DependsOn({"sem_init"})

MCSemEnqueueClass == DependsOn({"sem_init", "sem_enqueue"})

MCSemWaitClass == DependsOn({"sem_init", "sem_wait"})

MCSemPostClass == DependsOn({"sem_init"})

SemClass(type) ==
    CASE type = "sem_init"    -> MCSemInitClass
      [] type = "sem_enqueue" -> MCSemEnqueueClass
      [] type = "sem_wait"    -> MCSemWaitClass
      [] type = "sem_post"    -> MCSemPostClass
====
