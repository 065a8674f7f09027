---- MODULE RWLockOperations ----
(***************************************************************************)
(* The shadow reader-writer lock and the transition classes of MCRWLock,   *)
(* as records (see ThreadOperations).  MCRWWLock, the lock with two kinds  *)
(* of writers, keeps the same queues: RWWLockOperations has its classes.   *)
(*                                                                         *)
(* Every lock is made with Type::no_preference: threads get it in the      *)
(* order they asked for it.  To ask (enqueue) and to get the lock are two  *)
(* operations.                                                             *)
(***************************************************************************)
EXTENDS SequencesExt, ThreadOperations

CONSTANT Nobody     \* no active writer

Writers == {"writer", "writer1", "writer2"}
Kinds == {"reader"} \cup Writers

RWLockStates ==
    [queue : [Kinds -> Seq(Threads)],   \* reader_queue, writer_queue...
     acquire_queue  : Seq(Threads),
     active_readers : Seq(Threads),
     active_writer  : [Writers -> Threads \cup {Nobody}]]

NewRWLock ==
    [queue |-> [k \in Kinds |-> << >>], acquire_queue |-> << >>, active_readers |-> << >>,
     active_writer |-> [k \in Writers |-> Nobody]]

MCRWLockTypes ==
    {"rwlock_init", "reader_enqueue", "writer_enqueue", "reader_lock", "writer_lock",
     "rwlock_unlock"}

isReaderLocked(l) == l.active_readers # << >>
isWriterLocked(l) == \E k \in Writers : l.active_writer[k] # Nobody
isUnlocked(l) == ~ isWriterLocked(l) /\ ~ isReaderLocked(l)

\* front() == tid.  Of an empty queue the code never asks.
IsFront(queue, t) == queue # << >> /\ Head(queue) = t

canAcquireAsReader(l, t) == ~ isWriterLocked(l) /\ IsFront(l.acquire_queue, t)

canAcquireAsWriter(l, t) == isUnlocked(l) /\ IsFront(l.acquire_queue, t)

EnqueueAs(l, kind, t) == [l EXCEPT !.queue[kind] = Append(@, t), !.acquire_queue = Append(@, t)]

Pop(queue) == IF queue = << >> THEN queue ELSE Tail(queue)

\* What every lock operation does to the queues.
Dequeued(l, kind) == [l EXCEPT !.queue[kind] = Pop(@), !.acquire_queue = Pop(@)]

LockAsReader(l, t) == [Dequeued(l, "reader") EXCEPT !.active_readers = Append(@, t)]

LockAsWriter(l, kind, t) == [Dequeued(l, kind) EXCEPT !.active_writer[kind] = t]

\* MCRWLock::unlock: the writer leaves, or one of the readers.
ReleaseRWLock(l, t) ==
    IF isWriterLocked(l) THEN [l EXCEPT !.active_writer = [k \in Writers |-> Nobody]]
    ELSE [l EXCEPT !.active_readers = IF Contains(@, t) THEN RemoveFirst(@, t) ELSE @]

-----------------------------------------------------------------------------
(* The transition classes of MCRWLock *)

MCRWLockInit(l) == [announced |-> l, enabled |-> TRUE, applied |-> l]

MCRWLockReaderEnqueue(l, t) ==
    [announced |-> l, enabled |-> TRUE, applied |-> EnqueueAs(l, "reader", t)]

MCRWLockWriterEnqueue(l, t) ==
    [announced |-> l, enabled |-> TRUE, applied |-> EnqueueAs(l, "writer", t)]

MCRWLockReaderLock(l, t) ==
    [announced |-> l, enabled |-> canAcquireAsReader(l, t), applied |-> LockAsReader(l, t)]

MCRWLockWriterLock(l, t) ==
    [announced |-> l, enabled |-> canAcquireAsWriter(l, t),
     applied |-> LockAsWriter(l, "writer", t)]

MCRWLockUnlock(l, t) == [announced |-> l, enabled |-> TRUE, applied |-> ReleaseRWLock(l, t)]

RWLockOperation(type, l, t) ==
    CASE type = "rwlock_init"    -> MCRWLockInit(l)
      [] type = "reader_enqueue" -> MCRWLockReaderEnqueue(l, t)
      [] type = "writer_enqueue" -> MCRWLockWriterEnqueue(l, t)
      [] type = "reader_lock"    -> MCRWLockReaderLock(l, t)
      [] type = "writer_lock"    -> MCRWLockWriterLock(l, t)
      [] type = "rwlock_unlock"  -> MCRWLockUnlock(l, t)

(* What they answer about themselves. *)

MCRWLockInitClass == DependsOn(MCRWLockTypes)

MCRWLockReaderEnqueueClass == DependsOn(MCRWLockTypes)

MCRWLockWriterEnqueueClass == DependsOn(MCRWLockTypes)

\* Readers do not matter to each other.
MCRWLockReaderLockClass ==
    [DependsOn(MCRWLockTypes \ {"reader_lock"}) EXCEPT !.neverCoenabled = {"writer_lock"}]

MCRWLockWriterLockClass ==
    [DependsOn(MCRWLockTypes) EXCEPT !.neverCoenabled = {"reader_lock", "writer_lock"}]

MCRWLockUnlockClass == DependsOn(MCRWLockTypes)

RWLockClass(type) ==
    CASE type = "rwlock_init"    -> MCRWLockInitClass
      [] type = "reader_enqueue" -> MCRWLockReaderEnqueueClass
      [] type = "writer_enqueue" -> MCRWLockWriterEnqueueClass
      [] type = "reader_lock"    -> MCRWLockReaderLockClass
      [] type = "writer_lock"    -> MCRWLockWriterLockClass
      [] type = "rwlock_unlock"  -> MCRWLockUnlockClass
====
