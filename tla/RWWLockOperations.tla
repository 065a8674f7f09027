---- MODULE RWWLockOperations ----
(***************************************************************************)
(* The transition classes of MCRWWLock, the reader-writer lock with two    *)
(* kinds of writers that exclude each other too.  It is McMini's own: no   *)
(* library has it (export/rwwlock.h).                                      *)
(***************************************************************************)
EXTENDS RWLockOperations

MCRWWLockTypes ==
    {"rwwlock_init", "rww_reader_enqueue", "writer1_enqueue", "writer2_enqueue",
     "rww_reader_lock", "writer1_lock", "writer2_lock", "rwwlock_unlock"}

MCRWWLockInit(l) == [announced |-> l, enabled |-> TRUE, applied |-> l]

MCRWWLockReaderEnqueue(l, t) ==
    [announced |-> l, enabled |-> TRUE, applied |-> EnqueueAs(l, "reader", t)]

MCRWWLockWriter1Enqueue(l, t) ==
    [announced |-> l, enabled |-> TRUE, applied |-> EnqueueAs(l, "writer1", t)]

MCRWWLockWriter2Enqueue(l, t) ==
    [announced |-> l, enabled |-> TRUE, applied |-> EnqueueAs(l, "writer2", t)]

MCRWWLockReaderLock(l, t) ==
    [announced |-> l, enabled |-> canAcquireAsReader(l, t), applied |-> LockAsReader(l, t)]

MCRWWLockWriter1Lock(l, t) ==
    [announced |-> l, enabled |-> canAcquireAsWriter(l, t),
     applied |-> LockAsWriter(l, "writer1", t)]

MCRWWLockWriter2Lock(l, t) ==
    [announced |-> l, enabled |-> canAcquireAsWriter(l, t),
     applied |-> LockAsWriter(l, "writer2", t)]

\* MCRWWLock::unlock looks for a writer of the first kind, then of the second.
ReleaseRWWLock(l, t) ==
    LET kind == IF l.active_writer["writer1"] # Nobody THEN "writer1" ELSE "writer2"
    IN  IF isWriterLocked(l) THEN [l EXCEPT !.active_writer[kind] = Nobody]
        ELSE ReleaseRWLock(l, t)

MCRWWLockUnlock(l, t) == [announced |-> l, enabled |-> TRUE, applied |-> ReleaseRWWLock(l, t)]

RWWLockOperation(type, l, t) ==
    CASE type = "rwwlock_init"       -> MCRWWLockInit(l)
      [] type = "rww_reader_enqueue" -> MCRWWLockReaderEnqueue(l, t)
      [] type = "writer1_enqueue"    -> MCRWWLockWriter1Enqueue(l, t)
      [] type = "writer2_enqueue"    -> MCRWWLockWriter2Enqueue(l, t)
      [] type = "rww_reader_lock"    -> MCRWWLockReaderLock(l, t)
      [] type = "writer1_lock"       -> MCRWWLockWriter1Lock(l, t)
      [] type = "writer2_lock"       -> MCRWWLockWriter2Lock(l, t)
      [] type = "rwwlock_unlock"     -> MCRWWLockUnlock(l, t)

-----------------------------------------------------------------------------
(* What the classes answer about themselves.                                 *)

MCRWWLockInitClass == DependsOn(MCRWWLockTypes)

MCRWWLockReaderEnqueueClass == DependsOn(MCRWWLockTypes)

MCRWWLockWriter1EnqueueClass == DependsOn(MCRWWLockTypes)

MCRWWLockWriter2EnqueueClass == DependsOn(MCRWWLockTypes)

MCRWWLockReaderLockClass ==
    [DependsOn(MCRWWLockTypes \ {"rww_reader_lock"}) EXCEPT
        !.neverCoenabled = {"writer1_lock", "writer2_lock"}]

MCRWWLockWriter1LockClass ==
    [DependsOn(MCRWWLockTypes) EXCEPT
        !.neverCoenabled = {"rww_reader_lock", "writer1_lock", "writer2_lock"}]

\* It asks twice for its own kind and never for the first; MCRWWLockWriter1Lock answers
\* for both.
MCRWWLockWriter2LockClass ==
    [DependsOn(MCRWWLockTypes) EXCEPT !.neverCoenabled = {"rww_reader_lock", "writer2_lock"}]

MCRWWLockUnlockClass == DependsOn(MCRWWLockTypes)

RWWLockClass(type) ==
    CASE type = "rwwlock_init"       -> MCRWWLockInitClass
      [] type = "rww_reader_enqueue" -> MCRWWLockReaderEnqueueClass
      [] type = "writer1_enqueue"    -> MCRWWLockWriter1EnqueueClass
      [] type = "writer2_enqueue"    -> MCRWWLockWriter2EnqueueClass
      [] type = "rww_reader_lock"    -> MCRWWLockReaderLockClass
      [] type = "writer1_lock"       -> MCRWWLockWriter1LockClass
      [] type = "writer2_lock"       -> MCRWWLockWriter2LockClass
      [] type = "rwwlock_unlock"     -> MCRWWLockUnlockClass
====
