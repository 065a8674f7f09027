---- MODULE MutexOperations ----
(***************************************************************************)
(* The shadow mutex (MCMutex) and its transition classes MCMutexInit,      *)
(* MCMutexLock, MCMutexTrylock and MCMutexUnlock, as records (see          *)
(* ThreadOperations).  The shadow keeps no owner.                          *)
(***************************************************************************)
EXTENDS TransitionClass

\* "none": McMini has not heard of the mutex.
MutexStates == {"none", "undefined", "unlocked", "locked"}

MutexOperationTypes == {"mutex_init", "mutex_lock", "mutex_trylock", "mutex_unlock"}

\* The state an unknown mutex is registered in, and reset to before a replay.
RegisteredMutex(m) == IF m = "none" THEN "undefined" ELSE m

\* A mutex locked without a mutex_init was initialised statically: the handler makes
\* it unlocked, but only after it was registered.
StaticallyInitialised(m) ==
    IF RegisteredMutex(m) = "undefined" THEN "unlocked" ELSE m

\* Mutant: a lock waits for nobody.
WaitsForNobody(m) == m # "none"

\* MCMutex::canAcquire
canAcquire(m) == m = "unlocked"

MCMutexInit(m) ==
    [announced |-> RegisteredMutex(m), enabled |-> TRUE,
     applied |-> "unlocked", unapplied |-> "undefined"]

MCMutexLock(m) ==
    [announced |-> StaticallyInitialised(m), enabled |-> canAcquire(m), applied |-> "locked"]

\* A trylock never waits: it locks if it can.
MCMutexTrylock(m) ==
    [announced |-> StaticallyInitialised(m), enabled |-> TRUE,
     applied |-> IF m = "unlocked" THEN "locked" ELSE m]

\* Mutant: undoing an unlock does not lock again.
UnlockNotUndone(m) ==
    [announced |-> m, enabled |-> TRUE, applied |-> "unlocked", unapplied |-> "unlocked"]

MCMutexUnlock(m) ==
    [announced |-> m, enabled |-> TRUE, applied |-> "unlocked", unapplied |-> "locked"]

MutexOperation(type, m) ==
    CASE type = "mutex_init"    -> MCMutexInit(m)
      [] type = "mutex_lock"    -> MCMutexLock(m)
      [] type = "mutex_trylock" -> MCMutexTrylock(m)
      [] type = "mutex_unlock"  -> MCMutexUnlock(m)

-----------------------------------------------------------------------------
(* What the classes answer about themselves.                                 *)

MCMutexInitClass == [DependsOn(MutexOperationTypes) EXCEPT !.reversible = TRUE]

\* Mutant: two locks of a mutex are independent.
LocksIndependent == [DependsOn({"mutex_unlock"}) EXCEPT !.neverCoenabled = {"mutex_unlock"}]

\* Mutant: two locks of a mutex are never enabled together.
LocksNeverCoenabled ==
    [DependsOn({"mutex_lock", "mutex_unlock"}) EXCEPT
        !.neverCoenabled = {"mutex_lock", "mutex_unlock"}]

MCMutexLockClass ==
    [DependsOn({"mutex_lock", "mutex_unlock"}) EXCEPT !.neverCoenabled = {"mutex_unlock"}]

MCMutexTrylockClass == DependsOn({"mutex_lock", "mutex_unlock", "mutex_trylock"})

\* It leaves the dependence to the others.
MCMutexUnlockClass == [MCTransition EXCEPT !.reversible = TRUE]

MutexClass(type) ==
    CASE type = "mutex_init"    -> MCMutexInitClass
      [] type = "mutex_lock"    -> MCMutexLockClass
      [] type = "mutex_trylock" -> MCMutexTrylockClass
      [] type = "mutex_unlock"  -> MCMutexUnlockClass
====
