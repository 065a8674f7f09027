---- MODULE ThreadOperations ----
(***************************************************************************)
(* Threads as McMini sees them (MCThread) and the transition classes that  *)
(* act on them: MCThreadCreate, MCThreadStart, MCThreadJoin and            *)
(* MCThreadFinish.                                                         *)
(*                                                                         *)
(* This module and its siblings write a transition class as one operator   *)
(* from the state of the object it acts on to a record:                    *)
(*   announced  what the object becomes when the handler decodes the       *)
(*              operation of a thread that has just stopped at it          *)
(*   enabled    enabledInState                                             *)
(*   applied    applyToState                                               *)
(*   unapplied  unapplyToState, in the classes that isReversibleInState    *)
(* and, beside it, as a constant of the same name with Class at its end,   *)
(* what the class answers about itself (see TransitionClass).              *)
(***************************************************************************)
EXTENDS Integers, TransitionClass

CONSTANT LastThread     \* the tids are 0 .. LastThread

ASSUME LastThreadAssumption == LastThread \in Nat

Threads == 0 .. LastThread
Main == 0           \* TID_MAIN_THREAD

\* "none": McMini has not heard of the thread.
ThreadStates == {"none", "embryo", "alive", "dead"}

ThreadOperationTypes == {"start", "finish", "create", "join"}

\* MCStack::addNewThread, for a thread named for the first time.
addNewThread(state) == IF state = "none" THEN "embryo" ELSE state

\* The thread itself, at its first instruction.
MCThreadStart(state) ==
    [announced |-> state, enabled |-> TRUE, applied |-> "alive"]

\* The thread that is created.
MCThreadCreate(state) ==
    [announced |-> addNewThread(state), enabled |-> TRUE, applied |-> "alive"]

\* The thread that is waited for.
MCThreadJoin(state) ==
    [announced |-> addNewThread(state), enabled |-> state = "dead",
     applied |-> state, unapplied |-> state]

\* The thread itself, at its end.  The main thread never runs it: it would end the
\* process.
MCThreadFinish(state, t) ==
    [announced |-> state, enabled |-> t # Main, applied |-> "dead", unapplied |-> "alive"]

\* state: of the thread a create or join names, of the thread itself otherwise.
ThreadOperation(type, state, t) ==
    CASE type = "start"  -> MCThreadStart(state)
      [] type = "create" -> MCThreadCreate(state)
      [] type = "join"   -> MCThreadJoin(state)
      [] type = "finish" -> MCThreadFinish(state, t)

\* MCThread::enabled
MCThreadEnabled(state) == state = "alive"

-----------------------------------------------------------------------------
(* What the classes answer about themselves.                                 *)

MCThreadStartClass == [MCTransition EXCEPT !.countsDepth = FALSE]

MCThreadCreateClass == [MCTransition EXCEPT !.aboutTarget = TRUE]

MCThreadJoinClass == [MCTransition EXCEPT !.aboutTarget = TRUE, !.reversible = TRUE]

\* When the main thread is at its end, so is the program.
MCThreadFinishClass ==
    [MCTransition EXCEPT !.reversible = TRUE, !.countsDepth = FALSE, !.endsProgram = {Main}]

ThreadClass(type) ==
    CASE type = "start"  -> MCThreadStartClass
      [] type = "create" -> MCThreadCreateClass
      [] type = "join"   -> MCThreadJoinClass
      [] type = "finish" -> MCThreadFinishClass
====
