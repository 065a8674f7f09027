---- MODULE MiscOperations ----
(***************************************************************************)
(* The transition classes that change no shadow object: accesses to the    *)
(* annotated global variables (MCGlobalVariableRead, MCGlobalVariableWrite *)
(* - the shadow keeps the value, nothing reads it), exit(), abort() and    *)
(* GOAL() (MCProgressTransition).                                          *)
(***************************************************************************)
EXTENDS ThreadOperations

GlobalOperationTypes == {"global_read", "global_write"}
MiscOperationTypes == GlobalOperationTypes \cup {"exit", "abort", "progress"}

MCGlobalVariableRead == [enabled |-> TRUE]
MCGlobalVariableWrite == [enabled |-> TRUE]

\* exit() is announced and never run.
MCExitTransition == [enabled |-> FALSE]

\* abort() is run, so that it shows in the backtrace.
MCAbortTransition == [enabled |-> TRUE]

\* GOAL() only says that the program got somewhere.
MCProgressTransition == [enabled |-> TRUE]

MiscOperation(type) ==
    CASE type = "global_read"  -> MCGlobalVariableRead
      [] type = "global_write" -> MCGlobalVariableWrite
      [] type = "exit"         -> MCExitTransition
      [] type = "abort"        -> MCAbortTransition
      [] type = "progress"     -> MCProgressTransition

-----------------------------------------------------------------------------
(* What the classes answer about themselves.                                 *)

MCGlobalVariableReadClass ==
    [DependsOn({"global_write"}) EXCEPT !.racing = {"global_write"}]

MCGlobalVariableWriteClass ==
    [DependsOn(GlobalOperationTypes) EXCEPT !.racing = GlobalOperationTypes]

\* Any thread that is about to call exit() or abort() can break a deadlock.
MCExitTransitionClass == [MCTransition EXCEPT !.endsProgram = Threads, !.countsDepth = FALSE]

MCAbortTransitionClass == [MCTransition EXCEPT !.endsProgram = Threads, !.countsDepth = FALSE]

MCProgressTransitionClass == MCTransition

MiscClass(type) ==
    CASE type = "global_read"  -> MCGlobalVariableReadClass
      [] type = "global_write" -> MCGlobalVariableWriteClass
      [] type = "exit"         -> MCExitTransitionClass
      [] type = "abort"        -> MCAbortTransitionClass
      [] type = "progress"     -> MCProgressTransitionClass
====
