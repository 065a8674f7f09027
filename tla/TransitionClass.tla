---- MODULE TransitionClass ----
(***************************************************************************)
(* MCTransition, the base class of all visible operations: what a class    *)
(* answers about itself whatever the state is.  The modules of the         *)
(* families override it as their classes do; `type' names a class.         *)
(***************************************************************************)

\* dependent:      the types of operation on the same object it is dependentWith
\* neverCoenabled: those on the same object it is not coenabledWith
\* aboutTarget:    it is about a thread, its target: it depends on all that thread does
\*                 and is coenabledWith nothing of it
\* racing:         those on the same object it isRacingWith
\* reversible:     isReversibleInState
\* endsProgram:    the threads for which it ensuresDeadlockIsImpossible
\* countsDepth:    countsAgainstThreadExecutionDepth
\* The base class depends on everything; no class leaves it at that.
MCTransition ==
    [dependent |-> {}, neverCoenabled |-> {}, aboutTarget |-> FALSE, racing |-> {},
     reversible |-> FALSE, endsProgram |-> {}, countsDepth |-> TRUE]

DependsOn(types) == [MCTransition EXCEPT !.dependent = types]
====
