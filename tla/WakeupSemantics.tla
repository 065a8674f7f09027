---- MODULE WakeupSemantics ----
(***************************************************************************)
(* What a condition variable promises, whatever its wakeup policy          *)
(* (ConditionVariablePolicy): a signal lets one of the threads that wait   *)
(* at that moment wake, and is lost if there is none left to wake; a       *)
(* broadcast lets all of them wake; nobody else does.                      *)
(*                                                                         *)
(* Which thread a signal woke shows only when a thread leaves, so the      *)
(* state keeps every possibility.                                          *)
(***************************************************************************)
CONSTANT Waiters    \* the threads

VARIABLES
    waiting,        \* the threads that wait
    possible        \* the sets of threads that may have been woken and have not left

vars == <<waiting, possible>>

Init == waiting = {} /\ possible = {{}}

Wait(t) ==
    /\ t \notin waiting
    /\ waiting' = waiting \cup {t}
    /\ UNCHANGED possible

\* The sets of woken threads a signal can make of one such set.
WokenBySignal(woken) ==
    IF woken = waiting THEN {woken} ELSE {woken \cup {t} : t \in waiting \ woken}

Signal ==
    /\ possible' = UNION {WokenBySignal(woken) : woken \in possible}
    /\ UNCHANGED waiting

Broadcast ==
    /\ possible' = {waiting}
    /\ UNCHANGED waiting

\* A thread can leave if it may have been woken; that it does tells that it was.
MayLeave(t) == \E woken \in possible : t \in woken

Leave(t) ==
    /\ MayLeave(t)
    /\ waiting' = waiting \ {t}
    /\ possible' = {woken \ {t} : woken \in {w \in possible : t \in w}}

Next ==
    \/ Signal
    \/ Broadcast
    \/ \E t \in Waiters : Wait(t) \/ Leave(t)

Spec == Init /\ [][Next]_vars
====
