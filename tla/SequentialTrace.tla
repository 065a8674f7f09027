---- MODULE SequentialTrace ----
(***************************************************************************)
(* What the scheduler relies on when it explores: running a thread is ONE  *)
(* step that executes exactly the operation the scheduler believes pending *)
(* in that thread, and going back to an earlier point of the history finds *)
(* every thread where it was.  TraceHandshake implements this with two     *)
(* processes, a pair of semaphores per thread, a mailbox and a replay.     *)
(***************************************************************************)
EXTENDS TraceProgram

CONSTANT Unknown    \* pending[t] of a thread the scheduler has not heard of

VARIABLES
    history,        \* the transitions run so far, in order
    pending         \* pending[t]: the operation thread t runs when it is scheduled next

vars == <<history, pending>>

Init ==
    /\ history = << >>
    /\ pending = [t \in Threads |-> IF t = Main THEN START ELSE Unknown]

\* Thread t runs its pending operation; the operation it reaches next may
\* announce a new thread, which is then pending at its start.
Run(t) ==
    LET reached == NextPosition(t, pending[t])
        child   == Created(t, reached)
    IN  /\ pending[t] # Unknown
        /\ Alive(history, t)
        /\ ~ (t = Main /\ pending[t] = FINISH(Main))
        /\ history' = Append(history, [tid |-> t, pos |-> pending[t]])
        /\ pending' = [u \in Threads |->
              IF u = t THEN reached
              ELSE IF u = child /\ pending[u] = Unknown THEN START
              ELSE pending[u]]

\* The history is cut after its first k transitions.  Every thread is pending at
\* the operation a run of just those k transitions brings it to; the threads of
\* the abandoned suffix stay known, at their start.
Backtrack(k) ==
    /\ history' = SubSeq(history, 1, k)
    /\ pending' = [t \in Threads |->
          IF pending[t] = Unknown THEN Unknown
          ELSE IF Turns(history', t) > FINISH(t) THEN FINISH(t)
          ELSE Turns(history', t)]

Next ==
    \/ \E t \in Threads : Run(t)
    \/ \E k \in 1 .. Len(history) - 1 : Backtrack(k)

Spec == Init /\ [][Next]_vars
====
