---- MODULE MCTraceHandshake ----
(* Four threads and the program they run.                                   *)
EXTENDS TraceHandshake

CONSTANTS m, a, b, c, none

\* The main thread creates two threads, in two operations, and performs one more;
\* the first created thread creates the third.
MCProgram ==
    [t \in {m, a, b, c} |-> CASE t = m -> <<a, b, none>>
                              [] t = a -> <<c>>
                              [] t = b -> <<none>>
                              [] t = c -> << >>]
====
