---- MODULE TraceProgram ----
(***************************************************************************)
(* The multithreaded program McMini controls, as far as the scheduler and  *)
(* the trace process have to agree about it: each thread performs a fixed  *)
(* list of visible operations.  What an operation does to the objects of   *)
(* the program does not matter here, except that it may create a thread.   *)
(*                                                                         *)
(* A position of thread t names its pending operation:                     *)
(*    0                   MCThreadStart                                    *)
(*    1 .. Len(Program[t])   the visible operations of its routine         *)
(*    Len(Program[t]) + 1    MCThreadFinish (for the main thread, the      *)
(*                        atexit handler mc_exit_main_thread)              *)
(***************************************************************************)
EXTENDS Integers, Sequences, FiniteSets

CONSTANTS
    Threads,        \* the threads of the program, by their McMini tid
    Main,           \* TID_MAIN_THREAD
    NoThread,       \* "this operation creates no thread"
    Program         \* Program[t][i]: the thread created by operation i of t, or NoThread

\* A thread is created by at most one operation, not by itself, and nobody creates
\* the main thread.
ASSUME ProgramAssumption ==
    /\ Main \in Threads
    /\ NoThread \notin Threads
    /\ Program \in [Threads -> Seq((Threads \ {Main}) \cup {NoThread})]
    /\ \A t \in Threads : \A i \in DOMAIN Program[t] : Program[t][i] # t
    /\ \A t, u \in Threads : \A i \in DOMAIN Program[t], j \in DOMAIN Program[u] :
          Program[t][i] = Program[u][j] /\ Program[t][i] # NoThread
             => t = u /\ i = j

START == 0
FINISH(t) == Len(Program[t]) + 1

Positions == Nat

\* The thread that operation `pos` of thread t creates.
Created(t, pos) ==
    IF pos \in DOMAIN Program[t] THEN Program[t][pos] ELSE NoThread

\* A transition of the history: thread `tid` ran its operation `pos`.
Transition == [tid : Threads, pos : Positions]

\* mcmini::MCThread is alive after the transitions h: it was created (the main
\* thread always is) and has not run MCThreadFinish.
Alive(h, t) ==
    /\ \/ t = Main
       \/ \E i \in DOMAIN h : Created(h[i].tid, h[i].pos) = t
    /\ \A i \in DOMAIN h : h[i] # [tid |-> t, pos |-> FINISH(t)]

\* How many transitions of h the thread t ran.
Turns(h, t) == Cardinality({i \in DOMAIN h : h[i].tid = t})

\* The operation that follows `pos` in thread t.  A thread that ran its
\* MCThreadFinish still announces MCThreadFinish.
NextPosition(t, pos) == IF pos = FINISH(t) THEN pos ELSE pos + 1
====
