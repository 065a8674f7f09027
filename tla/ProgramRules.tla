---- MODULE ProgramRules ----
(***************************************************************************)
(* The rules a program keeps that uses its objects as they are meant to be *)
(* used: POSIX leaves undefined what a program does that breaks one of     *)
(* them, and the shadow objects, which store less than the real ones, are  *)
(* exact only for programs that keep them.  The rules are about the text   *)
(* of a program: its threads may still come in any order.                  *)
(***************************************************************************)
EXTENDS TargetProgram

\* What a thread ran is read off its position.
HasNoLoop(prg) == \A t \in Threads : \A p \in DOMAIN prg[t] : prg[t][p].type # "repeat"

\* The main thread begins by initialising what it initialises at all, each mutex once;
\* nobody else initialises anything.
InitTypes ==
    {"mutex_init", "sem_init", "cond_init", "barrier_init", "rwlock_init", "rwwlock_init"}

InitialisesFirst(prg) ==
    \A t \in Threads : \A p \in DOMAIN prg[t] : prg[t][p].type \in InitTypes =>
        /\ t = Main
        /\ \A q \in 1 .. p - 1 :
              /\ prg[t][q].type \in InitTypes
              /\ prg[t][p].type = "mutex_init" => prg[t][q] # prg[t][p]

\* A thread is created by one operation, not its own, and nobody creates the main
\* thread.
CreatesOnce(prg) ==
    \A t \in Threads : \A p \in DOMAIN prg[t] : prg[t][p].type = "create" =>
        /\ prg[t][p].obj \notin {Main, t}
        /\ \A u \in Threads : \A q \in DOMAIN prg[u] :
              prg[u][q] = prg[t][p] => u = t /\ q = p

\* Each thread takes and gives in turns, and takes first.
InTurns(prg, takes, gives) ==
    \A t \in Threads : \A p \in DOMAIN prg[t] :
        /\ prg[t][p] \in takes => Before(prg, t, p, takes) = Before(prg, t, p, gives)
        /\ prg[t][p] \in gives => Before(prg, t, p, takes) = Before(prg, t, p, gives) + 1

\* A thread that unlocks a mutex locked it; sem_wait announces the two operations it
\* consists of (mc_sem_wait); a reader-writer lock is not locked recursively, and is
\* only used as the kind of lock it is.
LocksInTurns(prg) == \A m \in Mutexes : InTurns(prg, Takes(m), Gives(m))
WaitsInTurns(prg) == \A s \in Semaphores : InTurns(prg, Queues(s), Leaves(s))
EntersInTurns(prg) == \A l \in RWLocks : InTurns(prg, Enters(l), Exits(l))

Uses(prg, ops) == \E t \in Threads : \E p \in DOMAIN prg[t] : prg[t][p] \in ops

KeepsToOneKind(prg) ==
    \A l \in RWLocks : ~ Uses(prg, On(MCRWLockTypes, l)) \/ ~ Uses(prg, On(MCRWWLockTypes, l))

\* Going back is exact for programs that keep the rules and, besides, initialise the
\* mutexes and semaphores they use (in the main thread, says InitialisesFirst), and in
\* which nobody waits at a barrier.
UsesInitialised(prg) ==
    \A t \in Threads : \A p \in DOMAIN prg[t] :
        /\ prg[t][p].type # "barrier_wait"
        /\ \A m \in Mutexes :
              prg[t][p] \in On(MutexOperationTypes, m)
                           \cup [type : {"cond_enqueue", "cond_wait"}, obj : WaitingWith(m)] =>
                 Uses(prg, On({"mutex_init"}, m))
        /\ \A s \in Semaphores :
              prg[t][p] \in On(SemOperationTypes, s) => Uses(prg, On({"sem_init"}, s))

\* What is declared independent commutes if, moreover, no mutex is given up for two
\* condition variables.
WaitsWithOwnMutex(prg) ==
    \A c, d \in Conds :
        /\ CondMutex[c] = CondMutex[d]
        /\ Uses(prg, On({"cond_wait"}, c)) /\ Uses(prg, On({"cond_wait"}, d))
        => c = d

KeepsTheRules(prg) ==
    /\ HasNoLoop(prg)
    /\ InitialisesFirst(prg)
    /\ CreatesOnce(prg)
    /\ LocksInTurns(prg)
    /\ WaitsInTurns(prg)
    /\ EntersInTurns(prg)
    /\ KeepsToOneKind(prg)
====
