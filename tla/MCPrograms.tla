---- MODULE MCPrograms ----
(***************************************************************************)
(* Small programs for the model checker.  The main thread creates two      *)
(* threads; each of the three runs a body from a small list.               *)
(***************************************************************************)
EXTENDS Integers, Sequences

CONSTANTS a, b,     \* mutexes
          s,        \* a semaphore
          c, d,     \* condition variables, both waited on with a
          w,        \* a barrier for two threads
          l,        \* a reader-writer lock
          x,        \* an annotated variable
          none

Op(type, obj) == [type |-> type, obj |-> obj]

Lock(m) == Op("mutex_lock", m)
Unlock(m) == Op("mutex_unlock", m)

\* sem_wait is announced as two operations (mc_sem_wait), as are pthread_cond_wait
\* and the locks of a reader-writer lock.
Wait == <<Op("sem_enqueue", s), Op("sem_wait", s)>>
Post == <<Op("sem_post", s)>>
CondWait(v) == <<Op("cond_enqueue", v), Op("cond_wait", v)>>
Signal(v) == <<Op("cond_signal", v)>>
Broadcast(v) == <<Op("cond_broadcast", v)>>

Section(m) == <<Lock(m), Unlock(m)>>
Nested(m, n) == <<Lock(m), Lock(n), Unlock(n), Unlock(m)>>
Locked(body) == <<Lock(a)>> \o body \o <<Unlock(a)>>
Meet == <<Op("barrier_wait", w)>>
Read == <<Op("reader_enqueue", l), Op("reader_lock", l), Op("rwlock_unlock", l)>>
Write == <<Op("writer_enqueue", l), Op("writer_lock", l), Op("rwlock_unlock", l)>>
Read2 == <<Op("rww_reader_enqueue", l), Op("rww_reader_lock", l), Op("rwwlock_unlock", l)>>
Write1 == <<Op("writer1_enqueue", l), Op("writer1_lock", l), Op("rwwlock_unlock", l)>>
Write2 == <<Op("writer2_enqueue", l), Op("writer2_lock", l), Op("rwwlock_unlock", l)>>

Create(t) == <<Op("create", t)>>
Join(t) == <<Op("join", t)>>

\* init: what the main thread does before it creates the others; body: what it
\* does afterwards.
ProgramOf(init, body, body1, body2) ==
    [t \in 0 .. 2 |-> CASE t = 0 -> init \o Create(1) \o Create(2) \o body
                        [] t = 1 -> body1
                        [] t = 2 -> body2]

InitMutexes == <<Op("mutex_init", a), Op("mutex_init", b)>>
InitSem == <<Op("sem_init", s)>>
InitConds == <<Op("mutex_init", a), Op("cond_init", c), Op("cond_init", d)>>
InitBarrier == <<Op("mutex_init", a), Op("barrier_init", w)>>
InitRWLock == <<Op("rwlock_init", l)>>
InitRWWLock == <<Op("rwwlock_init", l)>>

MutexBodies == {Section(a), Nested(a, b), Nested(b, a), Section(a) \o Section(b)}
TryBodies == {<<Op("mutex_trylock", a)>>, <<Op("mutex_trylock", a)>> \o Section(b)}
SemBodies == {Wait, Post, Wait \o Post, Section(a) \o Post, <<Lock(a)>> \o Wait \o <<Unlock(a)>>}
GlobalBodies == {<<Op("global_read", x)>>, <<Op("global_write", x)>>}

MutexPrograms ==
    {ProgramOf(InitMutexes, main, b1, b2) :
        main \in {<< >>, Join(1), Join(1) \o Join(2), Section(a) \o Join(2)},
        b1 \in MutexBodies, b2 \in MutexBodies}

TryPrograms ==
    {ProgramOf(InitMutexes, main, b1, b2) :
        main \in {<< >>, Join(1) \o Section(a)},
        b1 \in TryBodies, b2 \in TryBodies \cup {Nested(b, a)}}

SemPrograms ==
    {ProgramOf(InitMutexes \o InitSem, main, b1, b2) :
        main \in {<< >>, Join(1) \o Join(2), Wait, Post \o Join(2)},
        b1 \in SemBodies, b2 \in SemBodies}

\* Waiters on one condition variable.  Signals are lost, or sent with or without the
\* mutex.
CondPrograms ==
    {ProgramOf(InitConds, main, Locked(CondWait(c)), b2) :
        main \in {Join(1), Locked(Broadcast(c)) \o Join(2), Locked(CondWait(c))},
        b2 \in {Locked(Signal(c)), Signal(c), Broadcast(c) \o Section(a), Locked(CondWait(c))}}

\* Two condition variables for one mutex.
CondsPrograms ==
    {ProgramOf(InitConds, main \o Join(1), Locked(CondWait(c) \o b1), Locked(CondWait(d))) :
        main \in {Locked(Signal(c)), Locked(Signal(c) \o Signal(d))}, b1 \in {<< >>, Signal(d)}}

\* One reader-writer lock, of the one kind or of the other.
RWLockPrograms(mains) ==
    {ProgramOf(InitRWLock, main, b1, b2) :
        main \in mains, b1 \in {Read, Write}, b2 \in {Read, Write}}

RWWLockPrograms(mains) ==
    {ProgramOf(InitRWWLock, main, b1, b2) :
        main \in mains, b1 \in {Read2, Write1}, b2 \in {Read2, Write1, Write2}}

\* A barrier that every thread uses at most once.  In the last programs the main thread
\* waits there while the two others contend for a mutex.
BarrierPrograms ==
    {ProgramOf(InitBarrier, main, b1, b2) :
        main \in {<< >>, Join(1)},
        b1 \in {Meet, Section(a) \o Meet}, b2 \in {Meet \o Section(a), Section(a) \o Meet}}
    \cup {ProgramOf(InitBarrier, Meet, Section(a), Section(a) \o Meet)}

\* Both threads are waiting when the main thread signals: it lets each of them post and
\* takes the mutex they wait with.  If the first wakes, it wakes the second.
WhoWakesPrograms ==
    {ProgramOf(InitConds \o InitSem, Wait \o Wait \o Wait \o Locked(Signal(c)) \o Join(1) \o Join(2),
               Locked(Post \o CondWait(c) \o Signal(c)), Locked(Post \o CondWait(c)))}

\* Writes that a mutex, or a join, keeps apart.
OrderedPrograms ==
    {ProgramOf(InitMutexes, Join(1) \o <<Op("global_write", x)>>, <<Op("global_write", x)>>, << >>),
     ProgramOf(InitMutexes, << >>, Locked(<<Op("global_write", x)>>), Locked(<<Op("global_write", x)>>))}

GlobalPrograms ==
    {ProgramOf(<< >>, main, b1, b2) :
        main \in {Join(1), <<Op("global_write", x), Op("exit", none)>>},
        b1 \in GlobalBodies, b2 \in GlobalBodies}
    \cup OrderedPrograms

\* A thread that may abort while the others contend, and threads that tell of progress.
MiscPrograms ==
    {ProgramOf(InitMutexes, main, b1, b2) :
        main \in {<< >>, Section(a)},
        b1 \in {<<Lock(a), Op("abort", none)>>, <<Op("progress", none)>> \o Nested(a, b)},
        b2 \in {Nested(b, a) \o <<Op("progress", none)>>}}

\* A loop without an end.
Forever(body) == body \o <<Op("repeat", 1)>>
Goal == <<Op("progress", none)>>

\* Threads that loop for ever, one of them perhaps past a GOAL().
LoopsBeside(main, seconds) ==
    {ProgramOf(InitMutexes \o InitSem, main, Forever(b1), Forever(b2)) :
        b1 \in {Section(a), Wait \o Post, <<Op("mutex_trylock", a)>>, Section(a) \o Goal},
        b2 \in seconds}

SecondLoops == {Section(a), Post, Wait \o Goal, Nested(b, a) \o Goal}

LoopPrograms == LoopsBeside(<< >>, SecondLoops) \cup LoopsBeside(Section(b), SecondLoops)

\* Mutexes initialised statically: no mutex_init.
StaticPrograms ==
    {ProgramOf(<< >>, main, b1, b2) :
        main \in {<< >>, Section(a), Join(1) \o Join(2)},
        b1 \in MutexBodies, b2 \in MutexBodies}

\* A mutex that is initialised anew (pthread_mutex_destroy is not a visible operation).
ReinitPrograms ==
    {ProgramOf(<< >>, <<Op("mutex_init", a)>>, <<Op("mutex_init", a)>>, b2) :
        b2 \in {<<Op("mutex_init", a)>>, <<Op("mutex_init", a)>> \o Section(a)}}
====
