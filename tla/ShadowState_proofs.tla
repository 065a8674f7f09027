---- MODULE ShadowState_proofs ----
(***************************************************************************)
(* Going back is exact: however the search got where it is, forwards, by   *)
(* undoing transitions or by running them again, its shadow objects are    *)
(* those of the program after the transitions on the stack, and it runs    *)
(* only what is enabled there.  This holds for every program that keeps    *)
(* the rules and initialises what it uses (ProgramRules), for any number   *)
(* of threads and objects, through any number of backtracks.               *)
(*                                                                         *)
(* DporSearch_proofs has the bookkeeping of the search, and                *)
(* TargetProgram_proofs what the objects do as a program goes forwards;    *)
(* here they meet.                                                         *)
(***************************************************************************)
EXTENDS DporSearch_proofs, TargetProgram_proofs

-----------------------------------------------------------------------------
(* Replaying a stack                                                         *)

\* f holds where the program is after each of the first n transitions of a stack.
IsReplay(f, prg, stack, n) ==
    f = [k \in 0 .. n |-> IF k = 0 THEN Start ELSE Follow(prg, f[k - 1], stack[k].tid)]

\* The recursive function exists: one that reaches to n - 1 can be extended.
LEMMA ReplayExists ==
    ASSUME NEW prg, NEW stack, NEW N \in Nat
    PROVE  \E f : IsReplay(f, prg, stack, N)
  <1> DEFINE bad == {n \in Nat : ~ \E f : IsReplay(f, prg, stack, n)}
  <1> SUFFICES ASSUME bad # {}
               PROVE  FALSE
    OBVIOUS
  <1>1. PICK n \in bad : \A k \in bad : n <= k
    <2>1. bad \in SUBSET Nat
      OBVIOUS
    <2> HIDE DEF bad
    <2> QED BY <2>1, LeastOf
  <1>2. n # 0
    <2>1. ASSUME n = 0
          PROVE  IsReplay([k \in 0 .. 0 |-> Start], prg, stack, n)
      BY <2>1 DEF IsReplay
    <2> QED BY <2>1
  <1>3. n \in Nat /\ n - 1 \in Nat /\ n - 1 \notin bad
    BY <1>1, <1>2
  <1>4. PICK f : IsReplay(f, prg, stack, n - 1)
    BY <1>3
  <1> DEFINE g == [k \in 0 .. n |-> IF k = n THEN Follow(prg, f[n - 1], stack[n].tid) ELSE f[k]]
  <1>5. ASSUME NEW k \in 0 .. n
        PROVE  g[k] = IF k = 0 THEN Start ELSE Follow(prg, g[k - 1], stack[k].tid)
    <2>1. CASE k = n
      <3>1. g[k - 1] = f[n - 1]
        BY <1>2, <1>3, <2>1
      <3> QED BY <1>2, <2>1, <3>1
    <2>2. CASE k # n
      <3>1. k \in 0 .. n - 1 /\ g[k] = f[k] /\ (k # 0 => g[k - 1] = f[k - 1])
        BY <1>3, <2>2
      <3>2. f[k] = IF k = 0 THEN Start ELSE Follow(prg, f[k - 1], stack[k].tid)
        BY <1>4, <3>1 DEF IsReplay
      <3> QED BY <3>1, <3>2
    <2> QED BY <2>1, <2>2
  <1>6. g = [k \in 0 .. n |-> g[k]]
    OBVIOUS
  <1> HIDE DEF g
  <1>7. IsReplay(g, prg, stack, n)
    BY <1>5, <1>6 DEF IsReplay
  <1> QED BY <1>1, <1>7

\* Replay is the last value of such a function.
LEMMA ReplayIs ==
    ASSUME NEW prg, NEW stack, NEW n \in Nat, n = Len(stack)
    PROVE  \E f : IsReplay(f, prg, stack, n) /\ Replay(prg, stack) = f[n]
  <1> DEFINE after == CHOOSE f : IsReplay(f, prg, stack, n)
  <1>1. IsReplay(after, prg, stack, n)
    BY ReplayExists
  <1>2. Replay(prg, stack) = after[n]
    BY DEF Replay, IsReplay
  <1> QED BY <1>1, <1>2

\* Two such functions are the same as far as the stacks are.
LEMMA SameReplay ==
    ASSUME NEW prg, NEW s1, NEW s2, NEW n1 \in Nat, NEW n2 \in Nat, NEW f1, NEW f2,
           IsReplay(f1, prg, s1, n1), IsReplay(f2, prg, s2, n2), n1 <= n2,
           \A k \in 1 .. n1 : s1[k].tid = s2[k].tid
    PROVE  \A k \in 0 .. n1 : f1[k] = f2[k]
  <1> DEFINE bad == {k \in 0 .. n1 : f1[k] # f2[k]}
  <1> SUFFICES ASSUME bad # {}
               PROVE  FALSE
    OBVIOUS
  <1>1. PICK n \in bad : \A k \in bad : n <= k
    <2>1. bad \in SUBSET Nat
      OBVIOUS
    <2> HIDE DEF bad
    <2> QED BY <2>1, LeastOf
  <1>2. n \in 0 .. n1 /\ n \in 0 .. n2 /\ f1[n] # f2[n]
    BY <1>1
  <1>3. /\ f1[n] = IF n = 0 THEN Start ELSE Follow(prg, f1[n - 1], s1[n].tid)
        /\ f2[n] = IF n = 0 THEN Start ELSE Follow(prg, f2[n - 1], s2[n].tid)
    BY <1>2 DEF IsReplay
  <1>4. n # 0
    BY <1>2, <1>3
  <1>5. n - 1 \in 0 .. n1 /\ n - 1 \notin bad /\ n \in 1 .. n1
    BY <1>1, <1>2, <1>4
  <1>6. f1[n - 1] = f2[n - 1]
    BY <1>5
  <1> HIDE DEF bad
  <1> QED BY <1>2, <1>3, <1>4, <1>5, <1>6

\* Before the first transition the program is where it begins,
LEMMA ReplayEmpty == \A prg : Replay(prg, << >>) = Start
  <1> TAKE prg
  <1>1. PICK f : IsReplay(f, prg, << >>, 0) /\ Replay(prg, << >>) = f[0]
    BY ReplayIs
  <1>2. f[0] = Start
    BY <1>1 DEF IsReplay
  <1> QED BY <1>1, <1>2

\* and each transition leads one step further.
LEMMA ReplayNext ==
    ASSUME NEW prg, NEW S, NEW stack \in Seq(S), NEW longer \in Seq(S),
           Len(longer) = Len(stack) + 1,
           \A k \in 1 .. Len(stack) : longer[k] = stack[k]
    PROVE  Replay(prg, longer) = Follow(prg, Replay(prg, stack), longer[Len(longer)].tid)
  <1> DEFINE n == Len(stack)
  <1>1. n \in Nat /\ n + 1 \in Nat /\ Len(longer) = n + 1
    OBVIOUS
  <1>2. \A k \in 1 .. n : stack[k].tid = longer[k].tid
    OBVIOUS
  <1> HIDE DEF n
  <1>3. PICK f : IsReplay(f, prg, stack, n) /\ Replay(prg, stack) = f[n]
    BY <1>1, ReplayIs DEF n
  <1>4. PICK g : IsReplay(g, prg, longer, n + 1) /\ Replay(prg, longer) = g[n + 1]
    BY <1>1, ReplayIs
  <1>5. f[n] = g[n]
    <2>1. \A k \in 0 .. n : f[k] = g[k]
      <3>1. n <= n + 1
        BY <1>1
      <3> QED BY <3>1, <1>1, <1>2, <1>3, <1>4, SameReplay
    <2> QED BY <2>1, <1>1
  <1>6. g[n + 1] = IF n + 1 = 0 THEN Start ELSE Follow(prg, g[n + 1 - 1], longer[n + 1].tid)
    BY <1>1, <1>4 DEF IsReplay
  <1> QED BY <1>1, <1>3, <1>4, <1>5, <1>6

\* Only the threads of a stack matter.
LEMMA ReplaySame ==
    ASSUME NEW prg, NEW S, NEW s1 \in Seq(S), NEW s2 \in Seq(S), Len(s1) = Len(s2),
           \A k \in 1 .. Len(s1) : s1[k] = s2[k]
    PROVE  Replay(prg, s1) = Replay(prg, s2)
  <1>1. s1 = s2
    OBVIOUS
  <1> QED BY <1>1

\* Where the program was after the first n transitions on the stack.
RealAt(n) == Replay(program, SubSeq(transitionStack, 1, n))

\* It begins at its start, goes on by the transitions of the stack, and ends where a replay
\* of all of it does.
LEMMA RealPath ==
    ASSUME Stacks
    PROVE  /\ RealAt(0) = Start
           /\ \A n \in 1 .. Len(transitionStack) :
                 RealAt(n) = Follow(program, RealAt(n - 1), transitionStack[n].tid)
           /\ RealAt(Len(transitionStack)) = Replay(program, transitionStack)
  <1>1. transitionStack \in Seq(Steps)
    BY DEF Stacks
  <1>2. SubSeq(transitionStack, 1, 0) = << >>
    BY <1>1
  <1>3. ASSUME NEW n \in 1 .. Len(transitionStack)
        PROVE  RealAt(n) = Follow(program, RealAt(n - 1), transitionStack[n].tid)
    <2> DEFINE stack == SubSeq(transitionStack, 1, n - 1)
               longer == SubSeq(transitionStack, 1, n)
    <2>1. /\ stack \in Seq(Steps) /\ Len(stack) = n - 1
          /\ longer \in Seq(Steps) /\ Len(longer) = n
          /\ \A k \in 1 .. n - 1 : longer[k] = stack[k]
          /\ longer[n] = transitionStack[n]
      BY <1>1
    <2> HIDE DEF stack, longer
    <2>2. Replay(program, longer) = Follow(program, Replay(program, stack), longer[n].tid)
      BY <2>1, ReplayNext
    <2> QED BY <2>1, <2>2 DEF RealAt, stack, longer
  <1>4. SubSeq(transitionStack, 1, Len(transitionStack)) = transitionStack
    BY <1>1
  <1> QED BY <1>2, <1>3, <1>4, ReplayEmpty DEF RealAt

\* The past of a stack stays.
LEMMA RealStays ==
    ASSUME transitionStack \in Seq(Steps), transitionStack' \in Seq(Steps), program' = program,
           NEW n \in Nat, n <= Len(transitionStack), n <= Len(transitionStack'),
           \A k \in 1 .. n : transitionStack'[k] = transitionStack[k]
    PROVE  RealAt(n)' = RealAt(n)
  <1> DEFINE s1 == SubSeq(transitionStack, 1, n)
             s2 == SubSeq(transitionStack', 1, n)
  <1>1. s1 \in Seq(Steps) /\ Len(s1) = n /\ \A k \in 1 .. n : s1[k] = transitionStack[k]
    OBVIOUS
  <1>2. s2 \in Seq(Steps) /\ Len(s2) = n /\ \A k \in 1 .. n : s2[k] = transitionStack'[k]
    OBVIOUS
  <1>3. \A k \in 1 .. n : s1[k] = s2[k]
    BY <1>1, <1>2
  <1> HIDE DEF s1, s2
  <1>4. Replay(program, s1) = Replay(program, s2)
    BY <1>1, <1>2, <1>3, ReplaySame
  <1> QED BY <1>4 DEF RealAt, s1, s2

-----------------------------------------------------------------------------
(* More of what the operations do to the objects *)

\* What running a transition does to the condition variables.
LEMMA AppliedCond ==
    ASSUME NEW o \in ObjectStates, NEW tr \in Transitions, NEW c \in Conds
    PROVE  applyToState(o, tr).cond[c] =
              IF tr.type \in CondOperationTypes /\ tr.obj = c
              THEN CondOperation(tr.type, o.cond[c], tr.tid).applied ELSE o.cond[c]
  <1> DEFINE n == Updated(o, tr, Operation(o, tr).applied)
  <1>1. o.cond \in [Conds -> CondStates]
    BY DEF ObjectStates
  <1>2. CASE tr.type \in MiscOperationTypes
    <2>1. applyToState(o, tr) = o /\ tr.type \notin CondOperationTypes
      BY <1>2, OneFamilyOnly DEF applyToState
    <2> QED BY <2>1
  <1>3. CASE tr.type \notin MiscOperationTypes
    <2>1. n \in ObjectStates /\ ReplacedBy(o, tr, Operation(o, tr).applied, n)
      BY <1>3, UpdatedFields, OperationOfItsKind, UpdatedType
    <2>2. applyToState(o, tr).cond = n.cond
      <3>1. applyToState(o, tr) =
               IF UsesCondMutex(tr)
               THEN [n EXCEPT !.mutex[CondMutex[tr.obj]] = CondMutexOperation(o, tr).applied]
               ELSE n
        BY <1>3 DEF applyToState
      <3> HIDE DEF n
      <3> QED BY <2>1, <3>1 DEF ObjectStates
    <2>3. tr.type \in CondOperationTypes =>
             Operation(o, tr) = CondOperation(tr.type, o.cond[tr.obj], tr.tid)
      BY OneFamilyOnly DEF Operation
    <2> HIDE DEF n
    <2> QED BY <1>1, <2>1, <2>2, <2>3 DEF ReplacedBy
  <1> QED BY <1>2, <1>3

\* An announcement leaves them alone, and makes a thread known that it names.
LEMMA AnnouncedRest ==
    ASSUME NEW o \in ObjectStates, NEW tr \in Transitions
    PROVE  LET a == readTransition(o, tr)
           IN  /\ \A c \in Conds : a.cond[c] = o.cond[c]
               /\ \A u \in Threads :
                     a.thread[u] = IF tr.type \in {"create", "join"} /\ tr.obj = u
                                   THEN addNewThread(o.thread[u]) ELSE o.thread[u]
  <1> DEFINE n == Updated(o, tr, Operation(o, tr).announced)
  <1>1. o.cond \in [Conds -> CondStates] /\ o.thread \in [Threads -> ThreadStates]
    BY DEF ObjectStates
  <1>2. CASE tr.type \in MiscOperationTypes
    <2>1. readTransition(o, tr) = o /\ tr.type \notin ThreadOperationTypes
      BY <1>2, OneFamilyOnly DEF readTransition
    <2>2. tr.type \notin {"create", "join"}
      BY <2>1 DEF ThreadOperationTypes
    <2> QED BY <2>1, <2>2
  <1>3. CASE tr.type \notin MiscOperationTypes
    <2>1. ReplacedBy(o, tr, Operation(o, tr).announced, n) /\ readTransition(o, tr) = n
      BY <1>3, UpdatedFields DEF readTransition
    <2>2. tr.type \in CondOperationTypes => Operation(o, tr).announced = o.cond[tr.obj]
      <3>1. tr.type \in CondOperationTypes =>
               Operation(o, tr) = CondOperation(tr.type, o.cond[tr.obj], tr.tid)
        BY OneFamilyOnly DEF Operation
      <3> QED BY <3>1 DEF CondOperationTypes, CondOperation, MCCondInit, MCCondEnqueue,
                          MCCondWait, MCCondSignal, MCCondBroadcast
    <2>3. tr.type \in ThreadOperationTypes =>
             Operation(o, tr).announced = IF tr.type \in {"create", "join"}
                                          THEN addNewThread(o.thread[Subject(tr)])
                                          ELSE o.thread[Subject(tr)]
      <3>1. tr.type \in ThreadOperationTypes =>
               Operation(o, tr) = ThreadOperation(tr.type, o.thread[Subject(tr)], tr.tid)
        BY OneFamilyOnly DEF Operation
      <3> QED BY <3>1 DEF ThreadOperationTypes, ThreadOperation, MCThreadStart, MCThreadCreate,
                          MCThreadJoin, MCThreadFinish
    <2>4. tr.type \in {"create", "join"} => tr.type \in ThreadOperationTypes /\ Subject(tr) = tr.obj
      BY DEF ThreadOperationTypes, Subject
    <2> HIDE DEF n
    <2>5. \A c \in Conds : n.cond[c] = o.cond[c]
      BY <1>1, <2>1, <2>2 DEF ReplacedBy
    <2>6. ASSUME NEW u \in Threads
          PROVE  n.thread[u] = IF tr.type \in {"create", "join"} /\ tr.obj = u
                               THEN addNewThread(o.thread[u]) ELSE o.thread[u]
      BY <1>1, <2>1, <2>3, <2>4 DEF ReplacedBy
    <2> QED BY <2>1, <2>5, <2>6
  <1> QED BY <1>2, <1>3

\* What undoing a join, a finish or an unlock does.
LEMMA UnappliedEffect ==
    ASSUME NEW o \in ObjectStates, NEW tr \in Transitions,
           tr.type \in {"join", "finish", "mutex_unlock"}
    PROVE  LET b == unapplyToState(o, tr)
           IN  /\ b \in ObjectStates
               /\ \A u \in Threads :
                     b.thread[u] = IF tr.type = "finish" /\ tr.tid = u THEN "alive" ELSE o.thread[u]
               /\ \A m \in Mutexes :
                     b.mutex[m] = IF tr.type = "mutex_unlock" /\ tr.obj = m THEN "locked"
                                  ELSE o.mutex[m]
               /\ b.sem = o.sem /\ b.cond = o.cond /\ b.barrier = o.barrier /\ b.rwlock = o.rwlock
  <1> DEFINE new == Operation(o, tr).unapplied
             n == Updated(o, tr, new)
  <1>1. o.mutex \in [Mutexes -> MutexStates] /\ o.thread \in [Threads -> ThreadStates]
    BY DEF ObjectStates
  <1>2. IF tr.type = "mutex_unlock" THEN tr.type \in MutexOperationTypes
        ELSE tr.type \in ThreadOperationTypes
    BY DEF MutexOperationTypes, ThreadOperationTypes
  <1>3. tr.type \notin SemOperationTypes \cup CondOperationTypes \cup BarrierOperationTypes
                       \cup MCRWLockTypes \cup MCRWWLockTypes \cup MiscOperationTypes
    BY <1>2, OneFamilyOnly
  <1>4. CASE tr.type = "mutex_unlock"
    <2>1. new = "locked"
      BY <1>2, <1>4, OneFamilyOnly DEF Operation, MutexOperation, MCMutexUnlock
    <2>2. StateOfItsKind(tr, new)
      BY <1>2, <1>3, <1>4, <2>1, OneFamilyOnly DEF StateOfItsKind, MutexStates
    <2> HIDE DEF new
    <2>3. n \in ObjectStates /\ ReplacedBy(o, tr, new, n)
      BY <1>3, <2>2, UpdatedType, UpdatedFields
    <2>4. unapplyToState(o, tr) = n
      BY DEF unapplyToState, new
    <2>5. tr.type \notin ThreadOperationTypes
      BY <1>2, <1>4, OneFamilyOnly
    <2> HIDE DEF n
    <2> QED BY <1>1, <1>2, <1>3, <1>4, <2>1, <2>3, <2>4, <2>5 DEF ReplacedBy
  <1>5. CASE tr.type # "mutex_unlock"
    <2>1. Subject(tr) \in Threads /\ (tr.type = "finish" => Subject(tr) = tr.tid)
      BY <1>2, <1>5, OneFamily DEF Subject
    <2>2. new = IF tr.type = "finish" THEN "alive" ELSE o.thread[Subject(tr)]
      BY <1>2, <1>5, OneFamilyOnly DEF Operation, ThreadOperation, MCThreadJoin, MCThreadFinish
    <2>3. StateOfItsKind(tr, new)
      BY <1>1, <1>2, <1>3, <1>5, <2>1, <2>2, OneFamilyOnly DEF StateOfItsKind, ThreadStates
    <2> HIDE DEF new
    <2>4. n \in ObjectStates /\ ReplacedBy(o, tr, new, n)
      BY <1>3, <2>3, UpdatedType, UpdatedFields
    <2>5. unapplyToState(o, tr) = n
      BY DEF unapplyToState, new
    <2>6. tr.type \notin MutexOperationTypes
      BY <1>2, <1>5, OneFamilyOnly
    <2> HIDE DEF n
    <2> QED BY <1>1, <1>2, <1>3, <1>5, <2>1, <2>2, <2>4, <2>5, <2>6 DEF ReplacedBy
  <1> QED BY <1>4, <1>5

\* What the initial states become when an operation is announced.
LEMMA RegisteredEffect ==
    ASSUME NEW o \in ObjectStates, NEW tr \in Transitions
    PROVE  LET a == registerNewObject(o, tr)
           IN  /\ a \in ObjectStates
               /\ \A u \in Threads :
                     a.thread[u] = IF tr.type \in {"create", "join"} /\ tr.obj = u
                                   THEN addNewThread(o.thread[u]) ELSE o.thread[u]
               /\ \A m \in Mutexes :
                     a.mutex[m] = IF tr.type \in MutexOperationTypes /\ tr.obj = m
                                  THEN RegisteredMutex(o.mutex[m]) ELSE o.mutex[m]
               /\ \A s \in Semaphores :
                     a.sem[s] = IF tr.type = "sem_init" /\ tr.obj = s /\ ~ o.sem[s].registered
                                THEN [registered |-> TRUE, count |-> InitialCount[s],
                                      waitingQueue |-> << >>]
                                ELSE o.sem[s]
               /\ \A c \in Conds : a.cond[c] = o.cond[c]
               /\ \A b \in Barriers :
                     a.barrier[b] = IF tr.type = "barrier_init" /\ tr.obj = b
                                    THEN [o.barrier[b] EXCEPT !.registered = TRUE]
                                    ELSE o.barrier[b]
               /\ \A l \in RWLocks : a.rwlock[l] = o.rwlock[l]
  <1> DEFINE a == registerNewObject(o, tr)
             n == [o EXCEPT !.mutex[tr.obj] = RegisteredMutex(@)]
  <1>1. /\ o.thread \in [Threads -> ThreadStates]
        /\ o.mutex \in [Mutexes -> MutexStates]
    BY DEF ObjectStates
  <1>2. CASE tr.type \in MutexOperationTypes
    <2>1. a = n
      BY <1>2, OneFamilyOnly DEF registerNewObject, MutexOperationTypes
    <2>2. tr.obj \in Mutexes /\ tr.type \notin {"create", "join", "sem_init", "barrier_init"}
      BY <1>2, OneFamily DEF MutexOperationTypes
    <2>3. RegisteredMutex(o.mutex[tr.obj]) \in MutexStates
      BY <1>1, <2>2 DEF RegisteredMutex, MutexStates
    <2>4. n \in ObjectStates
      BY <2>2, <2>3 DEF ObjectStates
    <2>5. /\ n.thread = o.thread /\ n.sem = o.sem /\ n.cond = o.cond /\ n.barrier = o.barrier
          /\ n.rwlock = o.rwlock
          /\ n.mutex = [o.mutex EXCEPT ![tr.obj] = RegisteredMutex(@)]
      BY DEF ObjectStates
    <2> HIDE DEF a, n
    <2> QED BY <1>1, <1>2, <2>1, <2>2, <2>4, <2>5 DEF a
  <1>3. CASE tr.type = "barrier_wait"
    <2>1. a = o
      BY <1>3 DEF registerNewObject, MutexOperationTypes
    <2>2. tr.type \notin MutexOperationTypes
      BY <1>3 DEF MutexOperationTypes
    <2> HIDE DEF a
    <2> QED BY <1>3, <2>1, <2>2 DEF a
  <1>4. CASE tr.type \notin MutexOperationTypes /\ tr.type # "barrier_wait"
    <2>1. a = readTransition(o, tr)
      BY <1>4 DEF registerNewObject
    <2>2. a \in ObjectStates
      BY <2>1, AnnouncedType
    <2>3. \A b \in Barriers :
             a.barrier[b] = IF tr.type = "barrier_init" /\ tr.obj = b
                            THEN [o.barrier[b] EXCEPT !.registered = TRUE] ELSE o.barrier[b]
      BY <1>4, <2>1, AnnouncedEffect
         DEF BarrierOperationTypes, BarrierOperation, MCBarrierInit
    <2>4. /\ \A m \in Mutexes : a.mutex[m] = o.mutex[m]
          /\ \A s \in Semaphores :
                a.sem[s] = IF tr.type = "sem_init" /\ tr.obj = s /\ ~ o.sem[s].registered
                           THEN [registered |-> TRUE, count |-> InitialCount[s],
                                 waitingQueue |-> << >>]
                           ELSE o.sem[s]
          /\ \A l \in RWLocks : a.rwlock[l] = o.rwlock[l]
      BY <1>4, <2>1, AnnouncedEffect
    <2>5. /\ \A c \in Conds : a.cond[c] = o.cond[c]
          /\ \A u \in Threads :
                a.thread[u] = IF tr.type \in {"create", "join"} /\ tr.obj = u
                              THEN addNewThread(o.thread[u]) ELSE o.thread[u]
      BY <2>1, AnnouncedRest
    <2> HIDE DEF a
    <2> QED BY <1>4, <2>2, <2>3, <2>4, <2>5 DEF a
  <1> QED BY <1>2, <1>3, <1>4

-----------------------------------------------------------------------------
(* States of a program                                                       *)
(* st is a record of objects and positions, as Start and Follow make them;   *)
(* what TargetProgram says of its variables is said of st.                   *)

\* Programs that keep the rules and initialise what they use.
Lawful(prg) == prg \in Programs /\ KeepsTheRules(prg) /\ UsesInitialised(prg)

\* The pending transition of thread t.
Due(prg, st, t) == TransitionAt(prg, t, st.pos[t])

CanRun(prg, st, t) == transitionEnabledInState(st.objects, Due(prg, st, t))

\* Thread t has run its abort().
AbortedIn(prg, st) ==
    \E t \in Threads : st.pos[t] > 0 /\ TransitionAt(prg, t, st.pos[t] - 1).type = "abort"

\* The main thread has run all its initialisations.
InitDone(prg, st) ==
    \A p \in DOMAIN prg[Main] : prg[Main][p].type \in InitTypes => p < st.pos[Main]

Placed(prg, st) ==
    /\ st.objects \in ObjectStates
    /\ st.pos \in [Threads -> Nat]
    /\ \A t \in Threads : st.pos[t] <= Len(prg[t]) + 1

StartedIn(st, u) == st.objects.thread[u] \in {"alive", "dead"}

\* ThreadsAreCreated
Created(prg, st) ==
    /\ \A u \in Threads : st.pos[u] # 0 => StartedIn(st, u)
    /\ \A u \in Threads \ {Main} : StartedIn(st, u) =>
          \E t \in Threads : \E p \in DOMAIN prg[t] :
             prg[t][p] \in Creation(u) /\ p < st.pos[t]
    /\ \A p \in DOMAIN prg[Main] :
          prg[Main][p].type \in InitTypes /\ st.pos[Main] <= p =>
             \A u \in Threads \ {Main} : st.pos[u] = 0 /\ ~ StartedIn(st, u)

\* Ran, Holds
Passed(prg, st, t, ops) == Before(prg, t, st.pos[t], ops)

Holding(prg, st, t, m) == Passed(prg, st, t, Takes(m)) > Passed(prg, st, t, Gives(m))

\* MutexInv
Excludes(prg, st) ==
    \A m \in Mutexes :
       /\ \A t \in Threads :
             /\ Passed(prg, st, t, Takes(m)) \in Nat /\ Passed(prg, st, t, Gives(m)) \in Nat
             /\ Passed(prg, st, t, Gives(m)) <= Passed(prg, st, t, Takes(m))
             /\ Passed(prg, st, t, Takes(m)) <= Passed(prg, st, t, Gives(m)) + 1
       /\ \A t, u \in Threads : Holding(prg, st, t, m) /\ Holding(prg, st, u, m) => t = u
       /\ (\E t \in Threads : Holding(prg, st, t, m)) => st.objects.mutex[m] = "locked"
       /\ st.objects.mutex[m] = "locked" =>
             \/ \E t \in Threads : \E p \in DOMAIN prg[t] : prg[t][p] \in On({"mutex_trylock"}, m)
             \/ \E t \in Threads : Holding(prg, st, t, m)
       /\ \A p \in DOMAIN prg[Main] :
             prg[Main][p] \in On({"mutex_init"}, m) =>
                /\ st.pos[Main] < p => st.objects.mutex[m] = "none"
                /\ st.pos[Main] = p => st.objects.mutex[m] = "undefined"

Sound(prg, st) == Placed(prg, st) /\ Created(prg, st) /\ Excludes(prg, st)

\* Where McMini's model is.
Here == [objects |-> objects, pos |-> pos]

\* Soundness is what TargetProgram_proofs shows of the variables,
LEMMA SoundHere ==
    ASSUME Lawful(program), Sound(program, Here)
    PROVE  Typed /\ ThreadsAreCreated /\ MutexInv
  <1>1. Typed
    BY DEF Lawful, KeepsTheRules, HasNoLoop, Sound, Placed, Here, Typed, TypeOK, Positions
  <1>2. ThreadsAreCreated
    BY DEF Sound, Created, StartedIn, Here, ThreadsAreCreated, Started
  <1>3. MutexInv
    BY DEF Sound, Excludes, Passed, Holding, Here, MutexInv, InTurnsSoFar, MutualExclusion,
           InitialMutexes, Holds, Ran, Tried
  <1> QED BY <1>1, <1>2, <1>3

\* and stays so as the program goes forwards.
LEMMA SoundStep ==
    ASSUME Lawful(program), Sound(program, Here), NEW t \in Threads, Run(t)
    PROVE  Sound(program, Here)'
  <1>1. Typed /\ ThreadsAreCreated /\ MutexInv /\ KeepsTheRules(program) /\ program' = program
    BY SoundHere DEF Lawful, Run
  <1>2. Typed' /\ ThreadsAreCreated' /\ MutexInv'
    <2>1. [Next]_vars
      BY DEF Next
    <2> QED BY <1>1, <2>1, TypedStep, ThreadsStep, MutexStep
  <1>3. Placed(program, Here)'
    BY <1>2 DEF Placed, Here, Typed, TypeOK
  <1>4. Created(program, Here)'
    BY <1>2 DEF Created, StartedIn, Here, ThreadsAreCreated, Started
  <1>5. Excludes(program, Here)'
    BY <1>2 DEF Excludes, Passed, Holding, Here, MutexInv, InTurnsSoFar, MutualExclusion,
                InitialMutexes, Holds, Ran, Tried
  <1> QED BY <1>3, <1>4, <1>5 DEF Sound

\* It begins so.
LEMMA SoundInit ==
    ASSUME Lawful(program), Init
    PROVE  Sound(program, Here) /\ Here = Start
  <1>1. Typed /\ ThreadsAreCreated /\ MutexInv
    BY TypedInit, ThreadsInit, MutexInit
  <1>2. Placed(program, Here)
    BY <1>1 DEF Placed, Here, Typed, TypeOK
  <1>3. Created(program, Here)
    BY <1>1 DEF Created, StartedIn, Here, ThreadsAreCreated, Started
  <1>4. Excludes(program, Here)
    BY <1>1 DEF Excludes, Passed, Holding, Here, MutexInv, InTurnsSoFar, MutualExclusion,
                InitialMutexes, Holds, Ran, Tried
  <1> QED BY <1>2, <1>3, <1>4 DEF Sound, Here, Start, Init

\* What a thread is about to do.
LEMMA DueType ==
    ASSUME NEW prg, Lawful(prg), NEW st, Placed(prg, st), NEW t \in Threads
    PROVE  /\ Due(prg, st, t) \in Transitions
           /\ Due(prg, st, t).tid = t
           /\ Len(prg[t]) \in Nat /\ DOMAIN prg[t] = 1 .. Len(prg[t])
           /\ st.pos[t] \in Nat
           /\ IF st.pos[t] \in DOMAIN prg[t]
              THEN /\ prg[t][st.pos[t]] \in Operations
                   /\ Due(prg, st, t).type = prg[t][st.pos[t]].type
                   /\ Due(prg, st, t).obj = prg[t][st.pos[t]].obj
              ELSE Due(prg, st, t).type = IF st.pos[t] = 0 THEN "start" ELSE "finish"
  <1>1. prg \in Programs /\ HasNoLoop(prg) /\ prg[t] \in Seq(Operations)
    BY ProgramsAssumption DEF Lawful, KeepsTheRules
  <1>2. st.pos[t] \in Nat
    BY DEF Placed
  <1>3. st.pos[t] \in DOMAIN prg[t] => prg[t][st.pos[t]].type # "repeat"
    BY <1>1 DEF HasNoLoop
  <1>4. /\ Due(prg, st, t) \in Transitions
        /\ Due(prg, st, t).tid = t
        /\ st.pos[t] \in DOMAIN prg[t] =>
              /\ Due(prg, st, t).type = prg[t][st.pos[t]].type
              /\ Due(prg, st, t).obj = prg[t][st.pos[t]].obj
              /\ prg[t][st.pos[t]] \in Operations
    BY <1>1, <1>2, <1>3, TransitionType DEF Due
  <1>5. Len(prg[t]) \in Nat /\ DOMAIN prg[t] = 1 .. Len(prg[t])
    BY <1>1
  <1>6. st.pos[t] \notin DOMAIN prg[t] =>
           Due(prg, st, t).type = IF st.pos[t] = 0 THEN "start" ELSE "finish"
    BY DEF Due, TransitionAt
  <1> QED BY <1>2, <1>4, <1>5, <1>6

\* Where one transition leads.
LEMMA FollowLeads ==
    ASSUME NEW prg, Lawful(prg), NEW st, Placed(prg, st), NEW t \in Threads
    PROVE  LET f == Follow(prg, st, t)
           IN  /\ Placed(prg, f)
               /\ f.objects = readTransition(applyToState(st.objects, Due(prg, st, t)),
                                             Due(prg, f, t))
               /\ applyToState(st.objects, Due(prg, st, t)) \in ObjectStates
               /\ f.pos[t] = IF st.pos[t] = Len(prg[t]) + 1 THEN st.pos[t] ELSE st.pos[t] + 1
               /\ \A u \in Threads \ {t} : f.pos[u] = st.pos[u]
  <1> DEFINE p == NextPosition(prg, t, st.pos[t])
             f == Follow(prg, st, t)
  <1>1. /\ Due(prg, st, t) \in Transitions
        /\ Len(prg[t]) \in Nat /\ DOMAIN prg[t] = 1 .. Len(prg[t])
        /\ st.pos[t] \in Nat /\ st.pos \in [Threads -> Nat] /\ st.pos[t] <= Len(prg[t]) + 1
        /\ HasNoLoop(prg)
        /\ st.objects \in ObjectStates
    BY DueType DEF Lawful, KeepsTheRules, Placed
  <1>2. p = IF st.pos[t] = Len(prg[t]) + 1 THEN st.pos[t] ELSE st.pos[t] + 1
    BY <1>1 DEF NextPosition, HasNoLoop
  <1>3. p \in Nat /\ p <= Len(prg[t]) + 1
    BY <1>1, <1>2
  <1>4. f.pos = [st.pos EXCEPT ![t] = p]
    BY DEF Follow
  <1> HIDE DEF p
  <1>5. f.pos \in [Threads -> Nat] /\ f.pos[t] = p /\ \A u \in Threads \ {t} : f.pos[u] = st.pos[u]
    BY <1>1, <1>3, <1>4
  <1>6. applyToState(st.objects, Due(prg, st, t)) \in ObjectStates
    BY <1>1, AppliedType
  <1>7. f.objects = readTransition(applyToState(st.objects, Due(prg, st, t)), Due(prg, f, t))
    BY <1>5 DEF Follow, Due, p
  <1>8. \A u \in Threads : f.pos[u] <= Len(prg[u]) + 1
    BY <1>3, <1>5 DEF Placed
  <1>9. Due(prg, f, t) \in Transitions
    <2>1. f.pos[t] \in DOMAIN prg[t] => prg[t][f.pos[t]].type # "repeat"
      BY <1>1 DEF HasNoLoop
    <2>2. prg \in Programs /\ f.pos[t] \in Nat
      BY <1>5 DEF Lawful
    <2> QED BY <2>1, <2>2, TransitionType DEF Due
  <1>10. f.objects \in ObjectStates
    BY <1>6, <1>7, <1>9, AnnouncedType
  <1> HIDE DEF f
  <1> QED BY <1>2, <1>5, <1>6, <1>7, <1>8, <1>10 DEF Placed, f

\* What a thread may do, by the words of the code.
LEMMA CanRunFacts ==
    ASSUME NEW prg, NEW st, NEW t, CanRun(prg, st, t), Due(prg, st, t).tid = t
    PROVE  /\ st.objects.thread[t] = "alive"
           /\ Operation(st.objects, Due(prg, st, t)).enabled
           /\ UsesCondMutex(Due(prg, st, t)) =>
                 CondMutexOperation(st.objects, Due(prg, st, t)).enabled
  BY DEF CanRun, transitionEnabledInState, MCThreadEnabled

-----------------------------------------------------------------------------
(* Initialising *)

\* The main thread initialises first, and alone.
LEMMA InitialisesBefore ==
    ASSUME NEW prg, Lawful(prg), NEW st, Sound(prg, st), NEW t \in Threads, CanRun(prg, st, t)
    PROVE  LET f == Follow(prg, st, t)
           IN  /\ Due(prg, st, t).type \in InitTypes => t = Main
               /\ Due(prg, st, t).type \notin InitTypes \cup {"start"} => InitDone(prg, st)
               /\ InitDone(prg, st) =>
                     /\ InitDone(prg, f)
                     /\ Due(prg, st, t).type \notin InitTypes
                     /\ Due(prg, f, t).type \notin InitTypes
               /\ Due(prg, f, t).type \notin InitTypes => InitDone(prg, f)
               /\ Due(prg, f, t).type \in InitTypes => t = Main
  <1> DEFINE f == Follow(prg, st, t)
  <1>1. /\ InitialisesFirst(prg)
        /\ Placed(prg, st) /\ Created(prg, st)
        /\ Placed(prg, f)
        /\ f.pos[t] = IF st.pos[t] = Len(prg[t]) + 1 THEN st.pos[t] ELSE st.pos[t] + 1
        /\ \A u \in Threads \ {t} : f.pos[u] = st.pos[u]
    BY FollowLeads DEF Lawful, KeepsTheRules, Sound
  <1>2. Main \in Threads
    BY LastThreadAssumption DEF Main, Threads
  <1> HIDE DEF f
  <1>3. ASSUME NEW s, Placed(prg, s), NEW u \in Threads, Due(prg, s, u).type \in InitTypes
        PROVE  u = Main /\ ~ InitDone(prg, s)
    <2>1. s.pos[u] \in DOMAIN prg[u]
      BY <1>3, DueType DEF InitTypes
    <2>2. prg[u][s.pos[u]].type \in InitTypes /\ s.pos[u] \in Nat
      BY <1>3, <2>1, DueType
    <2>3. u = Main
      BY <1>1, <2>1, <2>2 DEF InitialisesFirst
    <2>4. ~ (s.pos[Main] < s.pos[Main])
      BY <2>2, <2>3
    <2> QED BY <2>1, <2>2, <2>3, <2>4 DEF InitDone
  <1>4. ASSUME NEW s, Placed(prg, s), s.pos[Main] # 0, Due(prg, s, Main).type \notin InitTypes
        PROVE  InitDone(prg, s)
    <2>1. /\ s.pos[Main] \in Nat
          /\ Len(prg[Main]) \in Nat /\ DOMAIN prg[Main] = 1 .. Len(prg[Main])
          /\ s.pos[Main] \in DOMAIN prg[Main] => prg[Main][s.pos[Main]].type \notin InitTypes
      BY <1>2, <1>4, DueType
    <2>2. ASSUME NEW p \in DOMAIN prg[Main], prg[Main][p].type \in InitTypes, ~ (p < s.pos[Main])
          PROVE  FALSE
      <3>1. p # s.pos[Main]
        BY <2>1, <2>2
      <3>2. s.pos[Main] \in 1 .. p - 1 /\ s.pos[Main] \in DOMAIN prg[Main]
        BY <1>4, <2>1, <2>2, <3>1
      <3>3. prg[Main][s.pos[Main]].type \in InitTypes
        BY <1>1, <1>2, <2>2, <3>2 DEF InitialisesFirst
      <3> QED BY <2>1, <3>2, <3>3
    <2> QED BY <2>2 DEF InitDone
  <1>5. t # Main => InitDone(prg, st)
    <2>1. Due(prg, st, t).tid = t
      BY <1>1, DueType
    <2>2. StartedIn(st, t)
      BY <2>1, CanRunFacts DEF StartedIn
    <2>3. /\ st.pos[Main] \in Nat
          /\ Len(prg[Main]) \in Nat /\ DOMAIN prg[Main] = 1 .. Len(prg[Main])
      BY <1>1, <1>2, DueType
    <2> QED BY <1>1, <2>2, <2>3 DEF Created, InitDone
  <1>6. /\ st.pos[Main] \in Nat /\ f.pos[Main] \in Nat /\ st.pos[Main] <= f.pos[Main]
        /\ t = Main => f.pos[Main] # 0
        /\ Len(prg[Main]) \in Nat /\ DOMAIN prg[Main] = 1 .. Len(prg[Main])
    <2>1. /\ st.pos[Main] \in Nat /\ f.pos[Main] \in Nat
          /\ Len(prg[Main]) \in Nat /\ DOMAIN prg[Main] = 1 .. Len(prg[Main])
      BY <1>1, <1>2, DueType
    <2> QED BY <1>1, <1>2, <2>1
  <1>7. InitDone(prg, st) => InitDone(prg, f)
    BY <1>6 DEF InitDone
  <1>8. Due(prg, st, t).type \in InitTypes => t = Main /\ ~ InitDone(prg, st)
    BY <1>1, <1>3
  <1>9. Due(prg, f, t).type \in InitTypes => t = Main /\ ~ InitDone(prg, f)
    BY <1>1, <1>3
  <1>10. Due(prg, st, t).type \notin InitTypes \cup {"start"} => InitDone(prg, st)
    <2>1. Due(prg, st, t).type # "start" => st.pos[t] # 0
      BY <1>1, DueType
    <2> QED BY <1>1, <1>4, <1>5, <2>1
  <1>11. Due(prg, f, t).type \notin InitTypes => InitDone(prg, f)
    BY <1>1, <1>4, <1>5, <1>6, <1>7
  <1> QED BY <1>7, <1>8, <1>9, <1>10, <1>11 DEF f

\* What is initialised, is initialised by the main thread.
LEMMA UsesInMain ==
    ASSUME NEW prg, Lawful(prg), NEW type \in InitTypes, NEW x, Uses(prg, On({type}, x))
    PROVE  \E p \in DOMAIN prg[Main] : prg[Main][p].type = type /\ prg[Main][p].obj = x
  <1>1. PICK t \in Threads : \E p \in DOMAIN prg[t] : prg[t][p] \in On({type}, x)
    BY DEF Uses
  <1>2. PICK p \in DOMAIN prg[t] : prg[t][p] \in On({type}, x)
    BY <1>1
  <1>3. prg[t][p].type = type /\ prg[t][p].obj = x
    BY <1>2 DEF On
  <1>4. t = Main
    BY <1>3 DEF Lawful, KeepsTheRules, InitialisesFirst
  <1> QED BY <1>3, <1>4

\* What a pending transition uses is initialised somewhere.
LEMMA DueIsInitialised ==
    ASSUME NEW prg, Lawful(prg), NEW st, Placed(prg, st), NEW t \in Threads
    PROVE  LET tr == Due(prg, st, t)
           IN  /\ tr.type # "barrier_wait"
               /\ tr.type \in MutexOperationTypes => Uses(prg, On({"mutex_init"}, tr.obj))
               /\ UsesCondMutex(tr) => Uses(prg, On({"mutex_init"}, CondMutex[tr.obj]))
               /\ tr.type \in SemOperationTypes => Uses(prg, On({"sem_init"}, tr.obj))
               /\ tr.type = "barrier_init" => Uses(prg, On({"barrier_init"}, tr.obj))
  <1> DEFINE tr == Due(prg, st, t)
             p == st.pos[t]
  <1>1. /\ tr \in Transitions
        /\ IF p \in DOMAIN prg[t]
           THEN prg[t][p] \in Operations /\ tr.type = prg[t][p].type /\ tr.obj = prg[t][p].obj
           ELSE tr.type \in {"start", "finish"}
    BY DueType
  <1>2. UsesInitialised(prg)
    BY DEF Lawful
  <1> HIDE DEF tr, p
  <1>3. CASE p \notin DOMAIN prg[t]
    <2>1. tr.type \in {"start", "finish"}
      BY <1>1, <1>3
    <2> QED BY <2>1 DEF MutexOperationTypes, SemOperationTypes, UsesCondMutex, tr
  <1>4. CASE p \in DOMAIN prg[t]
    <2>1. prg[t][p] \in Operations /\ tr.type = prg[t][p].type /\ tr.obj = prg[t][p].obj
      BY <1>1, <1>4
    <2>2. tr.type # "barrier_wait"
      BY <1>2, <1>4, <2>1 DEF UsesInitialised
    <2>3. ASSUME tr.type \in MutexOperationTypes
          PROVE  Uses(prg, On({"mutex_init"}, tr.obj))
      <3>1. tr.obj \in Mutexes
        BY <1>1, <2>3, OneFamily
      <3>2. prg[t][p] \in On(MutexOperationTypes, tr.obj)
        BY <2>1, <2>3, OperationOn
      <3> QED BY <1>2, <1>4, <3>1, <3>2 DEF UsesInitialised
    <2>4. ASSUME UsesCondMutex(tr)
          PROVE  Uses(prg, On({"mutex_init"}, CondMutex[tr.obj]))
      <3>1. tr.obj \in Conds /\ CondMutex[tr.obj] \in Mutexes
        <4>1. tr.type \in CondOperationTypes
          BY <2>4 DEF UsesCondMutex, CondOperationTypes
        <4> QED BY <1>1, <4>1, OneFamily, ObjectsAssumption
      <3>2. tr.obj \in WaitingWith(CondMutex[tr.obj])
        BY <3>1 DEF WaitingWith
      <3>3. prg[t][p] = [type |-> tr.type, obj |-> tr.obj]
        <4>1. [type |-> tr.type, obj |-> tr.obj] \in Operations
          BY <2>4, <3>1 DEF Operations, UsesCondMutex, CondOperationTypes
        <4> QED BY <2>1, <4>1, SameOperation
      <3>4. prg[t][p] \in [type : {"cond_enqueue", "cond_wait"}, obj : WaitingWith(CondMutex[tr.obj])]
        BY <2>4, <3>2, <3>3 DEF UsesCondMutex
      <3> QED BY <1>2, <1>4, <3>1, <3>4 DEF UsesInitialised
    <2>5. ASSUME tr.type \in SemOperationTypes
          PROVE  Uses(prg, On({"sem_init"}, tr.obj))
      <3>1. tr.obj \in Semaphores
        BY <1>1, <2>5, OneFamily
      <3>2. prg[t][p] \in On(SemOperationTypes, tr.obj)
        BY <2>1, <2>5, OperationOn
      <3> QED BY <1>2, <1>4, <3>1, <3>2 DEF UsesInitialised
    <2>6. ASSUME tr.type = "barrier_init"
          PROVE  Uses(prg, On({"barrier_init"}, tr.obj))
      <3>1. prg[t][p] \in On({"barrier_init"}, tr.obj)
        BY <2>1, <2>6, OperationOn
      <3> QED BY <1>4, <3>1 DEF Uses
    <2> QED BY <2>2, <2>3, <2>4, <2>5, <2>6 DEF tr
  <1> QED BY <1>3, <1>4

-----------------------------------------------------------------------------
(* What is initialised                                                       *)

Initialised == {"unlocked", "locked"}

\* A mutex is initialised once the main thread has passed its mutex_init, and one that is
\* known at all is initialised somewhere;
MutexesReady(prg, st) ==
    \A m \in Mutexes :
       /\ \A p \in DOMAIN prg[Main] :
             prg[Main][p].type = "mutex_init" /\ prg[Main][p].obj = m /\ p < st.pos[Main] =>
                st.objects.mutex[m] \in Initialised
       /\ st.objects.mutex[m] # "none" => Uses(prg, On({"mutex_init"}, m))

\* a semaphore and a barrier are known once their initialisation is announced, and nobody
\* enters a barrier;
SemsReady(prg, st) ==
    \A s \in Semaphores :
       /\ \A p \in DOMAIN prg[Main] :
             prg[Main][p].type = "sem_init" /\ prg[Main][p].obj = s /\ p <= st.pos[Main] =>
                st.objects.sem[s].registered
       /\ IF st.objects.sem[s].registered THEN Uses(prg, On({"sem_init"}, s))
          ELSE st.objects.sem[s] = NoSem

BarriersReady(prg, st) ==
    \A b \in Barriers :
       /\ \A p \in DOMAIN prg[Main] :
             prg[Main][p].type = "barrier_init" /\ prg[Main][p].obj = b /\ p <= st.pos[Main] =>
                st.objects.barrier[b].registered
       /\ st.objects.barrier[b] \in {NewBarrier(FALSE), NewBarrier(TRUE)}
       /\ st.objects.barrier[b].registered => Uses(prg, On({"barrier_init"}, b))

\* and so is a thread that another is about to create or to join.
ThreadsReady(prg, st) ==
    /\ StartedIn(st, Main)
    /\ \A t \in Threads :
          Due(prg, st, t).type \in {"create", "join"} =>
             st.objects.thread[Due(prg, st, t).obj] # "none"

Prepared(prg, st) ==
    MutexesReady(prg, st) /\ SemsReady(prg, st) /\ BarriersReady(prg, st) /\ ThreadsReady(prg, st)

\* Where the main thread goes: it passes what it has just run.
LEMMA MainPasses ==
    ASSUME NEW prg, Lawful(prg), NEW st, Placed(prg, st), NEW t \in Threads,
           NEW p \in DOMAIN prg[Main]
    PROVE  LET f == Follow(prg, st, t)
           IN  /\ p \in Nat /\ p > 0 /\ st.pos[Main] \in Nat /\ f.pos[Main] \in Nat
               /\ p < f.pos[Main] =>
                     \/ p < st.pos[Main]
                     \/ /\ Due(prg, st, t).type = prg[Main][p].type
                        /\ Due(prg, st, t).obj = prg[Main][p].obj
               /\ p <= f.pos[Main] =>
                     \/ p <= st.pos[Main]
                     \/ /\ Due(prg, f, t).type = prg[Main][p].type
                        /\ Due(prg, f, t).obj = prg[Main][p].obj
  <1> DEFINE f == Follow(prg, st, t)
  <1>1. Main \in Threads
    BY LastThreadAssumption DEF Main, Threads
  <1>2. /\ Placed(prg, f)
        /\ f.pos[t] = IF st.pos[t] = Len(prg[t]) + 1 THEN st.pos[t] ELSE st.pos[t] + 1
        /\ \A u \in Threads \ {t} : f.pos[u] = st.pos[u]
    BY FollowLeads
  <1> HIDE DEF f
  <1>3. /\ st.pos[Main] \in Nat /\ f.pos[Main] \in Nat
        /\ Len(prg[Main]) \in Nat /\ DOMAIN prg[Main] = 1 .. Len(prg[Main])
        /\ st.pos[Main] \in DOMAIN prg[Main] =>
              /\ Due(prg, st, Main).type = prg[Main][st.pos[Main]].type
              /\ Due(prg, st, Main).obj = prg[Main][st.pos[Main]].obj
        /\ f.pos[Main] \in DOMAIN prg[Main] =>
              /\ Due(prg, f, Main).type = prg[Main][f.pos[Main]].type
              /\ Due(prg, f, Main).obj = prg[Main][f.pos[Main]].obj
    BY <1>1, <1>2, DueType
  <1>4. CASE t # Main
    <2>1. f.pos[Main] = st.pos[Main]
      BY <1>1, <1>2, <1>4
    <2> QED BY <1>3, <2>1 DEF f
  <1>5. CASE t = Main
    <2>1. p < f.pos[Main] => p < st.pos[Main] \/ p = st.pos[Main]
      BY <1>2, <1>3, <1>5
    <2>2. p <= f.pos[Main] => p <= st.pos[Main] \/ p = f.pos[Main]
      BY <1>2, <1>3, <1>5
    <2> QED BY <1>3, <1>5, <2>1, <2>2 DEF f
  <1> QED BY <1>4, <1>5

\* Mutexes get ready and stay so, and a lock is announced only of an initialised one.
LEMMA MutexesReadyStep ==
    ASSUME NEW prg, Lawful(prg), NEW st, Sound(prg, st), MutexesReady(prg, st),
           NEW t \in Threads, CanRun(prg, st, t)
    PROVE  LET f == Follow(prg, st, t)
               a == applyToState(st.objects, Due(prg, st, t))
           IN  /\ MutexesReady(prg, f)
               /\ Due(prg, f, t).type \in {"mutex_lock", "mutex_trylock"} =>
                     a.mutex[Due(prg, f, t).obj] \in Initialised
  <1> DEFINE f == Follow(prg, st, t)
             tr == Due(prg, st, t)
             su == Due(prg, f, t)
             o == st.objects
             a == applyToState(o, tr)
             n == f.objects
  <1>1. /\ Placed(prg, st) /\ Placed(prg, f)
        /\ n = readTransition(a, su)
        /\ a \in ObjectStates /\ o \in ObjectStates
    BY FollowLeads DEF Sound, Placed
  <1>2. /\ tr \in Transitions
        /\ su \in Transitions
    BY <1>1, DueType
  <1> HIDE DEF f, tr, su
  <1>3. ASSUME NEW m \in Mutexes
        PROVE  /\ a.mutex[m] = IF tr.type \in MutexOperationTypes /\ tr.obj = m
                               THEN MutexOperation(tr.type, o.mutex[m]).applied
                               ELSE IF UsesCondMutex(tr) /\ CondMutex[tr.obj] = m
                               THEN CondMutexOperation(o, tr).applied ELSE o.mutex[m]
               /\ n.mutex[m] = IF su.type \in MutexOperationTypes /\ su.obj = m
                               THEN MutexOperation(su.type, a.mutex[m]).announced ELSE a.mutex[m]
    <2> HIDE DEF n
    <2> QED BY <1>1, <1>2, AppliedEffect, AnnouncedEffect
  <1>4. ASSUME NEW m \in Mutexes
        PROVE  /\ o.mutex[m] \in Initialised => a.mutex[m] \in Initialised
               /\ a.mutex[m] \in Initialised => n.mutex[m] \in Initialised
               /\ tr.type = "mutex_init" /\ tr.obj = m => a.mutex[m] \in Initialised
    <2>1. \A type, x : type \in MutexOperationTypes =>
             /\ x \in Initialised => /\ MutexOperation(type, x).applied \in Initialised
                                     /\ MutexOperation(type, x).announced \in Initialised
             /\ type = "mutex_init" => MutexOperation(type, x).applied \in Initialised
      BY DEF MutexOperationTypes, MutexOperation, MCMutexInit, MCMutexLock, MCMutexTrylock,
             MCMutexUnlock, Initialised, RegisteredMutex, StaticallyInitialised
    <2>2. CondMutexOperation(o, tr).applied \in Initialised
      BY DEF CondMutexOperation, MCMutexLock, MCMutexUnlock, Initialised
    <2>3. "mutex_init" \in MutexOperationTypes
      BY DEF MutexOperationTypes
    <2> HIDE DEF a, n, o
    <2> QED BY <1>3, <2>1, <2>2, <2>3
  <1>5. ASSUME NEW m \in Mutexes, NEW p \in DOMAIN prg[Main],
               prg[Main][p].type = "mutex_init", prg[Main][p].obj = m, p < f.pos[Main]
        PROVE  a.mutex[m] \in Initialised
    <2>1. p < st.pos[Main] => o.mutex[m] \in Initialised
      BY <1>5 DEF MutexesReady
    <2>2. p < st.pos[Main] \/ (tr.type = "mutex_init" /\ tr.obj = m)
      BY <1>1, <1>5, MainPasses DEF f, tr
    <2> HIDE DEF a, n, o
    <2> QED BY <1>4, <2>1, <2>2
  <1>6. ASSUME NEW m \in Mutexes, n.mutex[m] # "none"
        PROVE  Uses(prg, On({"mutex_init"}, m))
    <2>1. /\ tr.type \in MutexOperationTypes => Uses(prg, On({"mutex_init"}, tr.obj))
          /\ UsesCondMutex(tr) => Uses(prg, On({"mutex_init"}, CondMutex[tr.obj]))
          /\ su.type \in MutexOperationTypes => Uses(prg, On({"mutex_init"}, su.obj))
      BY <1>1, DueIsInitialised DEF tr, su
    <2>2. o.mutex[m] # "none" => Uses(prg, On({"mutex_init"}, m))
      BY DEF MutexesReady
    <2> HIDE DEF a, n, o
    <2> QED BY <1>3, <1>6, <2>1, <2>2
  <1>7. MutexesReady(prg, f)
    <2> HIDE DEF a
    <2> QED BY <1>4, <1>5, <1>6 DEF MutexesReady
  <1>8. ASSUME su.type \in {"mutex_lock", "mutex_trylock"}
        PROVE  a.mutex[su.obj] \in Initialised
    <2>1. su.type \in MutexOperationTypes /\ su.type \notin InitTypes
      BY <1>8 DEF MutexOperationTypes, InitTypes
    <2>2. su.obj \in Mutexes /\ Uses(prg, On({"mutex_init"}, su.obj))
      BY <1>1, <1>2, <2>1, DueIsInitialised, OneFamily DEF su
    <2>3. PICK p \in DOMAIN prg[Main] : prg[Main][p].type = "mutex_init" /\ prg[Main][p].obj = su.obj
      <3>1. "mutex_init" \in InitTypes
        BY DEF InitTypes
      <3> QED BY <2>2, <3>1, UsesInMain
    <2>4. InitDone(prg, f)
      BY <2>1, InitialisesBefore DEF f, su
    <2>5. p < f.pos[Main]
      BY <2>3, <2>4 DEF InitDone, InitTypes
    <2> QED BY <1>5, <2>2, <2>3, <2>5
  <1> QED BY <1>7, <1>8 DEF f, tr, su

\* A semaphore is used only when it is known, and nothing makes it unknown.
LEMMA SemsReadyStep ==
    ASSUME NEW prg, Lawful(prg), NEW st, Sound(prg, st), SemsReady(prg, st),
           NEW t \in Threads, CanRun(prg, st, t)
    PROVE  LET tr == Due(prg, st, t)
           IN  /\ SemsReady(prg, Follow(prg, st, t))
               /\ tr.type \in SemOperationTypes \ {"sem_init"} =>
                     st.objects.sem[tr.obj].registered
               /\ \A s \in Semaphores :
                     applyToState(st.objects, tr).sem[s].registered
                        <=> st.objects.sem[s].registered
  <1> DEFINE f == Follow(prg, st, t)
             tr == Due(prg, st, t)
             su == Due(prg, f, t)
             o == st.objects
             a == applyToState(o, tr)
             n == f.objects
  <1>1. /\ Placed(prg, st) /\ Placed(prg, f)
        /\ n = readTransition(a, su)
        /\ a \in ObjectStates /\ o \in ObjectStates
    BY FollowLeads DEF Sound, Placed
  <1>2. tr \in Transitions /\ su \in Transitions
    BY <1>1, DueType
  <1> HIDE DEF f, tr, su
  <1>3. ASSUME NEW s \in Semaphores
        PROVE  /\ a.sem[s] = IF tr.type \in SemOperationTypes /\ tr.obj = s
                             THEN SemOperation(tr.type, o.sem[s], tr.tid, InitialCount[s]).applied
                             ELSE o.sem[s]
               /\ \/ /\ su.type = "sem_init" /\ su.obj = s /\ ~ a.sem[s].registered
                     /\ n.sem[s].registered
                  \/ ~ (su.type = "sem_init" /\ su.obj = s /\ ~ a.sem[s].registered)
                     /\ n.sem[s] = a.sem[s]
               /\ o.sem[s] \in SemStates
    <2> DEFINE new == [registered |-> TRUE, count |-> InitialCount[s], waitingQueue |-> << >>]
    <2>1. new.registered
      OBVIOUS
    <2> HIDE DEF new
    <2>2. n.sem[s] = IF su.type = "sem_init" /\ su.obj = s /\ ~ a.sem[s].registered
                     THEN new ELSE a.sem[s]
      <3> HIDE DEF n
      <3> QED BY <1>1, <1>2, AnnouncedEffect DEF new
    <2> HIDE DEF n
    <2> QED BY <1>1, <1>2, <2>1, <2>2, AppliedEffect DEF ObjectStates
  <1>4. ASSUME tr.type \in SemOperationTypes \ {"sem_init"}
        PROVE  o.sem[tr.obj].registered
    <2>1. tr.type \notin InitTypes \cup {"start"}
      BY <1>4 DEF SemOperationTypes, InitTypes
    <2>2. tr.obj \in Semaphores /\ Uses(prg, On({"sem_init"}, tr.obj))
      BY <1>1, <1>2, <1>4, DueIsInitialised, OneFamily DEF tr
    <2>3. PICK p \in DOMAIN prg[Main] : prg[Main][p].type = "sem_init" /\ prg[Main][p].obj = tr.obj
      <3>1. "sem_init" \in InitTypes
        BY DEF InitTypes
      <3> QED BY <2>2, <3>1, UsesInMain
    <2>4. InitDone(prg, st)
      BY <2>1, InitialisesBefore DEF tr
    <2>5. p < st.pos[Main]
      BY <2>3, <2>4 DEF InitDone, InitTypes
    <2>6. p <= st.pos[Main]
      BY <1>1, <2>5, MainPasses
    <2> QED BY <2>2, <2>3, <2>6 DEF SemsReady
  <1>5. ASSUME NEW s \in Semaphores
        PROVE  /\ a.sem[s].registered <=> o.sem[s].registered
               /\ ~ o.sem[s].registered => a.sem[s] = o.sem[s]
    <2>1. \A type : type \in SemOperationTypes =>
             /\ SemOperation(type, o.sem[s], tr.tid, InitialCount[s]).applied.registered
                   <=> o.sem[s].registered
             /\ type = "sem_init" =>
                   SemOperation(type, o.sem[s], tr.tid, InitialCount[s]).applied = o.sem[s]
      <3> DEFINE sem == o.sem[s]
      <3>1. sem \in SemStates
        BY <1>3
      <3> HIDE DEF sem
      <3> SUFFICES \A type : type \in SemOperationTypes =>
             /\ SemOperation(type, sem, tr.tid, InitialCount[s]).applied.registered
                   <=> sem.registered
             /\ type = "sem_init" => SemOperation(type, sem, tr.tid, InitialCount[s]).applied = sem
        BY DEF sem
      <3> QED BY <3>1 DEF SemOperationTypes, SemOperation, MCSemInit, MCSemEnqueue, MCSemWait,
                          MCSemPost, SemStates
    <2> HIDE DEF a, n, o
    <2> QED BY <1>3, <1>4, <2>1
  <1>6. ASSUME NEW s \in Semaphores, NEW p \in DOMAIN prg[Main],
               prg[Main][p].type = "sem_init", prg[Main][p].obj = s, p <= f.pos[Main]
        PROVE  n.sem[s].registered
    <2>1. p <= st.pos[Main] => o.sem[s].registered
      BY <1>6 DEF SemsReady
    <2>2. p <= st.pos[Main] \/ (su.type = "sem_init" /\ su.obj = s)
      BY <1>1, <1>6, MainPasses DEF f, su
    <2> HIDE DEF a, n, o
    <2> QED BY <1>3, <1>5, <2>1, <2>2
  <1>7. ASSUME NEW s \in Semaphores
        PROVE  IF n.sem[s].registered THEN Uses(prg, On({"sem_init"}, s)) ELSE n.sem[s] = NoSem
    <2>1. su.type = "sem_init" => Uses(prg, On({"sem_init"}, su.obj))
      BY <1>1, DueIsInitialised DEF su, SemOperationTypes
    <2>2. IF o.sem[s].registered THEN Uses(prg, On({"sem_init"}, s)) ELSE o.sem[s] = NoSem
      BY DEF SemsReady
    <2> HIDE DEF a, n, o
    <2> QED BY <1>3, <1>5, <2>1, <2>2
  <1>8. SemsReady(prg, f)
    BY <1>6, <1>7 DEF SemsReady
  <1> QED BY <1>4, <1>5, <1>8 DEF f, tr

\* A barrier that becomes known is otherwise the same: two records with the same fields are equal.
LEMMA RegisteredBarrier ==
    ASSUME NEW bar \in BarrierStates
    PROVE  [bar EXCEPT !.registered = TRUE]
              = [registered |-> TRUE, isEven |-> bar.isEven, even |-> bar.even, odd |-> bar.odd]
  <1> DEFINE fields == {"registered", "isEven", "even", "odd"}
             r == [bar EXCEPT !.registered = TRUE]
             s == [registered |-> TRUE, isEven |-> bar.isEven, even |-> bar.even, odd |-> bar.odd]
  <1>1. r \in BarrierStates
    BY DEF BarrierStates
  <1>2. /\ DOMAIN r = fields /\ r \in [fields -> {r[x] : x \in DOMAIN r}]
        /\ r["registered"] = TRUE /\ r["isEven"] = bar.isEven
        /\ r["even"] = bar.even /\ r["odd"] = bar.odd
    BY DEF BarrierStates
  <1>3. /\ DOMAIN s = fields /\ s \in [fields -> {s[x] : x \in DOMAIN s}]
        /\ s["registered"] = TRUE /\ s["isEven"] = bar.isEven
        /\ s["even"] = bar.even /\ s["odd"] = bar.odd
    OBVIOUS
  <1>4. \A x \in fields : r[x] = s[x]
    BY <1>2, <1>3
  <1> HIDE DEF r, s, fields
  <1>5. r = s
    BY <1>2, <1>3, <1>4
  <1> QED BY <1>5 DEF r, s

\* A barrier nobody waits at is, once registered, a new registered barrier: barrier_init, announced.
LEMMA KnownBarrier ==
    \A registered \in BOOLEAN :
       [NewBarrier(registered) EXCEPT !.registered = TRUE] = NewBarrier(TRUE)
  <1>1. ASSUME NEW bar \in BarrierStates, bar.isEven = FALSE, bar.even = {}, bar.odd = {}
        PROVE  [bar EXCEPT !.registered = TRUE] = NewBarrier(TRUE)
    <2>1. [bar EXCEPT !.registered = TRUE]
             = [registered |-> TRUE, isEven |-> bar.isEven, even |-> bar.even, odd |-> bar.odd]
      BY RegisteredBarrier
    <2> QED BY <1>1, <2>1, Zenon DEF NewBarrier
  <1>2. \A registered \in BOOLEAN :
           /\ NewBarrier(registered) \in BarrierStates
           /\ NewBarrier(registered).isEven = FALSE
           /\ NewBarrier(registered).even = {} /\ NewBarrier(registered).odd = {}
    BY DEF BarrierStates, NewBarrier
  <1> QED BY <1>1, <1>2

\* Nobody but barrier_init touches a barrier.
LEMMA BarriersReadyStep ==
    ASSUME NEW prg, Lawful(prg), NEW st, Placed(prg, st), BarriersReady(prg, st),
           NEW t \in Threads
    PROVE  LET su == Due(prg, Follow(prg, st, t), t)
           IN  /\ BarriersReady(prg, Follow(prg, st, t))
               /\ \A b \in Barriers :
                     Follow(prg, st, t).objects.barrier[b].registered =>
                        st.objects.barrier[b].registered \/ (su.type = "barrier_init" /\ su.obj = b)
  <1> DEFINE f == Follow(prg, st, t)
             tr == Due(prg, st, t)
             su == Due(prg, f, t)
             o == st.objects
             a == applyToState(o, tr)
             n == f.objects
  <1>1. /\ Placed(prg, st) /\ Placed(prg, f)
        /\ n = readTransition(a, su)
        /\ a \in ObjectStates /\ o \in ObjectStates
    BY FollowLeads DEF Placed
  <1>2. tr \in Transitions /\ su \in Transitions
    BY <1>1, DueType
  <1>3. /\ su.type # "barrier_wait"
        /\ su.type = "barrier_init" => Uses(prg, On({"barrier_init"}, su.obj))
    BY <1>1, DueIsInitialised
  <1> HIDE DEF f, tr, su
  <1>4. ASSUME NEW b \in Barriers
        PROVE  n.barrier[b] = IF su.type = "barrier_init" /\ su.obj = b THEN NewBarrier(TRUE)
                              ELSE o.barrier[b]
    <2>1. /\ a.barrier[b] = o.barrier[b]
          /\ n.barrier[b] = IF su.type \in BarrierOperationTypes /\ su.obj = b
                            THEN BarrierOperation(su.type, a.barrier[b], su.tid,
                                                  BarrierCount[b]).announced
                            ELSE a.barrier[b]
      <3> HIDE DEF n
      <3> QED BY <1>1, <1>2, AppliedEffect, AnnouncedEffect
    <2>2. o.barrier[b] \in {NewBarrier(FALSE), NewBarrier(TRUE)}
      BY DEF BarriersReady
    <2>3. /\ [NewBarrier(FALSE) EXCEPT !.registered = TRUE] = NewBarrier(TRUE)
          /\ [NewBarrier(TRUE) EXCEPT !.registered = TRUE] = NewBarrier(TRUE)
      BY KnownBarrier
    <2>4. \A bar, tid, count :
             BarrierOperation("barrier_init", bar, tid, count).announced
                = [bar EXCEPT !.registered = TRUE]
      BY DEF BarrierOperation, MCBarrierInit
    <2>5. \A type : type \in BarrierOperationTypes /\ type # "barrier_wait" => type = "barrier_init"
      BY DEF BarrierOperationTypes
    <2>6. "barrier_init" \in BarrierOperationTypes
      BY DEF BarrierOperationTypes
    <2> HIDE DEF n, a, o
    <2>7. CASE su.type = "barrier_init" /\ su.obj = b
      <3>1. n.barrier[b] = [o.barrier[b] EXCEPT !.registered = TRUE]
        BY <2>1, <2>4, <2>6, <2>7
      <3> QED BY <2>2, <2>3, <2>7, <3>1
    <2>8. CASE ~ (su.type = "barrier_init" /\ su.obj = b)
      BY <1>3, <2>1, <2>5, <2>8
    <2> QED BY <2>7, <2>8
  <1>5. NewBarrier(TRUE).registered
    BY DEF NewBarrier
  <1>6. ASSUME NEW b \in Barriers, NEW p \in DOMAIN prg[Main],
               prg[Main][p].type = "barrier_init", prg[Main][p].obj = b, p <= f.pos[Main]
        PROVE  n.barrier[b].registered
    <2>1. p <= st.pos[Main] => o.barrier[b].registered
      BY <1>6 DEF BarriersReady
    <2>2. p <= st.pos[Main] \/ (su.type = "barrier_init" /\ su.obj = b)
      BY <1>1, <1>6, MainPasses DEF f, su
    <2> HIDE DEF n, o
    <2> QED BY <1>4, <1>5, <2>1, <2>2
  <1>7. ASSUME NEW b \in Barriers
        PROVE  /\ n.barrier[b] \in {NewBarrier(FALSE), NewBarrier(TRUE)}
               /\ n.barrier[b].registered => Uses(prg, On({"barrier_init"}, b))
    <2>1. /\ o.barrier[b] \in {NewBarrier(FALSE), NewBarrier(TRUE)}
          /\ o.barrier[b].registered => Uses(prg, On({"barrier_init"}, b))
      BY DEF BarriersReady
    <2> HIDE DEF n, o
    <2> QED BY <1>3, <1>4, <2>1
  <1>8. BarriersReady(prg, f)
    BY <1>6, <1>7 DEF BarriersReady
  <1>9. \A b \in Barriers : n.barrier[b].registered =>
                               o.barrier[b].registered \/ (su.type = "barrier_init" /\ su.obj = b)
    <2> HIDE DEF n, o
    <2> QED BY <1>4
  <1> QED BY <1>8, <1>9 DEF f, su

\* No thread becomes unknown, and one that is named is known.
LEMMA ThreadsReadyStep ==
    ASSUME NEW prg, Lawful(prg), NEW st, Sound(prg, st), ThreadsReady(prg, st),
           NEW t \in Threads, CanRun(prg, st, t)
    PROVE  LET f == Follow(prg, st, t)
           IN  /\ ThreadsReady(prg, f)
               /\ \A u \in Threads :
                     f.objects.thread[u] # "none" =>
                        \/ st.objects.thread[u] # "none"
                        \/ /\ Due(prg, f, t).type \in {"create", "join"}
                           /\ Due(prg, f, t).obj = u
  <1> DEFINE f == Follow(prg, st, t)
             tr == Due(prg, st, t)
             su == Due(prg, f, t)
             o == st.objects
             a == applyToState(o, tr)
             n == f.objects
  <1>1. /\ Placed(prg, st) /\ Placed(prg, f)
        /\ n = readTransition(a, su)
        /\ a \in ObjectStates /\ o \in ObjectStates
        /\ \A u \in Threads \ {t} : f.pos[u] = st.pos[u]
    BY FollowLeads DEF Sound, Placed
  <1>2. tr \in Transitions /\ su \in Transitions /\ tr.tid = t
    BY <1>1, DueType
  <1>3. o.thread[t] = "alive"
    BY <1>2, CanRunFacts
  <1>4. \A u \in Threads \ {t} : Due(prg, f, u) = Due(prg, st, u)
    <2> HIDE DEF f
    <2> QED BY <1>1 DEF Due
  <1>5. /\ StartedIn(st, Main)
        /\ \A u \in Threads : Due(prg, st, u).type \in {"create", "join"} =>
              o.thread[Due(prg, st, u).obj] # "none"
    BY DEF ThreadsReady
  <1> HIDE DEF f, tr, su
  <1>6. ASSUME NEW u \in Threads
        PROVE  /\ a.thread[u] = IF tr.type \in ThreadOperationTypes /\ Subject(tr) = u
                                THEN ThreadOperation(tr.type, o.thread[u], tr.tid).applied
                                ELSE o.thread[u]
               /\ n.thread[u] = IF su.type \in {"create", "join"} /\ su.obj = u
                                THEN addNewThread(a.thread[u]) ELSE a.thread[u]
               /\ a.thread[u] \in ThreadStates
    <2> HIDE DEF n
    <2> QED BY <1>1, <1>2, AppliedEffect, AnnouncedRest DEF ObjectStates
  <1>7. ASSUME NEW u \in Threads
        PROVE  /\ a.thread[u] # "none" <=> o.thread[u] # "none"
               /\ o.thread[u] \in {"alive", "dead"} => a.thread[u] \in {"alive", "dead"}
    <2>1. \A type, state, tid : type \in ThreadOperationTypes =>
             \/ ThreadOperation(type, state, tid).applied \in {"alive", "dead"}
             \/ type = "join" /\ ThreadOperation(type, state, tid).applied = state
      BY DEF ThreadOperationTypes, ThreadOperation, MCThreadStart, MCThreadCreate, MCThreadJoin,
             MCThreadFinish
    <2>2. tr.type \in ThreadOperationTypes /\ Subject(tr) = u => o.thread[u] # "none"
      <3>1. CASE tr.type \in {"create", "join"}
        BY <1>5, <3>1 DEF Subject, tr
      <3>2. CASE tr.type \notin {"create", "join"}
        BY <1>2, <1>3, <3>2 DEF Subject
      <3> QED BY <3>1, <3>2
    <2> HIDE DEF a, n, o
    <2> QED BY <1>6, <2>1, <2>2
  <1>8. ASSUME NEW u \in Threads
        PROVE  /\ o.thread[u] # "none" => n.thread[u] # "none"
               /\ o.thread[u] \in {"alive", "dead"} => n.thread[u] \in {"alive", "dead"}
               /\ n.thread[u] # "none" =>
                     o.thread[u] # "none" \/ (su.type \in {"create", "join"} /\ su.obj = u)
               /\ su.type \in {"create", "join"} /\ su.obj = u => n.thread[u] # "none"
    <2> HIDE DEF a, n, o
    <2> QED BY <1>6, <1>7 DEF addNewThread, ThreadStates
  <1>9. StartedIn(f, Main)
    <2>1. Main \in Threads
      BY LastThreadAssumption DEF Main, Threads
    <2> QED BY <1>5, <1>8, <2>1 DEF StartedIn
  <1>10. ASSUME NEW u \in Threads, Due(prg, f, u).type \in {"create", "join"}
         PROVE  n.thread[Due(prg, f, u).obj] # "none"
    <2>1. Due(prg, f, u).obj \in Threads
      <3>1. Due(prg, f, u) \in Transitions
        BY <1>1, DueType
      <3>2. Due(prg, f, u).type \in ThreadOperationTypes
        BY <1>10 DEF ThreadOperationTypes
      <3>3. Subject(Due(prg, f, u)) = Due(prg, f, u).obj
        BY <1>10 DEF Subject
      <3> QED BY <3>1, <3>2, <3>3, OneFamily
    <2>2. CASE u = t
      BY <1>8, <1>10, <2>1, <2>2 DEF su
    <2>3. CASE u # t
      <3>1. Due(prg, f, u) = Due(prg, st, u)
        BY <1>4, <2>3 DEF f
      <3> QED BY <1>5, <1>8, <1>10, <2>1, <3>1
    <2> QED BY <2>2, <2>3
  <1>11. ThreadsReady(prg, f)
    BY <1>9, <1>10 DEF ThreadsReady
  <1> QED BY <1>8, <1>11 DEF f, su

\* At first.
LEMMA PreparedInit ==
    ASSUME NEW prg, Lawful(prg)
    PROVE  Prepared(prg, Start)
  <1>1. Main \in Threads /\ prg[Main] \in Seq(Operations)
    BY ProgramsAssumption, LastThreadAssumption DEF Lawful, Main, Threads
  <1>2. Start.pos[Main] = 0 /\ \A t \in Threads : Start.pos[t] = 0
    BY <1>1 DEF Start
  <1>3. \A p \in DOMAIN prg[Main] : ~ (p < Start.pos[Main]) /\ ~ (p <= Start.pos[Main])
    BY <1>1, <1>2
  <1>4. /\ \A m \in Mutexes : Start.objects.mutex[m] = "none"
        /\ \A s \in Semaphores : Start.objects.sem[s] = NoSem
        /\ \A b \in Barriers : Start.objects.barrier[b] = NewBarrier(FALSE)
        /\ Start.objects.thread[Main] = "alive"
    BY <1>1 DEF Start, NoObjects
  <1>5. \A t \in Threads : Due(prg, Start, t).type = "start"
    <2>1. Placed(prg, Start)
      <3>1. \A t \in Threads : prg[t] \in Seq(Operations)
        BY ProgramsAssumption DEF Lawful
      <3> QED BY <3>1, InitialObjects DEF Placed, Start
    <2>2. \A t \in Threads : 0 \notin DOMAIN prg[t]
      BY <2>1, DueType
    <2> QED BY <1>2, <2>1, <2>2, DueType
  <1>6. ~ NoSem.registered /\ ~ NewBarrier(FALSE).registered
    BY DEF NoSem, NewBarrier
  <1> QED BY <1>3, <1>4, <1>5, <1>6 DEF Prepared, MutexesReady, SemsReady, BarriersReady,
                                       ThreadsReady, StartedIn

\* A step keeps all of it.
LEMMA PreparedStep ==
    ASSUME NEW prg, Lawful(prg), NEW st, Sound(prg, st), Prepared(prg, st),
           NEW t \in Threads, CanRun(prg, st, t)
    PROVE  Prepared(prg, Follow(prg, st, t))
  BY MutexesReadyStep, SemsReadyStep, BarriersReadyStep, ThreadsReadyStep DEF Prepared, Sound

-----------------------------------------------------------------------------
(* Shadow objects that are the real ones                                     *)

\* All objects are as in r, but for threads of which r has not heard yet.
Agree(o, r) ==
    /\ \A u \in Threads :
          o.thread[u] = r.thread[u] \/ (r.thread[u] = "none" /\ o.thread[u] = "embryo")
    /\ \A m \in Mutexes : o.mutex[m] = r.mutex[m]
    /\ \A s \in Semaphores : o.sem[s] = r.sem[s]
    /\ \A c \in Conds : o.cond[c] = r.cond[c]
    /\ \A b \in Barriers : o.barrier[b] = r.barrier[b]
    /\ \A l \in RWLocks : o.rwlock[l] = r.rwlock[l]

\* The class of a transition finds the same object in both.
LEMMA SameOperations ==
    ASSUME NEW o \in ObjectStates, NEW r \in ObjectStates, Agree(o, r), NEW tr \in Transitions
    PROVE  /\ tr.type \notin ThreadOperationTypes => Operation(o, tr) = Operation(r, tr)
           /\ UsesCondMutex(tr) => CondMutexOperation(o, tr) = CondMutexOperation(r, tr)
  <1>1. ASSUME UsesCondMutex(tr)
        PROVE  CondMutexOperation(o, tr) = CondMutexOperation(r, tr)
    <2>1. CondMutex[tr.obj] \in Mutexes
      BY <1>1, CondMutexType
    <2>2. o.mutex[CondMutex[tr.obj]] = r.mutex[CondMutex[tr.obj]]
      BY <2>1 DEF Agree
    <2> QED BY <2>2 DEF CondMutexOperation
  <1>2. CASE tr.type \in MutexOperationTypes
    <2>1. o.mutex[tr.obj] = r.mutex[tr.obj]
      BY <1>2, OneFamily DEF Agree
    <2> QED BY <1>1, <1>2, <2>1, OneFamilyOnly DEF Operation
  <1>3. CASE tr.type \in SemOperationTypes
    <2>1. o.sem[tr.obj] = r.sem[tr.obj]
      BY <1>3, OneFamily DEF Agree
    <2> QED BY <1>1, <1>3, <2>1, OneFamilyOnly DEF Operation
  <1>4. CASE tr.type \in CondOperationTypes
    <2>1. o.cond[tr.obj] = r.cond[tr.obj]
      BY <1>4, OneFamily DEF Agree
    <2> QED BY <1>1, <1>4, <2>1, OneFamilyOnly DEF Operation
  <1>5. CASE tr.type \in BarrierOperationTypes
    <2>1. o.barrier[tr.obj] = r.barrier[tr.obj]
      BY <1>5, OneFamily DEF Agree
    <2> QED BY <1>1, <1>5, <2>1, OneFamilyOnly DEF Operation
  <1>6. CASE tr.type \in MCRWLockTypes \cup MCRWWLockTypes
    <2>1. o.rwlock[tr.obj] = r.rwlock[tr.obj]
      BY <1>6, OneFamily DEF Agree
    <2> QED BY <1>1, <1>6, <2>1, OneFamilyOnly DEF Operation
  <1>7. CASE tr.type \in MiscOperationTypes
    BY <1>1, <1>7, OneFamilyOnly DEF Operation
  <1>8. CASE tr.type \in ThreadOperationTypes
    BY <1>1, <1>8
  <1> QED BY <1>2, <1>3, <1>4, <1>5, <1>6, <1>7, <1>8, OneFamily

\* The same threads can run,
LEMMA AgreeCanRun ==
    ASSUME NEW o \in ObjectStates, NEW r \in ObjectStates, Agree(o, r), NEW tr \in Transitions
    PROVE  transitionEnabledInState(o, tr) <=> transitionEnabledInState(r, tr)
  <1>1. o.thread[tr.tid] = "alive" <=> r.thread[tr.tid] = "alive"
    BY OneFamily DEF Agree
  <1>2. Operation(o, tr).enabled <=> Operation(r, tr).enabled
    <2>1. CASE tr.type \in ThreadOperationTypes
      <3>1. /\ Operation(o, tr) = ThreadOperation(tr.type, o.thread[Subject(tr)], tr.tid)
            /\ Operation(r, tr) = ThreadOperation(tr.type, r.thread[Subject(tr)], tr.tid)
        BY <2>1, OneFamilyOnly DEF Operation
      <3>2. o.thread[Subject(tr)] = "dead" <=> r.thread[Subject(tr)] = "dead"
        BY <2>1, OneFamily DEF Agree
      <3> QED BY <2>1, <3>1, <3>2 DEF ThreadOperationTypes, ThreadOperation, MCThreadStart,
                                      MCThreadCreate, MCThreadJoin, MCThreadFinish
    <2>2. CASE tr.type \notin ThreadOperationTypes
      BY <2>2, SameOperations
    <2> QED BY <2>1, <2>2
  <1>3. UsesCondMutex(tr) => CondMutexOperation(o, tr) = CondMutexOperation(r, tr)
    BY SameOperations
  <1> QED BY <1>1, <1>2, <1>3 DEF transitionEnabledInState, MCThreadEnabled

\* and what they run and announce keeps the agreement.
LEMMA AgreeApplied ==
    ASSUME NEW o \in ObjectStates, NEW r \in ObjectStates, Agree(o, r), NEW tr \in Transitions
    PROVE  Agree(applyToState(o, tr), applyToState(r, tr))
  <1> DEFINE a == applyToState(o, tr)
             b == applyToState(r, tr)
  <1>1. ASSUME NEW u \in Threads
        PROVE  a.thread[u] = b.thread[u] \/ (b.thread[u] = "none" /\ a.thread[u] = "embryo")
    <2>1. /\ a.thread[u] = IF tr.type \in ThreadOperationTypes /\ Subject(tr) = u
                           THEN ThreadOperation(tr.type, o.thread[u], tr.tid).applied
                           ELSE o.thread[u]
          /\ b.thread[u] = IF tr.type \in ThreadOperationTypes /\ Subject(tr) = u
                           THEN ThreadOperation(tr.type, r.thread[u], tr.tid).applied
                           ELSE r.thread[u]
      BY AppliedEffect
    <2>2. \A type, x, y : type \in ThreadOperationTypes /\ type # "join" =>
             ThreadOperation(type, x, tr.tid).applied = ThreadOperation(type, y, tr.tid).applied
      BY DEF ThreadOperationTypes, ThreadOperation, MCThreadStart, MCThreadCreate, MCThreadFinish
    <2>3. \A x : ThreadOperation("join", x, tr.tid).applied = x
      BY DEF ThreadOperation, MCThreadJoin
    <2> HIDE DEF a, b
    <2> QED BY <2>1, <2>2, <2>3 DEF Agree
  <1>2. ASSUME NEW m \in Mutexes
        PROVE  a.mutex[m] = b.mutex[m]
    <2>1. UsesCondMutex(tr) => CondMutexOperation(o, tr) = CondMutexOperation(r, tr)
      BY SameOperations
    <2>2. /\ a.mutex[m] = IF tr.type \in MutexOperationTypes /\ tr.obj = m
                          THEN MutexOperation(tr.type, o.mutex[m]).applied
                          ELSE IF UsesCondMutex(tr) /\ CondMutex[tr.obj] = m
                          THEN CondMutexOperation(o, tr).applied ELSE o.mutex[m]
          /\ b.mutex[m] = IF tr.type \in MutexOperationTypes /\ tr.obj = m
                          THEN MutexOperation(tr.type, r.mutex[m]).applied
                          ELSE IF UsesCondMutex(tr) /\ CondMutex[tr.obj] = m
                          THEN CondMutexOperation(r, tr).applied ELSE r.mutex[m]
      BY AppliedEffect
    <2> HIDE DEF a, b
    <2> QED BY <2>1, <2>2 DEF Agree
  <1>3. /\ \A s \in Semaphores : a.sem[s] = b.sem[s]
        /\ \A l \in RWLocks : a.rwlock[l] = b.rwlock[l]
        /\ \A y \in Barriers : a.barrier[y] = b.barrier[y]
    BY AppliedEffect DEF Agree
  <1>4. \A c \in Conds : a.cond[c] = b.cond[c]
    BY AppliedCond DEF Agree
  <1> HIDE DEF a, b
  <1>5. Agree(a, b)
    BY <1>1, <1>2, <1>3, <1>4 DEF Agree
  <1> QED BY <1>5 DEF a, b

\* Announcing one transition to two states that agree leaves them agreeing (the read of the mailbox
\* at the scheduler and at the rebuilt state).
LEMMA AgreeAnnounced ==
    ASSUME NEW o \in ObjectStates, NEW r \in ObjectStates, Agree(o, r), NEW tr \in Transitions
    PROVE  Agree(readTransition(o, tr), readTransition(r, tr))
  <1> DEFINE a == readTransition(o, tr)
             b == readTransition(r, tr)
  <1>1. ASSUME NEW u \in Threads
        PROVE  a.thread[u] = b.thread[u] \/ (b.thread[u] = "none" /\ a.thread[u] = "embryo")
    <2>1. /\ a.thread[u] = IF tr.type \in {"create", "join"} /\ tr.obj = u
                           THEN addNewThread(o.thread[u]) ELSE o.thread[u]
          /\ b.thread[u] = IF tr.type \in {"create", "join"} /\ tr.obj = u
                           THEN addNewThread(r.thread[u]) ELSE r.thread[u]
      BY AnnouncedRest
    <2> HIDE DEF a, b
    <2> QED BY <2>1 DEF Agree, addNewThread
  <1>2. /\ \A m \in Mutexes : a.mutex[m] = b.mutex[m]
        /\ \A s \in Semaphores : a.sem[s] = b.sem[s]
        /\ \A l \in RWLocks : a.rwlock[l] = b.rwlock[l]
    <2>1. \A m \in Mutexes :
             /\ a.mutex[m] = IF tr.type \in MutexOperationTypes /\ tr.obj = m
                             THEN MutexOperation(tr.type, o.mutex[m]).announced ELSE o.mutex[m]
             /\ b.mutex[m] = IF tr.type \in MutexOperationTypes /\ tr.obj = m
                             THEN MutexOperation(tr.type, r.mutex[m]).announced ELSE r.mutex[m]
      BY AnnouncedEffect
    <2>2. /\ \A s \in Semaphores :
                a.sem[s] = IF tr.type = "sem_init" /\ tr.obj = s /\ ~ o.sem[s].registered
                           THEN [registered |-> TRUE, count |-> InitialCount[s],
                                 waitingQueue |-> << >>]
                           ELSE o.sem[s]
          /\ \A s \in Semaphores :
                b.sem[s] = IF tr.type = "sem_init" /\ tr.obj = s /\ ~ r.sem[s].registered
                           THEN [registered |-> TRUE, count |-> InitialCount[s],
                                 waitingQueue |-> << >>]
                           ELSE r.sem[s]
          /\ \A l \in RWLocks : a.rwlock[l] = o.rwlock[l] /\ b.rwlock[l] = r.rwlock[l]
      BY AnnouncedEffect
    <2> HIDE DEF a, b
    <2>3. \A m \in Mutexes : a.mutex[m] = b.mutex[m]
      BY <2>1 DEF Agree
    <2>4. ASSUME NEW s \in Semaphores
          PROVE  a.sem[s] = b.sem[s]
      <3>1. o.sem[s] = r.sem[s]
        BY DEF Agree
      <3> QED BY <2>2, <3>1, Zenon
    <2>5. \A l \in RWLocks : a.rwlock[l] = b.rwlock[l]
      BY <2>2 DEF Agree
    <2> QED BY <2>3, <2>4, <2>5
  <1>5. ASSUME NEW y \in Barriers
        PROVE  a.barrier[y] = b.barrier[y]
    <2>1. /\ a.barrier[y] = IF tr.type \in BarrierOperationTypes /\ tr.obj = y
                            THEN BarrierOperation(tr.type, o.barrier[y], tr.tid,
                                                  BarrierCount[y]).announced
                            ELSE o.barrier[y]
          /\ b.barrier[y] = IF tr.type \in BarrierOperationTypes /\ tr.obj = y
                            THEN BarrierOperation(tr.type, r.barrier[y], tr.tid,
                                                  BarrierCount[y]).announced
                            ELSE r.barrier[y]
      BY AnnouncedEffect
    <2> HIDE DEF a, b
    <2> QED BY <2>1 DEF Agree
  <1>3. \A c \in Conds : a.cond[c] = b.cond[c]
    BY AnnouncedRest DEF Agree
  <1> HIDE DEF a, b
  <1>4. Agree(a, b)
    BY <1>1, <1>2, <1>3, <1>5 DEF Agree
  <1> QED BY <1>4 DEF a, b

\* A state whose objects agree with the real ones is as sound as they are.
LEMMA AgreeSound ==
    ASSUME NEW prg, NEW st, NEW so, Agree(so.objects, st.objects),
           so.objects \in ObjectStates, st.objects \in ObjectStates, so.pos = st.pos
    PROVE  Sound(prg, so) <=> Sound(prg, st)
  <1>1. \A u \in Threads : StartedIn(so, u) <=> StartedIn(st, u)
    BY DEF StartedIn, Agree
  <1>2. Placed(prg, so) <=> Placed(prg, st)
    BY DEF Placed
  <1>3. Created(prg, so) <=> Created(prg, st)
    BY <1>1 DEF Created
  <1>4. Excludes(prg, so) <=> Excludes(prg, st)
    BY DEF Excludes, Passed, Holding, Agree
  <1> QED BY <1>2, <1>3, <1>4 DEF Sound

-----------------------------------------------------------------------------
(* The initial states, from which a replay begins                            *)

\* The mutexes a thread uses are known, and but for mutex_init initialised.
LEMMA UsesKnownMutexes ==
    ASSUME NEW prg, Lawful(prg), NEW st, Sound(prg, st), MutexesReady(prg, st),
           NEW t \in Threads, CanRun(prg, st, t)
    PROVE  LET tr == Due(prg, st, t)
           IN  /\ tr.type = "mutex_init" => st.objects.mutex[tr.obj] = "undefined"
               /\ tr.type \in MutexOperationTypes \ {"mutex_init"} =>
                     st.objects.mutex[tr.obj] \in Initialised
               /\ UsesCondMutex(tr) => st.objects.mutex[CondMutex[tr.obj]] \in Initialised
  <1> DEFINE tr == Due(prg, st, t)
  <1>1. Placed(prg, st) /\ tr \in Transitions
    BY DueType DEF Sound
  <1>2. ASSUME NEW m \in Mutexes, Uses(prg, On({"mutex_init"}, m)), InitDone(prg, st)
        PROVE  st.objects.mutex[m] \in Initialised
    <2>1. PICK p \in DOMAIN prg[Main] : prg[Main][p].type = "mutex_init" /\ prg[Main][p].obj = m
      <3>1. "mutex_init" \in InitTypes
        BY DEF InitTypes
      <3> QED BY <1>2, <3>1, UsesInMain
    <2>2. p < st.pos[Main]
      BY <1>2, <2>1 DEF InitDone, InitTypes
    <2> QED BY <2>1, <2>2 DEF MutexesReady
  <1>3. ASSUME tr.type = "mutex_init"
        PROVE  st.objects.mutex[tr.obj] = "undefined"
    <2>1. tr.obj \in Mutexes
      BY <1>1, <1>3, OneFamily DEF MutexOperationTypes
    <2>2. t = Main
      BY <1>3, InitialisesBefore DEF InitTypes
    <2>3. /\ st.pos[Main] \in DOMAIN prg[Main]
          /\ prg[Main][st.pos[Main]] \in Operations
          /\ prg[Main][st.pos[Main]].type = "mutex_init" /\ prg[Main][st.pos[Main]].obj = tr.obj
      BY <1>1, <1>3, <2>2, DueType
    <2>4. prg[Main][st.pos[Main]] \in On({"mutex_init"}, tr.obj)
      BY <2>3, OperationOn
    <2> HIDE DEF tr
    <2> QED BY <2>1, <2>3, <2>4 DEF Sound, Excludes
  <1>4. ASSUME tr.type \in MutexOperationTypes \ {"mutex_init"}
        PROVE  st.objects.mutex[tr.obj] \in Initialised
    <2>1. tr.type \notin InitTypes \cup {"start"}
      BY <1>4 DEF MutexOperationTypes, InitTypes
    <2>2. InitDone(prg, st)
      BY <2>1, InitialisesBefore
    <2>3. tr.obj \in Mutexes /\ Uses(prg, On({"mutex_init"}, tr.obj))
      BY <1>1, <1>4, OneFamily, DueIsInitialised
    <2> QED BY <1>2, <2>2, <2>3
  <1>5. ASSUME UsesCondMutex(tr)
        PROVE  st.objects.mutex[CondMutex[tr.obj]] \in Initialised
    <2>1. tr.type \notin InitTypes \cup {"start"}
      BY <1>5 DEF UsesCondMutex, InitTypes
    <2>2. InitDone(prg, st)
      BY <2>1, InitialisesBefore
    <2>3. CondMutex[tr.obj] \in Mutexes /\ Uses(prg, On({"mutex_init"}, CondMutex[tr.obj]))
      <3>1. tr.type \in CondOperationTypes
        BY <1>5, OneFamilyOnly DEF UsesCondMutex
      <3> QED BY <1>1, <1>5, <3>1, OneFamily, DueIsInitialised, ObjectsAssumption
    <2> QED BY <1>2, <2>2, <2>3
  <1> QED BY <1>3, <1>4, <1>5

NewSem(s) == [registered |-> TRUE, count |-> InitialCount[s], waitingQueue |-> << >>]

\* Every object is as it is when it becomes known, or unknown; and a mutex, a semaphore or a
\* barrier becomes known only if the main thread initialises it.
AsRegistered(prg, init) ==
    /\ init \in ObjectStates
    /\ init.thread[Main] = "alive"
    /\ \A u \in Threads \ {Main} : init.thread[u] \in {"none", "embryo"}
    /\ \A m \in Mutexes :
          /\ init.mutex[m] \in {"none", "undefined"}
          /\ init.mutex[m] # "none" => Uses(prg, On({"mutex_init"}, m))
    /\ \A s \in Semaphores :
          IF init.sem[s].registered THEN init.sem[s] = NewSem(s) /\ Uses(prg, On({"sem_init"}, s))
          ELSE init.sem[s] = NoSem
    /\ \A c \in Conds : init.cond[c] = NewCond
    /\ \A b \in Barriers :
          /\ init.barrier[b] \in {NewBarrier(FALSE), NewBarrier(TRUE)}
          /\ init.barrier[b].registered => Uses(prg, On({"barrier_init"}, b))
    /\ \A l \in RWLocks : init.rwlock[l] = NewRWLock

\* A state in which no object is registered is one that only registrations have touched.
LEMMA AsRegisteredInit == \A prg : AsRegistered(prg, NoObjects)
  <1>1. Main \in Threads
    BY LastThreadAssumption DEF Main, Threads
  <1>2. /\ NoObjects.thread[Main] = "alive"
        /\ \A u \in Threads \ {Main} : NoObjects.thread[u] = "none"
        /\ \A m \in Mutexes : NoObjects.mutex[m] = "none"
        /\ \A s \in Semaphores : NoObjects.sem[s] = NoSem
        /\ \A c \in Conds : NoObjects.cond[c] = NewCond
        /\ \A b \in Barriers : NoObjects.barrier[b] = NewBarrier(FALSE)
        /\ \A l \in RWLocks : NoObjects.rwlock[l] = NewRWLock
    BY <1>1 DEF NoObjects
  <1>3. ~ NoSem.registered /\ ~ NewBarrier(FALSE).registered
    BY DEF NoSem, NewBarrier
  <1> QED BY <1>2, <1>3, InitialObjects DEF AsRegistered

\* It stays so when a pending transition is announced.
LEMMA AsRegisteredStep ==
    ASSUME NEW prg, Lawful(prg), NEW st, Placed(prg, st), NEW t \in Threads,
           NEW init, AsRegistered(prg, init)
    PROVE  AsRegistered(prg, registerNewObject(init, Due(prg, st, t)))
  <1> DEFINE su == Due(prg, st, t)
             a == registerNewObject(init, su)
  <1>1. su \in Transitions /\ init \in ObjectStates
    BY DueType DEF AsRegistered
  <1>2. /\ su.type \in MutexOperationTypes => Uses(prg, On({"mutex_init"}, su.obj))
        /\ su.type = "sem_init" => Uses(prg, On({"sem_init"}, su.obj))
        /\ su.type = "barrier_init" => Uses(prg, On({"barrier_init"}, su.obj))
    BY DueIsInitialised DEF SemOperationTypes
  <1> HIDE DEF su
  <1>3. a \in ObjectStates
    BY <1>1, RegisteredEffect
  <1>4. a.thread[Main] = "alive" /\ \A u \in Threads \ {Main} : a.thread[u] \in {"none", "embryo"}
    <2>1. Main \in Threads
      BY LastThreadAssumption DEF Main, Threads
    <2>2. \A u \in Threads :
             a.thread[u] = IF su.type \in {"create", "join"} /\ su.obj = u
                           THEN addNewThread(init.thread[u]) ELSE init.thread[u]
      BY <1>1, RegisteredEffect
    <2> HIDE DEF a
    <2> QED BY <2>1, <2>2 DEF AsRegistered, addNewThread
  <1>5. ASSUME NEW m \in Mutexes
        PROVE  /\ a.mutex[m] \in {"none", "undefined"}
               /\ a.mutex[m] # "none" => Uses(prg, On({"mutex_init"}, m))
    <2>1. a.mutex[m] = IF su.type \in MutexOperationTypes /\ su.obj = m
                       THEN RegisteredMutex(init.mutex[m]) ELSE init.mutex[m]
      BY <1>1, RegisteredEffect
    <2> HIDE DEF a
    <2> QED BY <1>2, <2>1 DEF AsRegistered, RegisteredMutex
  <1>6. ASSUME NEW s \in Semaphores
        PROVE  IF a.sem[s].registered THEN a.sem[s] = NewSem(s) /\ Uses(prg, On({"sem_init"}, s))
               ELSE a.sem[s] = NoSem
    <2>1. a.sem[s] = IF su.type = "sem_init" /\ su.obj = s /\ ~ init.sem[s].registered
                     THEN NewSem(s) ELSE init.sem[s]
      BY <1>1, RegisteredEffect DEF NewSem
    <2>2. NewSem(s).registered
      BY DEF NewSem
    <2> HIDE DEF a
    <2> QED BY <1>2, <2>1, <2>2 DEF AsRegistered
  <1>7. ASSUME NEW b \in Barriers
        PROVE  /\ a.barrier[b] \in {NewBarrier(FALSE), NewBarrier(TRUE)}
               /\ a.barrier[b].registered => Uses(prg, On({"barrier_init"}, b))
    <2>1. a.barrier[b] = IF su.type = "barrier_init" /\ su.obj = b
                         THEN [init.barrier[b] EXCEPT !.registered = TRUE] ELSE init.barrier[b]
      BY <1>1, RegisteredEffect
    <2>2. [init.barrier[b] EXCEPT !.registered = TRUE] = NewBarrier(TRUE)
      BY KnownBarrier DEF AsRegistered
    <2> HIDE DEF a
    <2> QED BY <1>2, <2>1, <2>2 DEF AsRegistered
  <1>8. /\ \A c \in Conds : a.cond[c] = NewCond
        /\ \A l \in RWLocks : a.rwlock[l] = NewRWLock
    <2>1. /\ \A c \in Conds : a.cond[c] = init.cond[c]
          /\ \A l \in RWLocks : a.rwlock[l] = init.rwlock[l]
      BY <1>1, RegisteredEffect
    <2> HIDE DEF a
    <2> QED BY <2>1 DEF AsRegistered
  <1> HIDE DEF a
  <1>9. AsRegistered(prg, a)
    BY <1>3, <1>4, <1>5, <1>6, <1>7, <1>8 DEF AsRegistered
  <1> QED BY <1>9 DEF a, su

\* The initial states know all that r knows.
Covers(init, r) ==
    /\ \A u \in Threads : r.thread[u] # "none" => init.thread[u] # "none"
    /\ \A m \in Mutexes : r.mutex[m] # "none" => init.mutex[m] # "none"
    /\ \A s \in Semaphores : r.sem[s].registered => init.sem[s].registered
    /\ \A b \in Barriers : r.barrier[b].registered => init.barrier[b].registered

\* A state that only registrations have touched covers the state in which nothing is registered.
LEMMA CoversInit ==
    ASSUME NEW prg, NEW init, AsRegistered(prg, init)
    PROVE  Covers(init, NoObjects)
  <1>1. /\ \A u \in Threads : NoObjects.thread[u] # "none" => u = Main
        /\ \A m \in Mutexes : NoObjects.mutex[m] = "none"
        /\ \A s \in Semaphores : NoObjects.sem[s] = NoSem
        /\ \A b \in Barriers : NoObjects.barrier[b] = NewBarrier(FALSE)
    BY DEF NoObjects
  <1>2. ~ NoSem.registered /\ ~ NewBarrier(FALSE).registered
    BY DEF NoSem, NewBarrier
  <1> QED BY <1>1, <1>2 DEF Covers, AsRegistered

\* What they know they never forget, so they cover what they covered before.
LEMMA CoversMore ==
    ASSUME NEW prg, NEW init, AsRegistered(prg, init), NEW r, Covers(init, r),
           NEW tr \in Transitions
    PROVE  Covers(registerNewObject(init, tr), r)
  <1> DEFINE a == registerNewObject(init, tr)
  <1>1. init \in ObjectStates
    BY DEF AsRegistered
  <1>2. ASSUME NEW u \in Threads, init.thread[u] # "none"
        PROVE  a.thread[u] # "none"
    <2>1. a.thread[u] = IF tr.type \in {"create", "join"} /\ tr.obj = u
                        THEN addNewThread(init.thread[u]) ELSE init.thread[u]
      BY <1>1, RegisteredEffect
    <2> HIDE DEF a
    <2> QED BY <1>2, <2>1 DEF addNewThread
  <1>3. ASSUME NEW m \in Mutexes, init.mutex[m] # "none"
        PROVE  a.mutex[m] # "none"
    <2>1. a.mutex[m] = IF tr.type \in MutexOperationTypes /\ tr.obj = m
                       THEN RegisteredMutex(init.mutex[m]) ELSE init.mutex[m]
      BY <1>1, RegisteredEffect
    <2> HIDE DEF a
    <2> QED BY <1>3, <2>1 DEF RegisteredMutex
  <1>4. ASSUME NEW s \in Semaphores, init.sem[s].registered
        PROVE  a.sem[s].registered
    <2>1. a.sem[s] = IF tr.type = "sem_init" /\ tr.obj = s /\ ~ init.sem[s].registered
                     THEN NewSem(s) ELSE init.sem[s]
      BY <1>1, RegisteredEffect DEF NewSem
    <2> HIDE DEF a
    <2> QED BY <1>4, <2>1
  <1>5. ASSUME NEW b \in Barriers, init.barrier[b].registered
        PROVE  a.barrier[b].registered
    <2>1. a.barrier[b] = IF tr.type = "barrier_init" /\ tr.obj = b
                         THEN [init.barrier[b] EXCEPT !.registered = TRUE] ELSE init.barrier[b]
      BY <1>1, RegisteredEffect
    <2>2. [init.barrier[b] EXCEPT !.registered = TRUE] = NewBarrier(TRUE)
      BY KnownBarrier DEF AsRegistered
    <2>3. NewBarrier(TRUE).registered
      BY DEF NewBarrier
    <2> HIDE DEF a
    <2> QED BY <1>5, <2>1, <2>2, <2>3
  <1> HIDE DEF a
  <1>6. Covers(a, r)
    BY <1>2, <1>3, <1>4, <1>5 DEF Covers
  <1> QED BY <1>6 DEF a

\* As a program goes on, they go on to know all that is known.
LEMMA CoversStep ==
    ASSUME NEW prg, Lawful(prg), NEW st, Sound(prg, st), Prepared(prg, st),
           NEW t \in Threads, CanRun(prg, st, t),
           NEW init, AsRegistered(prg, init), Covers(init, st.objects)
    PROVE  LET f == Follow(prg, st, t)
           IN  Covers(registerNewObject(init, Due(prg, f, t)), f.objects)
  <1> DEFINE f == Follow(prg, st, t)
             tr == Due(prg, st, t)
             su == Due(prg, f, t)
             o == st.objects
             a == applyToState(o, tr)
             n == f.objects
             i == registerNewObject(init, su)
  <1>1. /\ Placed(prg, st) /\ Placed(prg, f)
        /\ n = readTransition(a, su)
        /\ a \in ObjectStates /\ o \in ObjectStates
    BY FollowLeads DEF Sound, Placed
  <1>2. tr \in Transitions /\ su \in Transitions /\ init \in ObjectStates
    BY <1>1, DueType DEF AsRegistered
  <1>3. /\ tr.type \in MutexOperationTypes => o.mutex[tr.obj] # "none"
        /\ UsesCondMutex(tr) => o.mutex[CondMutex[tr.obj]] # "none"
    BY UsesKnownMutexes DEF Prepared, Initialised
  <1>4. \A u \in Threads :
           n.thread[u] # "none" =>
              o.thread[u] # "none" \/ (su.type \in {"create", "join"} /\ su.obj = u)
    BY ThreadsReadyStep DEF Prepared
  <1>5. \A s \in Semaphores : a.sem[s].registered => o.sem[s].registered
    BY SemsReadyStep DEF Prepared
  <1>6. \A b \in Barriers : n.barrier[b].registered =>
                               o.barrier[b].registered \/ (su.type = "barrier_init" /\ su.obj = b)
    <2>1. BarriersReady(prg, st)
      BY DEF Prepared
    <2>2. Placed(prg, st)
      BY <1>1
    <2> QED BY <2>1, <2>2, BarriersReadyStep
  <1> HIDE DEF f, tr, su
  <1>7. ASSUME NEW u \in Threads, n.thread[u] # "none"
        PROVE  i.thread[u] # "none"
    <2>1. i.thread[u] = IF su.type \in {"create", "join"} /\ su.obj = u
                        THEN addNewThread(init.thread[u]) ELSE init.thread[u]
      BY <1>2, RegisteredEffect
    <2> HIDE DEF a, n, i, o
    <2>2. o.thread[u] # "none" => init.thread[u] # "none"
      BY DEF Covers, o
    <2> QED BY <1>4, <1>7, <2>1, <2>2 DEF addNewThread
  <1>8. ASSUME NEW m \in Mutexes, n.mutex[m] # "none"
        PROVE  i.mutex[m] # "none"
    <2>1. i.mutex[m] = IF su.type \in MutexOperationTypes /\ su.obj = m
                       THEN RegisteredMutex(init.mutex[m]) ELSE init.mutex[m]
      BY <1>2, RegisteredEffect
    <2>2. n.mutex[m] = IF su.type \in MutexOperationTypes /\ su.obj = m
                       THEN MutexOperation(su.type, a.mutex[m]).announced ELSE a.mutex[m]
      <3> HIDE DEF n
      <3> QED BY <1>1, <1>2, AnnouncedEffect
    <2>3. a.mutex[m] = IF tr.type \in MutexOperationTypes /\ tr.obj = m
                       THEN MutexOperation(tr.type, o.mutex[m]).applied
                       ELSE IF UsesCondMutex(tr) /\ CondMutex[tr.obj] = m
                       THEN CondMutexOperation(o, tr).applied ELSE o.mutex[m]
      BY <1>1, <1>2, AppliedEffect
    <2>4. o.mutex[m] # "none" => init.mutex[m] # "none"
      BY DEF Covers
    <2> HIDE DEF a, n, i, o
    <2> QED BY <1>3, <1>8, <2>1, <2>2, <2>3, <2>4 DEF RegisteredMutex
  <1>9. ASSUME NEW s \in Semaphores, n.sem[s].registered
        PROVE  i.sem[s].registered
    <2>1. i.sem[s] = IF su.type = "sem_init" /\ su.obj = s /\ ~ init.sem[s].registered
                     THEN NewSem(s) ELSE init.sem[s]
      BY <1>2, RegisteredEffect DEF NewSem
    <2>2. n.sem[s] = IF su.type = "sem_init" /\ su.obj = s /\ ~ a.sem[s].registered
                     THEN NewSem(s) ELSE a.sem[s]
      <3> HIDE DEF n
      <3> QED BY <1>1, <1>2, AnnouncedEffect DEF NewSem
    <2>3. NewSem(s).registered
      BY DEF NewSem
    <2>4. o.sem[s].registered => init.sem[s].registered
      BY DEF Covers
    <2> HIDE DEF a, n, i, o
    <2> QED BY <1>5, <1>9, <2>1, <2>2, <2>3, <2>4
  <1>10. ASSUME NEW b \in Barriers, n.barrier[b].registered
         PROVE  i.barrier[b].registered
    <2>1. i.barrier[b] = IF su.type = "barrier_init" /\ su.obj = b
                         THEN [init.barrier[b] EXCEPT !.registered = TRUE] ELSE init.barrier[b]
      BY <1>2, RegisteredEffect
    <2>2. [init.barrier[b] EXCEPT !.registered = TRUE] = NewBarrier(TRUE)
      BY KnownBarrier DEF AsRegistered
    <2>3. NewBarrier(TRUE).registered
      BY DEF NewBarrier
    <2>4. o.barrier[b].registered => init.barrier[b].registered
      BY DEF Covers
    <2> HIDE DEF a, n, i, o
    <2> QED BY <1>6, <1>10, <2>1, <2>2, <2>3, <2>4
  <1> HIDE DEF n, i
  <1>11. Covers(i, n)
    BY <1>7, <1>8, <1>9, <1>10 DEF Covers
  <1> QED BY <1>11 DEF i, n, f, su

-----------------------------------------------------------------------------
(* Running transitions again                                                 *)

\* Where a replay is that began in the initial states, which know more than the program did
\* at its start, when the program itself is at r.
Rebuilt(init, a, r) ==
    /\ \A u \in Threads :
          a.thread[u] = IF r.thread[u] \in {"none", "embryo"} THEN init.thread[u] ELSE r.thread[u]
    /\ \A m \in Mutexes :
          a.mutex[m] = IF r.mutex[m] \in {"none", "undefined"} THEN init.mutex[m] ELSE r.mutex[m]
    /\ \A s \in Semaphores : a.sem[s] = IF r.sem[s].registered THEN r.sem[s] ELSE init.sem[s]
    /\ \A c \in Conds : a.cond[c] = r.cond[c]
    /\ \A b \in Barriers : a.barrier[b] = init.barrier[b]
    /\ \A l \in RWLocks : a.rwlock[l] = r.rwlock[l]

\* Before its first transition a trace rebuilds, from the registered state, that very state.
LEMMA RebuiltInit ==
    ASSUME NEW prg, NEW init, AsRegistered(prg, init)
    PROVE  Rebuilt(init, init, NoObjects)
  <1>1. /\ \A u \in Threads : NoObjects.thread[u] = IF u = Main THEN "alive" ELSE "none"
        /\ \A m \in Mutexes : NoObjects.mutex[m] = "none"
        /\ \A s \in Semaphores : NoObjects.sem[s] = NoSem
        /\ \A c \in Conds : NoObjects.cond[c] = NewCond
        /\ \A l \in RWLocks : NoObjects.rwlock[l] = NewRWLock
    BY DEF NoObjects
  <1>2. ~ NoSem.registered
    BY DEF NoSem
  <1> QED BY <1>1, <1>2 DEF Rebuilt, AsRegistered

\* It goes on as the program does.
LEMMA RebuiltStep ==
    ASSUME NEW prg, Lawful(prg), NEW st, Sound(prg, st), Prepared(prg, st),
           NEW t \in Threads, CanRun(prg, st, t),
           NEW init, AsRegistered(prg, init), Covers(init, Follow(prg, st, t).objects),
           NEW again \in ObjectStates, Rebuilt(init, again, st.objects)
    PROVE  Rebuilt(init, applyToState(again, Due(prg, st, t)), Follow(prg, st, t).objects)
  <1> DEFINE f == Follow(prg, st, t)
             tr == Due(prg, st, t)
             su == Due(prg, f, t)
             o == st.objects
             a == applyToState(o, tr)
             n == f.objects
             b == applyToState(again, tr)
  <1>1. /\ Placed(prg, st) /\ Placed(prg, f)
        /\ n = readTransition(a, su)
        /\ a \in ObjectStates /\ o \in ObjectStates
    BY FollowLeads DEF Sound, Placed
  <1>2. tr \in Transitions /\ su \in Transitions
    BY <1>1, DueType
  <1>3. /\ tr.type \in MutexOperationTypes \ {"mutex_init"} => o.mutex[tr.obj] \in Initialised
        /\ UsesCondMutex(tr) => o.mutex[CondMutex[tr.obj]] \in Initialised
    BY UsesKnownMutexes DEF Prepared
  <1>4. /\ tr.type \in SemOperationTypes \ {"sem_init"} => o.sem[tr.obj].registered
        /\ \A s \in Semaphores : a.sem[s].registered <=> o.sem[s].registered
    BY SemsReadyStep DEF Prepared
  <1>5. su.type \in {"mutex_lock", "mutex_trylock"} => a.mutex[su.obj] \in Initialised
    BY MutexesReadyStep DEF Prepared
  <1>6. \A s \in Semaphores : n.sem[s].registered => init.sem[s] = NewSem(s)
    BY DEF Covers, AsRegistered
  <1>7. tr.type = "join" => o.thread[tr.obj] = "dead"
    <2> SUFFICES ASSUME tr.type = "join"
                 PROVE  o.thread[tr.obj] = "dead"
      OBVIOUS
    <2>1. tr.type \in ThreadOperationTypes /\ Subject(tr) = tr.obj
      BY DEF ThreadOperationTypes, Subject
    <2>2. Operation(o, tr) = ThreadOperation(tr.type, o.thread[tr.obj], tr.tid)
      BY <2>1, OneFamilyOnly DEF Operation
    <2>3. Operation(o, tr).enabled
      <3>1. tr.tid = t
        BY <1>1, DueType
      <3> QED BY <3>1, CanRunFacts
    <2>4. MCThreadJoin(o.thread[tr.obj]).enabled <=> o.thread[tr.obj] = "dead"
      BY DEF MCThreadJoin
    <2>5. ThreadOperation("join", o.thread[tr.obj], tr.tid) = MCThreadJoin(o.thread[tr.obj])
      BY DEF ThreadOperation
    <2> HIDE DEF tr, o
    <2> QED BY <2>2, <2>3, <2>4, <2>5
  <1> HIDE DEF f, tr, su
  <1>8. ASSUME NEW u \in Threads
        PROVE  b.thread[u] = IF n.thread[u] \in {"none", "embryo"} THEN init.thread[u]
                             ELSE n.thread[u]
    <2>1. /\ a.thread[u] = IF tr.type \in ThreadOperationTypes /\ Subject(tr) = u
                           THEN ThreadOperation(tr.type, o.thread[u], tr.tid).applied
                           ELSE o.thread[u]
          /\ b.thread[u] = IF tr.type \in ThreadOperationTypes /\ Subject(tr) = u
                           THEN ThreadOperation(tr.type, again.thread[u], tr.tid).applied
                           ELSE again.thread[u]
      BY <1>1, <1>2, AppliedEffect
    <2>2. n.thread[u] = IF su.type \in {"create", "join"} /\ su.obj = u
                        THEN addNewThread(a.thread[u]) ELSE a.thread[u]
      <3> HIDE DEF n
      <3> QED BY <1>1, <1>2, AnnouncedRest
    <2>3. \A type, x, y : type \in ThreadOperationTypes /\ type # "join" =>
             /\ ThreadOperation(type, x, tr.tid).applied = ThreadOperation(type, y, tr.tid).applied
             /\ ThreadOperation(type, x, tr.tid).applied \notin {"none", "embryo"}
      BY DEF ThreadOperationTypes, ThreadOperation, MCThreadStart, MCThreadCreate, MCThreadFinish
    <2>4. \A x : ThreadOperation("join", x, tr.tid).applied = x
      BY DEF ThreadOperation, MCThreadJoin
    <2>5. again.thread[u] = IF o.thread[u] \in {"none", "embryo"} THEN init.thread[u]
                            ELSE o.thread[u]
      BY DEF Rebuilt
    <2> HIDE DEF a, n, b, o
    <2> QED BY <2>1, <2>2, <2>3, <2>4, <2>5 DEF addNewThread
  <1>9. ASSUME NEW m \in Mutexes
        PROVE  b.mutex[m] = IF n.mutex[m] \in {"none", "undefined"} THEN init.mutex[m]
                            ELSE n.mutex[m]
    <2>1. /\ a.mutex[m] = IF tr.type \in MutexOperationTypes /\ tr.obj = m
                          THEN MutexOperation(tr.type, o.mutex[m]).applied
                          ELSE IF UsesCondMutex(tr) /\ CondMutex[tr.obj] = m
                          THEN CondMutexOperation(o, tr).applied ELSE o.mutex[m]
          /\ b.mutex[m] = IF tr.type \in MutexOperationTypes /\ tr.obj = m
                          THEN MutexOperation(tr.type, again.mutex[m]).applied
                          ELSE IF UsesCondMutex(tr) /\ CondMutex[tr.obj] = m
                          THEN CondMutexOperation(again, tr).applied ELSE again.mutex[m]
      BY <1>1, <1>2, AppliedEffect
    <2>2. n.mutex[m] = IF su.type \in MutexOperationTypes /\ su.obj = m
                       THEN MutexOperation(su.type, a.mutex[m]).announced ELSE a.mutex[m]
      <3> HIDE DEF n
      <3> QED BY <1>1, <1>2, AnnouncedEffect
    <2>3. again.mutex[m] = IF o.mutex[m] \in {"none", "undefined"} THEN init.mutex[m]
                           ELSE o.mutex[m]
      BY DEF Rebuilt
    <2>4. /\ CondMutexOperation(o, tr).applied = CondMutexOperation(again, tr).applied
          /\ CondMutexOperation(o, tr).applied \in Initialised
      BY DEF CondMutexOperation, MCMutexLock, MCMutexUnlock, Initialised
    <2>5. \A type, x : type \in MutexOperationTypes =>
             /\ type = "mutex_init" => MutexOperation(type, x).applied = "unlocked"
             /\ x \in Initialised => /\ MutexOperation(type, x).applied \in Initialised
                                     /\ MutexOperation(type, x).announced = x
             /\ x \in {"none", "undefined"} /\ type \notin {"mutex_lock", "mutex_trylock"} =>
                   MutexOperation(type, x).announced \in {"none", "undefined"}
      BY DEF MutexOperationTypes, MutexOperation, MCMutexInit, MCMutexLock, MCMutexTrylock,
             MCMutexUnlock, Initialised, RegisteredMutex, StaticallyInitialised
    <2>6. /\ o.mutex[m] \in Initialised \/ o.mutex[m] \in {"none", "undefined"}
          /\ a.mutex[m] \in Initialised \/ a.mutex[m] \in {"none", "undefined"}
          /\ "unlocked" \in Initialised
          /\ \A x : x \in Initialised => x \notin {"none", "undefined"}
      BY <1>1 DEF ObjectStates, MutexStates, Initialised
    <2> HIDE DEF a, n, b, o
    <2>7. /\ a.mutex[m] \in Initialised => b.mutex[m] = a.mutex[m]
          /\ a.mutex[m] \in {"none", "undefined"} => b.mutex[m] = init.mutex[m]
      BY <1>3, <2>1, <2>3, <2>4, <2>5, <2>6
    <2> QED BY <1>5, <2>2, <2>5, <2>6, <2>7
  <1>10. ASSUME NEW s \in Semaphores
         PROVE  b.sem[s] = IF n.sem[s].registered THEN n.sem[s] ELSE init.sem[s]
    <2>1. /\ a.sem[s] = IF tr.type \in SemOperationTypes /\ tr.obj = s
                        THEN SemOperation(tr.type, o.sem[s], tr.tid, InitialCount[s]).applied
                        ELSE o.sem[s]
          /\ b.sem[s] = IF tr.type \in SemOperationTypes /\ tr.obj = s
                        THEN SemOperation(tr.type, again.sem[s], tr.tid, InitialCount[s]).applied
                        ELSE again.sem[s]
      BY <1>1, <1>2, AppliedEffect
    <2>2. n.sem[s] = IF su.type = "sem_init" /\ su.obj = s /\ ~ a.sem[s].registered
                     THEN NewSem(s) ELSE a.sem[s]
      <3> HIDE DEF n
      <3> QED BY <1>1, <1>2, AnnouncedEffect DEF NewSem
    <2>3. again.sem[s] = IF o.sem[s].registered THEN o.sem[s] ELSE init.sem[s]
      BY DEF Rebuilt
    <2>4. \A x : SemOperation("sem_init", x, tr.tid, InitialCount[s]).applied = x
      BY DEF SemOperation, MCSemInit
    <2>5. NewSem(s).registered
      BY DEF NewSem
    <2> HIDE DEF a, n, b, o
    <2> QED BY <1>4, <1>6, <2>1, <2>2, <2>3, <2>4, <2>5
  <1>11. ASSUME NEW c \in Conds
         PROVE  b.cond[c] = n.cond[c]
    <2>1. n.cond[c] = a.cond[c]
      <3> HIDE DEF n
      <3> QED BY <1>1, <1>2, AnnouncedRest
    <2>2. /\ a.cond[c] = IF tr.type \in CondOperationTypes /\ tr.obj = c
                         THEN CondOperation(tr.type, o.cond[c], tr.tid).applied ELSE o.cond[c]
          /\ b.cond[c] = IF tr.type \in CondOperationTypes /\ tr.obj = c
                         THEN CondOperation(tr.type, again.cond[c], tr.tid).applied
                         ELSE again.cond[c]
      BY <1>1, <1>2, AppliedCond
    <2>3. again.cond[c] = o.cond[c]
      BY DEF Rebuilt
    <2> HIDE DEF a, n, b, o
    <2> QED BY <2>1, <2>2, <2>3
  <1>12. ASSUME NEW l \in RWLocks
         PROVE  b.rwlock[l] = n.rwlock[l]
    <2>1. n.rwlock[l] = a.rwlock[l]
      <3> HIDE DEF n
      <3> QED BY <1>1, <1>2, AnnouncedEffect
    <2>2. again.rwlock[l] = o.rwlock[l]
      BY DEF Rebuilt
    <2>3. b.rwlock[l] = a.rwlock[l]
      BY <1>1, <1>2, <2>2, AppliedEffect
    <2> HIDE DEF a, n, b, o
    <2> QED BY <2>1, <2>3
  <1>13. ASSUME NEW y \in Barriers
         PROVE  b.barrier[y] = init.barrier[y]
    BY <1>2, AppliedEffect DEF Rebuilt
  <1> HIDE DEF n, b
  <1>14. Rebuilt(init, b, n)
    BY <1>8, <1>9, <1>10, <1>11, <1>12, <1>13 DEF Rebuilt
  <1> QED BY <1>14 DEF b, n, f, tr

\* Once all is initialised, the replay is where the program is.
LEMMA RebuiltAgrees ==
    ASSUME NEW prg, Lawful(prg), NEW st, Placed(prg, st), Prepared(prg, st), InitDone(prg, st),
           NEW init, AsRegistered(prg, init), Covers(init, st.objects),
           NEW a, Rebuilt(init, a, st.objects)
    PROVE  Agree(a, st.objects)
  <1> DEFINE r == st.objects
  <1>1. r \in ObjectStates
    BY DEF Placed
  <1>2. ASSUME NEW type \in {"mutex_init", "sem_init", "barrier_init"}, NEW x, Uses(prg, On({type}, x))
        PROVE  \E p \in DOMAIN prg[Main] :
                  prg[Main][p].type = type /\ prg[Main][p].obj = x /\ p < st.pos[Main]
    <2>1. type \in InitTypes
      BY DEF InitTypes
    <2>2. PICK p \in DOMAIN prg[Main] : prg[Main][p].type = type /\ prg[Main][p].obj = x
      BY <1>2, <2>1, UsesInMain
    <2> QED BY <2>1, <2>2 DEF InitDone
  <1>3. ASSUME NEW u \in Threads
        PROVE  a.thread[u] = r.thread[u] \/ (r.thread[u] = "none" /\ a.thread[u] = "embryo")
    <2>1. r.thread[Main] \in {"alive", "dead"}
      BY DEF Prepared, ThreadsReady, StartedIn
    <2> QED BY <2>1 DEF Rebuilt, AsRegistered, Covers
  <1>4. ASSUME NEW m \in Mutexes
        PROVE  a.mutex[m] = r.mutex[m]
    <2>1. Uses(prg, On({"mutex_init"}, m)) => r.mutex[m] \in Initialised
      BY <1>2 DEF Prepared, MutexesReady
    <2>2. r.mutex[m] # "none" => Uses(prg, On({"mutex_init"}, m))
      BY DEF Prepared, MutexesReady
    <2>3. init.mutex[m] # "none" => Uses(prg, On({"mutex_init"}, m))
      BY DEF AsRegistered
    <2> HIDE DEF r
    <2>4. a.mutex[m] = IF r.mutex[m] \in {"none", "undefined"} THEN init.mutex[m] ELSE r.mutex[m]
      BY DEF Rebuilt, r
    <2> QED BY <2>1, <2>2, <2>3, <2>4 DEF Initialised
  <1>5. st.pos[Main] \in Nat /\ DOMAIN prg[Main] \in SUBSET Nat
    <2>1. Main \in Threads
      BY LastThreadAssumption DEF Main, Threads
    <2> QED BY <2>1, DueType
  <1>6. ASSUME NEW s \in Semaphores
        PROVE  a.sem[s] = r.sem[s]
    <2>1. Uses(prg, On({"sem_init"}, s)) => r.sem[s].registered
      BY <1>2, <1>5 DEF Prepared, SemsReady
    <2>2. ~ r.sem[s].registered => r.sem[s] = NoSem
      BY DEF Prepared, SemsReady
    <2>3. IF init.sem[s].registered THEN Uses(prg, On({"sem_init"}, s)) ELSE init.sem[s] = NoSem
      BY DEF AsRegistered
    <2> HIDE DEF r
    <2>4. a.sem[s] = IF r.sem[s].registered THEN r.sem[s] ELSE init.sem[s]
      BY DEF Rebuilt, r
    <2> QED BY <2>1, <2>2, <2>3, <2>4
  <1>7. ASSUME NEW b \in Barriers
        PROVE  a.barrier[b] = r.barrier[b]
    <2>1. ASSUME Uses(prg, On({"barrier_init"}, b))
          PROVE  r.barrier[b].registered
      <3>1. PICK p \in DOMAIN prg[Main] :
               /\ prg[Main][p].type = "barrier_init" /\ prg[Main][p].obj = b
               /\ p < st.pos[Main]
        BY <1>2, <2>1
      <3>2. p <= st.pos[Main]
        BY <1>5, <3>1
      <3> QED BY <3>1, <3>2 DEF Prepared, BarriersReady
    <2>2. r.barrier[b] \in {NewBarrier(FALSE), NewBarrier(TRUE)}
      BY DEF Prepared, BarriersReady
    <2>3. /\ init.barrier[b] \in {NewBarrier(FALSE), NewBarrier(TRUE)}
          /\ init.barrier[b].registered => Uses(prg, On({"barrier_init"}, b))
      BY DEF AsRegistered
    <2>4. r.barrier[b].registered => init.barrier[b].registered
      BY DEF Covers
    <2>5. NewBarrier(TRUE).registered /\ ~ NewBarrier(FALSE).registered
      BY DEF NewBarrier
    <2> HIDE DEF r
    <2>6. a.barrier[b] = init.barrier[b]
      BY DEF Rebuilt
    <2> QED BY <2>1, <2>2, <2>3, <2>4, <2>5, <2>6
  <1>8. /\ \A c \in Conds : a.cond[c] = r.cond[c]
        /\ \A l \in RWLocks : a.rwlock[l] = r.rwlock[l]
    BY DEF Rebuilt
  <1> QED BY <1>3, <1>4, <1>6, <1>7, <1>8 DEF Agree

-----------------------------------------------------------------------------
(* Undoing transitions                                                       *)

\* Whoever is about to unlock a mutex has locked it.
LEMMA UnlockerHolds ==
    ASSUME NEW prg, Lawful(prg), NEW st, Sound(prg, st), NEW t \in Threads,
           Due(prg, st, t).type = "mutex_unlock"
    PROVE  st.objects.mutex[Due(prg, st, t).obj] = "locked"
  <1> DEFINE p == st.pos[t]
             m == Due(prg, st, t).obj
  <1>1. /\ Due(prg, st, t) \in Transitions
        /\ p \in DOMAIN prg[t] /\ p \in Nat
        /\ prg[t][p] \in Operations
        /\ prg[t][p].type = "mutex_unlock" /\ prg[t][p].obj = m
    BY DueType DEF Sound
  <1>2. m \in Mutexes
    BY <1>1, OneFamily DEF MutexOperationTypes
  <1>3. prg[t][p] \in Gives(m)
    <2>1. prg[t][p] \in On({"mutex_unlock"}, m)
      BY <1>1, OperationOn
    <2> QED BY <2>1 DEF Gives
  <1>4. Passed(prg, st, t, Takes(m)) = Passed(prg, st, t, Gives(m)) + 1
    <2>1. InTurns(prg, Takes(m), Gives(m))
      BY <1>2 DEF Lawful, KeepsTheRules, LocksInTurns
    <2> HIDE DEF m
    <2> QED BY <1>1, <1>3, <2>1 DEF InTurns, Passed
  <1>5. Passed(prg, st, t, Gives(m)) \in Nat
    BY <1>2 DEF Sound, Excludes
  <1>6. Holding(prg, st, t, m)
    <2> HIDE DEF m
    <2> QED BY <1>4, <1>5 DEF Holding
  <1> QED BY <1>2, <1>6 DEF Sound, Excludes

\* Undoing what can be undone leads back to where the program was.  (A mutex_init could be
\* undone too, but nothing is undone beyond the initialisation.)
LEMMA RevertStep ==
    ASSUME NEW prg, Lawful(prg), NEW st, Sound(prg, st), Prepared(prg, st), InitDone(prg, st),
           NEW t \in Threads, CanRun(prg, st, t),
           Due(prg, st, t).type \in {"join", "finish", "mutex_unlock"},
           NEW later \in ObjectStates, Agree(later, Follow(prg, st, t).objects)
    PROVE  /\ Agree(unapplyToState(later, Due(prg, st, t)), st.objects)
           /\ unapplyToState(later, Due(prg, st, t)) \in ObjectStates
  <1> DEFINE f == Follow(prg, st, t)
             tr == Due(prg, st, t)
             su == Due(prg, f, t)
             o == st.objects
             a == applyToState(o, tr)
             n == f.objects
             b == unapplyToState(later, tr)
  <1>1. /\ Placed(prg, st) /\ Placed(prg, f)
        /\ n = readTransition(a, su)
        /\ a \in ObjectStates /\ o \in ObjectStates
    BY FollowLeads DEF Sound, Placed
  <1>2. tr \in Transitions /\ su \in Transitions /\ tr.tid = t
    BY <1>1, DueType
  <1>3. tr.type \in {"join", "finish", "mutex_unlock"}
    OBVIOUS
  <1>4. tr.type = "mutex_unlock" => o.mutex[tr.obj] = "locked"
    BY UnlockerHolds
  <1>5. su.type \in {"mutex_lock", "mutex_trylock"} => a.mutex[su.obj] \in Initialised
    BY MutexesReadyStep DEF Prepared
  <1>6. su.type \notin InitTypes
    BY InitialisesBefore
  <1>7. o.thread[t] = "alive"
    BY <1>2, CanRunFacts
  <1>8. su.type # "barrier_wait"
    BY <1>1, DueIsInitialised
  <1> HIDE DEF f, tr, su
  <1>9. /\ b \in ObjectStates
        /\ \A u \in Threads :
              b.thread[u] = IF tr.type = "finish" /\ tr.tid = u THEN "alive" ELSE later.thread[u]
        /\ \A m \in Mutexes :
              b.mutex[m] = IF tr.type = "mutex_unlock" /\ tr.obj = m THEN "locked"
                           ELSE later.mutex[m]
        /\ b.sem = later.sem /\ b.cond = later.cond /\ b.barrier = later.barrier
        /\ b.rwlock = later.rwlock
    BY <1>2, <1>3, UnappliedEffect
  <1> HIDE DEF b
  <1>10. Agree(later, n)
    BY DEF f
  <1>11. ASSUME NEW u \in Threads
         PROVE  b.thread[u] = o.thread[u] \/ (o.thread[u] = "none" /\ b.thread[u] = "embryo")
    <2>1. a.thread[u] = IF tr.type \in ThreadOperationTypes /\ Subject(tr) = u
                        THEN ThreadOperation(tr.type, o.thread[u], tr.tid).applied
                        ELSE o.thread[u]
      BY <1>1, <1>2, AppliedEffect
    <2>2. n.thread[u] = IF su.type \in {"create", "join"} /\ su.obj = u
                        THEN addNewThread(a.thread[u]) ELSE a.thread[u]
      <3> HIDE DEF n
      <3> QED BY <1>1, <1>2, AnnouncedRest
    <2>3. ~ (tr.type = "finish" /\ tr.tid = u) => a.thread[u] = o.thread[u]
      <3>1. \A x : ThreadOperation("join", x, tr.tid).applied = x
        BY DEF ThreadOperation, MCThreadJoin
      <3>2. "mutex_unlock" \notin ThreadOperationTypes
        BY DEF ThreadOperationTypes
      <3>3. tr.type = "finish" => Subject(tr) = tr.tid
        BY DEF Subject
      <3> HIDE DEF a, o
      <3> QED BY <1>3, <2>1, <3>1, <3>2, <3>3
    <2>4. later.thread[u] = n.thread[u] \/ (n.thread[u] = "none" /\ later.thread[u] = "embryo")
      <3> HIDE DEF n
      <3> QED BY <1>10 DEF Agree
    <2> HIDE DEF a, n, o
    <2> QED BY <1>2, <1>7, <1>9, <2>2, <2>3, <2>4 DEF addNewThread
  <1>12. ASSUME NEW m \in Mutexes
         PROVE  b.mutex[m] = o.mutex[m]
    <2>1. a.mutex[m] = IF tr.type \in MutexOperationTypes /\ tr.obj = m
                       THEN MutexOperation(tr.type, o.mutex[m]).applied
                       ELSE IF UsesCondMutex(tr) /\ CondMutex[tr.obj] = m
                       THEN CondMutexOperation(o, tr).applied ELSE o.mutex[m]
      BY <1>1, <1>2, AppliedEffect
    <2>2. n.mutex[m] = IF su.type \in MutexOperationTypes /\ su.obj = m
                       THEN MutexOperation(su.type, a.mutex[m]).announced ELSE a.mutex[m]
      <3> HIDE DEF n
      <3> QED BY <1>1, <1>2, AnnouncedEffect
    <2>3. \A type, x : type \in MutexOperationTypes =>
             /\ type = "mutex_unlock" => MutexOperation(type, x).announced = x
             /\ x \in Initialised => MutexOperation(type, x).announced = x
             /\ type \in {"mutex_init", "mutex_lock", "mutex_trylock", "mutex_unlock"}
      BY DEF MutexOperationTypes, MutexOperation, MCMutexInit, MCMutexLock, MCMutexTrylock,
             MCMutexUnlock, Initialised, RegisteredMutex, StaticallyInitialised
    <2>4. later.mutex[m] = n.mutex[m]
      <3> HIDE DEF n
      <3> QED BY <1>10 DEF Agree
    <2>5. su.type # "mutex_init"
      BY <1>6 DEF InitTypes
    <2>6. "join" \notin MutexOperationTypes /\ "finish" \notin MutexOperationTypes
      BY DEF MutexOperationTypes
    <2>7. ~ UsesCondMutex(tr)
      BY <1>3 DEF UsesCondMutex
    <2> HIDE DEF a, n, o
    <2>8. n.mutex[m] = a.mutex[m]
      BY <1>5, <2>2, <2>3, <2>5
    <2>9. ~ (tr.type = "mutex_unlock" /\ tr.obj = m) => a.mutex[m] = o.mutex[m]
      BY <1>3, <2>1, <2>6, <2>7
    <2> QED BY <1>4, <1>9, <2>4, <2>8, <2>9
  <1>13. ASSUME NEW s \in Semaphores
         PROVE  b.sem[s] = o.sem[s]
    <2>1. a.sem[s] = o.sem[s]
      <3>1. tr.type \notin SemOperationTypes
        BY <1>3 DEF SemOperationTypes
      <3> QED BY <1>1, <1>2, <3>1, AppliedEffect
    <2>2. n.sem[s] = a.sem[s]
      <3>1. su.type # "sem_init"
        BY <1>6 DEF InitTypes
      <3>2. n.sem[s] = IF su.type = "sem_init" /\ su.obj = s /\ ~ a.sem[s].registered
                       THEN NewSem(s) ELSE a.sem[s]
        <4> HIDE DEF n
        <4> QED BY <1>1, <1>2, AnnouncedEffect DEF NewSem
      <3> HIDE DEF n, a
      <3> QED BY <3>1, <3>2
    <2> HIDE DEF a, n, o
    <2> QED BY <1>9, <1>10, <2>1, <2>2 DEF Agree
  <1>14. ASSUME NEW c \in Conds
         PROVE  b.cond[c] = o.cond[c]
    <2>1. a.cond[c] = o.cond[c]
      <3>1. tr.type \notin CondOperationTypes
        BY <1>3 DEF CondOperationTypes
      <3> QED BY <1>1, <1>2, <3>1, AppliedCond
    <2>2. n.cond[c] = a.cond[c]
      <3> HIDE DEF n
      <3> QED BY <1>1, <1>2, AnnouncedRest
    <2> HIDE DEF a, n, o
    <2> QED BY <1>9, <1>10, <2>1, <2>2 DEF Agree
  <1>15. ASSUME NEW y \in Barriers
         PROVE  b.barrier[y] = o.barrier[y]
    <2>1. a.barrier[y] = o.barrier[y]
      BY <1>1, <1>2, AppliedEffect
    <2>2. n.barrier[y] = a.barrier[y]
      <3>1. su.type \notin BarrierOperationTypes
        BY <1>6, <1>8 DEF BarrierOperationTypes, InitTypes
      <3> HIDE DEF n
      <3> QED BY <1>1, <1>2, <3>1, AnnouncedEffect
    <2> HIDE DEF a, n, o
    <2> QED BY <1>9, <1>10, <2>1, <2>2 DEF Agree
  <1>16. ASSUME NEW l \in RWLocks
         PROVE  b.rwlock[l] = o.rwlock[l]
    <2>1. a.rwlock[l] = o.rwlock[l]
      <3>1. tr.type \notin MCRWLockTypes \cup MCRWWLockTypes
        BY <1>3 DEF MCRWLockTypes, MCRWWLockTypes
      <3> QED BY <1>1, <1>2, <3>1, AppliedEffect
    <2>2. n.rwlock[l] = a.rwlock[l]
      <3> HIDE DEF n
      <3> QED BY <1>1, <1>2, AnnouncedEffect
    <2> HIDE DEF a, n, o
    <2> QED BY <1>9, <1>10, <2>1, <2>2 DEF Agree
  <1> HIDE DEF o
  <1>17. Agree(b, o)
    BY <1>11, <1>12, <1>13, <1>14, <1>15, <1>16 DEF Agree
  <1> QED BY <1>9, <1>17 DEF b, o, tr

-----------------------------------------------------------------------------
(* The stack of the search                                                   *)

\* A transition that is pushed leads one step further.
LEMMA RealGrows ==
    ASSUME transitionStack \in Seq(Steps), transitionStack' \in Seq(Steps), program' = program,
           NEW N \in Nat, Len(transitionStack) = N, Len(transitionStack') = N + 1,
           \A k \in 1 .. N : transitionStack'[k] = transitionStack[k]
    PROVE  RealAt(N + 1)' = Follow(program, RealAt(N), transitionStack'[N + 1].tid)
  <1> DEFINE stack == SubSeq(transitionStack, 1, N)
             longer == SubSeq(transitionStack', 1, N + 1)
  <1>1. /\ stack \in Seq(Steps) /\ Len(stack) = N
        /\ longer \in Seq(Steps) /\ Len(longer) = N + 1
        /\ \A k \in 1 .. N : longer[k] = stack[k]
        /\ longer[N + 1] = transitionStack'[N + 1]
    OBVIOUS
  <1> HIDE DEF stack, longer
  <1>2. Replay(program, longer) = Follow(program, Replay(program, stack), longer[N + 1].tid)
    BY <1>1, ReplayNext
  <1> QED BY <1>1, <1>2 DEF RealAt, stack, longer

\* What a transition of the stack was, and where its thread stood.
LEMMA RealPositions ==
    ASSUME Stacks, Succession
    PROVE  \A n \in 0 .. Len(transitionStack) :
              /\ RealAt(n).pos \in [Threads -> Nat]
              /\ \A u \in Threads : RealAt(n).pos[u] = PosAfter(u, n)
  <1> DEFINE N == Len(transitionStack)
             Good(n) == /\ RealAt(n).pos \in [Threads -> Nat]
                        /\ \A u \in Threads : RealAt(n).pos[u] = PosAfter(u, n)
             bad == {n \in 0 .. N : ~ Good(n)}
  <1>1. N \in Nat /\ transitionStack \in Seq(Steps) /\ program \in Programs
    BY DEF Stacks
  <1>2. Good(0)
    <2>1. RealAt(0).pos = [u \in Threads |-> 0]
      BY RealPath DEF Start
    <2>2. \A u \in Threads : PosAfter(u, 0) = 0
      BY DEF PosAfter, Runs
    <2> QED BY <2>1, <2>2
  <1>3. ASSUME NEW n \in 1 .. N, Good(n - 1)
        PROVE  Good(n)
    <2> DEFINE t == transitionStack[n].tid
               st == RealAt(n - 1)
    <2>1. n - 1 \in Nat /\ n \in Nat /\ n - 1 <= n /\ t \in Threads
          /\ transitionStack[n].pos \in Nat
      <3>1. transitionStack[n] \in Steps
        BY <1>1
      <3>2. t \in Threads /\ transitionStack[n].pos \in Nat
        BY <3>1 DEF Steps
      <3> HIDE DEF N, t
      <3> QED BY <1>1, <3>2
    <2>2. RealAt(n).pos = [st.pos EXCEPT ![t] = NextPosition(program, t, st.pos[t])]
      BY <1>1, RealPath DEF Follow
    <2>3. st.pos[t] = transitionStack[n].pos
      <3>1. transitionStack[n].pos = PosAfter(t, n - 1)
        BY <1>1, <2>1 DEF Succession
      <3> QED BY <1>3, <2>1, <3>1
    <2>4. PosAfter(t, n) = NextPosition(program, t, transitionStack[n].pos)
      <3> DEFINE runs == Runs(t, 1, n)
      <3>1. runs \in SUBSET Nat /\ n \in runs /\ \A k \in runs : k <= n
        BY <1>1, <2>1 DEF Runs
      <3> HIDE DEF runs
      <3>2. Max(runs) = n
        <4>1. Max(runs) \in runs /\ \A k \in runs : k <= Max(runs)
          BY <2>1, <3>1, MaxIsGreatest
        <4>2. Max(runs) \in Nat /\ Max(runs) <= n /\ n <= Max(runs)
          BY <3>1, <4>1
        <4> HIDE DEF N
        <4> QED BY <2>1, <4>2
      <3> QED BY <3>1, <3>2 DEF PosAfter, runs
    <2>5. ASSUME NEW u \in Threads, u # t
          PROVE  PosAfter(u, n) = PosAfter(u, n - 1)
      <3>1. Runs(u, n - 1 + 1, n) = {}
        BY <1>1, <2>1, <2>5 DEF Runs
      <3> QED BY <2>1, <3>1, PosAfterSkips
    <2>6. NextPosition(program, t, st.pos[t]) \in Nat
      BY <1>1, <2>1, <2>3, NextPositionType
    <2> HIDE DEF t, st
    <2>7. st.pos \in [Threads -> Nat] /\ \A u \in Threads : st.pos[u] = PosAfter(u, n - 1)
      BY <1>3 DEF st
    <2> QED BY <2>1, <2>2, <2>3, <2>4, <2>5, <2>6, <2>7
  <1> HIDE DEF Good
  <1> SUFFICES ASSUME bad # {}
               PROVE  FALSE
    BY DEF Good
  <1>4. PICK n \in bad : \A k \in bad : n <= k
    <2>1. bad \in SUBSET Nat
      BY <1>1
    <2> HIDE DEF bad
    <2> QED BY <2>1, LeastOf
  <1>5. n \in 0 .. N /\ n # 0 /\ ~ Good(n)
    BY <1>2, <1>4
  <1>6. n - 1 \in 0 .. N /\ n \in 1 .. N /\ ~ (n <= n - 1)
    BY <1>1, <1>5
  <1>7. Good(n - 1)
    BY <1>4, <1>6
  <1> QED BY <1>3, <1>5, <1>6, <1>7

\* So each transition of the stack is what the program was about to do.
LEMMA RealTransitions ==
    ASSUME Stacks, Succession
    PROVE  /\ \A n \in 1 .. Len(transitionStack) :
                 /\ transitionStack[n].tid \in Threads
                 /\ Decode(transitionStack[n]) = Due(program, RealAt(n - 1), transitionStack[n].tid)
           /\ RealAt(Len(transitionStack)).pos = pos
  <1>1. /\ Len(transitionStack) \in Nat
        /\ transitionStack \in Seq(Steps)
        /\ pos \in [Threads -> Nat]
    BY DEF Stacks
  <1>2. ASSUME NEW n \in 1 .. Len(transitionStack)
        PROVE  /\ transitionStack[n].tid \in Threads
               /\ Decode(transitionStack[n]) = Due(program, RealAt(n - 1), transitionStack[n].tid)
    <2>1. transitionStack[n].tid \in Threads /\ n - 1 \in 0 .. Len(transitionStack)
      <3>1. transitionStack[n] \in Steps
        BY <1>1
      <3>2. transitionStack[n].tid \in Threads
        BY <3>1 DEF Steps
      <3> QED BY <1>1, <3>2
    <2>2. transitionStack[n].pos = PosAfter(transitionStack[n].tid, n - 1)
      BY <1>1, <2>1 DEF Succession
    <2>3. RealAt(n - 1).pos[transitionStack[n].tid] = transitionStack[n].pos
      BY <2>1, <2>2, RealPositions
    <2> QED BY <2>1, <2>3 DEF Decode, Due
  <1>3. RealAt(Len(transitionStack)).pos = pos
    <2>1. Len(transitionStack) \in 0 .. Len(transitionStack)
      BY <1>1
    <2>2. /\ RealAt(Len(transitionStack)).pos \in [Threads -> Nat]
          /\ \A u \in Threads : RealAt(Len(transitionStack)).pos[u] = pos[u]
      BY <2>1, RealPositions DEF Succession
    <2> QED BY <1>1, <2>2
  <1> QED BY <1>2, <1>3

-----------------------------------------------------------------------------
(* The inductive invariant                                                   *)

\* The searches this is about: from the beginning (no "-t"), of a program that keeps the
\* rules and initialises what it uses.
Careful ==
    /\ env.PRINT_AT_TRACE_SEQ = << >>
    /\ KeepsTheRules(program)
    /\ UsesInitialised(program)

\* The shadow objects are the real ones.
Exact ==
    /\ objects \in ObjectStates
    /\ Agree(objects, RealAt(Len(transitionStack)).objects)

\* The stack is a way through the program.
Trodden ==
    /\ \A n \in 0 .. Len(transitionStack) :
          Sound(program, RealAt(n)) /\ Prepared(program, RealAt(n))
    /\ \A n \in 1 .. Len(transitionStack) : CanRun(program, RealAt(n - 1), transitionStack[n].tid)
    /\ result = "none" =>
          \A n \in 0 .. Len(transitionStack) : ~ AbortedIn(program, RealAt(n))

\* What is kept for going back: the initial states, and what cannot be undone.
Recorded ==
    /\ AsRegistered(program, initialObjects)
    /\ \A n \in 0 .. Len(transitionStack) : Covers(initialObjects, RealAt(n).objects)
    /\ \A u \in Threads : initialObjects.thread[u] # "none" => u \in known
    /\ \A n \in 1 .. Len(transitionStack) :
          isReversibleInState(Decode(transitionStack[n])) \/ n \in irreversible

\* What is searched from a state can run in it, and where anything can, something was
\* searched: a state with a thread to backtrack on has another one that can run.
Offered ==
    \A n \in 0 .. Len(transitionStack) :
       /\ \A t \in stateStack[n + 1].enabled : CanRun(program, RealAt(n), t)
       /\ stateStack[n + 1].done \subseteq stateStack[n + 1].enabled
       /\ stateStack[n + 1].enabled # {} => stateStack[n + 1].done # {}

\* The thread chosen to run next can run.
NextCanRun ==
    /\ InLoop => Enabled(current)
    /\ result = "none" /\ livelock.stage = "seed" => Enabled(livelock.next)

ShadowInv == Exact /\ Trodden /\ Recorded /\ Offered

-----------------------------------------------------------------------------
(* Going back                                                                *)

\* f holds what the shadow objects are after each of n transitions run again...
IsRerun(f, n) ==
    f = [i \in 0 .. n |-> IF i = 0 THEN initialObjects
                          ELSE applyToState(f[i - 1], getTransitionAtIndex(i - 1))]

\* ... or undone, down to the n-th.
IsReverted(f, n) ==
    f = [i \in n .. Len(transitionStack) |->
            IF i = Len(transitionStack) THEN objects
            ELSE unapplyToState(f[i + 1], getTransitionAtIndex(i))]

\* The recursive functions exist,
LEMMA RerunExists ==
    ASSUME NEW N \in Nat
    PROVE  \E f : IsRerun(f, N)
  <1> DEFINE Entry(f, i) == IF i = 0 THEN initialObjects
                            ELSE applyToState(f[i - 1], getTransitionAtIndex(i - 1))
             bad == {n \in Nat : ~ \E f : IsRerun(f, n)}
  <1> SUFFICES ASSUME bad # {}
               PROVE  FALSE
    OBVIOUS
  <1>1. PICK n \in bad : \A k \in bad : n <= k
    <2>1. bad \in SUBSET Nat
      OBVIOUS
    <2> HIDE DEF bad
    <2> QED BY <2>1, LeastOf
  <1>2. n # 0
    <2>1. ASSUME n = 0
          PROVE  IsRerun([i \in 0 .. 0 |-> initialObjects], n)
      BY <2>1 DEF IsRerun
    <2> QED BY <2>1
  <1>3. n \in Nat /\ n - 1 \in Nat /\ n - 1 \notin bad
    BY <1>1, <1>2
  <1>4. PICK f : IsRerun(f, n - 1)
    BY <1>3
  <1> DEFINE g == [i \in 0 .. n |-> IF i = n THEN Entry(f, n) ELSE f[i]]
  <1>5. ASSUME NEW i \in 0 .. n
        PROVE  g[i] = Entry(g, i)
    <2>1. CASE i = n
      <3>1. g[i - 1] = f[n - 1]
        BY <1>2, <1>3, <2>1
      <3> QED BY <1>2, <2>1, <3>1
    <2>2. CASE i # n
      <3>1. i \in 0 .. n - 1 /\ g[i] = f[i] /\ (i # 0 => g[i - 1] = f[i - 1])
        BY <1>3, <2>2
      <3>2. f[i] = Entry(f, i)
        BY <1>4, <3>1 DEF IsRerun
      <3> QED BY <3>1, <3>2
    <2> QED BY <2>1, <2>2
  <1>6. g = [i \in 0 .. n |-> g[i]]
    OBVIOUS
  <1> HIDE DEF g
  <1>7. IsRerun(g, n)
    BY <1>5, <1>6 DEF IsRerun
  <1> QED BY <1>1, <1>7

\* The function by which Revert undoes the stack from its top down to the j-th transition exists.
LEMMA RevertedExists ==
    ASSUME NEW N \in Nat, N = Len(transitionStack), NEW j \in 0 .. N
    PROVE  \E f : IsReverted(f, j)
  <1> DEFINE Entry(f, i) == IF i = N THEN objects
                            ELSE unapplyToState(f[i + 1], getTransitionAtIndex(i))
             bad == {d \in 0 .. N : ~ \E f : IsReverted(f, N - d)}
  <1> SUFFICES bad = {}
    <2>1. N - j \in 0 .. N /\ N - (N - j) = j
      OBVIOUS
    <2> QED BY <2>1
  <1> SUFFICES ASSUME bad # {}
               PROVE  FALSE
    OBVIOUS
  <1>1. PICK d \in bad : \A k \in bad : d <= k
    <2>1. bad \in SUBSET Nat
      OBVIOUS
    <2> HIDE DEF bad
    <2> QED BY <2>1, LeastOf
  <1>2. d # 0
    <2>1. ASSUME d = 0
          PROVE  IsReverted([i \in N .. N |-> objects], N - d)
      BY <2>1 DEF IsReverted
    <2> QED BY <2>1
  <1> DEFINE n == N - d
  <1>3. d \in 1 .. N /\ d - 1 \in 0 .. N /\ d - 1 \notin bad
        /\ n \in 0 .. N - 1 /\ N - (d - 1) = n + 1 /\ n # N
    BY <1>1, <1>2
  <1>4. PICK f : IsReverted(f, n + 1)
    BY <1>3
  <1>5. ~ \E h : IsReverted(h, n)
    BY <1>1
  <1> HIDE DEF n
  <1> DEFINE g == [i \in n .. N |-> IF i = n THEN Entry(f, n) ELSE f[i]]
  <1>6. ASSUME NEW i \in n .. N
        PROVE  g[i] = Entry(g, i)
    <2>1. CASE i = n
      <3>1. g[i + 1] = f[n + 1]
        BY <1>3, <2>1
      <3> QED BY <1>3, <2>1, <3>1
    <2>2. CASE i # n
      <3>1. i \in n + 1 .. N /\ g[i] = f[i] /\ (i # N => g[i + 1] = f[i + 1])
        BY <1>3, <2>2
      <3>2. f[i] = Entry(f, i)
        BY <1>4, <3>1 DEF IsReverted
      <3> QED BY <3>1, <3>2
    <2> QED BY <2>1, <2>2
  <1>7. g = [i \in n .. N |-> g[i]]
    OBVIOUS
  <1> HIDE DEF g
  <1>8. IsReverted(g, n)
    BY <1>6, <1>7 DEF IsReverted
  <1> QED BY <1>5, <1>8

\* and going back takes their last values.
LEMMA RerunIs ==
    ASSUME NEW n \in Nat
    PROVE  \E f : IsRerun(f, n) /\ Rerun(n) = f[n]
  <1> DEFINE f == CHOOSE f : IsRerun(f, n)
  <1>1. IsRerun(f, n)
    BY RerunExists
  <1>2. Rerun(n) = f[n]
    BY DEF Rerun, IsRerun
  <1> QED BY <1>1, <1>2

\* Revert is the value at j of such a function.
LEMMA RevertIs ==
    ASSUME NEW N \in Nat, N = Len(transitionStack), NEW j \in 0 .. N
    PROVE  \E f : IsReverted(f, j) /\ Revert(j) = f[j]
  <1> DEFINE f == CHOOSE f : IsReverted(f, j)
  <1>1. IsReverted(f, j)
    BY RevertedExists
  <1>2. Revert(j) = f[j]
    BY DEF Revert, IsReverted
  <1> QED BY <1>1, <1>2

\* What the invariant says of one transition of the stack.
LEMMA StepOfStack ==
    ASSUME Lawful(program), Stacks, Succession, Trodden, Recorded,
           NEW N \in Nat, N = Len(transitionStack), NEW n \in 1 .. N
    PROVE  LET t == transitionStack[n].tid
               st == RealAt(n - 1)
           IN  /\ t \in Threads
               /\ n - 1 \in 0 .. N
               /\ getTransitionAtIndex(n - 1) = Due(program, st, t)
               /\ RealAt(n) = Follow(program, st, t)
               /\ Sound(program, st) /\ Prepared(program, st) /\ Placed(program, st)
               /\ CanRun(program, st, t)
               /\ Covers(initialObjects, RealAt(n).objects)
               /\ InitDone(program, st) => InitDone(program, RealAt(n))
               /\ Due(program, st, t) \in Transitions
  <1>1. n - 1 \in 0 .. N /\ n \in 0 .. N /\ n - 1 + 1 = n
    OBVIOUS
  <1>2. /\ transitionStack[n].tid \in Threads
        /\ Decode(transitionStack[n]) = Due(program, RealAt(n - 1), transitionStack[n].tid)
        /\ RealAt(n) = Follow(program, RealAt(n - 1), transitionStack[n].tid)
    BY RealTransitions, RealPath
  <1>3. getTransitionAtIndex(n - 1) = Decode(transitionStack[n])
    BY <1>1 DEF getTransitionAtIndex
  <1>4. /\ Sound(program, RealAt(n - 1)) /\ Prepared(program, RealAt(n - 1))
        /\ CanRun(program, RealAt(n - 1), transitionStack[n].tid)
    BY <1>1 DEF Trodden
  <1>5. Covers(initialObjects, RealAt(n).objects)
    BY <1>1 DEF Recorded
  <1>6. Placed(program, RealAt(n - 1))
    BY <1>4 DEF Sound
  <1>7. InitDone(program, RealAt(n - 1)) => InitDone(program, RealAt(n))
    BY <1>2, <1>4, InitialisesBefore
  <1>8. Due(program, RealAt(n - 1), transitionStack[n].tid) \in Transitions
    BY <1>2, <1>6, DueType
  <1> QED BY <1>1, <1>2, <1>3, <1>4, <1>5, <1>6, <1>7, <1>8

\* Running the first j transitions again leads to where the program was.
LEMMA RerunIsReal ==
    ASSUME Lawful(program), Stacks, Succession, Trodden, Recorded,
           NEW j \in 0 .. Len(transitionStack), InitDone(program, RealAt(j))
    PROVE  Rerun(j) \in ObjectStates /\ Agree(Rerun(j), RealAt(j).objects)
  <1> DEFINE N == Len(transitionStack)
  <1>1. N \in Nat /\ j \in Nat /\ j <= N /\ AsRegistered(program, initialObjects)
    BY DEF Stacks, Recorded
  <1> HIDE DEF N
  <1>2. PICK f : IsRerun(f, j) /\ Rerun(j) = f[j]
    BY <1>1, RerunIs
  <1>3. /\ f[0] = initialObjects
        /\ \A i \in 1 .. j : f[i] = applyToState(f[i - 1], getTransitionAtIndex(i - 1))
    <2>1. \A i \in 0 .. j : f[i] = IF i = 0 THEN initialObjects
                                   ELSE applyToState(f[i - 1], getTransitionAtIndex(i - 1))
      <3>1. f = [i \in 0 .. j |-> IF i = 0 THEN initialObjects
                                  ELSE applyToState(f[i - 1], getTransitionAtIndex(i - 1))]
        BY <1>2 DEF IsRerun
      <3> QED BY <3>1
    <2>2. 0 \in 0 .. j /\ \A i \in 1 .. j : i \in 0 .. j /\ i # 0
      BY <1>1
    <2> QED BY <2>1, <2>2
  <1> DEFINE Good(i) == f[i] \in ObjectStates /\ Rebuilt(initialObjects, f[i], RealAt(i).objects)
             bad == {i \in 0 .. j : ~ Good(i)}
  <1>4. Good(0)
    <2>1. RealAt(0).objects = NoObjects
      BY RealPath DEF Start
    <2>2. initialObjects \in ObjectStates
      BY <1>1 DEF AsRegistered
    <2> QED BY <1>1, <1>3, <2>1, <2>2, RebuiltInit
  <1>5. ASSUME NEW i \in 1 .. j, Good(i - 1)
        PROVE  Good(i)
    <2> DEFINE t == transitionStack[i].tid
               st == RealAt(i - 1)
    <2>1. i \in 1 .. N
      BY <1>1
    <2>2. /\ t \in Threads
          /\ getTransitionAtIndex(i - 1) = Due(program, st, t)
          /\ RealAt(i) = Follow(program, st, t)
          /\ Sound(program, st) /\ Prepared(program, st) /\ CanRun(program, st, t)
          /\ Covers(initialObjects, RealAt(i).objects)
          /\ Due(program, st, t) \in Transitions
      BY <1>1, <2>1, StepOfStack DEF N
    <2>3. f[i - 1] \in ObjectStates /\ Rebuilt(initialObjects, f[i - 1], st.objects)
      BY <1>5
    <2>4. f[i] = applyToState(f[i - 1], Due(program, st, t))
      BY <1>3, <2>2
    <2> HIDE DEF t, st
    <2>5. f[i] \in ObjectStates
      BY <2>2, <2>3, <2>4, AppliedType
    <2>6. Rebuilt(initialObjects, f[i], RealAt(i).objects)
      BY <1>1, <2>2, <2>3, <2>4, RebuiltStep
    <2> QED BY <2>5, <2>6
  <1> HIDE DEF Good
  <1>6. bad = {}
    <2> SUFFICES ASSUME bad # {}
                 PROVE  FALSE
      OBVIOUS
    <2>1. PICK i \in bad : \A k \in bad : i <= k
      <3>1. bad \in SUBSET Nat
        OBVIOUS
      <3> HIDE DEF bad
      <3> QED BY <3>1, LeastOf
    <2>2. i \in 0 .. j /\ ~ Good(i) /\ i # 0
      BY <1>4, <2>1
    <2>3. i \in 1 .. j /\ i - 1 \in 0 .. j /\ ~ (i <= i - 1)
      BY <1>1, <2>2
    <2>4. Good(i - 1)
      BY <2>1, <2>3
    <2> QED BY <1>5, <2>2, <2>3, <2>4
  <1>7. Good(j)
    BY <1>1, <1>6
  <1>8. /\ Placed(program, RealAt(j)) /\ Prepared(program, RealAt(j))
        /\ Covers(initialObjects, RealAt(j).objects)
    BY DEF Trodden, Recorded, Sound
  <1> QED BY <1>1, <1>2, <1>7, <1>8, RebuiltAgrees DEF Good

\* So does undoing the others, if all of them can be undone.
LEMMA RevertIsReal ==
    ASSUME Lawful(program), Stacks, Succession, Exact, Trodden, Recorded,
           NEW j \in 0 .. Len(transitionStack), InitDone(program, RealAt(j)),
           \A i \in j + 1 .. Len(transitionStack) : isReversibleInState(Decode(transitionStack[i]))
    PROVE  Revert(j) \in ObjectStates /\ Agree(Revert(j), RealAt(j).objects)
  <1> DEFINE N == Len(transitionStack)
  <1>1. N \in Nat /\ j \in Nat /\ j <= N
    BY DEF Stacks
  <1>2. PICK f : IsReverted(f, j) /\ Revert(j) = f[j]
    BY <1>1, RevertIs
  <1>3. /\ f[N] = objects
        /\ \A i \in j .. N - 1 : f[i] = unapplyToState(f[i + 1], getTransitionAtIndex(i))
    <2>1. f = [i \in j .. N |-> IF i = N THEN objects
                                ELSE unapplyToState(f[i + 1], getTransitionAtIndex(i))]
      BY <1>2 DEF IsReverted
    <2> HIDE DEF N
    <2>2. \A i \in j .. N : f[i] = IF i = N THEN objects
                                   ELSE unapplyToState(f[i + 1], getTransitionAtIndex(i))
      BY <2>1
    <2>3. N \in j .. N /\ \A i \in j .. N - 1 : i \in j .. N /\ i # N
      BY <1>1
    <2> QED BY <2>2, <2>3
  <1>4. \A i \in j + 1 .. N : getTransitionAtIndex(i - 1) = Decode(transitionStack[i])
    BY <1>1 DEF getTransitionAtIndex
  <1>5. f[N] \in ObjectStates /\ Agree(f[N], RealAt(N).objects)
    BY <1>3 DEF Exact
  <1>6. \A i \in j + 1 .. N : isReversibleInState(getTransitionAtIndex(i - 1))
    BY <1>4
  <1>7. N = Len(transitionStack)
    OBVIOUS
  <1> HIDE DEF N
  <1>8. \A i \in j .. N : InitDone(program, RealAt(i))
    <2> DEFINE bad == {i \in j .. N : ~ InitDone(program, RealAt(i))}
    <2> SUFFICES ASSUME bad # {}
                 PROVE  FALSE
      OBVIOUS
    <2>1. PICK i \in bad : \A k \in bad : i <= k
      <3>1. bad \in SUBSET Nat
        BY <1>1
      <3> HIDE DEF bad
      <3> QED BY <3>1, LeastOf
    <2>2. i \in j .. N /\ i # j /\ ~ InitDone(program, RealAt(i))
      BY <2>1
    <2>3. i \in 1 .. N /\ i - 1 \in j .. N /\ ~ (i <= i - 1)
      BY <1>1, <2>2
    <2>4. InitDone(program, RealAt(i - 1))
      BY <2>1, <2>3
    <2> QED BY <1>1, <1>7, <2>2, <2>3, <2>4, StepOfStack
  <1> DEFINE Good(i) == f[i] \in ObjectStates /\ Agree(f[i], RealAt(i).objects)
             bad == {d \in 0 .. N - j : ~ Good(N - d)}
  <1>9. ASSUME NEW i \in j + 1 .. N, Good(i)
        PROVE  Good(i - 1)
    <2> DEFINE t == transitionStack[i].tid
               st == RealAt(i - 1)
               tr == Due(program, st, t)
    <2>1. i \in 1 .. N /\ i - 1 \in j .. N /\ i - 1 \in j .. N - 1 /\ i - 1 + 1 = i
      BY <1>1
    <2>2. /\ t \in Threads
          /\ getTransitionAtIndex(i - 1) = tr
          /\ RealAt(i) = Follow(program, st, t)
          /\ Sound(program, st) /\ Prepared(program, st) /\ Placed(program, st)
          /\ CanRun(program, st, t)
          /\ tr \in Transitions
      BY <1>1, <1>7, <2>1, StepOfStack
    <2>3. InitDone(program, st)
      BY <1>8, <2>1
    <2>4. isReversibleInState(tr)
      BY <1>6, <2>2
    <2>5. f[i] \in ObjectStates /\ Agree(f[i], RealAt(i).objects)
      BY <1>9
    <2>6. f[i - 1] = unapplyToState(f[i], tr)
      BY <1>3, <2>1, <2>2
    <2> HIDE DEF t, st
    <2>7. tr.type \in {"join", "finish", "mutex_unlock"}
      <3>1. tr.type \in {"join", "finish", "mutex_init", "mutex_unlock"}
        <4>1. tr.type \in ThreadOperationTypes \cup MutexOperationTypes \cup SemOperationTypes
                            \cup CondOperationTypes \cup BarrierOperationTypes \cup MCRWLockTypes
                            \cup MCRWWLockTypes \cup MiscOperationTypes
          BY <2>2, OneFamily
        <4> QED BY <2>4, <4>1, ClassAnswers DEF isReversibleInState
      <3>2. tr.type \notin InitTypes
        BY <2>2, <2>3, InitialisesBefore
      <3> QED BY <3>1, <3>2 DEF InitTypes
    <2>8. Agree(unapplyToState(f[i], tr), st.objects) /\ unapplyToState(f[i], tr) \in ObjectStates
      BY <2>2, <2>3, <2>5, <2>7, RevertStep
    <2> QED BY <2>6, <2>8 DEF st
  <1>10. Good(N)
    BY <1>5
  <1> HIDE DEF Good
  <1>11. bad = {}
    <2> SUFFICES ASSUME bad # {}
                 PROVE  FALSE
      OBVIOUS
    <2>1. PICK d \in bad : \A k \in bad : d <= k
      <3>1. bad \in SUBSET Nat
        BY <1>1
      <3> HIDE DEF bad
      <3> QED BY <3>1, LeastOf
    <2>2. d \in 0 .. N - j /\ ~ Good(N - d) /\ d # 0
      BY <1>1, <1>10, <2>1
    <2>3. d - 1 \in 0 .. N - j /\ ~ (d <= d - 1)
          /\ N - (d - 1) \in j + 1 .. N /\ N - (d - 1) - 1 = N - d
      BY <1>1, <2>2
    <2>4. Good(N - (d - 1))
      BY <2>1, <2>3
    <2> QED BY <1>9, <2>2, <2>3, <2>4
  <1>12. Good(j)
    <2>1. N - j \in 0 .. N - j /\ N - (N - j) = j
      BY <1>1
    <2> QED BY <1>11, <2>1
  <1> QED BY <1>2, <1>12 DEF Good


\* What else ExploreBranch does.
LEMMA ExploredObjects ==
    ASSUME StackInv, env.PRINT_AT_TRACE_SEQ = << >>, ExploreBranch,
           NEW j \in 1 .. Len(transitionStack), Len(transitionStack') = j
    PROVE  /\ objects' = IF \A i \in irreversible : j >= i THEN Revert(j) ELSE Rerun(j)
           /\ pos' = [u \in Threads |-> PosBack(u, j)]
           /\ irreversible' = {i \in irreversible : i <= j}
           /\ result = "none" /\ result' = "none" /\ phase' = "running"
           /\ UNCHANGED initialObjects
  <1> DEFINE N == Len(transitionStack)
             top == Max(BranchPoints)
  <1>1. /\ N \in Nat /\ Len(stateStack) = N + 1 /\ transitionStack \in Seq(Steps)
        /\ BacktrackSetsAreUseful
    BY DEF StackInv, Stacks
  <1>2. top \in 1 .. N
    <2>1. BranchPoints \subseteq 1 .. N
      BY <1>1 DEF BranchPoints, stateStackTop, BacktrackSetsAreUseful
    <2>2. BranchPoints \in SUBSET Nat /\ \A k \in BranchPoints : k <= N
      BY <2>1
    <2>3. BranchPoints # {}
      BY Zenon DEF ExploreBranch
    <2>4. top \in BranchPoints
      BY <1>1, <2>2, <2>3, MaxIsGreatest
    <2> QED BY <2>1, <2>4
  <1>3. /\ transitionStack' = SubSeq(transitionStack, 1, top)
        /\ objects' = IF \A i \in irreversible : top >= i THEN Revert(top) ELSE Rerun(top)
        /\ pos' = [u \in Threads |-> PosBack(u, top)]
        /\ irreversible' = {i \in irreversible : i <= top}
        /\ result = "none" /\ phase' = "running"
        /\ result' = IF top < Len(env.PRINT_AT_TRACE_SEQ) THEN "trace sequence done" ELSE result
        /\ UNCHANGED initialObjects
    BY Zenon DEF ExploreBranch, Judged, IrreversibleBack
  <1> HIDE DEF top
  <1>4. Len(transitionStack') = top
    <2>1. top \in Nat /\ top >= 1 /\ top <= Len(transitionStack)
      BY <1>1, <1>2
    <2>2. Len(SubSeq(transitionStack, 1, top)) = top
      BY <1>1, <2>1
    <2> QED BY <1>3, <2>2
  <1>5. top = j
    BY <1>4
  <1>6. ~ (top < Len(env.PRINT_AT_TRACE_SEQ))
    <2>1. Len(env.PRINT_AT_TRACE_SEQ) = 0
      OBVIOUS
    <2> QED BY <1>1, <1>2, <2>1
  <1> QED BY <1>3, <1>5, <1>6

\* Two threads can run where the search goes back to: the main thread has initialised all.
LEMMA BranchIsInitialised ==
    ASSUME Lawful(program), Stacks, Succession, BacktrackSetsAreUseful, Trodden, Offered,
           NEW j \in 0 .. Len(transitionStack), NEW t \in stateStack[j + 1].backtrack
    PROVE  InitDone(program, RealAt(j)) /\ t \in Threads /\ CanRun(program, RealAt(j), t)
  <1> DEFINE item == stateStack[j + 1]
             st == RealAt(j)
  <1>1. j + 1 \in DOMAIN stateStack /\ item \in Items
    BY DEF Stacks
  <1>2. item.enabled \in SUBSET Threads /\ item.done \in SUBSET Threads
    <2> HIDE DEF item
    <2> QED BY <1>1 DEF Items
  <1>3. t \in item.enabled /\ t \notin item.done
    BY <1>1 DEF BacktrackSetsAreUseful
  <1>4. /\ \A u \in item.enabled : CanRun(program, st, u)
        /\ item.done \subseteq item.enabled
        /\ item.done # {}
    BY <1>3 DEF Offered
  <1>5. PICK u \in item.done : TRUE
    BY <1>4
  <1>6. u # t /\ u \in Threads /\ t \in Threads /\ CanRun(program, st, u) /\ CanRun(program, st, t)
    BY <1>2, <1>3, <1>4, <1>5
  <1>7. Placed(program, st) /\ Created(program, st)
    BY DEF Trodden, Sound
  <1> HIDE DEF st, item
  <1>8. ASSUME NEW w \in Threads, CanRun(program, st, w)
        PROVE  StartedIn(st, w)
    <2>1. Due(program, st, w).tid = w
      BY <1>7, DueType
    <2> QED BY <1>8, <2>1, CanRunFacts DEF StartedIn
  <1>9. InitDone(program, st)
    <2> SUFFICES ASSUME ~ InitDone(program, st)
                 PROVE  FALSE
      OBVIOUS
    <2>1. PICK p \in DOMAIN program[Main] : program[Main][p].type \in InitTypes
                                             /\ ~ (p < st.pos[Main])
      BY DEF InitDone
    <2>2. st.pos[Main] <= p
      <3>1. Main \in Threads
        BY DEF Stacks
      <3>2. st.pos[Main] \in Nat /\ DOMAIN program[Main] = 1 .. Len(program[Main])
            /\ Len(program[Main]) \in Nat
        BY <1>7, <3>1, DueType
      <3> QED BY <2>1, <3>2
    <2>3. \A w \in Threads \ {Main} : ~ StartedIn(st, w)
      BY <1>7, <2>1, <2>2 DEF Created
    <2> QED BY <1>6, <1>8, <2>3
  <1> QED BY <1>6, <1>9 DEF st

\* Going back keeps the invariant, and the thread it goes back for can run.
LEMMA ShadowBack ==
    ASSUME Lawful(program), StackInv, env.PRINT_AT_TRACE_SEQ = << >>, ShadowInv, ExploreBranch
    PROVE  ShadowInv' /\ Enabled(current)'
  <1> DEFINE N == Len(transitionStack)
  <1>1. /\ Stacks /\ Succession /\ BacktrackSetsAreUseful /\ Exact /\ Trodden /\ Recorded /\ Offered
        /\ N \in Nat /\ transitionStack \in Seq(Steps) /\ stateStack \in Seq(Items)
        /\ Len(stateStack) = N + 1
    BY DEF StackInv, ShadowInv, Stacks
  <1>2. PICK j \in 1 .. N :
           /\ current' \in stateStack[j + 1].backtrack
           /\ Len(transitionStack') = j
           /\ \A i \in 1 .. j : transitionStack'[i] = transitionStack[i]
           /\ \A i \in 1 .. j : stateStack'[i] = stateStack[i]
           /\ stateStack'[j + 1] = markBacktrackThreadSearched(stateStack[j + 1], current')
           /\ \A i \in 1 .. j + 1 : stateStack'[i].enabled = stateStack[i].enabled
           /\ UNCHANGED <<program, env, known>>
    BY ExploredStacks
  <1>3. /\ objects' = IF \A i \in irreversible : j >= i THEN Revert(j) ELSE Rerun(j)
        /\ pos' = [u \in Threads |-> PosBack(u, j)]
        /\ irreversible' = {i \in irreversible : i <= j}
        /\ result = "none" /\ result' = "none"
        /\ UNCHANGED initialObjects
    BY <1>2, ExploredObjects
  <1>4. transitionStack' \in Seq(Steps) /\ j \in Nat /\ j <= N /\ j \in 0 .. N
    <2>1. transitionStack' \in Seq(Steps)
      BY ExploreKeeps DEF StackInv, Stacks
    <2> QED BY <1>1, <1>2, <2>1
  <1>5. \A n \in 0 .. j : RealAt(n)' = RealAt(n)
    <2> SUFFICES ASSUME NEW n \in 0 .. j
                 PROVE  RealAt(n)' = RealAt(n)
      OBVIOUS
    <2>1. n \in Nat /\ n <= N /\ n <= Len(transitionStack')
          /\ \A k \in 1 .. n : transitionStack'[k] = transitionStack[k]
      BY <1>1, <1>2, <1>4
    <2> QED BY <1>1, <1>2, <1>4, <2>1, RealStays
  <1>6. /\ InitDone(program, RealAt(j)) /\ current' \in Threads
        /\ CanRun(program, RealAt(j), current')
    BY <1>1, <1>2, <1>4, BranchIsInitialised
  <1>7. objects' \in ObjectStates /\ Agree(objects', RealAt(j).objects)
    <2>1. CASE \A i \in irreversible : j >= i
      <3>1. \A i \in j + 1 .. N : isReversibleInState(Decode(transitionStack[i]))
        <4> SUFFICES ASSUME NEW i \in j + 1 .. N
                     PROVE  isReversibleInState(Decode(transitionStack[i]))
          OBVIOUS
        <4>1. i \in 1 .. N /\ ~ (j >= i)
          BY <1>1, <1>4
        <4> QED BY <1>1, <2>1, <4>1 DEF Recorded
      <3>2. Revert(j) \in ObjectStates /\ Agree(Revert(j), RealAt(j).objects)
        BY <1>1, <1>4, <1>6, <3>1, RevertIsReal
      <3> QED BY <1>3, <2>1, <3>2
    <2>2. CASE ~ \A i \in irreversible : j >= i
      <3>1. Rerun(j) \in ObjectStates /\ Agree(Rerun(j), RealAt(j).objects)
        BY <1>1, <1>4, <1>6, RerunIsReal
      <3> QED BY <1>3, <2>2, <3>1
    <2> QED BY <2>1, <2>2
  <1>8. j \in 0 .. j /\ \A n \in 0 .. j : n \in 0 .. N
    BY <1>1, <1>4
  <1>9. \A n \in 1 .. j : n \in 1 .. N /\ n - 1 \in 0 .. j
    BY <1>1, <1>4
  <1>10. Exact'
    BY <1>2, <1>5, <1>7, <1>8 DEF Exact
  <1>11. Trodden'
    <2>1. \A n \in 0 .. j : Sound(program, RealAt(n)) /\ Prepared(program, RealAt(n))
                            /\ ~ AbortedIn(program, RealAt(n))
      BY <1>1, <1>3, <1>8 DEF Trodden
    <2>2. \A n \in 1 .. j : CanRun(program, RealAt(n - 1), transitionStack[n].tid)
      BY <1>1, <1>9 DEF Trodden
    <2>3. \A n \in 0 .. j : Sound(program', RealAt(n)') /\ Prepared(program', RealAt(n)')
                            /\ ~ AbortedIn(program', RealAt(n)')
      BY <1>2, <1>5, <2>1
    <2>4. \A n \in 1 .. j : CanRun(program', RealAt(n - 1)', transitionStack'[n].tid)
      BY <1>2, <1>5, <1>9, <2>2
    <2> QED BY <1>2, <2>3, <2>4 DEF Trodden
  <1>12. Recorded'
    <2>1. \A n \in 0 .. j : Covers(initialObjects, RealAt(n).objects)
      BY <1>1, <1>8 DEF Recorded
    <2>2. \A n \in 0 .. j : Covers(initialObjects', RealAt(n)'.objects)
      BY <1>3, <1>5, <2>1
    <2>3. ASSUME NEW n \in 1 .. j
          PROVE  isReversibleInState(Decode(transitionStack[n]))' \/ n \in irreversible'
      <3>1. Decode(transitionStack[n])' = Decode(transitionStack[n])
        BY <1>2 DEF Decode
      <3>2. isReversibleInState(Decode(transitionStack[n])) \/ n \in irreversible
        BY <1>1, <1>9 DEF Recorded
      <3>3. n <= j
        OBVIOUS
      <3> QED BY <1>3, <3>1, <3>2, <3>3
    <2>4. AsRegistered(program', initialObjects')
          /\ \A u \in Threads : initialObjects'.thread[u] # "none" => u \in known'
      BY <1>1, <1>2, <1>3 DEF Recorded
    <2> QED BY <1>2, <2>2, <2>3, <2>4 DEF Recorded
  <1>13. Offered'
    <2> SUFFICES ASSUME NEW n \in 0 .. j
                 PROVE  /\ \A t \in stateStack'[n + 1].enabled : CanRun(program', RealAt(n)', t)
                        /\ stateStack'[n + 1].done \subseteq stateStack'[n + 1].enabled
                        /\ stateStack'[n + 1].enabled # {} => stateStack'[n + 1].done # {}
      BY <1>2 DEF Offered
    <2>1. /\ \A t \in stateStack[n + 1].enabled : CanRun(program, RealAt(n), t)
          /\ stateStack[n + 1].done \subseteq stateStack[n + 1].enabled
          /\ stateStack[n + 1].enabled # {} => stateStack[n + 1].done # {}
      BY <1>1, <1>8 DEF Offered
    <2>2. stateStack'[n + 1].enabled = stateStack[n + 1].enabled
      BY <1>2, <1>4
    <2>3. \/ stateStack'[n + 1].done = stateStack[n + 1].done
          \/ /\ stateStack'[n + 1].done = stateStack[n + 1].done \cup {current'}
             /\ current' \in stateStack[n + 1].enabled
      <3>1. CASE n # j
        BY <1>2, <1>4, <3>1
      <3>2. CASE n = j
        <4>1. stateStack[j + 1] \in Items
          BY <1>1, <1>4
        <4>2. markBacktrackThreadSearched(stateStack[j + 1], current').done
                = stateStack[j + 1].done \cup {current'}
          BY <4>1 DEF markBacktrackThreadSearched, Items
        <4>3. current' \in stateStack[j + 1].enabled
          <5>1. j + 1 \in DOMAIN stateStack
            BY <1>1, <1>4
          <5> QED BY <1>1, <1>2, <5>1 DEF BacktrackSetsAreUseful
        <4> QED BY <1>2, <3>2, <4>2, <4>3
      <3> QED BY <3>1, <3>2
    <2> QED BY <1>2, <1>5, <2>1, <2>2, <2>3
  <1>14. Enabled(current)'
    <2>1. RealAt(j).pos \in [Threads -> Nat] /\ \A u \in Threads : RealAt(j).pos[u] = PosAfter(u, j)
      BY <1>1, <1>4, RealPositions
    <2>2. \A u \in Threads : PosBack(u, j) = PosAfter(u, j)
      BY <1>1, <1>4, PosBackIsPosAfter
    <2>3. \A u \in Threads : pos'[u] = RealAt(j).pos[u]
      BY <1>3, <2>1, <2>2
    <2>4. Due(program, RealAt(j), current') \in Transitions
      BY <1>1, <1>4, <1>6, DueType DEF Trodden, Sound
    <2>5. RealAt(j).objects \in ObjectStates
      BY <1>1, <1>4 DEF Trodden, Sound, Placed
    <2>6. transitionEnabledInState(objects', Due(program, RealAt(j), current'))
      BY <1>6, <1>7, <2>4, <2>5, AgreeCanRun DEF CanRun
    <2>7. Pending(current)' = Due(program, RealAt(j), current')
      BY <1>2, <1>6, <2>3 DEF Pending, Due
    <2> QED BY <2>6, <2>7 DEF Enabled
  <1> QED BY <1>10, <1>11, <1>12, <1>13, <1>14 DEF ShadowInv


-----------------------------------------------------------------------------
(* Going on                                                                  *)

\* A step that leaves the model alone.
LEMMA ShadowStays ==
    ASSUME ShadowInv, UNCHANGED <<program, modelVars>>, result' = "none" => result = "none"
    PROVE  ShadowInv'
  <1>1. UNCHANGED <<program, objects, transitionStack, stateStack, initialObjects, known,
                    irreversible>>
    BY DEF modelVars
  <1>2. \A n : RealAt(n)' = RealAt(n)
    BY <1>1 DEF RealAt
  <1>3. Exact'
    BY <1>1, <1>2 DEF ShadowInv, Exact
  <1>4. Trodden'
    BY <1>1, <1>2 DEF ShadowInv, Trodden
  <1>5. Recorded'
    <2>1. \A n : Decode(transitionStack[n])' = Decode(transitionStack[n])
      BY <1>1 DEF Decode
    <2> QED BY <1>1, <1>2, <2>1 DEF ShadowInv, Recorded
  <1>6. Offered'
    BY <1>1, <1>2 DEF ShadowInv, Offered
  <1> QED BY <1>3, <1>4, <1>5, <1>6 DEF ShadowInv

\* Without "-t" there is no entry to follow.
LEMMA NoEntry ==
    ASSUME env.PRINT_AT_TRACE_SEQ = << >>
    PROVE  \A index, end : getNextTraceSeqEntry(index, end) = NoThread
  BY DEF getNextTraceSeqEntry, Following

\* Where the shadow objects are, the program is.
LEMMA ShadowIsReal ==
    ASSUME Lawful(program), Stacks, Succession, ShadowInv,
           NEW N \in Nat, N = Len(transitionStack)
    PROVE  LET st == RealAt(N)
           IN  /\ Sound(program, st) /\ Prepared(program, st) /\ Placed(program, st)
               /\ st.objects \in ObjectStates /\ objects \in ObjectStates
               /\ Agree(objects, st.objects)
               /\ st.pos = pos
               /\ Sound(program, Here)
               /\ \A t \in Threads :
                     /\ Pending(t) = Due(program, st, t)
                     /\ Pending(t) \in Transitions
                     /\ Pending(t).tid = t
                     /\ Enabled(t) <=> CanRun(program, st, t)
                     /\ Enabled(t) => t \in known
  <1> DEFINE st == RealAt(N)
  <1>1. N \in 0 .. Len(transitionStack)
    OBVIOUS
  <1>2. Sound(program, st) /\ Prepared(program, st) /\ Placed(program, st)
        /\ st.objects \in ObjectStates /\ objects \in ObjectStates /\ Agree(objects, st.objects)
        /\ Covers(initialObjects, st.objects)
    BY <1>1 DEF ShadowInv, Trodden, Exact, Recorded, Sound, Placed
  <1>3. st.pos = pos
    BY RealTransitions
  <1>4. Sound(program, Here)
    <2>1. Here.objects = objects /\ Here.pos = pos
      BY DEF Here
    <2> HIDE DEF st
    <2> QED BY <1>2, <1>3, <2>1, AgreeSound
  <1>5. ASSUME NEW t \in Threads
        PROVE  /\ Pending(t) = Due(program, st, t)
               /\ Pending(t) \in Transitions
               /\ Pending(t).tid = t
               /\ Enabled(t) <=> CanRun(program, st, t)
               /\ Enabled(t) => t \in known
    <2>1. Pending(t) = Due(program, st, t)
      BY <1>3 DEF Pending, Due
    <2>2. Due(program, st, t) \in Transitions /\ Due(program, st, t).tid = t
      BY <1>2, DueType
    <2> HIDE DEF st
    <2>3. Enabled(t) <=> CanRun(program, st, t)
      BY <1>2, <2>1, <2>2, AgreeCanRun DEF Enabled, CanRun
    <2>4. ASSUME Enabled(t)
          PROVE  t \in known
      <3>1. st.objects.thread[t] = "alive"
        BY <2>2, <2>3, <2>4, CanRunFacts
      <3>2. initialObjects.thread[t] # "none"
        BY <1>2, <3>1 DEF Covers
      <3> QED BY <3>2 DEF ShadowInv, Recorded
    <2> QED BY <2>1, <2>2, <2>3, <2>4
  <1> QED BY <1>2, <1>3, <1>4, <1>5

\* Who is enabled where the search is.
LEMMA EnabledThreads ==
    ASSUME Lawful(program), Stacks, Succession, ShadowInv, env.PRINT_AT_TRACE_SEQ = << >>
    PROVE  /\ getCurrentlyEnabledThreads = EnabledIn(objects, pos, known)
           /\ \A t \in Threads : t \in getCurrentlyEnabledThreads <=> Enabled(t)
  <1>1. getCurrentlyEnabledThreads = EnabledIn(objects, pos, known)
    BY NoEntry DEF getCurrentlyEnabledThreads
  <1>2. Len(transitionStack) \in Nat
    BY DEF Stacks
  <1>3. \A t \in Threads : Enabled(t) => t \in known
    BY <1>2, ShadowIsReal
  <1>4. \A t \in Threads : t \in EnabledIn(objects, pos, known) <=> t \in known /\ Enabled(t)
    BY DEF EnabledIn, Enabled, Pending
  <1> QED BY <1>1, <1>3, <1>4

\* A thread that can run leads both of them further:
LEMMA AdvanceIsReal ==
    ASSUME Lawful(program), Stacks, Succession, ClocksLookBack, ShadowInv, result = "none",
           NEW t \in Threads, Advances(t), Enabled(t),
           NEW N \in Nat, N = Len(transitionStack)
    PROVE  LET st == RealAt(N)
               f == Follow(program, st, t)
           IN  /\ RealAt(N + 1)' = f
               /\ \A n \in 0 .. N : RealAt(n)' = RealAt(n)
               /\ CanRun(program, st, t)
               /\ objects' \in ObjectStates /\ Agree(objects', f.objects)
               /\ Sound(program, f) /\ Prepared(program, f) /\ Placed(program, f)
               /\ ~ Aborts(t) => ~ AbortedIn(program, f)
               /\ initialObjects' = registerNewObject(initialObjects, Due(program, f, t))
               /\ known' = known \cup (IF Due(program, f, t).type \in {"create", "join"}
                                       THEN {Due(program, f, t).obj} ELSE {})
  <1> DEFINE st == RealAt(N)
             f == Follow(program, st, t)
             tr == Pending(t)
             su == Successor(t)
  <1>1. /\ Sound(program, st) /\ Prepared(program, st) /\ Placed(program, st)
        /\ st.objects \in ObjectStates /\ objects \in ObjectStates /\ Agree(objects, st.objects)
        /\ st.pos = pos /\ Sound(program, Here)
        /\ tr = Due(program, st, t) /\ tr \in Transitions /\ CanRun(program, st, t)
    BY ShadowIsReal
  <1>2. /\ simulateRunningTransition(t)
        /\ program' = program
        /\ transitionStack' \in Seq(Steps) /\ transitionStack \in Seq(Steps)
        /\ Len(transitionStack') = N + 1
        /\ \A k \in 1 .. N : transitionStack'[k] = transitionStack[k]
        /\ transitionStack'[N + 1].tid = t
    <2>1. simulateRunningTransition(t) /\ program' = program
      BY DEF Advances
    <2>2. transitionStack \in Seq(Steps)
      BY DEF Stacks
    <2>3. /\ transitionStack' \in Seq(Steps)
          /\ Len(transitionStack') = Len(transitionStack) + 1
          /\ \A k \in 1 .. Len(transitionStack) : transitionStack'[k] = transitionStack[k]
          /\ transitionStack'[Len(transitionStack) + 1] = [tid |-> t, pos |-> pos[t]]
      BY <2>1, Simulated
    <2> QED BY <2>1, <2>2, <2>3
  <1>3. RealAt(N + 1)' = f
    BY <1>2, RealGrows
  <1>4. \A n \in 0 .. N : RealAt(n)' = RealAt(n)
    <2> SUFFICES ASSUME NEW n \in 0 .. N
                 PROVE  RealAt(n)' = RealAt(n)
      OBVIOUS
    <2>1. n \in Nat /\ n <= Len(transitionStack) /\ n <= Len(transitionStack')
          /\ \A k \in 1 .. n : transitionStack'[k] = transitionStack[k]
      BY <1>2
    <2> QED BY <1>2, <2>1, RealStays
  <1>5. f.pos = [pos EXCEPT ![t] = NextPosition(program, t, pos[t])]
    BY <1>1 DEF Follow
  <1>6. su = Due(program, f, t)
    <2>1. pos \in [Threads -> Nat]
      BY DEF Stacks
    <2>2. f.pos[t] = NextPosition(program, t, pos[t])
      BY <1>5, <2>1
    <2> HIDE DEF f
    <2> QED BY <2>2 DEF Successor, Due
  <1>7. /\ Placed(program, f)
        /\ f.objects = readTransition(applyToState(st.objects, tr), su)
        /\ applyToState(st.objects, tr) \in ObjectStates
        /\ f.pos[t] = IF st.pos[t] = Len(program[t]) + 1 THEN st.pos[t] ELSE st.pos[t] + 1
        /\ \A u \in Threads \ {t} : f.pos[u] = st.pos[u]
    <2> HIDE DEF st, tr, su
    <2> QED BY <1>1, <1>6, FollowLeads
  <1>8. su \in Transitions
    <2> HIDE DEF f, su
    <2> QED BY <1>6, <1>7, DueType
  <1>9. /\ objects' = readTransition(applyToState(objects, tr), su)
        /\ pos' = [pos EXCEPT ![t] = NextPosition(program, t, pos[t])]
        /\ initialObjects' = registerNewObject(initialObjects, su)
        /\ known' = known \cup (IF su.type \in {"create", "join"} THEN {su.obj} ELSE {})
    BY <1>2 DEF simulateRunningTransition, Pending, Successor
  <1> HIDE DEF tr, su, st, f
  <1>10. objects' \in ObjectStates /\ Agree(objects', f.objects)
    <2>1. Agree(applyToState(objects, tr), applyToState(st.objects, tr))
      BY <1>1, AgreeApplied
    <2>2. applyToState(objects, tr) \in ObjectStates
      BY <1>1, AppliedType
    <2>3. readTransition(applyToState(objects, tr), su) \in ObjectStates
      BY <1>8, <2>2, AnnouncedType
    <2> QED BY <1>7, <1>8, <1>9, <2>1, <2>2, <2>3, AgreeAnnounced
  <1>11. ~ AbortedIn(program, st)
    <2>1. N \in 0 .. Len(transitionStack)
      OBVIOUS
    <2> QED BY <2>1 DEF ShadowInv, Trodden, st
  <1>12. Run(t)
    <2>1. ~ Aborted
      BY <1>1, <1>11 DEF Aborted, AbortedIn
    <2>2. objects' = Stepped(objects, t)
      BY <1>9 DEF Stepped, tr, su
    <2> QED BY <1>2, <1>9, <2>1, <2>2 DEF Run
  <1>13. Sound(program, f)
    <2>1. Sound(program, Here)'
      BY <1>1, <1>12, SoundStep
    <2>2. Sound(program, [objects |-> objects', pos |-> pos'])
      BY <1>2, <2>1 DEF Here
    <2>3. f.objects \in ObjectStates /\ f.pos = pos'
      BY <1>5, <1>7, <1>9 DEF Placed
    <2> QED BY <1>10, <2>2, <2>3, AgreeSound
  <1>14. Prepared(program, f)
    BY <1>1, PreparedStep DEF f
  <1>15. ASSUME ~ Aborts(t)
         PROVE  ~ AbortedIn(program, f)
    <2> SUFFICES ASSUME NEW u \in Threads, f.pos[u] > 0,
                        TransitionAt(program, u, f.pos[u] - 1).type = "abort"
                 PROVE  FALSE
      BY DEF AbortedIn
    <2>1. f.pos[u] # st.pos[u]
      BY <1>11 DEF AbortedIn
    <2>2. u = t /\ f.pos[t] = st.pos[t] + 1
      BY <1>7, <2>1
    <2>3. st.pos[t] \in Nat
      BY <1>1 DEF Placed
    <2>4. f.pos[t] - 1 = st.pos[t]
      BY <2>2, <2>3
    <2>5. Pending(t).type = "abort"
      BY <1>1, <2>2, <2>4 DEF Pending
    <2> QED BY <1>15, <2>5 DEF Aborts, Pending
  <1> QED BY <1>1, <1>3, <1>4, <1>6, <1>7, <1>9, <1>10, <1>13, <1>14, <1>15 DEF st, f


\* what is kept for going back goes with them,
LEMMA AdvanceRecords ==
    ASSUME Lawful(program), Stacks, Succession, ClocksLookBack, ShadowInv, result = "none",
           NEW t \in Threads, Advances(t), Enabled(t),
           NEW N \in Nat, N = Len(transitionStack)
    PROVE  Recorded'
  <1> DEFINE st == RealAt(N)
             f == Follow(program, st, t)
             su == Due(program, f, t)
  <1>1. N \in Nat /\ Len(stateStack) = N + 1
    BY DEF Stacks
  <1>2. /\ RealAt(N + 1)' = f /\ \A n \in 0 .. N : RealAt(n)' = RealAt(n)
        /\ CanRun(program, st, t) /\ Placed(program, f)
        /\ initialObjects' = registerNewObject(initialObjects, su)
        /\ known' = known \cup (IF su.type \in {"create", "join"} THEN {su.obj} ELSE {})
    BY <1>1, AdvanceIsReal
  <1>3. /\ Sound(program, st) /\ Prepared(program, st)
        /\ AsRegistered(program, initialObjects)
        /\ \A n \in 0 .. N : Covers(initialObjects, RealAt(n).objects)
        /\ \A u \in Threads : initialObjects.thread[u] # "none" => u \in known
        /\ \A n \in 1 .. N : isReversibleInState(Decode(transitionStack[n])) \/ n \in irreversible
    <2>1. N \in 0 .. N
      BY <1>1
    <2> QED BY <2>1 DEF ShadowInv, Trodden, Recorded
  <1>4. Covers(initialObjects, st.objects)
    BY <1>1, <1>3
  <1>5. /\ simulateRunningTransition(t) /\ program' = program
        /\ Len(transitionStack') = N + 1
        /\ \A k \in 1 .. N : transitionStack'[k] = transitionStack[k]
        /\ transitionStack'[N + 1] = [tid |-> t, pos |-> pos[t]]
    <2>1. simulateRunningTransition(t) /\ program' = program
      BY DEF Advances
    <2> QED BY <2>1, Simulated
  <1>6. irreversible' = IF isReversibleInState(Pending(t)) THEN irreversible
                        ELSE irreversible \cup {N + 1}
    <2>1. stateStackTop + 1 = N + 1
      BY <1>1 DEF stateStackTop
    <2> QED BY <1>5, <2>1 DEF simulateRunningTransition, Pending
  <1>7. N + 1 \in Nat
    BY <1>1
  <1>8. \A n \in 0 .. N + 1 : n \in 0 .. N \/ n = N + 1
    OBVIOUS
  <1>9. \A n \in 1 .. N + 1 : n \in 1 .. N \/ n = N + 1
    BY <1>1
  <1> HIDE DEF f, su, st
  <1>10. su \in Transitions
    BY <1>2, DueType DEF su
  <1>11. AsRegistered(program, initialObjects')
    BY <1>2, <1>3, AsRegisteredStep DEF su
  <1>12. Covers(initialObjects', f.objects)
    BY <1>2, <1>3, <1>4, CoversStep DEF su, f
  <1>13. \A n \in 0 .. N : Covers(initialObjects', RealAt(n).objects)
    BY <1>2, <1>3, <1>10, CoversMore
  <1>14. \A n \in 0 .. N + 1 : Covers(initialObjects', RealAt(n)'.objects)
    BY <1>2, <1>8, <1>12, <1>13
  <1>15. ASSUME NEW u \in Threads, initialObjects'.thread[u] # "none"
         PROVE  u \in known'
    <2>1. initialObjects \in ObjectStates
      BY <1>3 DEF AsRegistered
    <2>2. initialObjects'.thread[u] = IF su.type \in {"create", "join"} /\ su.obj = u
                                      THEN addNewThread(initialObjects.thread[u])
                                      ELSE initialObjects.thread[u]
      BY <1>2, <1>10, <2>1, RegisteredEffect
    <2> QED BY <1>2, <1>3, <1>15, <2>2
  <1>16. ASSUME NEW n \in 1 .. N + 1
         PROVE  isReversibleInState(Decode(transitionStack[n]))' \/ n \in irreversible'
    <2>1. CASE n \in 1 .. N
      <3>1. Decode(transitionStack[n])' = Decode(transitionStack[n])
        BY <1>5, <2>1 DEF Decode
      <3>2. irreversible \subseteq irreversible'
        BY <1>6
      <3> QED BY <1>3, <2>1, <3>1, <3>2
    <2>2. CASE n = N + 1
      <3>1. Decode(transitionStack[n])' = Pending(t)
        BY <1>5, <2>2 DEF Decode, Pending
      <3> QED BY <1>6, <2>2, <3>1
    <2> QED BY <1>9, <2>1, <2>2
  <1> QED BY <1>5, <1>11, <1>14, <1>15, <1>16 DEF Recorded

\* and so does what is searched.
LEMMA AdvanceChooses ==
    ASSUME Lawful(program), Stacks, Succession, ClocksLookBack, Scheduled, ShadowInv,
           env.PRINT_AT_TRACE_SEQ = << >>, result = "none",
           NEW t \in Threads, Advances(t), Enabled(t),
           NEW N \in Nat, N = Len(transitionStack)
    PROVE  Offered'
  <1> DEFINE st == RealAt(N)
             grown == growStateStackRunningTransition(t)
  <1>1. N \in Nat /\ Len(stateStack) = N + 1 /\ stateStack \in Seq(Items)
    BY DEF Stacks
  <1>2. /\ \A n \in 0 .. N : RealAt(n)' = RealAt(n)
        /\ CanRun(program, st, t)
    BY <1>1, AdvanceIsReal
  <1>3. /\ simulateRunningTransition(t) /\ program' = program
        /\ OnlyBacktrack(stateStack', grown)
    BY DEF Advances
  <1>4. /\ \A i \in 1 .. N : /\ stateStack'[i].done = stateStack[i].done
                             /\ stateStack'[i].enabled = stateStack[i].enabled
        /\ stateStack'[N + 1].done = stateStack[N + 1].done \cup {t}
        /\ stateStack'[N + 1].enabled = stateStack[N + 1].enabled \cup getCurrentlyEnabledThreads
        /\ stateStack'[N + 2].done = {}
    BY <1>3, ItemsAfter
  <1>5. stateStack'[N + 2].enabled = {}
    <2>1. Len(grown) = N + 2 /\ grown \in Seq(Items) /\ grown[N + 2].enabled = {}
      <3>1. /\ Len(grown) = N + 2 /\ grown \in Seq(Items)
            /\ grown[N + 2] = NewItem(threadData'[t].clock,
                                      StillAsleep(stateStack[N + 1].sleep, Pending(t)))
        BY <1>3, Grown
      <3> HIDE DEF grown
      <3> QED BY <3>1 DEF NewItem
    <2> HIDE DEF grown
    <2>2. N + 2 \in DOMAIN grown
      BY <1>1, <2>1
    <2> QED BY <1>3, <2>1, <2>2 DEF OnlyBacktrack
  <1>6. Len(transitionStack') = N + 1
    BY <1>3, Simulated
  <1>7. \A u \in Threads : u \in getCurrentlyEnabledThreads <=> CanRun(program, st, u)
    BY <1>1, EnabledThreads, ShadowIsReal
  <1>8. getCurrentlyEnabledThreads \in SUBSET Threads
    BY EnabledAreThreads
  <1>9. \A n \in 0 .. N + 1 :
           \/ n \in 0 .. N /\ (n = N \/ (n \in 0 .. N - 1 /\ n + 1 \in 1 .. N))
           \/ n = N + 1
    BY <1>1
  <1> SUFFICES ASSUME NEW n \in 0 .. N + 1
               PROVE  /\ \A u \in stateStack'[n + 1].enabled : CanRun(program', RealAt(n)', u)
                      /\ stateStack'[n + 1].done \subseteq stateStack'[n + 1].enabled
                      /\ stateStack'[n + 1].enabled # {} => stateStack'[n + 1].done # {}
    BY <1>6 DEF Offered
  <1>10. n \in 0 .. N =>
            /\ \A u \in stateStack[n + 1].enabled : CanRun(program, RealAt(n), u)
            /\ stateStack[n + 1].done \subseteq stateStack[n + 1].enabled
            /\ stateStack[n + 1].enabled # {} => stateStack[n + 1].done # {}
    BY DEF ShadowInv, Offered
  <1>11. CASE n \in 0 .. N - 1
    <2>1. n \in 0 .. N /\ n + 1 \in 1 .. N
      BY <1>1, <1>11
    <2>2. RealAt(n)' = RealAt(n)
      BY <1>2, <2>1
    <2>3. stateStack'[n + 1].done = stateStack[n + 1].done
          /\ stateStack'[n + 1].enabled = stateStack[n + 1].enabled
      BY <1>4, <2>1
    <2> QED BY <1>3, <1>10, <2>1, <2>2, <2>3
  <1>12. CASE n = N
    <2>1. n \in 0 .. N /\ RealAt(n)' = st
      BY <1>1, <1>2, <1>12
    <2>2. \A u \in stateStack[n + 1].enabled : CanRun(program, st, u)
      BY <1>10, <1>12, <2>1
    <2> HIDE DEF st
    <2>3. stateStack'[n + 1].done = stateStack[n + 1].done \cup {t}
          /\ stateStack'[n + 1].enabled = stateStack[n + 1].enabled \cup getCurrentlyEnabledThreads
      BY <1>4, <1>12
    <2>4. t \in getCurrentlyEnabledThreads
      BY <1>2, <1>7
    <2> QED BY <1>3, <1>7, <1>8, <1>10, <2>1, <2>2, <2>3, <2>4
  <1>13. CASE n = N + 1
    <2>1. n + 1 = N + 2
      BY <1>1, <1>13
    <2> QED BY <1>4, <1>5, <2>1
  <1> QED BY <1>9, <1>11, <1>12, <1>13

\* A thread that can run keeps the invariant.
LEMMA ShadowAdvance ==
    ASSUME Lawful(program), StackInv, Scheduled, env.PRINT_AT_TRACE_SEQ = << >>, ShadowInv,
           result = "none", NEW t \in Threads, Advances(t), Enabled(t),
           result' = "none" => ~ Aborts(t),
           NEW N \in Nat, N = Len(transitionStack)
    PROVE  ShadowInv'
  <1> DEFINE st == RealAt(N)
             f == Follow(program, st, t)
  <1>1. Stacks /\ Succession /\ ClocksLookBack
    BY DEF StackInv
  <1>2. /\ RealAt(N + 1)' = f /\ \A n \in 0 .. N : RealAt(n)' = RealAt(n)
        /\ CanRun(program, st, t)
        /\ objects' \in ObjectStates /\ Agree(objects', f.objects)
        /\ Sound(program, f) /\ Prepared(program, f)
        /\ ~ Aborts(t) => ~ AbortedIn(program, f)
    BY <1>1, AdvanceIsReal
  <1>3. program' = program /\ simulateRunningTransition(t)
    BY DEF Advances
  <1>4. /\ Len(transitionStack') = N + 1
        /\ \A k \in 1 .. N : transitionStack'[k] = transitionStack[k]
        /\ transitionStack'[N + 1] = [tid |-> t, pos |-> pos[t]]
    BY <1>1, <1>3, Simulated
  <1>5. \A n \in 0 .. N + 1 : n \in 0 .. N \/ n = N + 1
    BY <1>1
  <1>6. \A n \in 1 .. N + 1 : (n \in 1 .. N /\ n - 1 \in 0 .. N) \/ n = N + 1
    BY <1>1
  <1>7. N + 1 - 1 = N /\ N \in 0 .. N
    BY <1>1
  <1>8. transitionStack'[N + 1].tid = t
    BY <1>4
  <1>9. /\ \A n \in 0 .. N : Sound(program, RealAt(n)) /\ Prepared(program, RealAt(n))
                             /\ ~ AbortedIn(program, RealAt(n))
        /\ \A n \in 1 .. N : CanRun(program, RealAt(n - 1), transitionStack[n].tid)
    BY DEF ShadowInv, Trodden
  <1>10. Recorded' /\ Offered'
    BY <1>1, AdvanceRecords, AdvanceChooses
  <1> HIDE DEF f, st
  <1>11. Exact'
    BY <1>2, <1>4 DEF Exact
  <1>12. Trodden'
    <2>1. \A n \in 0 .. N + 1 : Sound(program', RealAt(n)') /\ Prepared(program', RealAt(n)')
      BY <1>2, <1>3, <1>5, <1>9
    <2>2. \A n \in 1 .. N + 1 : CanRun(program', RealAt(n - 1)', transitionStack'[n].tid)
      <3> SUFFICES ASSUME NEW n \in 1 .. N + 1
                   PROVE  CanRun(program', RealAt(n - 1)', transitionStack'[n].tid)
        OBVIOUS
      <3>1. CASE n \in 1 .. N /\ n - 1 \in 0 .. N
        <4>1. RealAt(n - 1)' = RealAt(n - 1) /\ transitionStack'[n] = transitionStack[n]
          BY <1>2, <1>4, <3>1
        <4> QED BY <1>3, <1>9, <3>1, <4>1
      <3>2. CASE n = N + 1
        <4>1. RealAt(n - 1)' = st
          BY <1>2, <1>7, <3>2 DEF st
        <4> QED BY <1>2, <1>3, <1>8, <3>2, <4>1
      <3> QED BY <1>6, <3>1, <3>2
    <2>3. ASSUME result' = "none"
          PROVE  \A n \in 0 .. N + 1 : ~ AbortedIn(program', RealAt(n)')
      BY <1>2, <1>3, <1>5, <1>9, <2>3
    <2> QED BY <1>4, <2>1, <2>2, <2>3 DEF Trodden
  <1> QED BY <1>10, <1>11, <1>12 DEF ShadowInv


-----------------------------------------------------------------------------
(* Who runs next can run                                                     *)

CanGo(o, next, t) == transitionEnabledInState(o, TransitionAt(program, t, next[t]))

\* The first enabled thread that the search chooses (MCStack::getFirstEnabledTransition) can run.
LEMMA FirstCanRun ==
    ASSUME NEW o, NEW next, NEW data, NEW threads \in SUBSET Threads, NEW item
    PROVE  LET t == getFirstEnabledTransition(o, next, data, threads, item)
           IN  t = NoThread \/ CanGo(o, next, t)
  <1> DEFINE ready == {t \in threads :
                          transitionIsEnabled(o, next, data, t) /\ t \notin item.sleep}
             t == getFirstEnabledTransition(o, next, data, threads, item)
  <1>1. ready \in SUBSET Nat
    <2>1. ready \subseteq threads
      OBVIOUS
    <2> HIDE DEF ready
    <2> QED BY <2>1, LastThreadAssumption DEF Threads
  <1>2. t = IF ready = {} THEN NoThread ELSE Min(ready)
    BY DEF getFirstEnabledTransition
  <1>3. \A u \in ready : CanGo(o, next, u)
    BY DEF transitionIsEnabled, CanGo
  <1> HIDE DEF ready, t
  <1>4. ready # {} => Min(ready) \in ready
    BY <1>1, MinIsLeast
  <1>5. t = NoThread \/ CanGo(o, next, t)
    BY <1>2, <1>3, <1>4
  <1> QED BY <1>5 DEF t

\* The thread that the round robin chooses next (MCStack::getNextFairTransition) can run.
LEMMA FairCanRun ==
    ASSUME NEW o, NEW next, NEW data, NEW threads \in SUBSET Threads, NEW item, NEW last \in Int
    PROVE  LET t == getNextFairTransition(o, next, data, threads, item, last)
           IN  t = NoThread \/ CanGo(o, next, t)
  <1> DEFINE n == Cardinality(threads)
             thread(i) == (last + 1 + i) % n
             ready == {i \in 0 .. n - 1 :
                          transitionIsEnabled(o, next, data, thread(i)) /\ i \notin item.sleep}
             t == getNextFairTransition(o, next, data, threads, item, last)
  <1>1. n \in Nat
    <2>1. IsFiniteSet(Threads)
      BY LastThreadAssumption, FS_Interval DEF Threads
    <2>2. IsFiniteSet(threads)
      BY <2>1, FS_Subset
    <2> QED BY <2>2, FS_CardinalityType
  <1>2. t = IF ready = {} THEN NoThread ELSE thread(Min(ready))
    BY DEF getNextFairTransition
  <1>3. ready \in SUBSET Nat
    BY <1>1
  <1>4. \A i \in ready : CanGo(o, next, thread(i))
    BY DEF transitionIsEnabled, CanGo
  <1> HIDE DEF ready, t, thread
  <1>5. ready # {} => Min(ready) \in ready
    BY <1>3, MinIsLeast
  <1>6. t = NoThread \/ CanGo(o, next, t)
    BY <1>2, <1>4, <1>5
  <1> QED BY <1>6 DEF t

\* Without "-t" the loop picks nobody, or a thread that can run.
LEMMA ChosenCanRun ==
    ASSUME env.PRINT_AT_TRACE_SEQ = << >>,
           NEW o, NEW next, NEW data, NEW threads \in SUBSET Threads, NEW item, NEW top, NEW end,
           NEW type, NEW t \in Threads
    PROVE  LET chosen == NextTransition(o, next, data, threads, item, top, end, type, t)
           IN  chosen = NoThread \/ CanGo(o, next, chosen)
  <1>1. t \in Int /\ t - 1 + Cardinality(threads) \in Int
    <2>1. IsFiniteSet(Threads)
      BY LastThreadAssumption, FS_Interval DEF Threads
    <2>2. IsFiniteSet(threads)
      BY <2>1, FS_Subset
    <2>3. Cardinality(threads) \in Nat
      BY <2>2, FS_CardinalityType
    <2> QED BY <2>3, LastThreadAssumption DEF Threads
  <1> DEFINE first == getFirstEnabledTransition(o, next, data, threads, item)
             goal == getNextFairTransition(o, next, data, threads, item, t - 1 + Cardinality(threads))
             fair == getNextFairTransition(o, next, data, threads, item, t)
             chosen == NextTransition(o, next, data, threads, item, top, end, type, t)
  <1>2. first = NoThread \/ CanGo(o, next, first)
    BY FirstCanRun
  <1>3. goal = NoThread \/ CanGo(o, next, goal)
    BY <1>1, FairCanRun
  <1>4. fair = NoThread \/ CanGo(o, next, fair)
    BY <1>1, FairCanRun
  <1>5. getNextTraceSeqEntry(seq.next, end) = NoThread
    BY NoEntry
  <1>6. chosen \in {NoThread, first, goal, fair}
    BY <1>5 DEF NextTransition
  <1> HIDE DEF first, goal, fair, chosen
  <1>7. chosen = NoThread \/ CanGo(o, next, chosen)
    BY <1>2, <1>3, <1>4, <1>6
  <1> QED BY <1>7 DEF chosen

\* After a transition the loop goes on with a thread that can run.
LEMMA LoopGoesOn ==
    ASSUME StackInv, Scheduled, env.PRINT_AT_TRACE_SEQ = << >>,
           NEW ascending \in BOOLEAN, RunTransition(ascending), InLoop'
    PROVE  Enabled(current)'
  <1>1. /\ current \in Threads /\ simulateRunningTransition(current)
        /\ program' = program /\ known' \in SUBSET Threads
    <2>1. current \in Threads /\ simulateRunningTransition(current) /\ program' = program
      BY RunAdvances DEF Advances
    <2>2. Stacks /\ ClocksLookBack
      BY DEF StackInv
    <2> QED BY <2>1, <2>2, Simulated
  <1>2. PICK item, top, end, type :
           LET chosen == NextTransition(objects', pos', threadData', known', item, top, end,
                                        type, current)
           IN  current' # NoThread /\ current' = chosen
    <2> DEFINE end == EndAfter(seq.enabled, seq.end)
               tr == TransitionAt(program, current, pos[current])
               chosen == NextTransition(objects', pos', threadData', known', Last(stateStack'),
                                        Len(transitionStack), end, tr.type, current)
               stop == \/ chosen = NoThread
                       \/ env.PRINT_AT_TRACE_SEQ # << >> /\ isInDeadlock(objects', pos', known')
    <2>1. \/ result' = "data race"
          \/ /\ current' = IF stop THEN NoThread ELSE chosen
             /\ phase' = IF stop THEN "ended" ELSE "running"
      BY Zenon DEF RunTransition
    <2>2. result' = "none" /\ phase' = "running"
      BY DEF InLoop
    <2>3. "data race" # "none" /\ "ended" # "running"
      OBVIOUS
    <2> HIDE DEF end, tr
    <2>4. ~ stop /\ current' = chosen
      <3> HIDE DEF chosen, stop
      <3>1. ~ (result' = "data race")
        BY Zenon, <2>2, <2>3
      <3>2. /\ current' = IF stop THEN NoThread ELSE chosen
            /\ phase' = IF stop THEN "ended" ELSE "running"
        BY Zenon, <2>1, <3>1
      <3>3. ~ stop
        BY <2>2, <3>2
      <3> QED BY <3>2, <3>3
    <2> QED BY Zenon, <2>4
  <1>3. CanGo(objects', pos', current')
    BY <1>1, <1>2, ChosenCanRun
  <1> QED BY <1>1, <1>3 DEF CanGo, Enabled, Pending

\* A result stays.
LEMMA ResultStays ==
    ASSUME [McMiniNext]_mcminiVars, result' = "none"
    PROVE  result = "none"
  <1>1. CASE SearchNext
    <2>1. ASSUME NEW ascending \in BOOLEAN, RunTransition(ascending)
          PROVE  result = "none"
      BY Zenon, <2>1 DEF RunTransition, InLoop
    <2>2. Abort \/ ExecutionLimit \/ mc_restore_initial_trace \/ ExploreBranch \/ Finish
            => result = "none"
      BY Zenon DEF Abort, ExecutionLimit, mc_restore_initial_trace, ExploreBranch, Finish, InLoop,
                   Judged
    <2> QED BY <1>1, <2>1, <2>2 DEF SearchNext
  <1>2. StartCheck \/ StartCycle \/ ContinueCycle \/ EndCycle => result = "none"
    BY Zenon DEF StartCheck, StartCycle, ContinueCycle, EndCycle, Checking
  <1>3. Judge => result = "none"
    BY Zenon DEF Judge, EndTrace
  <1>4. UNCHANGED mcminiVars => result = "none"
    BY DEF mcminiVars, searchVars
  <1> QED BY <1>1, <1>2, <1>3, <1>4 DEF McMiniNext

\* A step of the search proper finds no livelock check going on.
LEMMA SearchRunsNext ==
    ASSUME SearchInv, Careful, ShadowInv, NextCanRun, SearchNext, UNCHANGED livelock
    PROVE  NextCanRun'
  <1>1. /\ StackInv /\ Scheduled /\ Checked /\ env.PRINT_AT_TRACE_SEQ = << >>
        /\ Lawful(program)
    BY DEF SearchInv, Careful, StackInv, Stacks, Lawful
  <1>2. ASSUME phase # "ended"
        PROVE  livelock'.stage # "seed"
    <2>1. livelock.stage = "idle"
      BY <1>1, <1>2 DEF Checked
    <2> QED BY <2>1
  <1>3. ASSUME NEW ascending \in BOOLEAN, RunTransition(ascending)
        PROVE  NextCanRun'
    <2>1. phase # "ended"
      <3>1. phase = "running"
        BY Zenon, <1>3 DEF RunTransition, InLoop
      <3> QED BY <3>1
    <2>2. InLoop' => Enabled(current)'
      BY <1>1, <1>3, LoopGoesOn
    <2> QED BY <1>2, <2>1, <2>2 DEF NextCanRun
  <1>4. ASSUME result' # "none"
        PROVE  NextCanRun'
    BY <1>4 DEF NextCanRun, InLoop
  <1>5. CASE Abort \/ ExecutionLimit \/ Finish
    <2>1. result' \in {"abort", "execution limit", "trace requested", "explored"}
      BY Zenon, <1>5 DEF Abort, ExecutionLimit, Finish
    <2>2. /\ "abort" # "none" /\ "execution limit" # "none" /\ "trace requested" # "none"
          /\ "explored" # "none"
      OBVIOUS
    <2>3. result' # "none"
      BY Zenon, <2>1, <2>2
    <2> QED BY <1>4, <2>3
  <1>6. ~ mc_restore_initial_trace
    BY Zenon, <1>1 DEF mc_restore_initial_trace
  <1>7. CASE ExploreBranch
    <2>1. phase # "ended"
      <3>1. phase = "judged"
        BY Zenon, <1>7 DEF ExploreBranch, Judged
      <3> QED BY <3>1
    <2>2. Enabled(current)'
      BY <1>1, <1>7, ShadowBack
    <2> QED BY <1>2, <2>1, <2>2 DEF NextCanRun
  <1> QED BY <1>3, <1>5, <1>6, <1>7 DEF SearchNext

\* The livelock check begins a cycle with a thread that can run.
LEMMA CheckRunsNext ==
    ASSUME SearchInv, NextCanRun,
           StartCheck \/ StartCycle \/ ContinueCycle \/ EndCycle \/ Judge \/ UNCHANGED mcminiVars
    PROVE  NextCanRun'
  <1>1. Stacks /\ Checked
    BY DEF SearchInv, StackInv
  <1>2. ASSUME phase' # "running", result' = "none" /\ livelock'.stage = "seed" =>
                                      Enabled(livelock.next)'
        PROVE  NextCanRun'
    BY <1>2 DEF NextCanRun, InLoop
  <1>3. "ended" # "running" /\ "judged" # "running"
    OBVIOUS
  <1>4. CASE StartCheck
    <2> DEFINE enabled == EnabledIn(objects, pos, known)
    <2>1. /\ phase' = "ended" /\ UNCHANGED <<program, modelVars>>
          /\ \/ enabled # {} /\ livelock' = [Idle EXCEPT !.stage = "seed", !.threads = known,
                                                         !.next = Max(enabled)]
             \/ livelock' = [Idle EXCEPT !.stage = "done"]
             \/ result' = "undefined"
      BY Zenon, <1>4 DEF StartCheck, Checking
    <2>2. enabled \subseteq Threads /\ \A t \in enabled : Enabled(t)
      <3>1. known \in SUBSET Threads
        BY <1>1 DEF Stacks
      <3> QED BY <3>1 DEF EnabledIn, Enabled, Pending
    <2> HIDE DEF enabled
    <2>3. ASSUME enabled # {}
          PROVE  Max(enabled) \in enabled
      <3>1. enabled \in SUBSET Nat /\ \A k \in enabled : k <= LastThread
        BY <2>2, LastThreadAssumption DEF Threads
      <3> QED BY <2>3, <3>1, MaxIsGreatest, LastThreadAssumption
    <2>4. ASSUME result' = "none", livelock'.stage = "seed"
          PROVE  Enabled(livelock.next)'
      <3>1. enabled # {} /\ livelock'.next = Max(enabled)
        BY <2>1, <2>4 DEF Idle
      <3>2. Enabled(livelock'.next)
        BY <2>2, <2>3, <3>1
      <3>3. UNCHANGED <<program, objects, pos>>
        BY <2>1 DEF modelVars
      <3> QED BY <3>2, <3>3 DEF Enabled, Pending
    <2> QED BY <1>2, <1>3, <2>1, <2>4
  <1>5. CASE StartCycle \/ ContinueCycle
    <2>1. phase = "ended" /\ phase' = phase
      BY Zenon, <1>5 DEF StartCycle, ContinueCycle, Checking, GoalReached, RunInCheck, searchVars
    <2>2. DOMAIN livelock = DOMAIN Idle
      BY <1>1 DEF Checked
    <2>3. livelock'.stage # "seed"
      <3>1. CASE StartCycle
        BY <2>2, <3>1 DEF StartCycle, GoalReached, Idle
      <3>2. CASE ContinueCycle
        BY <2>2, <3>2 DEF ContinueCycle, Checking, GoalReached, Idle
      <3> QED BY <1>5, <3>1, <3>2
    <2> QED BY <1>2, <1>3, <2>1, <2>3
  <1>6. CASE EndCycle
    <2> DEFINE left == {t \in livelock.threads \ livelock.explored : Enabled1(objects, pos, t)}
    <2>1. /\ phase = "ended" /\ UNCHANGED searchVars
          /\ livelock' = IF left = {} THEN [livelock EXCEPT !.stage = "done", !.verdict = TRUE]
                         ELSE [livelock EXCEPT !.stage = "seed", !.next = Min(left)]
      BY <1>6 DEF EndCycle, Checking
    <2>2. DOMAIN livelock = DOMAIN Idle /\ livelock.threads \subseteq Threads
      BY <1>1 DEF Checked
    <2>3. left \subseteq Threads /\ \A t \in left : Enabled(t)
      BY <2>2 DEF Enabled1, Enabled, Pending
    <2> HIDE DEF left
    <2>4. left # {} => Min(left) \in left
      <3>1. left \in SUBSET Nat
        BY <2>3, LastThreadAssumption DEF Threads
      <3> QED BY <3>1, MinIsLeast
    <2>5. ASSUME livelock'.stage = "seed"
          PROVE  Enabled(livelock.next)'
      <3>1. left # {} /\ livelock'.next = Min(left)
        BY <2>1, <2>2, <2>5 DEF Idle
      <3>2. Enabled(livelock'.next)
        BY <2>3, <2>4, <3>1
      <3>3. UNCHANGED <<program, objects, pos>>
        BY <2>1 DEF searchVars, modelVars
      <3> QED BY <3>2, <3>3 DEF Enabled, Pending
    <2>6. phase' = "ended"
      BY <2>1 DEF searchVars
    <2> QED BY <1>2, <1>3, <2>5, <2>6
  <1>7. CASE Judge
    <2>1. phase' = "judged" /\ livelock' = Idle
      BY Zenon, <1>7 DEF Judge, EndTrace
    <2>2. livelock'.stage # "seed"
      BY <2>1 DEF Idle
    <2> QED BY <1>2, <1>3, <2>1, <2>2
  <1>8. CASE UNCHANGED mcminiVars
    BY <1>8 DEF mcminiVars, searchVars, modelVars, NextCanRun, InLoop, Enabled, Pending
  <1> QED BY <1>4, <1>5, <1>6, <1>7, <1>8


-----------------------------------------------------------------------------
(* The theorems *)

\* At first.
LEMMA ShadowBegins ==
    ASSUME McMiniInit, Careful
    PROVE  ShadowInv /\ NextCanRun
  <1>1. StackInv /\ Stacks /\ Lawful(program)
    BY InitIsFine DEF SearchInv, StackInv, Stacks, Careful, Lawful
  <1>2. /\ objects = NoObjects /\ pos = [t \in Threads |-> 0] /\ transitionStack = << >>
        /\ stateStack = <<NewItem(ZeroClock, {})>> /\ initialObjects = NoObjects
        /\ known = {Main} /\ current = Main /\ livelock = Idle
    BY Zenon DEF McMiniInit, SearchInit
  <1>3. Len(transitionStack) = 0 /\ 0 .. 0 = {0} /\ 1 .. 0 = {}
    BY <1>2
  <1>4. RealAt(0) = Start /\ Start.objects = NoObjects /\ Here = Start
    BY <1>1, <1>2, RealPath DEF Start, Here
  <1>5. Init
    BY <1>1, <1>2 DEF Init, Lawful
  <1>6. Sound(program, Start) /\ Prepared(program, Start)
    BY <1>1, <1>5, SoundInit, PreparedInit
  <1>7. NoObjects \in ObjectStates
    BY InitialObjects
  <1>8. Exact
    <2>1. Agree(NoObjects, NoObjects)
      BY DEF Agree
    <2> QED BY <1>2, <1>3, <1>4, <1>7, <2>1 DEF Exact
  <1>9. Trodden
    <2>1. ~ AbortedIn(program, Start)
      BY DEF AbortedIn, Start
    <2> QED BY <1>3, <1>4, <1>6, <2>1 DEF Trodden
  <1>10. Recorded
    <2>1. AsRegistered(program, initialObjects) /\ Covers(initialObjects, NoObjects)
      BY <1>2, AsRegisteredInit, CoversInit
    <2>2. \A u \in Threads : initialObjects.thread[u] # "none" => u \in known
      BY <1>2 DEF NoObjects
    <2> QED BY <1>3, <1>4, <2>1, <2>2 DEF Recorded
  <1>11. Offered
    <2>1. stateStack[1].enabled = {} /\ stateStack[1].done = {}
      BY <1>2 DEF NewItem
    <2> QED BY <1>3, <2>1 DEF Offered
  <1>12. Enabled(Main)
    <2>1. Pending(Main) = [tid |-> Main, type |-> "start", obj |-> NoObject]
      <3>1. pos[Main] = 0
        BY <1>2, LastThreadAssumption DEF Threads, Main
      <3>2. program \in Programs /\ Main \in Threads
        BY <1>1, LastThreadAssumption DEF Lawful, Threads, Main
      <3>3. 0 \notin DOMAIN program[Main]
        <4>1. program[Main] \in Seq(Operations)
          BY <3>2, ProgramsAssumption
        <4> QED BY <4>1
      <3> QED BY <3>1, <3>3 DEF Pending, TransitionAt
    <2>2. NoObjects.thread[Main] = "alive"
      BY LastThreadAssumption DEF NoObjects, Threads, Main
    <2> DEFINE tr == [tid |-> Main, type |-> "start", obj |-> NoObject]
    <2>3. tr.tid = Main /\ tr.type = "start" /\ tr.type \in ThreadOperationTypes
          /\ ~ UsesCondMutex(tr)
      BY DEF ThreadOperationTypes, UsesCondMutex
    <2> HIDE DEF tr
    <2>4. Operation(NoObjects, tr) = ThreadOperation(tr.type, NoObjects.thread[Subject(tr)], tr.tid)
      BY <2>3, OneFamilyOnly DEF Operation
    <2>5. Operation(NoObjects, tr).enabled
      BY <2>3, <2>4 DEF ThreadOperation, MCThreadStart
    <2>6. transitionEnabledInState(NoObjects, tr)
      BY <2>2, <2>3, <2>5 DEF transitionEnabledInState, MCThreadEnabled
    <2> QED BY <1>2, <2>1, <2>6 DEF Enabled, tr
  <1>13. NextCanRun
    BY <1>2, <1>12 DEF NextCanRun, Idle
  <1> QED BY <1>8, <1>9, <1>10, <1>11, <1>13 DEF ShadowInv

\* Every step keeps the invariant.
LEMMA ShadowStep ==
    ASSUME SearchInv, Careful, ShadowInv, NextCanRun, [McMiniNext]_mcminiVars
    PROVE  ShadowInv' /\ NextCanRun'
  <1>1. /\ StackInv /\ Scheduled /\ Checked /\ Lawful(program)
        /\ env.PRINT_AT_TRACE_SEQ = << >> /\ Len(transitionStack) \in Nat
    BY DEF SearchInv, Careful, StackInv, Stacks, Lawful
  <1>2. NextCanRun'
    <2>1. SearchNext /\ UNCHANGED livelock => NextCanRun'
      BY SearchRunsNext
    <2> QED BY <2>1, CheckRunsNext DEF McMiniNext
  <1>3. ASSUME NEW ascending \in BOOLEAN, RunTransition(ascending)
        PROVE  ShadowInv'
    <2>1. current \in Threads /\ Advances(current)
      BY <1>1, <1>3, RunAdvances
    <2>2. InLoop /\ ~ Aborts(current)
      BY Zenon, <1>3 DEF RunTransition
    <2>3. result = "none" /\ Enabled(current)
      BY <2>2 DEF NextCanRun, InLoop
    <2> QED BY <1>1, <2>1, <2>2, <2>3, ShadowAdvance
  <1>4. ASSUME NEW t \in Threads, RunsOn(t)
        PROVE  ShadowInv'
    <2>1. Advances(t) /\ result = "none"
      BY <1>1, <1>4, CheckAdvances DEF RunsOn
    <2>2. Enabled(t)
      BY <1>4 DEF RunsOn, NextCanRun, Enabled1, Enabled, Pending
    <2>3. result' = "none" => ~ Aborts(t)
      <3>1. result' = IF Aborts(t) THEN "abort" ELSE result
        BY <1>4, RunsInCheckChanges DEF RunsOn
      <3> QED BY <3>1
    <2> QED BY <1>1, <2>1, <2>2, <2>3, ShadowAdvance
  <1>5. ~ mc_restore_initial_trace
    BY Zenon, <1>1 DEF mc_restore_initial_trace
  <1>6. ASSUME ExploreBranch
        PROVE  ShadowInv'
    BY <1>1, <1>6, ShadowBack
  <1>7. ASSUME UNCHANGED <<program, env, modelVars>>
        PROVE  ShadowInv'
    <2>1. result' = "none" => result = "none"
      BY ResultStays
    <2> QED BY <1>7, <2>1, ShadowStays
  <1>8. ShadowInv'
    <2>1. \A ascending \in BOOLEAN : RunTransition(ascending) => ShadowInv'
      BY <1>3
    <2>2. \A t \in Threads : RunsOn(t) => ShadowInv'
      BY <1>4
    <2>3. \/ \E ascending \in BOOLEAN : RunTransition(ascending)
          \/ \E t \in Threads : RunsOn(t)
          \/ mc_restore_initial_trace
          \/ ExploreBranch
          \/ UNCHANGED <<program, env, modelVars>>
      BY StepShape
    <2> QED BY Zenon, <1>5, <1>6, <1>7, <2>1, <2>2, <2>3
  <1> QED BY <1>2, <1>8

\* Which program is searched, and how, never changes.
LEMMA TextStays ==
    ASSUME SearchInv, [McMiniNext]_mcminiVars
    PROVE  UNCHANGED <<program, env>>
  <1>1. ASSUME NEW ascending \in BOOLEAN, RunTransition(ascending)
        PROVE  UNCHANGED <<program, env>>
    BY Zenon, <1>1 DEF RunTransition
  <1>2. ASSUME NEW t \in Threads, RunsOn(t)
        PROVE  UNCHANGED <<program, env>>
    BY <1>2, RunsInCheckChanges DEF RunsOn
  <1>3. mc_restore_initial_trace \/ ExploreBranch => UNCHANGED <<program, env>>
    BY Zenon DEF mc_restore_initial_trace, ExploreBranch
  <1> QED BY <1>1, <1>2, <1>3, StepShape

\* So it stays one that this is about.
LEMMA CarefulStays ==
    ASSUME SearchInv, [McMiniNext]_mcminiVars
    PROVE  Careful' <=> Careful
  BY TextStays DEF Careful

\* The invariant of the searches this is about.
CarefulInv == SearchInv /\ (Careful => ShadowInv /\ NextCanRun)

\* The shadow objects are those of the program after the transitions on the stack; that
\* stack is a way the program can go; what was registered, and what cannot be undone, is
\* kept; and what is searched, or runs next, can run.
THEOREM ShadowInvariant == McMiniSpec => []CarefulInv
  <1>1. McMiniInit => CarefulInv
    BY InitIsFine, ShadowBegins DEF CarefulInv
  <1>2. CarefulInv /\ [McMiniNext]_mcminiVars => CarefulInv'
    <2> SUFFICES ASSUME CarefulInv, [McMiniNext]_mcminiVars
                 PROVE  CarefulInv'
      OBVIOUS
    <2>1. SearchInv'
      BY StepKeeps DEF CarefulInv
    <2>2. Careful' => ShadowInv' /\ NextCanRun'
      BY CarefulStays, ShadowStep DEF CarefulInv
    <2> QED BY <2>1, <2>2 DEF CarefulInv
  <1> QED BY <1>1, <1>2, PTL DEF McMiniSpec

\* The shadow objects and pending transitions that McMini has, gone back to by undoing or by
\* replaying any number of times, are those of the program after the transitions on the
\* stack (MCStack::reflectStateAtTransitionIndex).
THEOREM ModelIsReplayAlways == McMiniSpec => [](Careful => ModelIsReplay)
  <1>1. CarefulInv => (Careful => ModelIsReplay)
    <2> SUFFICES ASSUME CarefulInv, Careful
                 PROVE  ModelIsReplay
      OBVIOUS
    <2>1. /\ Stacks /\ Succession /\ Exact /\ Lawful(program)
          /\ ShadowInv /\ Len(transitionStack) \in Nat
      BY DEF CarefulInv, SearchInv, StackInv, Stacks, ShadowInv, Lawful, Careful
    <2> DEFINE real == Replay(program, transitionStack)
    <2>2. /\ real.pos = pos /\ real.objects \in ObjectStates /\ objects \in ObjectStates
          /\ Agree(objects, real.objects)
      BY <2>1, ShadowIsReal, RealPath
    <2> HIDE DEF real
    <2>3. objects.cond = real.objects.cond
      <3>1. objects.cond \in [Conds -> CondStates] /\ real.objects.cond \in [Conds -> CondStates]
        BY <2>2 DEF ObjectStates
      <3>2. \A c \in Conds : objects.cond[c] = real.objects.cond[c]
        BY <2>2 DEF Agree
      <3> QED BY <3>1, <3>2
    <2>4. objects.rwlock = real.objects.rwlock
      <3>1. /\ objects.rwlock \in [RWLocks -> RWLockStates]
            /\ real.objects.rwlock \in [RWLocks -> RWLockStates]
        BY <2>2 DEF ObjectStates
      <3>2. \A l \in RWLocks : objects.rwlock[l] = real.objects.rwlock[l]
        BY <2>2 DEF Agree
      <3> QED BY <3>1, <3>2
    <2>5. /\ \A t \in Threads : real.objects.thread[t] # "none" =>
                objects.thread[t] = real.objects.thread[t]
          /\ \A m \in Mutexes : objects.mutex[m] = real.objects.mutex[m]
          /\ \A s \in Semaphores : objects.sem[s] = real.objects.sem[s]
          /\ \A b \in Barriers : objects.barrier[b] = real.objects.barrier[b]
      BY <2>2 DEF Agree
    <2> QED BY <2>2, <2>3, <2>4, <2>5 DEF ModelIsReplay, real
  <1> QED BY <1>1, ShadowInvariant, PTL

\* The search runs only what is enabled in the program: the scheduler never waits for a thread
\* that is blocked (mc_search_dpor_branch_with_thread).
THEOREM OnlyEnabledThreadsRunAlways == McMiniSpec => [](Careful => OnlyEnabledThreadsRun)
  <1>1. CarefulInv => (Careful => OnlyEnabledThreadsRun)
    <2> SUFFICES ASSUME CarefulInv, Careful
                 PROVE  OnlyEnabledThreadsRun
      OBVIOUS
    <2>1. /\ Stacks /\ Succession /\ Scheduled /\ Offered /\ Lawful(program)
          /\ ShadowInv /\ NextCanRun /\ Len(transitionStack) \in Nat
      BY DEF CarefulInv, SearchInv, StackInv, Stacks, ShadowInv, Lawful, Careful
    <2>2. ASSUME NEW i \in DOMAIN stateStack
          PROVE  stateStack[i].done \subseteq stateStack[i].enabled
      <3>1. i - 1 \in 0 .. Len(transitionStack) /\ i - 1 + 1 = i
        BY <2>1 DEF Stacks
      <3>2. stateStack[i - 1 + 1].done \subseteq stateStack[i - 1 + 1].enabled
        BY <2>1, <3>1 DEF Offered
      <3> QED BY <3>1, <3>2
    <2>3. ASSUME InLoop
          PROVE  transitionEnabledInState(Replay(program, transitionStack).objects, Pending(current))
      <3>1. current \in Threads /\ Enabled(current)
        BY <2>1, <2>3 DEF NextCanRun, Scheduled, InLoop
      <3> DEFINE st == RealAt(Len(transitionStack))
      <3>2. CanRun(program, st, current) /\ Pending(current) = Due(program, st, current)
        BY <2>1, <3>1, ShadowIsReal
      <3>3. st = Replay(program, transitionStack)
        BY <2>1, RealPath
      <3> QED BY <3>2, <3>3 DEF CanRun
    <2> QED BY <2>2, <2>3 DEF OnlyEnabledThreadsRun
  <1> QED BY <1>1, ShadowInvariant, PTL

-----------------------------------------------------------------------------
(* No thread passes the same place twice                                     *)

\* What a transition of t makes of the threads: first it is applied, then the next one of t is
\* announced.
LEMMA ThreadsAfter ==
    ASSUME NEW prg, Lawful(prg), NEW st, Placed(prg, st), NEW t \in Threads, NEW u \in Threads
    PROVE  LET f  == Follow(prg, st, t)
               tr == Due(prg, st, t)
               su == Due(prg, f, t)
               applied == IF tr.type \in ThreadOperationTypes /\ Subject(tr) = u
                          THEN ThreadOperation(tr.type, st.objects.thread[u], tr.tid).applied
                          ELSE st.objects.thread[u]
           IN  /\ tr \in Transitions /\ tr.tid = t
               /\ f.objects.thread[u] = IF su.type \in {"create", "join"} /\ su.obj = u
                                        THEN addNewThread(applied) ELSE applied
  <1> DEFINE f == Follow(prg, st, t)
             tr == Due(prg, st, t)
             su == Due(prg, f, t)
             o == st.objects
             a == applyToState(o, tr)
             n == f.objects
  <1>1. /\ Placed(prg, st) /\ Placed(prg, f)
        /\ n = readTransition(a, su)
        /\ a \in ObjectStates /\ o \in ObjectStates
    BY FollowLeads DEF Placed
  <1>2. tr \in Transitions /\ su \in Transitions /\ tr.tid = t
    BY <1>1, DueType
  <1> HIDE DEF f, tr, su
  <1>3. /\ a.thread[u] = IF tr.type \in ThreadOperationTypes /\ Subject(tr) = u
                         THEN ThreadOperation(tr.type, o.thread[u], tr.tid).applied
                         ELSE o.thread[u]
        /\ n.thread[u] = IF su.type \in {"create", "join"} /\ su.obj = u
                         THEN addNewThread(a.thread[u]) ELSE a.thread[u]
    <2>1. a.thread[u] = IF tr.type \in ThreadOperationTypes /\ Subject(tr) = u
                        THEN ThreadOperation(tr.type, o.thread[u], tr.tid).applied
                        ELSE o.thread[u]
      BY <1>1, <1>2, AppliedEffect
    <2> HIDE DEF a, n, o
    <2>2. readTransition(a, su).thread[u] =
             IF su.type \in {"create", "join"} /\ su.obj = u
             THEN addNewThread(a.thread[u]) ELSE a.thread[u]
      BY <1>1, <1>2, AnnouncedRest
    <2> QED BY <1>1, <2>1, <2>2
  <1> HIDE DEF a, n, o
  <1> QED BY <1>2, <1>3 DEF f, tr, su, n, o

\* A thread that has finished is never started or created again (MCThreadCreate, MCThreadStart).
LEMMA DeadStays ==
    ASSUME NEW prg, Lawful(prg), NEW st, Sound(prg, st), NEW t \in Threads, CanRun(prg, st, t),
           NEW u \in Threads, st.objects.thread[u] = "dead"
    PROVE  Follow(prg, st, t).objects.thread[u] = "dead"
  <1> DEFINE tr == Due(prg, st, t)
             p == st.pos[t]
  <1>1. Placed(prg, st) /\ Created(prg, st)
    BY DEF Sound
  <1>2. tr \in Transitions /\ tr.tid = t
    BY <1>1, DueType
  <1>3. st.objects.thread[t] = "alive" /\ t # u
    BY <1>2, CanRunFacts
  <1>4. p \in Nat
    BY <1>1 DEF Placed
  <1>5. tr.type = "create" => tr.obj # u
    <2> SUFFICES ASSUME tr.type = "create", tr.obj = u
                 PROVE  FALSE
      OBVIOUS
    <2>1. /\ p \in DOMAIN prg[t]
          /\ prg[t][p].type = "create" /\ prg[t][p].obj = u
      BY DEF Due, TransitionAt
    <2>2. u # Main /\ CreatesOnce(prg)
      BY <2>1 DEF Lawful, KeepsTheRules, CreatesOnce
    <2>3. PICK v \in Threads : \E q \in DOMAIN prg[v] :
                                  prg[v][q] \in Creation(u) /\ q < st.pos[v]
      BY <1>1, <2>2 DEF Created, StartedIn
    <2>4. PICK q \in DOMAIN prg[v] : prg[v][q] \in Creation(u) /\ q < st.pos[v]
      BY <2>3
    <2>5. prg[v][q] = prg[t][p]
      <3>1. prg[v][q] \in Operations /\ prg[t][p] \in Operations
        <4>1. prg[v] \in Seq(Operations) /\ prg[t] \in Seq(Operations)
          BY ProgramsAssumption DEF Lawful
        <4> QED BY <2>1, <2>4, <4>1
      <3>2. prg[v][q].type = "create" /\ prg[v][q].obj = u
        BY <2>4 DEF Creation, On
      <3> QED BY <2>1, <3>1, <3>2, SameOperation
    <2>6. v = t /\ q = p
      BY <2>1, <2>2, <2>5 DEF CreatesOnce
    <2> QED BY <1>4, <2>4, <2>6
  <1>6. tr.type \in {"start", "finish"} => Subject(tr) = t
    BY <1>2 DEF Subject
  <1>7. tr.type \in ThreadOperationTypes /\ Subject(tr) = u =>
           ThreadOperation(tr.type, "dead", tr.tid).applied = "dead"
    BY <1>3, <1>5, <1>6 DEF Subject, ThreadOperationTypes, ThreadOperation, MCThreadJoin
  <1> HIDE DEF tr
  <1> QED BY <1>1, <1>7, ThreadsAfter DEF addNewThread, tr

\* Whoever runs moves on, or has finished.
LEMMA MovesOn ==
    ASSUME NEW prg, Lawful(prg), NEW st, Sound(prg, st), NEW t \in Threads, CanRun(prg, st, t)
    PROVE  LET f == Follow(prg, st, t)
           IN  f.pos[t] = st.pos[t] + 1 \/ f.objects.thread[t] = "dead"
  <1> DEFINE f == Follow(prg, st, t)
  <1>1. Placed(prg, st)
    BY DEF Sound
  <1>2. f.pos[t] = IF st.pos[t] = Len(prg[t]) + 1 THEN st.pos[t] ELSE st.pos[t] + 1
    BY <1>1, FollowLeads
  <1>3. CASE st.pos[t] = Len(prg[t]) + 1
    <2>1. /\ Len(prg[t]) \in Nat /\ DOMAIN prg[t] = 1 .. Len(prg[t])
          /\ Due(prg, st, t).tid = t
      BY <1>1, DueType DEF Lawful
    <2>2. Due(prg, st, t).type = "finish" /\ Due(prg, f, t).type = "finish"
      <3>1. f.pos[t] = st.pos[t] /\ st.pos[t] # 0 /\ st.pos[t] \notin DOMAIN prg[t]
        BY <1>2, <1>3, <2>1
      <3> HIDE DEF f
      <3> QED BY <3>1 DEF Due, TransitionAt
    <2>3. Subject(Due(prg, st, t)) = t
      BY <2>1, <2>2 DEF Subject
    <2>4. ThreadOperation("finish", st.objects.thread[t], t).applied = "dead"
      BY DEF ThreadOperation, MCThreadFinish
    <2>5. "finish" \in ThreadOperationTypes /\ "finish" \notin {"create", "join"}
      BY DEF ThreadOperationTypes
    <2> QED BY <1>1, <2>1, <2>2, <2>3, <2>4, <2>5, ThreadsAfter
  <1>4. CASE st.pos[t] # Len(prg[t]) + 1
    BY <1>2, <1>4
  <1> QED BY <1>3, <1>4

\* What happened once to thread t at number p cannot happen again.
Gone(st, t, p) == st.pos[t] > p \/ st.objects.thread[t] = "dead"

\* What is gone stays gone.
LEMMA GoneStays ==
    ASSUME NEW prg, Lawful(prg), NEW st, Sound(prg, st), NEW u \in Threads, CanRun(prg, st, u),
           NEW t \in Threads, NEW p \in Nat, Gone(st, t, p)
    PROVE  Gone(Follow(prg, st, u), t, p)
  <1> DEFINE f == Follow(prg, st, u)
  <1>1. Placed(prg, st)
    BY DEF Sound
  <1>2. /\ f.pos[u] = IF st.pos[u] = Len(prg[u]) + 1 THEN st.pos[u] ELSE st.pos[u] + 1
        /\ \A v \in Threads \ {u} : f.pos[v] = st.pos[v]
        /\ st.pos \in [Threads -> Nat]
    BY <1>1, FollowLeads DEF Placed
  <1>3. st.objects.thread[t] = "dead" => f.objects.thread[t] = "dead"
    BY DeadStays
  <1> HIDE DEF f
  <1>4. f.pos[t] >= st.pos[t]
    <2>1. CASE t = u
      BY <1>2, <2>1
    <2>2. CASE t # u
      BY <1>2, <2>2
    <2> QED BY <2>1, <2>2
  <1>5. f.pos[t] \in Nat /\ st.pos[t] \in Nat
    <2>1. CASE t = u
      BY <1>2, <2>1
    <2>2. CASE t # u
      BY <1>2, <2>2
    <2> QED BY <2>1, <2>2
  <1>6. Gone(f, t, p)
    BY <1>3, <1>4, <1>5 DEF Gone
  <1> QED BY <1>6 DEF f

\* No two transitions of the stack are the same: without loops, a thread comes only once to
\* each place.
LEMMA NeverTwice ==
    ASSUME Lawful(program), Stacks, Succession, Trodden, Recorded,
           NEW N \in Nat, N = Len(transitionStack), NEW m \in 1 .. N, NEW n \in 1 .. N, m < n,
           transitionStack[m].tid = transitionStack[n].tid
    PROVE  transitionStack[m].pos # transitionStack[n].pos
  <1> DEFINE t == transitionStack[m].tid
             p == transitionStack[m].pos
             bad == {k \in m .. n - 1 : ~ Gone(RealAt(k), t, p)}
  <1>1. ASSUME NEW k \in 1 .. N
        PROVE  /\ transitionStack[k].tid \in Threads
               /\ transitionStack[k].pos \in Nat
               /\ transitionStack[k].pos = RealAt(k - 1).pos[transitionStack[k].tid]
    <2>1. transitionStack[k].tid \in Threads /\ transitionStack[k].pos \in Nat
      <3>1. transitionStack[k] \in Steps
        BY DEF Stacks
      <3> QED BY <3>1 DEF Steps
    <2>2. transitionStack[k].pos = PosAfter(transitionStack[k].tid, k - 1)
      <3>1. k \in DOMAIN transitionStack
        BY DEF Stacks
      <3> QED BY <2>1, <3>1 DEF Succession
    <2>3. k - 1 \in 0 .. N
      OBVIOUS
    <2> QED BY <2>1, <2>2, <2>3, RealPositions
  <1>2. t \in Threads /\ p \in Nat /\ transitionStack[n].tid = t
    BY <1>1
  <1>3. Gone(RealAt(m), t, p)
    <2> DEFINE st == RealAt(m - 1)
    <2>1. /\ RealAt(m) = Follow(program, st, t)
          /\ Sound(program, st) /\ CanRun(program, st, t) /\ Placed(program, st)
      BY StepOfStack
    <2>2. st.pos[t] = p
      BY <1>1
    <2> HIDE DEF st, t, p
    <2>3. RealAt(m).pos[t] = p + 1 \/ RealAt(m).objects.thread[t] = "dead"
      BY <1>2, <2>1, <2>2, MovesOn
    <2> QED BY <1>2, <2>3 DEF Gone
  <1>4. bad = {}
    <2> SUFFICES ASSUME bad # {}
                 PROVE  FALSE
      OBVIOUS
    <2>1. PICK k \in bad : \A j \in bad : k <= j
      <3>1. bad \in SUBSET Nat
        OBVIOUS
      <3> HIDE DEF bad
      <3> QED BY <3>1, LeastOf
    <2>2. k # m /\ k \in m .. n - 1
      BY <1>3
    <2>3. k \in 1 .. N /\ k - 1 \in m .. n - 1 /\ ~ (k <= k - 1)
      BY <2>2
    <2>4. Gone(RealAt(k - 1), t, p)
      BY <2>1, <2>3
    <2> HIDE DEF t, p
    <2>5. Gone(RealAt(k), t, p)
      <3> DEFINE st == RealAt(k - 1)
                 u == transitionStack[k].tid
      <3>1. /\ RealAt(k) = Follow(program, st, u) /\ u \in Threads
            /\ Sound(program, st) /\ CanRun(program, st, u)
        BY <2>3, StepOfStack
      <3>2. Gone(st, t, p)
        BY <2>4
      <3> HIDE DEF st, u
      <3> QED BY <1>2, <3>1, <3>2, GoneStays
    <2> QED BY <2>1, <2>5
  <1>5. Gone(RealAt(n - 1), t, p)
    <2>1. n - 1 \in m .. n - 1
      OBVIOUS
    <2> QED BY <1>4, <2>1
  <1>6. RealAt(n - 1).objects.thread[t] = "alive"
    <2>1. /\ CanRun(program, RealAt(n - 1), t)
          /\ Placed(program, RealAt(n - 1))
      BY <1>2, StepOfStack
    <2>2. Due(program, RealAt(n - 1), t).tid = t
      BY <1>2, <2>1, DueType
    <2> QED BY <2>1, <2>2, CanRunFacts
  <1>7. RealAt(n - 1).pos[t] = transitionStack[n].pos
    BY <1>1, <1>2
  <1> QED BY <1>1, <1>2, <1>5, <1>6, <1>7 DEF Gone

-----------------------------------------------------------------------------
(* What can be reached                                                       *)

\* A program without loops has finitely many transitions.
LEMMA TransitionsAreFinite ==
    ASSUME NEW prg, Lawful(prg)
    PROVE  IsFiniteSet(TransitionsOf(prg)) /\ Cardinality(TransitionsOf(prg)) \in Nat
  <1> DEFINE of == [t \in Threads |-> {t} \X (0 .. Len(prg[t]) + 1)]
             sets == {{t} \X (0 .. Len(prg[t]) + 1) : t \in Threads}
  <1>1. of \in Surjection(Threads, sets)
    BY DEF Surjection
  <1>2. IsFiniteSet(Threads)
    BY LastThreadAssumption, FS_Interval DEF Threads
  <1>3. IsFiniteSet(sets)
    <2> HIDE DEF of, sets
    <2> QED BY <1>1, <1>2, FS_Surjection
  <1>4. ASSUME NEW t \in Threads
        PROVE  IsFiniteSet({t} \X (0 .. Len(prg[t]) + 1))
    <2>1. prg[t] \in Seq(Operations)
      BY ProgramsAssumption DEF Lawful
    <2>2. Len(prg[t]) + 1 \in Int
      BY <2>1
    <2>3. IsFiniteSet(0 .. Len(prg[t]) + 1)
      BY <2>2, FS_Interval
    <2>4. IsFiniteSet({t})
      BY FS_Singleton
    <2> QED BY <2>3, <2>4, FS_Product
  <1>5. IsFiniteSet(UNION sets)
    <2>1. \A s \in sets : IsFiniteSet(s)
      BY <1>4
    <2> HIDE DEF sets
    <2> QED BY <1>3, <2>1, FS_UNION
  <1>6. TransitionsOf(prg) = UNION sets
    BY DEF TransitionsOf
  <1> QED BY <1>5, <1>6, FS_CardinalityType

\* So no stack is longer than they are many.
LEMMA StackIsShort ==
    ASSUME Lawful(program), Stacks, Succession, Trodden, Recorded
    PROVE  Len(transitionStack) <= Cardinality(TransitionsOf(program))
  <1> DEFINE N == Len(transitionStack)
             f == [n \in 1 .. N |-> <<transitionStack[n].tid, transitionStack[n].pos>>]
  <1>1. N \in Nat
    BY DEF Stacks
  <1>2. ASSUME NEW n \in 1 .. N
        PROVE  f[n] \in TransitionsOf(program)
    <2> DEFINE t == transitionStack[n].tid
               st == RealAt(n - 1)
    <2>1. t \in Threads /\ Placed(program, st) /\ n - 1 \in 0 .. N
      BY <1>1, StepOfStack
    <2>2. transitionStack[n].pos = st.pos[t]
      <3>1. n \in DOMAIN transitionStack
        BY DEF Stacks
      <3>2. transitionStack[n].pos = PosAfter(t, n - 1)
        BY <2>1, <3>1 DEF Succession
      <3> QED BY <2>1, <3>2, RealPositions
    <2> HIDE DEF t, st
    <2>3. st.pos[t] \in 0 .. Len(program[t]) + 1
      <3>1. program[t] \in Seq(Operations)
        BY <2>1, ProgramsAssumption DEF Lawful
      <3>2. Len(program[t]) \in Nat
        BY <3>1
      <3>3. st.pos[t] \in Nat /\ st.pos[t] <= Len(program[t]) + 1
        BY <2>1 DEF Placed
      <3> QED BY <3>2, <3>3
    <2>4. <<t, st.pos[t]>> \in {t} \X (0 .. Len(program[t]) + 1)
      BY <2>3
    <2>5. f[n] = <<t, st.pos[t]>>
      BY <2>2 DEF t
    <2> HIDE DEF f
    <2> QED BY <2>1, <2>4, <2>5 DEF TransitionsOf
  <1>3. \A m, n \in 1 .. N : f[m] = f[n] => m = n
    <2> SUFFICES ASSUME NEW m \in 1 .. N, NEW n \in 1 .. N, f[m] = f[n], m # n
                 PROVE  FALSE
      OBVIOUS
    <2>1. /\ transitionStack[m].tid = transitionStack[n].tid
          /\ transitionStack[m].pos = transitionStack[n].pos
      OBVIOUS
    <2>2. m < n \/ n < m
      BY <1>1
    <2> HIDE DEF f
    <2> QED BY <1>1, <2>1, <2>2, NeverTwice
  <1>4. f \in Injection(1 .. N, TransitionsOf(program))
    BY <1>2, <1>3 DEF Injection, IsInjective
  <1>5. Cardinality(1 .. N) <= Cardinality(TransitionsOf(program))
    <2> HIDE DEF f
    <2> QED BY <1>4, TransitionsAreFinite, FS_Injection
  <1>6. Cardinality(1 .. N) = N
    <2>1. 1 \in Int /\ N \in Int
      BY <1>1
    <2>2. Cardinality(1 .. N) = IF 1 > N THEN 0 ELSE N - 1 + 1
      BY <2>1, FS_Interval
    <2> HIDE DEF N
    <2> QED BY <1>1, <2>2
  <1> QED BY <1>5, <1>6

\* What a state leads to, and f: what is reached within each of n steps (ReachableFrom).
Successors(prg, st) == {Follow(prg, st, t) : t \in {u \in Threads : CanRun(prg, st, u)}}

IsWithin(f, prg, start, n) ==
    f = [i \in 0 .. n |-> IF i = 0 THEN {start}
                          ELSE f[i - 1] \cup UNION {Successors(prg, st) : st \in f[i - 1]}]

\* The recursive function by which ReachableFrom searches exists.
LEMMA WithinExists ==
    ASSUME NEW prg, NEW start, NEW N \in Nat
    PROVE  \E f : IsWithin(f, prg, start, N)
  <1> DEFINE More(f, i) == f[i - 1] \cup UNION {Successors(prg, st) : st \in f[i - 1]}
             Entry(f, i) == IF i = 0 THEN {start} ELSE More(f, i)
             bad == {n \in Nat : ~ \E f : IsWithin(f, prg, start, n)}
  <1> SUFFICES ASSUME bad # {}
               PROVE  FALSE
    OBVIOUS
  <1>1. PICK n \in bad : \A k \in bad : n <= k
    <2>1. bad \in SUBSET Nat
      OBVIOUS
    <2> HIDE DEF bad
    <2> QED BY <2>1, LeastOf
  <1>2. n # 0
    <2>1. ASSUME n = 0
          PROVE  IsWithin([i \in 0 .. 0 |-> {start}], prg, start, n)
      BY <2>1 DEF IsWithin
    <2> QED BY <2>1
  <1>3. n \in Nat /\ n - 1 \in Nat /\ n - 1 \notin bad
    BY <1>1, <1>2
  <1>4. PICK f : IsWithin(f, prg, start, n - 1)
    BY <1>3
  <1> DEFINE g == [i \in 0 .. n |-> IF i = n THEN More(f, n) ELSE f[i]]
  <1>5. ASSUME NEW i \in 0 .. n
        PROVE  g[i] = Entry(g, i)
    <2>1. CASE i = n
      <3>1. g[i - 1] = f[n - 1]
        BY <1>2, <1>3, <2>1
      <3>2. g[i] = More(f, n)
        BY <2>1
      <3> QED BY <1>2, <2>1, <3>1, <3>2
    <2>2. CASE i # n
      <3>1. i \in 0 .. n - 1 /\ g[i] = f[i] /\ (i # 0 => g[i - 1] = f[i - 1])
        BY <1>3, <2>2
      <3>2. f[i] = Entry(f, i)
        BY <1>4, <3>1 DEF IsWithin
      <3> QED BY <3>1, <3>2
    <2> QED BY <2>1, <2>2
  <1>6. g = [i \in 0 .. n |-> g[i]]
    OBVIOUS
  <1> HIDE DEF g
  <1>7. IsWithin(g, prg, start, n)
    BY <1>5, <1>6 DEF IsWithin
  <1> QED BY <1>1, <1>7

\* What can be reached is the last value of such a function.
LEMMA ReachableIs ==
    ASSUME NEW prg, NEW start, Cardinality(TransitionsOf(prg)) \in Nat
    PROVE  \E f : /\ IsWithin(f, prg, start, Cardinality(TransitionsOf(prg)))
                  /\ ReachableFrom(prg, start) = f[Cardinality(TransitionsOf(prg))]
  <1> DEFINE K == Cardinality(TransitionsOf(prg))
             f == CHOOSE f : IsWithin(f, prg, start, K)
  <1>1. IsWithin(f, prg, start, K)
    <2>1. K \in Nat
      OBVIOUS
    <2> HIDE DEF K
    <2> QED BY <2>1, WithinExists
  <1>2. ReachableFrom(prg, start) = f[K]
    BY DEF ReachableFrom, IsWithin, Successors, CanRun, Due
  <1> QED BY <1>1, <1>2

\* The search goes where the program can go: what the transitions on the stack lead to can be
\* reached.
LEMMA StackIsReachable ==
    ASSUME Lawful(program), Stacks, Succession, Trodden, Recorded,
           NEW N \in Nat, N = Len(transitionStack)
    PROVE  RealAt(N) \in ReachableFrom(program, Start)
  <1> DEFINE K == Cardinality(TransitionsOf(program))
             At(k) == RealAt(IF k <= N THEN k ELSE N)
  <1>1. K \in Nat /\ N <= K
    BY TransitionsAreFinite, StackIsShort
  <1>2. PICK f : IsWithin(f, program, Start, K) /\ ReachableFrom(program, Start) = f[K]
    BY <1>1, ReachableIs
  <1> DEFINE bad == {k \in 0 .. K : At(k) \notin f[k]}
  <1> HIDE DEF K
  <1>3. /\ f[0] = {Start}
        /\ \A k \in 1 .. K :
              f[k] = f[k - 1] \cup UNION {Successors(program, st) : st \in f[k - 1]}
    <2>1. 0 \in 0 .. K /\ \A k \in 1 .. K : k \in 0 .. K /\ k # 0
      BY <1>1
    <2> QED BY <1>2, <2>1 DEF IsWithin
  <1>4. bad = {}
    <2> SUFFICES ASSUME bad # {}
                 PROVE  FALSE
      OBVIOUS
    <2>1. PICK k \in bad : \A j \in bad : k <= j
      <3>1. bad \in SUBSET Nat
        BY <1>1
      <3> HIDE DEF bad
      <3> QED BY <3>1, LeastOf
    <2>2. At(0) = Start
      BY RealPath
    <2>3. k # 0 /\ k \in 1 .. K /\ At(k) \notin f[k]
      <3>1. k \in 0 .. K /\ At(k) \notin f[k]
        BY <2>1
      <3>2. k # 0
        BY <1>3, <2>2, <3>1
      <3> QED BY <1>1, <3>1, <3>2
    <2>4. k - 1 \in 0 .. K /\ ~ (k <= k - 1)
      BY <1>1, <2>3
    <2>5. At(k - 1) \in f[k - 1]
      BY <2>1, <2>4
    <2>6. f[k] = f[k - 1] \cup UNION {Successors(program, st) : st \in f[k - 1]}
      BY <1>3, <2>3
    <2>7. CASE k <= N
      <3> DEFINE st == RealAt(k - 1)
                 t == transitionStack[k].tid
      <3>1. k \in 1 .. N
        BY <1>1, <2>3, <2>7
      <3>2. RealAt(k) = Follow(program, st, t) /\ CanRun(program, st, t) /\ t \in Threads
        BY <3>1, StepOfStack
      <3>3. At(k - 1) = st /\ At(k) = RealAt(k)
        BY <3>1
      <3> HIDE DEF st, t, At
      <3>4. At(k) \in Successors(program, st)
        BY <3>2, <3>3 DEF Successors
      <3> QED BY <2>3, <2>5, <2>6, <3>3, <3>4
    <2>8. CASE ~ (k <= N)
      <3>1. At(k) = At(k - 1)
        <4>1. k - 1 <= N => k - 1 = N
          BY <2>3, <2>8
        <4> QED BY <2>8, <4>1
      <3> HIDE DEF At
      <3> QED BY <2>3, <2>5, <2>6, <3>1
    <2> QED BY <2>7, <2>8
  <1>5. K \in 0 .. K /\ At(K) = RealAt(N)
    <2>1. K <= N => K = N
      BY <1>1
    <2> QED BY <1>1, <2>1
  <1>6. At(K) \in f[K]
    BY <1>4, <1>5
  <1> QED BY <1>2, <1>5, <1>6

\* A search from the beginning looks for what can be reached from there.
LEMMA ReachableFromStart ==
    ASSUME env.PRINT_AT_TRACE_SEQ = << >>
    PROVE  Reachable = ReachableFrom(program, Start)
  <1>1. Given = << >>
    BY DEF Given
  <1> QED BY <1>1, ReplayEmpty DEF Reachable

-----------------------------------------------------------------------------
(* No false alarms                                                           *)

\* Only accesses to global variables race (MCTransition::isRacingWith).
LEMMA RacingTypes ==
    ASSUME NEW t1 \in Transitions, NEW t2 \in Transitions, isRacingWith(t1, t2)
    PROVE  t1.type \in GlobalOperationTypes /\ t2.type \in GlobalOperationTypes
  <1>1. \A type :
           /\ type \in ThreadOperationTypes => Class(type) = ThreadClass(type)
           /\ type \in MutexOperationTypes => Class(type) = MutexClass(type)
           /\ type \in SemOperationTypes => Class(type) = SemClass(type)
           /\ type \in CondOperationTypes => Class(type) = CondClass(type)
           /\ type \in BarrierOperationTypes => Class(type) = BarrierClass(type)
           /\ type \in MCRWLockTypes => Class(type) = RWLockClass(type)
           /\ type \in MCRWWLockTypes => Class(type) = RWWLockClass(type)
           /\ type \in MiscOperationTypes => Class(type) = MiscClass(type)
    BY ClassOfItsKind
  <1>2. \A type \in ThreadOperationTypes : Class(type).racing = {}
    BY <1>1 DEF ThreadOperationTypes, ThreadClass, MCTransition, DependsOn,
               MCThreadStartClass, MCThreadCreateClass, MCThreadJoinClass,
               MCThreadFinishClass
  <1>3. \A type \in MutexOperationTypes : Class(type).racing = {}
    BY <1>1 DEF MutexOperationTypes, MutexClass, MCTransition, DependsOn, MCMutexInitClass,
               MCMutexLockClass, MCMutexTrylockClass, MCMutexUnlockClass
  <1>4. \A type \in SemOperationTypes : Class(type).racing = {}
    BY <1>1 DEF SemOperationTypes, SemClass, MCTransition, DependsOn, MCSemInitClass,
               MCSemEnqueueClass, MCSemWaitClass, MCSemPostClass
  <1>5. \A type \in CondOperationTypes : Class(type).racing = {}
    BY <1>1 DEF CondOperationTypes, CondClass, MCTransition, DependsOn, MCCondInitClass,
               MCCondEnqueueClass, MCCondWaitClass, MCCondSignalClass, MCCondBroadcastClass
  <1>6. \A type \in BarrierOperationTypes : Class(type).racing = {}
    BY <1>1 DEF BarrierOperationTypes, BarrierClass, MCTransition, DependsOn,
               MCBarrierInitClass, MCBarrierWaitClass
  <1>7. \A type \in MCRWLockTypes : Class(type).racing = {}
    BY <1>1 DEF MCRWLockTypes, RWLockClass, MCTransition, DependsOn, MCRWLockInitClass,
               MCRWLockReaderEnqueueClass, MCRWLockWriterEnqueueClass,
               MCRWLockReaderLockClass, MCRWLockWriterLockClass, MCRWLockUnlockClass
  <1>8. \A type \in MCRWWLockTypes : Class(type).racing = {}
    BY <1>1 DEF MCRWWLockTypes, RWWLockClass, MCTransition, DependsOn, MCRWWLockInitClass,
               MCRWWLockReaderEnqueueClass, MCRWWLockWriter1EnqueueClass,
               MCRWWLockWriter2EnqueueClass, MCRWWLockReaderLockClass,
               MCRWWLockWriter1LockClass, MCRWWLockWriter2LockClass, MCRWWLockUnlockClass
  <1>9. ASSUME NEW type \in MiscOperationTypes
        PROVE  /\ Class(type).racing \subseteq GlobalOperationTypes
               /\ Class(type).racing # {} => type \in GlobalOperationTypes
    <2>1. Class(type) = MiscClass(type)
      BY <1>1
    <2>2. CASE type \in GlobalOperationTypes
      <3>1. MiscClass(type) \in {MCGlobalVariableReadClass, MCGlobalVariableWriteClass}
        BY <2>2 DEF GlobalOperationTypes, MiscClass
      <3>2. /\ MCGlobalVariableReadClass.racing = {"global_write"}
            /\ MCGlobalVariableWriteClass.racing = GlobalOperationTypes
        BY DEF MCGlobalVariableReadClass, MCGlobalVariableWriteClass, DependsOn, MCTransition
      <3>3. "global_write" \in GlobalOperationTypes
        BY DEF GlobalOperationTypes
      <3> QED BY <2>1, <2>2, <3>1, <3>2, <3>3
    <2>3. CASE type \notin GlobalOperationTypes
      <3>1. MiscClass(type) \in {MCExitTransitionClass, MCAbortTransitionClass,
                                 MCProgressTransitionClass}
        BY <2>3 DEF MiscOperationTypes, GlobalOperationTypes, MiscClass
      <3>2. /\ MCExitTransitionClass.racing = {}
            /\ MCAbortTransitionClass.racing = {}
            /\ MCProgressTransitionClass.racing = {}
        BY DEF MCExitTransitionClass, MCAbortTransitionClass, MCProgressTransitionClass,
               MCTransition
      <3> QED BY <2>1, <3>1, <3>2
    <2> QED BY <2>2, <2>3
  <1>10. ASSUME NEW tr \in Transitions
         PROVE  /\ Class(tr.type).racing \subseteq GlobalOperationTypes
                /\ Class(tr.type).racing # {} => tr.type \in GlobalOperationTypes
    BY <1>2, <1>3, <1>4, <1>5, <1>6, <1>7, <1>8, <1>9, OneFamily
  <1> QED BY <1>10 DEF isRacingWith

\* Two threads that McMini sees racing are there in the program, and race.
LEMMA RaceIsReal ==
    ASSUME Lawful(program), Stacks, Succession, ShadowInv,
           NEW N \in Nat, N = Len(transitionStack), NEW t \in Threads, NEW u \in Threads,
           t # u, isRacingWith(Pending(t), Pending(u))
    PROVE  Racing(RealAt(N))
  <1> DEFINE st == RealAt(N)
  <1>1. /\ Sound(program, st)
        /\ Pending(t) = Due(program, st, t) /\ Pending(t) \in Transitions
        /\ Pending(u) = Due(program, st, u) /\ Pending(u) \in Transitions
    BY ShadowIsReal
  <1> HIDE DEF st
  <1>2. Pending(t).type \in GlobalOperationTypes /\ Pending(u).type \in GlobalOperationTypes
    BY <1>1, RacingTypes
  <1>3. ASSUME NEW v \in Threads, Due(program, st, v).type \in GlobalOperationTypes
        PROVE  v \in Existing(st)
    <2>1. st.pos[v] # 0
      <3>1. Placed(program, st)
        BY <1>1 DEF Sound
      <3>2. st.pos[v] = 0 => Due(program, st, v).type = "start"
        BY <3>1, DueType
      <3> QED BY <1>3, <3>2 DEF GlobalOperationTypes
    <2>2. StartedIn(st, v)
      BY <1>1, <2>1 DEF Sound, Created
    <2> QED BY <2>2 DEF StartedIn, Existing
  <1>4. t \in Existing(st) /\ u \in Existing(st)
    BY <1>1, <1>2, <1>3
  <1>5. isRacingWith(TransitionAt(program, t, st.pos[t]), TransitionAt(program, u, st.pos[u]))
    BY <1>1 DEF Due
  <1> QED BY <1>4, <1>5 DEF Racing, st

\* When McMini sees no thread that can go on or end the program, no thread of the program can.
LEMMA VerdictIsReal ==
    ASSUME Lawful(program), Stacks, Succession, ShadowInv,
           env.PRINT_AT_TRACE_SEQ = << >>, isInDeadlock(objects, pos, known)
    PROVE  pos \in Deadlocks
  <1> DEFINE N == Len(transitionStack)
             st == RealAt(N)
  <1>1. N \in Nat /\ known \in SUBSET Threads
    BY DEF Stacks
  <1>2. /\ st.pos = pos
        /\ \A t \in Threads : /\ Pending(t) = Due(program, st, t)
                              /\ Pending(t).tid = t
                              /\ Enabled(t) <=> CanRun(program, st, t)
    BY <1>1, ShadowIsReal
  <1>3. st \in Reachable
    BY <1>1, StackIsReachable, ReachableFromStart DEF ShadowInv
  <1>4. Existing(st) \subseteq known
    <2>1. N \in 0 .. N
      BY <1>1
    <2>2. Covers(initialObjects, st.objects)
      BY <2>1 DEF ShadowInv, Recorded
    <2>3. \A u \in Threads : initialObjects.thread[u] # "none" => u \in known
      BY DEF ShadowInv, Recorded
    <2> HIDE DEF st
    <2> QED BY <2>2, <2>3 DEF Covers, Existing
  <1> HIDE DEF st
  <1>5. ASSUME NEW t \in Existing(st)
        PROVE  LET tr == TransitionAt(program, t, st.pos[t])
               IN  /\ ~ transitionEnabledInState(st.objects, tr)
                   /\ tr.type # "exit"
                   /\ ~ (t = Main /\ tr.type = "finish")
    <2> DEFINE tr == Due(program, st, t)
    <2>1. t \in Threads /\ t \in known
      BY <1>4 DEF Existing
    <2>2. /\ TransitionAt(program, t, pos[t]) = tr
          /\ tr.tid = t
      BY <1>2, <2>1 DEF Pending
    <2>3. ~ ensuresDeadlockIsImpossible(tr) /\ ~ Enabled(t)
      BY <2>1, <2>2 DEF isInDeadlock, Enabled, Pending
    <2>4. ~ CanRun(program, st, t)
      BY <1>2, <2>1, <2>3
    <2>5. tr.type # "exit"
      <3>1. Class("exit").endsProgram = Threads
        <4>1. "exit" \in MiscOperationTypes
          BY DEF MiscOperationTypes
        <4>2. Class("exit") = MCExitTransitionClass
          BY <4>1, ClassOfItsKind DEF MiscClass
        <4> QED BY <4>2 DEF MCExitTransitionClass, MCTransition
      <3> HIDE DEF tr
      <3> QED BY <2>1, <2>2, <2>3, <3>1 DEF ensuresDeadlockIsImpossible
    <2>6. ~ (t = Main /\ tr.type = "finish")
      <3>1. Class("finish").endsProgram = {Main}
        <4>1. "finish" \in ThreadOperationTypes
          BY DEF ThreadOperationTypes
        <4>2. Class("finish") = MCThreadFinishClass
          BY <4>1, ClassOfItsKind DEF ThreadClass
        <4> QED BY <4>2 DEF MCThreadFinishClass, MCTransition
      <3> HIDE DEF tr
      <3> QED BY <2>1, <2>2, <2>3, <3>1 DEF ensuresDeadlockIsImpossible
    <2> QED BY <2>4, <2>5, <2>6 DEF CanRun, Due
  <1> QED BY <1>2, <1>3, <1>5 DEF Deadlocks

\* A thread has come to an access that races with another one's.
RacePending ==
    \E t \in Threads : \E u \in known : u # t /\ isRacingWith(Pending(u), Pending(t))

\* The program can come to where two threads race.
RaceReachable == \E st \in Reachable : Racing(st)

\* What was reported is so.
ReportsReal ==
    /\ deadlocks \subseteq Deadlocks
    /\ races # {} => RaceReachable

\* A report is made where a trace is judged, or of the thread that has just run.
LEMMA ReportStep ==
    ASSUME SearchInv, [McMiniNext]_mcminiVars
    PROVE  /\ deadlocks' = deadlocks
              \/ (isInDeadlock(objects, pos, known) /\ deadlocks' = deadlocks \cup {pos})
           /\ races' = races \/ RacePending'
  <1>1. ASSUME NEW ascending \in BOOLEAN, RunTransition(ascending)
        PROVE  deadlocks' = deadlocks /\ (races' = races \/ RacePending')
    <2> DEFINE race == hasADataRaceWithNewTransition(pos', known', current)
    <2>1. /\ deadlocks' = deadlocks /\ program' = program
          /\ races' = IF race THEN races \cup {current} ELSE races
          /\ InLoop
      BY Zenon, <1>1 DEF RunTransition
    <2>2. PICK t \in Threads : t = current
      BY <2>1 DEF SearchInv, Scheduled, InLoop
    <2>3. \A u : Pending(u)' = TransitionAt(program, u, pos'[u])
      BY <2>1 DEF Pending
    <2>4. ASSUME race
          PROVE  RacePending'
      <3>1. PICK u \in known' \ {t} :
                    isRacingWith(TransitionAt(program, u, pos'[u]),
                                 TransitionAt(program, t, pos'[t]))
        BY Zenon, <2>2, <2>4 DEF hasADataRaceWithNewTransition
      <3>2. u \in known' /\ u # t /\ isRacingWith(Pending(u)', Pending(t)')
        BY Zenon, <2>3, <3>1
      <3> QED BY Zenon, <2>2, <3>2 DEF RacePending
    <2> HIDE DEF race
    <2> QED BY <2>1, <2>4
  <1>2. ASSUME Abort \/ ExecutionLimit \/ mc_restore_initial_trace \/ ExploreBranch \/ Finish
        PROVE  deadlocks' = deadlocks /\ races' = races
    BY Zenon, <1>2 DEF Abort, ExecutionLimit, mc_restore_initial_trace, ExploreBranch, Finish
  <1>3. ASSUME StartCheck
        PROVE  deadlocks' = deadlocks /\ races' = races
    BY Zenon, <1>3 DEF StartCheck
  <1>4. ASSUME StartCycle \/ ContinueCycle \/ EndCycle
        PROVE  deadlocks' = deadlocks /\ races' = races
    BY Zenon, <1>4 DEF StartCycle, ContinueCycle, EndCycle, GoalReached, RunInCheck, searchVars
  <1>5. ASSUME Judge
        PROVE  /\ races' = races
               /\ deadlocks' = deadlocks
                  \/ (isInDeadlock(objects, pos, known) /\ deadlocks' = deadlocks \cup {pos})
    <2>1. /\ races' = races
          /\ deadlocks' = IF isInDeadlock(objects, pos, known) THEN deadlocks \cup {pos}
                          ELSE deadlocks
      BY Zenon, <1>5 DEF Judge, EndTrace
    <2> QED BY <2>1
  <1>6. ASSUME UNCHANGED mcminiVars
        PROVE  deadlocks' = deadlocks /\ races' = races
    BY <1>6 DEF mcminiVars, searchVars
  <1>7. ASSUME SearchNext
        PROVE  deadlocks' = deadlocks /\ (races' = races \/ RacePending')
    BY Zenon, <1>1, <1>2, <1>7 DEF SearchNext
  <1> QED BY Zenon, <1>3, <1>4, <1>5, <1>6, <1>7 DEF McMiniNext

\* Which program is searched never changes, nor what it can come to.
LEMMA OutcomesStay ==
    ASSUME SearchInv, [McMiniNext]_mcminiVars
    PROVE  Deadlocks' = Deadlocks /\ (RaceReachable' <=> RaceReachable)
  <1>1. UNCHANGED <<program, env>>
    BY TextStays
  <1>2. Given' = Given
    BY <1>1 DEF Given
  <1>3. Reachable' = Reachable
    BY <1>1, <1>2 DEF Reachable
  <1>4. Deadlocks' = Deadlocks
    BY <1>1, <1>3 DEF Deadlocks
  <1>5. \A st : Racing(st)' <=> Racing(st)
    BY <1>1 DEF Racing
  <1> QED BY <1>3, <1>4, <1>5 DEF RaceReachable

\* McMini cries wolf of no deadlock and of no race: each deadlock it noted, and some race if it
\* noted one, can happen in the program.
THEOREM NoFalseAlarms == McMiniSpec => [](Careful => ReportsReal)
  <1> DEFINE Real == Careful => ReportsReal
             Spotted == CarefulInv /\ Careful /\ RacePending => RaceReachable
  <1>1. McMiniInit => Real
    <2>1. McMiniInit => deadlocks = {} /\ races = {}
      BY DEF McMiniInit, SearchInit
    <2> QED BY <2>1 DEF ReportsReal
  <1>2. Spotted
    <2> SUFFICES ASSUME CarefulInv, Careful, RacePending
                 PROVE  RaceReachable
      OBVIOUS
    <2>1. /\ Lawful(program) /\ Stacks /\ Succession /\ ShadowInv
          /\ env.PRINT_AT_TRACE_SEQ = << >> /\ Len(transitionStack) \in Nat
      BY DEF CarefulInv, SearchInv, StackInv, Stacks, Lawful, Careful
    <2> DEFINE st == RealAt(Len(transitionStack))
    <2>2. st \in Reachable
      BY <2>1, StackIsReachable, ReachableFromStart DEF ShadowInv
    <2>3. Racing(st)
      <3>1. PICK t \in Threads : \E u \in known : u # t /\ isRacingWith(Pending(u), Pending(t))
        BY Zenon DEF RacePending
      <3>2. PICK u \in known : u # t /\ isRacingWith(Pending(u), Pending(t))
        BY <3>1
      <3>3. u \in Threads
        BY <2>1, <3>2 DEF Stacks
      <3> HIDE DEF st
      <3> QED BY <2>1, <3>2, <3>3, RaceIsReal DEF st
    <2> QED BY <2>2, <2>3 DEF RaceReachable
  <1>3. Real /\ CarefulInv /\ CarefulInv' /\ Spotted' /\ [McMiniNext]_mcminiVars => Real'
    <2> SUFFICES ASSUME Real, CarefulInv, CarefulInv', Spotted', [McMiniNext]_mcminiVars, Careful'
                 PROVE  ReportsReal'
      OBVIOUS
    <2>1. SearchInv /\ Careful /\ ReportsReal
      BY CarefulStays DEF CarefulInv
    <2>2. Deadlocks' = Deadlocks /\ (RaceReachable' <=> RaceReachable)
      BY <2>1, OutcomesStay
    <2>3. /\ deadlocks' = deadlocks
             \/ (isInDeadlock(objects, pos, known) /\ deadlocks' = deadlocks \cup {pos})
          /\ races' = races \/ RacePending'
      BY <2>1, ReportStep
    <2>4. deadlocks' \subseteq Deadlocks
      <3>1. isInDeadlock(objects, pos, known) => pos \in Deadlocks
        <4>1. /\ Lawful(program) /\ Stacks /\ Succession /\ ShadowInv
              /\ env.PRINT_AT_TRACE_SEQ = << >>
          BY <2>1 DEF CarefulInv, SearchInv, StackInv, Stacks, Lawful, Careful
        <4> QED BY <4>1, VerdictIsReal
      <3> QED BY <2>1, <2>3, <3>1 DEF ReportsReal
    <2>5. RacePending' => RaceReachable'
      OBVIOUS
    <2> QED BY <2>1, <2>2, <2>3, <2>4, <2>5 DEF ReportsReal
  <1> QED BY <1>1, <1>2, <1>3, ShadowInvariant, PTL DEF McMiniSpec

\* A search that has ended has reported only deadlocks the program can come to, where no thread
\* can go on and none ends the program (MCStack::isInDeadlock), and a data race only if
\* it can come to where two threads race (MCStack::hasADataRaceWithNewTransition).
THEOREM ReportsAreRealAlways == McMiniSpec => [](Careful => ReportsAreReal)
  <1>1. (Careful => ReportsReal) => (Careful => ReportsAreReal)
    BY DEF ReportsReal, RaceReachable, ReportsAreReal, DeadlocksAreReal, RacesAreReal
  <1> QED BY <1>1, NoFalseAlarms, PTL

====
