---- MODULE DporSearch_proofs ----
(***************************************************************************)
(* McMini's bookkeeping is right for every program, every command line and *)
(* every number of threads, through any number of backtracks: what the     *)
(* stacks, the depths and the pending transitions say of each other        *)
(* (DepthCountsStack), what is put into a backtrack set                    *)
(* (BacktrackSetsAreUseful), why a thread sleeps (SleepIsJustified), what  *)
(* a livelock verdict rests on (EverybodyHadATurn), and that the clocks    *)
(* are the happens-before relation (ClocksAreHappensBefore).               *)
(*                                                                         *)
(* Neither the shadow objects nor what the search finds are the subject    *)
(* here.                                                                   *)
(***************************************************************************)
EXTENDS LivelockCheck, FiniteSetTheorems, WellFoundedInduction, TLAPS

-----------------------------------------------------------------------------
(* The inductive invariant *)

Steps == [tid : Threads, pos : Nat]

Items == [backtrack : SUBSET Threads, done : SUBSET Threads, sleep : SUBSET Threads,
          enabled : SUBSET Threads, clock : [Threads -> Nat]]

\* What is known of the variables, the shadow objects apart.
Stacks ==
    /\ program \in Programs
    /\ env.PRINT_AT_TRACE_SEQ \in Seq(Threads)
    /\ pos \in [Threads -> Nat]
    /\ transitionStack \in Seq(Steps)
    /\ stateStack \in Seq(Items)
    /\ Len(stateStack) = Len(transitionStack) + 1
    /\ known \in SUBSET Threads
    /\ Main \in known
    /\ threadData \in [Threads -> [depth : Int, clock : [Threads -> Nat]]]

\* A clock knows of no transition that comes later.
ClocksLookBack ==
    \A i \in DOMAIN stateStack : \A t \in Threads : stateStack[i].clock[t] <= i

\* The depth of every thread, of those not known yet too.
Depths == \A t \in Threads : threadData[t].depth = DepthOf(t, 1, Len(transitionStack))

\* Each transition on the stack, and each pending one, is the one that follows its
\* thread's last.
Succession ==
    /\ \A t \in Threads : pos[t] = PosAfter(t, Len(transitionStack))
    /\ \A i \in DOMAIN transitionStack : \A t \in Threads :
          transitionStack[i].tid = t => transitionStack[i].pos = PosAfter(t, i - 1)

\* All of this is about the stacks; the two loops that run threads have to keep it.
StackInv ==
    Stacks /\ ClocksLookBack /\ Depths /\ Succession /\ BacktrackSetsAreUseful /\ SleepIsJustified

\* Who runs next is a thread.
Scheduled ==
    /\ seq \in [next : Nat, enabled : Nat, end : Nat]
    /\ traceId \in Nat
    /\ phase = "running" => current \in Threads

\* The livelock check goes on at the end of a trace, with threads it knows; in a cycle
\* nobody is at a GOAL().
Checked ==
    /\ DOMAIN livelock = DOMAIN Idle
    /\ livelock.threads \subseteq Threads
    /\ livelock.stage # "idle" => phase = "ended"
    /\ livelock.stage \in {"seed", "cycle"} => livelock.next \in Threads
    /\ livelock.start \in Nat
    /\ livelock.verdict \in BOOLEAN
    /\ livelock.verdict => livelock.stage = "done"
    /\ livelock.stage = "cycle" =>
          /\ livelock.start # 0
          /\ \A k \in livelock.start .. Len(transitionStack) :
                Decode(transitionStack[k]).type # "progress"

SearchInv == StackInv /\ Scheduled /\ Checked /\ EverybodyHadATurn

-----------------------------------------------------------------------------
(* Least and greatest *)

LEMMA LeastOf ==
    ASSUME NEW S \in SUBSET Nat, S # {}
    PROVE  \E m \in S : \A k \in S : m <= k
  <1>1. \E x \in S : \A y \in S : ~ (<<y, x>> \in OpToRel(<, Nat))
    BY NatLessThanWellFounded, WFMin
  <1>2. \A x \in Nat : \A y \in Nat : ~ (<<y, x>> \in OpToRel(<, Nat)) => x <= y
    BY DEF OpToRel
  <1> QED BY <1>1, <1>2

\* The least upper bound is in the set.
LEMMA GreatestOf ==
    ASSUME NEW S \in SUBSET Nat, S # {}, NEW n \in Nat, \A k \in S : k <= n
    PROVE  \E m \in S : \A k \in S : k <= m
  <1> DEFINE bounds == {b \in Nat : \A k \in S : k <= b}
  <1>1. PICK b \in bounds : \A c \in bounds : b <= c
    <2>1. bounds \in SUBSET Nat /\ n \in bounds
      OBVIOUS
    <2> HIDE DEF bounds
    <2> QED BY <2>1, LeastOf
  <1>2. b \in S
    <2> SUFFICES ASSUME b \notin S
                 PROVE  FALSE
      OBVIOUS
    <2>1. \A k \in S : k < b
      BY <1>1
    <2>2. PICK k \in S : TRUE
      OBVIOUS
    <2>3. b > 0 /\ b - 1 \in bounds
      BY <2>1, <2>2
    <2> QED BY <1>1, <2>3
  <1> QED BY <1>1, <1>2

LEMMA MinIsLeast ==
    ASSUME NEW S \in SUBSET Nat, S # {}
    PROVE  Min(S) \in S /\ \A k \in S : Min(S) <= k
  BY LeastOf DEF Min

LEMMA MaxIsGreatest ==
    ASSUME NEW S \in SUBSET Nat, S # {}, NEW n \in Nat, \A k \in S : k <= n
    PROVE  Max(S) \in S /\ \A k \in S : k <= Max(S)
  <1>1. \E m \in S : \A k \in S : m >= k
    BY GreatestOf
  <1> QED BY <1>1 DEF Max

-----------------------------------------------------------------------------
(* What transitions a stack has of a thread *)

\* The first transitions of a stack tell where a thread is after them.
LEMMA PosAfterStays ==
    ASSUME NEW k \in Nat, k <= Len(transitionStack),
           \A i \in 1 .. k : transitionStack'[i] = transitionStack[i],
           program' = program,
           NEW u, NEW m \in 0 .. k
    PROVE  PosAfter(u, m)' = PosAfter(u, m)
  <1> DEFINE runs == Runs(u, 1, m)
  <1>1. Runs(u, 1, m)' = runs
    BY DEF Runs
  <1>2. ASSUME runs # {}
        PROVE  Max(runs) \in 1 .. k
    <2>1. runs \in SUBSET Nat /\ runs \subseteq 1 .. k /\ \A i \in runs : i <= k
      BY DEF Runs
    <2> HIDE DEF runs
    <2>2. Max(runs) \in runs
      BY <1>2, <2>1, MaxIsGreatest
    <2> QED BY <2>1, <2>2
  <1>3. runs # {} => transitionStack'[Max(runs)] = transitionStack[Max(runs)]
    BY <1>2
  <1> QED BY <1>1, <1>3 DEF PosAfter

\* A thread that does not run in between is where it was.
LEMMA PosAfterSkips ==
    ASSUME NEW m \in Nat, NEW k \in Nat, m <= k, NEW u, Runs(u, m + 1, k) = {}
    PROVE  PosAfter(u, k) = PosAfter(u, m)
  <1>1. Runs(u, 1, k) = Runs(u, 1, m)
    BY DEF Runs
  <1> QED BY <1>1 DEF PosAfter

\* What ran up to a point and what ran after it.
LEMMA DepthSplits ==
    ASSUME NEW t, NEW n \in Nat, NEW j \in 0 .. n
    PROVE  /\ DepthOf(t, 1, j) \in Nat
           /\ DepthOf(t, j + 1, n) \in Nat
           /\ DepthOf(t, 1, n) = DepthOf(t, 1, j) + DepthOf(t, j + 1, n)
  <1> DEFINE Counts(i) == /\ transitionStack[i].tid = t
                          /\ countsAgainstThreadExecutionDepth(Decode(transitionStack[i]))
             A == {i \in 1 .. j : Counts(i)}
             B == {i \in j + 1 .. n : Counts(i)}
             C == {i \in 1 .. n : Counts(i)}
  <1>1. IsFiniteSet(A) /\ IsFiniteSet(B)
    <2>1. /\ IsFiniteSet(1 .. j) /\ A \in SUBSET (1 .. j)
          /\ IsFiniteSet(j + 1 .. n) /\ B \in SUBSET (j + 1 .. n)
      BY FS_Interval
    <2> HIDE DEF A, B
    <2> QED BY <2>1, FS_Subset
  <1>2. C = A \cup B /\ A \cap B = {}
    OBVIOUS
  <1>3. /\ Cardinality(A) \in Nat
        /\ Cardinality(B) \in Nat
        /\ Cardinality(C) = Cardinality(A) + Cardinality(B)
    <2> HIDE DEF A, B, C
    <2>1. Cardinality(A \cup B) = Cardinality(A) + Cardinality(B) - Cardinality(A \cap B)
      BY <1>1, FS_Union
    <2>2. Cardinality(A \cap B) = 0
      BY <1>2, FS_EmptySet
    <2>3. Cardinality(A) \in Nat /\ Cardinality(B) \in Nat
      BY <1>1, FS_CardinalityType
    <2> QED BY <1>2, <2>1, <2>2, <2>3
  <1> QED BY <1>3 DEF DepthOf

LEMMA DepthStays ==
    ASSUME NEW k \in Nat,
           \A i \in 1 .. k : transitionStack'[i] = transitionStack[i],
           program' = program,
           NEW u
    PROVE  DepthOf(u, 1, k)' = DepthOf(u, 1, k)
  BY DEF DepthOf, Decode

-----------------------------------------------------------------------------
(* What is added to backtrack sets *)

\* Only backtrack sets differ: by threads that were enabled, do not sleep and were not
\* searched; and not that of the very first state.
OnlyBacktrack(new, old) ==
    /\ new \in Seq(Items)
    /\ Len(new) = Len(old)
    /\ \A i \in DOMAIN old :
          /\ new[i].done = old[i].done
          /\ new[i].sleep = old[i].sleep
          /\ new[i].enabled = old[i].enabled
          /\ new[i].clock = old[i].clock
          /\ new[i].backtrack \subseteq old[i].backtrack \cup (Candidates(old[i]) \ old[i].done)
    /\ new[1].backtrack = old[1].backtrack

LEMMA OnlyBacktrackTwice ==
    ASSUME NEW a, NEW b, NEW c \in Seq(Items), Len(c) > 0,
           OnlyBacktrack(a, b), OnlyBacktrack(b, c)
    PROVE  OnlyBacktrack(a, c)
  <1>1. DOMAIN b = DOMAIN c
    BY DEF OnlyBacktrack
  <1> QED BY <1>1 DEF OnlyBacktrack, Candidates

LEMMA OnlyBacktrackOnce ==
    ASSUME NEW states \in Seq(Items), NEW k \in DOMAIN states,
           NEW B \in SUBSET (Candidates(states[k]) \ states[k].done), k = 1 => B = {}
    PROVE  OnlyBacktrack([states EXCEPT ![k].backtrack = @ \cup B], states)
  <1> DEFINE item == [states[k] EXCEPT !.backtrack = @ \cup B]
             new == [states EXCEPT ![k] = item]
  <1>1. states[k] \in Items
    OBVIOUS
  <1>2. B \in SUBSET Threads
    BY <1>1 DEF Candidates, Items
  <1>3. item \in Items
    BY <1>1, <1>2 DEF Items
  <1>4. /\ item.done = states[k].done /\ item.sleep = states[k].sleep
        /\ item.enabled = states[k].enabled /\ item.clock = states[k].clock
        /\ item.backtrack = states[k].backtrack \cup B
    BY <1>1 DEF Items
  <1>5. new \in Seq(Items) /\ Len(new) = Len(states)
    BY <1>3
  <1>6. /\ new[k] = item
        /\ \A i \in DOMAIN states \ {k} : new[i] = states[i]
        /\ 1 \in DOMAIN states
    OBVIOUS
  <1>7. OnlyBacktrack(new, states)
    <2> HIDE DEF item, new
    <2>1. ASSUME NEW i \in DOMAIN states
          PROVE  /\ new[i].done = states[i].done
                 /\ new[i].sleep = states[i].sleep
                 /\ new[i].enabled = states[i].enabled
                 /\ new[i].clock = states[i].clock
                 /\ new[i].backtrack \subseteq
                       states[i].backtrack \cup (Candidates(states[i]) \ states[i].done)
      <3>1. CASE i = k
        BY <1>4, <1>6, <3>1
      <3>2. CASE i # k
        BY <1>6, <3>2
      <3> QED BY <3>1, <3>2
    <2>2. new[1].backtrack = states[1].backtrack
      <3>1. CASE k = 1
        BY <1>4, <1>6, <3>1
      <3>2. CASE k # 1
        BY <1>6, <3>2
      <3> QED BY <3>1, <3>2
    <2> QED BY <1>5, <2>1, <2>2 DEF OnlyBacktrack
  <1> QED BY <1>7

LEMMA BacktrackPointAdds ==
    ASSUME NEW stack, NEW data, NEW item \in Items, NEW i, NEW p, NEW ascending \in BOOLEAN
    PROVE  BacktrackPoint(stack, data, item, i, p, ascending)
              \subseteq Candidates(item) \ item.done
  <1> DEFINE E == {q \in Candidates(item) : q = p \/ threadsRaceAfterDepth(stack, data, i, q, p)}
  <1>1. E \subseteq Candidates(item)
    OBVIOUS
  <1>2. ASSUME E # {}
        PROVE  Begin(E, ascending) \in E
    <2>1. E \in SUBSET Nat /\ \A q \in E : q <= LastThread
      BY LastThreadAssumption DEF Candidates, Items, Threads
    <2> HIDE DEF E
    <2>2. Min(E) \in E
      BY <1>2, <2>1, MinIsLeast
    <2>3. Max(E) \in E
      BY <1>2, <2>1, MaxIsGreatest, LastThreadAssumption
    <2> QED BY <2>2, <2>3 DEF Begin
  <1> HIDE DEF E
  <1>3. \/ BacktrackPoint(stack, data, item, i, p, ascending) = Candidates(item) \ item.done
        \/ BacktrackPoint(stack, data, item, i, p, ascending) = {}
        \/ /\ E # {}
           /\ BacktrackPoint(stack, data, item, i, p, ascending) = {Begin(E, ascending)} \ item.done
    BY DEF BacktrackPoint, Unsearched, E
  <1> QED BY <1>1, <1>2, <1>3

\* The index of the very first transition is never beyond a clock.
LEMMA NoPointAtStart ==
    ASSUME NEW stack \in Seq(Steps), Len(stack) > 0,
           NEW data \in [Threads -> [depth : Int, clock : [Threads -> Nat]]],
           NEW o, NEW p \in Threads, NEW nextSP
    PROVE  ~ ShouldProcess(stack, data, o, 0, p, nextSP)
  <1>0. stack[1] \in Steps
    OBVIOUS
  <1>1. stack[1].tid \in Threads
    BY <1>0 DEF Steps
  <1>2. data[p].clock[stack[1].tid] \in Nat
    BY <1>1
  <1>3. happensBeforeThread(stack, data, 0, p)
    BY <1>2 DEF happensBeforeThread
  <1> QED BY <1>3 DEF ShouldProcess

LEMMA UpdateAdds ==
    ASSUME NEW stack \in Seq(Steps), Len(stack) > 0,
           NEW states \in Seq(Items), Len(states) = Len(stack) + 1,
           NEW data \in [Threads -> [depth : Int, clock : [Threads -> Nat]]],
           NEW o, NEW next, NEW threads \in SUBSET Threads, NEW ascending \in BOOLEAN
    PROVE  OnlyBacktrack(
              dynamicallyUpdateBacktrackSets(states, stack, data, o, next, threads, ascending),
              states)
  <1> DEFINE top == Len(stack) - 1
             Process(i, p) == ShouldProcess(stack, data, o, i, p, TransitionAt(program, p, next[p]))
             points == {p \in threads \ {stack[top + 1].tid} : Process(top, p)}
             B == UNION {BacktrackPoint(stack, data, states[top + 1], top, p, ascending) : p \in points}
             upd == UpdateTop(states, stack, data, o, next, threads, ascending)
  <1>1. /\ top + 1 = Len(stack) /\ top \in Nat /\ top + 1 \in DOMAIN states
        /\ states[top + 1] \in Items /\ stack[top + 1] \in Steps
    OBVIOUS
  <1>2. OnlyBacktrack(upd, states)
    <2>1. upd = [states EXCEPT ![top + 1].backtrack = @ \cup B]
      BY DEF UpdateTop
    <2>2. B \subseteq Candidates(states[top + 1]) \ states[top + 1].done
      BY <1>1, BacktrackPointAdds
    <2>3. top + 1 = 1 => B = {}
      <3>1. ASSUME NEW p \in Threads
            PROVE  ~ Process(0, p)
        BY NoPointAtStart
      <3>2. ASSUME top = 0
            PROVE  points = {}
        BY <3>1, <3>2
      <3> QED BY <1>1, <3>2
    <2> HIDE DEF B, upd
    <2> QED BY <1>1, <2>1, <2>2, <2>3, OnlyBacktrackOnce
  <1>3. OnlyBacktrack(UpdateBelow(upd, stack, data, o, next, ascending), upd)
    <2> HIDE DEF upd
    <2> DEFINE t == stack[top + 1].tid
               below == {i \in 0 .. top - 1 : Process(i, t)}
               j == Max(below)
               C == BacktrackPoint(stack, data, upd[j + 1], j, t, ascending)
    <2>1. UpdateBelow(upd, stack, data, o, next, ascending)
             = IF below = {} THEN upd ELSE [upd EXCEPT ![j + 1].backtrack = @ \cup C]
      BY DEF UpdateBelow
    <2>2. upd \in Seq(Items) /\ Len(upd) = Len(stack) + 1
      BY <1>2 DEF OnlyBacktrack
    <2>3. CASE below = {}
      BY <2>1, <2>2, <2>3 DEF OnlyBacktrack
    <2>4. CASE below # {}
      <3>1. 0 \notin below
        <4>1. t \in Threads
          BY <1>1 DEF Steps
        <4> QED BY <4>1, NoPointAtStart
      <3>2. below \in SUBSET Nat /\ \A i \in below : i <= top
        BY <1>1
      <3>3. j \in below
        <4> HIDE DEF below
        <4> QED BY <1>1, <2>4, <3>2, MaxIsGreatest
      <3>4. j + 1 \in DOMAIN upd /\ j + 1 # 1 /\ upd[j + 1] \in Items
        BY <1>1, <2>2, <3>1, <3>3
      <3>5. C \subseteq Candidates(upd[j + 1]) \ upd[j + 1].done
        BY <3>4, BacktrackPointAdds
      <3> HIDE DEF C, j, below
      <3>6. OnlyBacktrack([upd EXCEPT ![j + 1].backtrack = @ \cup C], upd)
        BY <2>2, <3>4, <3>5, OnlyBacktrackOnce
      <3> QED BY <2>1, <2>4, <3>6
    <2> QED BY <2>3, <2>4
  <1> HIDE DEF upd
  <1>4. OnlyBacktrack(UpdateBelow(upd, stack, data, o, next, ascending), states)
    BY <1>2, <1>3, OnlyBacktrackTwice
  <1> QED BY <1>4 DEF dynamicallyUpdateBacktrackSets, upd

-----------------------------------------------------------------------------
(* What a transition adds to the stacks *)

LEMMA ClockVectorType ==
    ASSUME Stacks, ClocksLookBack, NEW tr
    PROVE  /\ transitionStackMaxClockVector(tr) \in [Threads -> Nat]
           /\ \A u \in Threads : transitionStackMaxClockVector(tr)[u] <= Len(stateStack)
  <1> DEFINE n == Len(stateStack)
             clocks == {getStateItemAtIndex(i).clock : i \in DependsOnStates(tr)}
  <1>1. n \in Nat
    BY DEF Stacks
  <1>2. ASSUME NEW u \in Threads
        PROVE  Max({0} \cup {clock[u] : clock \in clocks}) \in 0 .. n
    <2> DEFINE S == {0} \cup {clock[u] : clock \in clocks}
    <2>1. ASSUME NEW i \in DependsOnStates(tr)
          PROVE  getStateItemAtIndex(i).clock[u] \in 0 .. n
      <3>1. i + 1 \in DOMAIN stateStack
        BY DEF DependsOnStates, stateStackTop, Stacks
      <3>2. stateStack[i + 1] \in Items /\ i + 1 \in Nat /\ i + 1 <= n
        BY <1>1, <3>1 DEF Stacks
      <3>3. stateStack[i + 1].clock[u] \in Nat /\ stateStack[i + 1].clock[u] <= n
        BY <1>1, <3>1, <3>2 DEF ClocksLookBack, Items
      <3> QED BY <3>3 DEF getStateItemAtIndex
    <2>2. S \in SUBSET Nat /\ S # {} /\ \A k \in S : k <= n
      BY <1>1, <2>1
    <2>3. Max(S) \in S
      <3> HIDE DEF S
      <3> QED BY <1>1, <2>2, MaxIsGreatest
    <2> QED BY <2>2, <2>3
  <1>3. transitionStackMaxClockVector(tr) = [u \in Threads |-> Max({0} \cup {clock[u] : clock \in clocks})]
    BY DEF transitionStackMaxClockVector
  <1> HIDE DEF clocks
  <1> QED BY <1>1, <1>2, <1>3

\* Threads create and join threads; a loop goes back to some operation.
LEMMA ThreadsAreNamed ==
    \A prg \in Programs : \A t \in Threads : \A p \in DOMAIN prg[t] :
        /\ prg[t][p].type \in {"create", "join"} => prg[t][p].obj \in Threads
        /\ prg[t][p].type = "repeat" => prg[t][p].obj \in Nat
  <1> SUFFICES ASSUME NEW prg \in Programs, NEW t \in Threads, NEW p \in DOMAIN prg[t]
               PROVE  /\ prg[t][p].type \in {"create", "join"} => prg[t][p].obj \in Threads
                      /\ prg[t][p].type = "repeat" => prg[t][p].obj \in Nat
    OBVIOUS
  <1>1. prg[t] \in Seq(Operations)
    BY ProgramsAssumption
  <1>2. prg[t][p] \in Operations
    BY <1>1
  <1> QED BY <1>2 DEF Operations, MutexOperationTypes, SemOperationTypes, CondOperationTypes,
                      BarrierOperationTypes, MCRWLockTypes, MCRWWLockTypes, GlobalOperationTypes

\* Wherever a program goes on, it creates and joins threads.
LEMMA NextPositionType ==
    ASSUME program \in Programs, NEW t \in Threads, NEW p \in Nat
    PROVE  /\ NextPosition(program, t, p) \in Nat
           /\ LET announced == TransitionAt(program, t, NextPosition(program, t, p))
              IN  announced.type \in {"create", "join"} => announced.obj \in Threads
  <1> DEFINE q == IF p = Len(program[t]) + 1 THEN p ELSE p + 1
  <1>1. q \in Nat
    OBVIOUS
  <1>2. NextPosition(program, t, p) \in Nat
    <2>1. NextPosition(program, t, p)
             = IF q \in DOMAIN program[t] /\ program[t][q].type = "repeat"
               THEN program[t][q].obj ELSE q
      BY DEF NextPosition
    <2> HIDE DEF q
    <2> QED BY <1>1, <2>1, ThreadsAreNamed
  <1>3. ASSUME NEW r \in Nat,
               TransitionAt(program, t, r).type \in {"create", "join"}
        PROVE  TransitionAt(program, t, r).obj \in Threads
    BY <1>3, ThreadsAreNamed DEF TransitionAt
  <1> QED BY <1>2, <1>3

\* "-t" names threads.
LEMMA EntryIsThread ==
    ASSUME Stacks, NEW index \in Nat, NEW end
    PROVE  getNextTraceSeqEntry(index, end) \in Threads \cup {NoThread}
  <1>1. Main \in Threads
    BY DEF Stacks
  <1>2. index < Len(env.PRINT_AT_TRACE_SEQ) => env.PRINT_AT_TRACE_SEQ[index + 1] \in Threads
    <2>1. env.PRINT_AT_TRACE_SEQ \in Seq(Threads)
      BY DEF Stacks
    <2>2. Len(env.PRINT_AT_TRACE_SEQ) \in Nat
      BY <2>1
    <2> QED BY <2>1, <2>2
  <1> QED BY <1>1, <1>2 DEF getNextTraceSeqEntry

LEMMA EnabledAreThreads ==
    ASSUME Stacks, Scheduled
    PROVE  getCurrentlyEnabledThreads \in SUBSET Threads
  <1>1. getNextTraceSeqEntry(seq.enabled, seq.end) \in Threads \cup {NoThread}
    <2>1. seq.enabled \in Nat
      BY DEF Scheduled
    <2> QED BY <2>1, EntryIsThread
  <1>2. EnabledIn(objects, pos, known) \in SUBSET Threads
    BY DEF EnabledIn, Stacks
  <1> QED BY <1>1, <1>2 DEF getCurrentlyEnabledThreads

\* The new top of the two stacks.
LEMMA Simulated ==
    ASSUME Stacks, ClocksLookBack, NEW t \in Threads, simulateRunningTransition(t)
    PROVE  /\ pos' = [pos EXCEPT ![t] = NextPosition(program, t, pos[t])]
           /\ pos' \in [Threads -> Nat]
           /\ transitionStack' = Append(transitionStack, [tid |-> t, pos |-> pos[t]])
           /\ transitionStack' \in Seq(Steps)
           /\ Len(transitionStack') = Len(transitionStack) + 1
           /\ \A i \in 1 .. Len(transitionStack) : transitionStack'[i] = transitionStack[i]
           /\ transitionStack'[Len(transitionStack) + 1] = [tid |-> t, pos |-> pos[t]]
           /\ known' \in SUBSET Threads
           /\ Main \in known'
           /\ threadData' \in [Threads -> [depth : Int, clock : [Threads -> Nat]]]
           /\ \A u \in Threads \ {t} : threadData'[u] = threadData[u]
           /\ threadData'[t].depth =
                 IF countsAgainstThreadExecutionDepth(Pending(t))
                 THEN threadData[t].depth + 1 ELSE threadData[t].depth
           /\ \A u \in Threads : threadData'[t].clock[u] <= Len(stateStack)
  <1> DEFINE tr == TransitionAt(program, t, pos[t])
             next == NextPosition(program, t, pos[t])
             announced == TransitionAt(program, t, next)
             cv == [transitionStackMaxClockVector(tr) EXCEPT ![t] = Len(transitionStack)]
             depth == IF countsAgainstThreadExecutionDepth(tr)
                      THEN threadData[t].depth + 1 ELSE threadData[t].depth
             step == [tid |-> t, pos |-> pos[t]]
             data == [depth |-> depth, clock |-> cv]
  <1>1. /\ pos' = [pos EXCEPT ![t] = next]
        /\ transitionStack' = Append(transitionStack, step)
        /\ threadData' = [threadData EXCEPT ![t] = data]
        /\ known' = known \cup (IF announced.type \in {"create", "join"}
                                THEN {announced.obj} ELSE {})
    BY DEF simulateRunningTransition
  <1>2. next \in Nat /\ (announced.type \in {"create", "join"} => announced.obj \in Threads)
    BY NextPositionType DEF Stacks
  <1>3. step \in Steps
    BY DEF Steps, Stacks
  <1>4. cv \in [Threads -> Nat] /\ \A u \in Threads : cv[u] <= Len(stateStack)
    <2>1. Len(transitionStack) \in Nat /\ Len(stateStack) = Len(transitionStack) + 1
      BY DEF Stacks
    <2>2. /\ transitionStackMaxClockVector(tr) \in [Threads -> Nat]
          /\ \A u \in Threads : transitionStackMaxClockVector(tr)[u] <= Len(stateStack)
      BY ClockVectorType
    <2> QED BY <2>1, <2>2
  <1>5. data \in [depth : Int, clock : [Threads -> Nat]]
    <2>1. threadData[t].depth \in Int
      BY DEF Stacks
    <2> QED BY <1>4, <2>1
  <1>6. pos' \in [Threads -> Nat]
    BY <1>1, <1>2 DEF Stacks
  <1>7. /\ transitionStack' \in Seq(Steps)
        /\ Len(transitionStack') = Len(transitionStack) + 1
        /\ \A i \in 1 .. Len(transitionStack) : transitionStack'[i] = transitionStack[i]
        /\ transitionStack'[Len(transitionStack) + 1] = step
    <2> HIDE DEF step
    <2> QED BY <1>1, <1>3 DEF Stacks
  <1>8. known' \in SUBSET Threads /\ Main \in known'
    BY <1>1, <1>2 DEF Stacks
  <1>9. /\ threadData' \in [Threads -> [depth : Int, clock : [Threads -> Nat]]]
        /\ \A u \in Threads \ {t} : threadData'[u] = threadData[u]
        /\ threadData'[t] = data
    <2> HIDE DEF data
    <2> QED BY <1>1, <1>5 DEF Stacks
  <1> QED BY <1>1, <1>4, <1>6, <1>7, <1>8, <1>9 DEF Pending

\* What the state before the transition learns, and what the state after it begins with.
LEMMA Grown ==
    ASSUME Stacks, ClocksLookBack, Scheduled, NEW t \in Threads, simulateRunningTransition(t)
    PROVE  LET grown == growStateStackRunningTransition(t)
               n == Len(transitionStack)
           IN  /\ grown \in Seq(Items)
               /\ Len(grown) = n + 2
               /\ \A i \in 1 .. n : grown[i] = stateStack[i]
               /\ grown[n + 1].backtrack = stateStack[n + 1].backtrack \ {t}
               /\ grown[n + 1].done = stateStack[n + 1].done \cup {t}
               /\ grown[n + 1].sleep = stateStack[n + 1].sleep \cup {t}
               /\ grown[n + 1].enabled = stateStack[n + 1].enabled \cup getCurrentlyEnabledThreads
               /\ grown[n + 1].clock = stateStack[n + 1].clock
               /\ grown[n + 2] = NewItem(threadData'[t].clock,
                                         StillAsleep(stateStack[n + 1].sleep, Pending(t)))
               /\ grown[n + 2] \in Items
  <1> DEFINE n == Len(transitionStack)
             k == stateStackTop + 1
             old == stateStack[k]
             item == AfterRunning(old, t)
             new == NewItem(threadData'[t].clock, StillAsleep(old.sleep, Pending(t)))
  <1>1. /\ n \in Nat /\ k = n + 1 /\ Len(stateStack) = n + 1
        /\ stateStack \in Seq(Items) /\ old \in Items
    BY DEF Stacks, stateStackTop
  <1>2. growStateStackRunningTransition(t) = Append([stateStack EXCEPT ![k] = item], new)
    BY DEF growStateStackRunningTransition, getStateItemAtIndex, Pending
  <1>3. /\ item.backtrack = old.backtrack \ {t}
        /\ item.done = old.done \cup {t}
        /\ item.sleep = old.sleep \cup {t}
        /\ item.enabled = old.enabled \cup getCurrentlyEnabledThreads
        /\ item.clock = old.clock
        /\ item \in Items
    <2>1. getCurrentlyEnabledThreads \in SUBSET Threads
      BY EnabledAreThreads
    <2> QED BY <1>1, <2>1 DEF AfterRunning, markBacktrackThreadSearched, Items
  <1>4. new \in Items
    <2>1. threadData'[t].clock \in [Threads -> Nat]
      BY Simulated
    <2>2. StillAsleep(old.sleep, Pending(t)) \in SUBSET Threads
      BY <1>1 DEF StillAsleep, Items
    <2> QED BY <2>1, <2>2 DEF NewItem, Items
  <1>5. LET grown == Append([stateStack EXCEPT ![k] = item], new)
        IN  /\ grown \in Seq(Items)
            /\ Len(grown) = n + 2
            /\ \A i \in 1 .. n : grown[i] = stateStack[i]
            /\ grown[k] = item
            /\ grown[n + 2] = new
    <2> HIDE DEF item, new, k
    <2>1. item \in Items /\ new \in Items
      BY <1>3, <1>4
    <2> DEFINE changed == [stateStack EXCEPT ![k] = item]
    <2>2. /\ changed \in Seq(Items) /\ Len(changed) = n + 1
          /\ \A i \in 1 .. n : changed[i] = stateStack[i]
          /\ changed[k] = item
      BY <1>1, <2>1
    <2> HIDE DEF changed
    <2>3. LET grown == Append(changed, new)
          IN  /\ grown \in Seq(Items)
              /\ Len(grown) = n + 2
              /\ \A i \in 1 .. n : grown[i] = stateStack[i]
              /\ grown[k] = item
              /\ grown[n + 2] = new
      BY <1>1, <2>1, <2>2
    <2> QED BY <2>3 DEF changed
  <1> HIDE DEF item, k
  <1> QED BY <1>1, <1>2, <1>3, <1>4, <1>5

\* The state items after a transition, whether or not threads are added to backtrack sets.
LEMMA ItemsAfter ==
    ASSUME Stacks, ClocksLookBack, Scheduled, NEW t \in Threads, simulateRunningTransition(t),
           OnlyBacktrack(stateStack', growStateStackRunningTransition(t))
    PROVE  LET n == Len(transitionStack)
               top == stateStack[n + 1]
           IN  /\ stateStack' \in Seq(Items)
               /\ Len(stateStack') = n + 2
               /\ \A i \in 1 .. n :
                     /\ stateStack'[i].done = stateStack[i].done
                     /\ stateStack'[i].sleep = stateStack[i].sleep
                     /\ stateStack'[i].enabled = stateStack[i].enabled
                     /\ stateStack'[i].clock = stateStack[i].clock
                     /\ stateStack'[i].backtrack \subseteq
                           stateStack[i].backtrack \cup (Candidates(stateStack[i]) \ stateStack[i].done)
               /\ stateStack'[n + 1].done = top.done \cup {t}
               /\ stateStack'[n + 1].sleep = top.sleep \cup {t}
               /\ stateStack'[n + 1].enabled = top.enabled \cup getCurrentlyEnabledThreads
               /\ stateStack'[n + 1].clock = top.clock
               /\ stateStack'[n + 1].backtrack \subseteq
                     (top.backtrack \ {t}) \cup
                     ((stateStack'[n + 1].enabled \ stateStack'[n + 1].sleep) \ stateStack'[n + 1].done)
               /\ stateStack'[n + 2].done = {}
               /\ stateStack'[n + 2].sleep = StillAsleep(top.sleep, Pending(t))
               /\ stateStack'[n + 2].clock = threadData'[t].clock
               /\ stateStack'[n + 2].backtrack = {}
               /\ stateStack'[1].backtrack \subseteq stateStack[1].backtrack
  <1> DEFINE n == Len(transitionStack)
             grown == growStateStackRunningTransition(t)
  <1>1. n \in Nat
    BY DEF Stacks
  <1>2. /\ grown \in Seq(Items)
        /\ Len(grown) = n + 2
        /\ \A i \in 1 .. n : grown[i] = stateStack[i]
        /\ grown[n + 1].backtrack = stateStack[n + 1].backtrack \ {t}
        /\ grown[n + 1].done = stateStack[n + 1].done \cup {t}
        /\ grown[n + 1].sleep = stateStack[n + 1].sleep \cup {t}
        /\ grown[n + 1].enabled = stateStack[n + 1].enabled \cup getCurrentlyEnabledThreads
        /\ grown[n + 1].clock = stateStack[n + 1].clock
    BY Grown
  <1>3. grown[n + 2] = NewItem(threadData'[t].clock, StillAsleep(stateStack[n + 1].sleep, Pending(t)))
    BY Grown
  <1>4. /\ grown[n + 2].done = {}
        /\ grown[n + 2].sleep = StillAsleep(stateStack[n + 1].sleep, Pending(t))
        /\ grown[n + 2].clock = threadData'[t].clock
        /\ grown[n + 2].backtrack = {}
        /\ grown[n + 2].enabled = {}
    BY <1>3 DEF NewItem
  <1> HIDE DEF grown
  <1>5. /\ stateStack' \in Seq(Items)
        /\ Len(stateStack') = n + 2
        /\ \A i \in 1 .. n + 2 :
              /\ stateStack'[i].done = grown[i].done
              /\ stateStack'[i].sleep = grown[i].sleep
              /\ stateStack'[i].enabled = grown[i].enabled
              /\ stateStack'[i].clock = grown[i].clock
              /\ stateStack'[i].backtrack \subseteq
                    grown[i].backtrack \cup ((grown[i].enabled \ grown[i].sleep) \ grown[i].done)
        /\ stateStack'[1].backtrack = grown[1].backtrack
    <2>1. DOMAIN grown = 1 .. n + 2
      BY <1>1, <1>2
    <2> QED BY <1>2, <2>1 DEF OnlyBacktrack, Candidates, grown
  <1>6. grown[1].backtrack \subseteq stateStack[1].backtrack
    <2>1. CASE n = 0
      BY <1>2, <2>1
    <2>2. CASE n # 0
      BY <1>1, <1>2, <2>2
    <2> QED BY <2>1, <2>2
  <1>7. \A i \in 1 .. n :
           /\ stateStack'[i].done = stateStack[i].done
           /\ stateStack'[i].sleep = stateStack[i].sleep
           /\ stateStack'[i].enabled = stateStack[i].enabled
           /\ stateStack'[i].clock = stateStack[i].clock
           /\ stateStack'[i].backtrack \subseteq
                 stateStack[i].backtrack \cup (Candidates(stateStack[i]) \ stateStack[i].done)
    BY <1>1, <1>2, <1>5 DEF Candidates
  <1>8. /\ stateStack'[n + 1].done = grown[n + 1].done
        /\ stateStack'[n + 1].sleep = grown[n + 1].sleep
        /\ stateStack'[n + 1].enabled = grown[n + 1].enabled
        /\ stateStack'[n + 1].clock = grown[n + 1].clock
        /\ stateStack'[n + 1].backtrack \subseteq
              grown[n + 1].backtrack
              \cup ((grown[n + 1].enabled \ grown[n + 1].sleep) \ grown[n + 1].done)
    BY <1>1, <1>5
  <1>9. /\ stateStack'[n + 2].done = grown[n + 2].done
        /\ stateStack'[n + 2].sleep = grown[n + 2].sleep
        /\ stateStack'[n + 2].clock = grown[n + 2].clock
        /\ stateStack'[n + 2].backtrack \subseteq
              grown[n + 2].backtrack
              \cup ((grown[n + 2].enabled \ grown[n + 2].sleep) \ grown[n + 2].done)
    BY <1>1, <1>5
  <1> QED BY <1>2, <1>4, <1>5, <1>6, <1>7, <1>8, <1>9

\* A transition depends on all that its own thread does.
LEMMA AsleepStays ==
    ASSUME Succession, NEW n \in Nat, n = Len(transitionStack),
           NEW q \in Threads, NEW i \in 1 .. n + 1,
           \A k \in i .. n : ~ dependentTransitions(TransitionAt(program, q, PosAfter(q, i - 1)),
                                                    Decode(transitionStack[k]))
    PROVE  PosAfter(q, i - 1) = pos[q]
  <1>1. \A p, r : dependentTransitions(TransitionAt(program, q, p), TransitionAt(program, q, r))
    BY DEF dependentTransitions, TransitionAt
  <1>2. Runs(q, i, n) = {}
    BY <1>1 DEF Runs, Decode
  <1>3. PosAfter(q, n) = PosAfter(q, i - 1)
    BY <1>2, PosAfterSkips
  <1> QED BY <1>3 DEF Succession

-----------------------------------------------------------------------------
(* A thread runs, in the search or in the livelock check *)

Advances(t) ==
    /\ t \in Threads
    /\ simulateRunningTransition(t)
    /\ OnlyBacktrack(stateStack', growStateStackRunningTransition(t))
    /\ UNCHANGED <<program, env>>

LEMMA AdvanceStacks ==
    ASSUME Stacks, ClocksLookBack, Scheduled, NEW t \in Threads, Advances(t)
    PROVE  Stacks' /\ ClocksLookBack'
  <1>0. Len(transitionStack) \in Nat
    BY DEF Stacks
  <1> SUFFICES ASSUME NEW n \in Nat, n = Len(transitionStack)
               PROVE  Stacks' /\ ClocksLookBack'
    BY <1>0
  <1>1. n \in Nat /\ Len(stateStack) = n + 1
    BY DEF Stacks
  <1>2. Stacks'
    <2>1. stateStack' \in Seq(Items) /\ Len(stateStack') = n + 2
      BY ItemsAfter DEF Advances
    <2>2. /\ pos' \in [Threads -> Nat]
          /\ transitionStack' \in Seq(Steps)
          /\ Len(transitionStack') = n + 1
          /\ known' \in SUBSET Threads
          /\ Main \in known'
          /\ threadData' \in [Threads -> [depth : Int, clock : [Threads -> Nat]]]
      BY Simulated DEF Advances
    <2>3. program' \in Programs /\ env'.PRINT_AT_TRACE_SEQ \in Seq(Threads)
      BY DEF Advances, Stacks
    <2>4. (Len(stateStack) = Len(transitionStack) + 1)'
      BY <2>1, <2>2
    <2> QED BY <2>1, <2>2, <2>3, <2>4 DEF Stacks, Steps, Items, Threads
  <1>3. ClocksLookBack'
    <2>1. ASSUME NEW i \in 1 .. n + 2, NEW u \in Threads
          PROVE  stateStack'[i].clock[u] <= i
      <3>1. CASE i <= n + 1
        <4>1. stateStack'[i].clock = stateStack[i].clock
          <5>1. i \in 1 .. n \/ i = n + 1
            BY <1>1, <3>1
          <5> QED BY <5>1, ItemsAfter DEF Advances
        <4>2. i \in DOMAIN stateStack
          BY <1>1, <3>1 DEF Stacks
        <4> QED BY <4>1, <4>2 DEF ClocksLookBack
      <3>2. CASE i = n + 2
        <4>1. stateStack'[n + 2].clock = threadData'[t].clock
          BY ItemsAfter DEF Advances
        <4>2. threadData'[t].clock[u] \in Nat /\ threadData'[t].clock[u] <= n + 1
          <5>1. threadData' \in [Threads -> [depth : Int, clock : [Threads -> Nat]]]
            BY Simulated DEF Advances
          <5>2. threadData'[t].clock[u] <= Len(stateStack)
            BY Simulated DEF Advances
          <5> QED BY <1>1, <5>1, <5>2 DEF Advances
        <4> QED BY <1>1, <3>2, <4>1, <4>2
      <3> QED BY <1>1, <3>1, <3>2
    <2>2. DOMAIN stateStack' = 1 .. n + 2
      BY <1>1, ItemsAfter DEF Advances
    <2> QED BY <2>1, <2>2 DEF ClocksLookBack
  <1> QED BY <1>2, <1>3

LEMMA AdvanceDepths ==
    ASSUME Stacks, ClocksLookBack, Depths, NEW t \in Threads, Advances(t)
    PROVE  Depths'
  <1> SUFFICES ASSUME NEW n \in Nat, n = Len(transitionStack)
               PROVE  Depths'
    BY DEF Stacks
  <1> DEFINE step == [tid |-> t, pos |-> pos[t]]
             counts == countsAgainstThreadExecutionDepth(Pending(t))
  <1>1. /\ n \in Nat
        /\ Len(transitionStack') = n + 1
        /\ \A i \in 1 .. n : transitionStack'[i] = transitionStack[i]
        /\ transitionStack'[n + 1] = step
        /\ program' = program
    BY Simulated DEF Advances, Stacks
  <1>2. Decode(step) = Pending(t)
    BY DEF Decode, Pending
  <1>3. ASSUME NEW u \in Threads
        PROVE  threadData'[u].depth = DepthOf(u, 1, n + 1)'
    <2> DEFINE old == {i \in 1 .. n : /\ transitionStack[i].tid = u
                                      /\ countsAgainstThreadExecutionDepth(Decode(transitionStack[i]))}
               new == {i \in 1 .. n + 1 :
                          /\ transitionStack'[i].tid = u
                          /\ countsAgainstThreadExecutionDepth(Decode(transitionStack[i])')}
    <2>1. DepthOf(u, 1, n) = Cardinality(old) /\ DepthOf(u, 1, n + 1)' = Cardinality(new)
      BY DEF DepthOf
    <2>2. IsFiniteSet(old) /\ n + 1 \notin old
      <3>1. IsFiniteSet(1 .. n) /\ old \in SUBSET (1 .. n)
        BY <1>1, FS_Interval
      <3>2. n + 1 \notin 1 .. n
        BY <1>1
      <3> HIDE DEF old
      <3> QED BY <3>1, <3>2, FS_Subset
    <2>3. new = IF u = t /\ counts THEN old \cup {n + 1} ELSE old
      <3>1. \A i \in 1 .. n : Decode(transitionStack[i])' = Decode(transitionStack[i])
        BY <1>1 DEF Decode
      <3>2. Decode(transitionStack[n + 1])' = Pending(t)
        BY <1>1, <1>2 DEF Decode
      <3>3. 1 .. n + 1 = (1 .. n) \cup {n + 1}
        BY <1>1
      <3>4. \A i \in 1 .. n : i \in new <=> i \in old
        BY <1>1, <3>1
      <3>5. n + 1 \in new <=> u = t /\ counts
        BY <1>1, <3>2
      <3>6. new \subseteq 1 .. n + 1 /\ old \subseteq 1 .. n
        OBVIOUS
      <3> HIDE DEF new, old, counts
      <3>7. new \subseteq old \cup {n + 1} /\ old \subseteq new
        BY <3>3, <3>4, <3>6
      <3>8. u = t /\ counts => new = old \cup {n + 1}
        BY <3>5, <3>7
      <3>9. ~ (u = t /\ counts) => new = old
        BY <2>2, <3>5, <3>7
      <3> QED BY <3>8, <3>9
    <2>4. threadData[u].depth = Cardinality(old)
      BY <2>1 DEF Depths
    <2>5. threadData'[u].depth = IF u = t /\ counts THEN Cardinality(old) + 1 ELSE Cardinality(old)
      <3>1. CASE u = t
        BY <2>4, <3>1, Simulated DEF Advances
      <3>2. CASE u # t
        BY <2>4, <3>2, Simulated DEF Advances
      <3> QED BY <3>1, <3>2
    <2> HIDE DEF old, new
    <2>6. Cardinality(old \cup {n + 1}) = Cardinality(old) + 1
      BY <2>2, FS_AddElement
    <2> QED BY <2>1, <2>3, <2>5, <2>6
  <1> QED BY <1>1, <1>3 DEF Depths

LEMMA AdvancePositions ==
    ASSUME Stacks, ClocksLookBack, Succession, NEW t \in Threads, Advances(t)
    PROVE  Succession'
  <1> SUFFICES ASSUME NEW n \in Nat, n = Len(transitionStack)
               PROVE  Succession'
    BY DEF Stacks
  <1> DEFINE step == [tid |-> t, pos |-> pos[t]]
  <1>1. /\ n \in Nat
        /\ Len(transitionStack') = n + 1
        /\ DOMAIN transitionStack' = 1 .. n + 1
        /\ \A i \in 1 .. n : transitionStack'[i] = transitionStack[i]
        /\ transitionStack'[n + 1] = step
        /\ program' = program
        /\ pos' = [pos EXCEPT ![t] = NextPosition(program, t, pos[t])]
    <2>1. transitionStack' \in Seq(Steps)
      BY Simulated DEF Advances
    <2>2. DOMAIN transitionStack' = 1 .. Len(transitionStack')
      BY <2>1
    <2> QED BY <2>2, Simulated DEF Advances
  <1>2. \A u, m : m \in 0 .. n => PosAfter(u, m)' = PosAfter(u, m)
    BY <1>1, PosAfterStays
  <1>3. ASSUME NEW u \in Threads
        PROVE  pos'[u] = PosAfter(u, n + 1)'
    <2>1. CASE u = t
      <3> DEFINE runs == Runs(t, 1, n + 1)'
      <3>1. n + 1 \in runs /\ runs \in SUBSET Nat /\ \A i \in runs : i <= n + 1
        BY <1>1 DEF Runs
      <3>2. Max(runs) = n + 1
        <4> HIDE DEF runs
        <4>1. Max(runs) \in runs /\ n + 1 <= Max(runs)
          BY <1>1, <3>1, MaxIsGreatest
        <4>2. Max(runs) \in Nat /\ Max(runs) <= n + 1
          BY <3>1, <4>1
        <4> QED BY <1>1, <4>1, <4>2
      <3>3. PosAfter(t, n + 1)' = NextPosition(program, t, pos[t])
        <4>1. PosAfter(t, n + 1)' = NextPosition(program', t, transitionStack'[Max(runs)].pos)
          BY <3>1 DEF PosAfter
        <4> QED BY <1>1, <3>2, <4>1
      <3>4. pos'[t] = NextPosition(program, t, pos[t])
        BY <1>1 DEF Stacks
      <3> QED BY <2>1, <3>3, <3>4
    <2>2. CASE u # t
      <3>1. Runs(u, 1, n + 1)' = Runs(u, 1, n)'
        BY <1>1, <2>2 DEF Runs
      <3>2. PosAfter(u, n + 1)' = PosAfter(u, n)'
        BY <3>1 DEF PosAfter
      <3>3. PosAfter(u, n)' = PosAfter(u, n)
        BY <1>1, <1>2
      <3>4. pos'[u] = pos[u]
        BY <1>1, <2>2 DEF Stacks
      <3> QED BY <3>2, <3>3, <3>4 DEF Succession
    <2> QED BY <2>1, <2>2
  <1>4. ASSUME NEW i \in 1 .. n + 1, NEW u \in Threads, transitionStack'[i].tid = u
        PROVE  transitionStack'[i].pos = PosAfter(u, i - 1)'
    <2>1. PosAfter(u, i - 1)' = PosAfter(u, i - 1)
      BY <1>1, <1>2
    <2>2. CASE i \in 1 .. n
      <3>1. i \in DOMAIN transitionStack /\ transitionStack'[i] = transitionStack[i]
        <4>1. transitionStack \in Seq(Steps)
          BY DEF Stacks
        <4>2. DOMAIN transitionStack = 1 .. n
          BY <4>1
        <4> QED BY <1>1, <2>2, <4>2
      <3> QED BY <1>4, <2>1, <3>1 DEF Succession
    <2>3. CASE i = n + 1
      <3>1. u = t /\ transitionStack'[i].pos = pos[t]
        BY <1>1, <1>4, <2>3
      <3> QED BY <2>1, <2>3, <3>1 DEF Succession
    <2> QED BY <2>2, <2>3
  <1>5. (\A v \in Threads : pos[v] = PosAfter(v, Len(transitionStack)))'
    BY <1>1, <1>3
  <1>6. (\A i \in DOMAIN transitionStack : \A v \in Threads :
            transitionStack[i].tid = v => transitionStack[i].pos = PosAfter(v, i - 1))'
    BY <1>1, <1>4
  <1> QED BY <1>5, <1>6 DEF Succession

LEMMA AdvanceBacktrackSets ==
    ASSUME Stacks, ClocksLookBack, BacktrackSetsAreUseful, Scheduled, NEW t \in Threads,
           Advances(t)
    PROVE  BacktrackSetsAreUseful'
  <1> SUFFICES ASSUME NEW n \in Nat, n = Len(transitionStack)
               PROVE  BacktrackSetsAreUseful'
    BY DEF Stacks
  <1>1. Len(stateStack) = n + 1 /\ DOMAIN stateStack = 1 .. n + 1
    BY DEF Stacks
  <1>2. DOMAIN stateStack' = 1 .. n + 2 /\ Len(stateStack') = n + 2
    BY ItemsAfter DEF Advances
  <1>3. \A i \in 1 .. n + 1 :
           /\ stateStack[i].backtrack \subseteq stateStack[i].enabled
           /\ stateStack[i].backtrack \cap (stateStack[i].done \cup stateStack[i].sleep) = {}
    BY <1>1 DEF BacktrackSetsAreUseful
  <1>4. ASSUME NEW i \in 1 .. n + 2
        PROVE  /\ stateStack'[i].backtrack \subseteq stateStack'[i].enabled
               /\ stateStack'[i].backtrack \cap (stateStack'[i].done \cup stateStack'[i].sleep) = {}
    <2>1. CASE i \in 1 .. n
      <3>1. /\ stateStack'[i].done = stateStack[i].done
            /\ stateStack'[i].sleep = stateStack[i].sleep
            /\ stateStack'[i].enabled = stateStack[i].enabled
            /\ stateStack'[i].backtrack \subseteq
                  stateStack[i].backtrack \cup (Candidates(stateStack[i]) \ stateStack[i].done)
        BY <2>1, ItemsAfter DEF Advances
      <3> QED BY <1>3, <2>1, <3>1 DEF Candidates
    <2>2. CASE i = n + 1
      <3>1. /\ stateStack'[n + 1].done = stateStack[n + 1].done \cup {t}
            /\ stateStack'[n + 1].sleep = stateStack[n + 1].sleep \cup {t}
            /\ stateStack[n + 1].enabled \subseteq stateStack'[n + 1].enabled
            /\ stateStack'[n + 1].backtrack \subseteq
                  (stateStack[n + 1].backtrack \ {t}) \cup
                  ((stateStack'[n + 1].enabled \ stateStack'[n + 1].sleep) \ stateStack'[n + 1].done)
        BY ItemsAfter DEF Advances
      <3> QED BY <1>3, <2>2, <3>1
    <2>3. CASE i = n + 2
      <3>1. stateStack'[n + 2].backtrack = {}
        BY ItemsAfter DEF Advances
      <3> QED BY <2>3, <3>1
    <2> QED BY <2>1, <2>2, <2>3
  <1>5. 0 \notin BranchPoints'
    <2>1. stateStack[1].backtrack = {}
      BY <1>1 DEF BacktrackSetsAreUseful, BranchPoints, stateStackTop, getStateItemAtIndex
    <2>2. stateStack'[1].backtrack = {}
      BY <2>1, ItemsAfter DEF Advances
    <2> QED BY <2>2 DEF BranchPoints, getStateItemAtIndex
  <1> QED BY <1>2, <1>4, <1>5 DEF BacktrackSetsAreUseful

\* Why a thread sleeps in state j, with the thread and the state fixed.
Justified(j, q) ==
    \E i \in 1 .. j :
        /\ q \in stateStack[i].done
        /\ \A k \in i .. j - 1 :
              ~ dependentTransitions(TransitionAt(program, q, PosAfter(q, i - 1)),
                                     Decode(transitionStack[k]))

LEMMA SleepForm ==
    SleepIsJustified <=> \A j \in DOMAIN stateStack : \A q \in stateStack[j].sleep : Justified(j, q)
  BY DEF SleepIsJustified, Justified

LEMMA SleepFormNext ==
    SleepIsJustified'
    <=> (\A j \in DOMAIN stateStack : \A q \in stateStack[j].sleep : Justified(j, q))'
  BY SleepForm, PTL

\* A justification holds as long as the stacks up to it stay.
LEMMA JustifiedStays ==
    ASSUME NEW j \in Nat, NEW q, Justified(j, q),
           \A i \in 1 .. j : stateStack[i].done \subseteq stateStack'[i].done,
           \A k \in 1 .. j - 1 : transitionStack'[k] = transitionStack[k],
           j - 1 <= Len(transitionStack),
           program' = program
    PROVE  Justified(j, q)'
  <1>1. PICK i \in 1 .. j :
           /\ q \in stateStack[i].done
           /\ \A k \in i .. j - 1 :
                 ~ dependentTransitions(TransitionAt(program, q, PosAfter(q, i - 1)),
                                        Decode(transitionStack[k]))
    BY DEF Justified
  <1>2. PosAfter(q, i - 1)' = PosAfter(q, i - 1)
    <2>1. j - 1 \in Nat /\ i - 1 \in 0 .. j - 1
      BY <1>1
    <2> QED BY <2>1, PosAfterStays
  <1>3. \A k \in i .. j - 1 : Decode(transitionStack[k])' = Decode(transitionStack[k])
    BY <1>1 DEF Decode
  <1>4. TransitionAt(program, q, PosAfter(q, i - 1))' = TransitionAt(program, q, PosAfter(q, i - 1))
    BY <1>2 DEF TransitionAt
  <1>5. \A k \in i .. j - 1 :
           ~ dependentTransitions(TransitionAt(program, q, PosAfter(q, i - 1))',
                                  Decode(transitionStack[k])')
    BY <1>1, <1>3, <1>4
  <1>6. q \in stateStack'[i].done
    BY <1>1
  <1> QED BY <1>5, <1>6 DEF Justified

LEMMA AdvanceSleep ==
    ASSUME Stacks, ClocksLookBack, Succession, SleepIsJustified, Scheduled, NEW t \in Threads,
           Advances(t)
    PROVE  SleepIsJustified'
  <1> SUFFICES ASSUME NEW n \in Nat, n = Len(transitionStack)
               PROVE  SleepIsJustified'
    BY DEF Stacks
  <1>1. /\ DOMAIN stateStack = 1 .. n + 1
        /\ DOMAIN stateStack' = 1 .. n + 2
        /\ program' = program
    BY ItemsAfter DEF Advances, Stacks
  <1>2. \A j \in 1 .. n + 1 : \A q \in stateStack[j].sleep : Justified(j, q)
    BY <1>1, SleepForm
  <1>3. /\ \A k \in 1 .. n : transitionStack'[k] = transitionStack[k]
        /\ Decode(transitionStack[n + 1])' = Pending(t)
    <2>1. /\ \A k \in 1 .. n : transitionStack'[k] = transitionStack[k]
          /\ transitionStack'[n + 1] = [tid |-> t, pos |-> pos[t]]
      BY Simulated DEF Advances
    <2>2. Decode(transitionStack[n + 1])' = TransitionAt(program', t, pos[t])
      BY <2>1 DEF Decode
    <2>3. TransitionAt(program', t, pos[t]) = Pending(t)
      BY <1>1 DEF Pending
    <2> QED BY <2>1, <2>2, <2>3
  <1>4. \A i \in 1 .. n + 1 : stateStack[i].done \subseteq stateStack'[i].done
    <2>1. ASSUME NEW i \in 1 .. n + 1
          PROVE  stateStack[i].done \subseteq stateStack'[i].done
      <3>1. i \in 1 .. n \/ i = n + 1
        OBVIOUS
      <3> QED BY <3>1, ItemsAfter DEF Advances
    <2> QED BY <2>1
  <1>5. ASSUME NEW j \in 1 .. n + 1, NEW q, Justified(j, q)
        PROVE  Justified(j, q)'
    BY <1>1, <1>3, <1>4, <1>5, JustifiedStays
  <1>6. Justified(n + 1, t)'
    <2>1. t \in stateStack'[n + 1].done
      BY ItemsAfter DEF Advances
    <2>2. n + 1 \in 1 .. n + 1 /\ (n + 1) .. (n + 1) - 1 = {}
      OBVIOUS
    <2> QED BY <2>1, <2>2 DEF Justified
  <1>7. ASSUME NEW q \in stateStack[n + 1].sleep,
               ~ dependentTransitions(TransitionAt(program, q, pos[q]), Pending(t))
        PROVE  Justified(n + 2, q)'
    <2>1. q \in Threads
      <3>1. stateStack[n + 1] \in Items
        BY <1>1 DEF Stacks
      <3> QED BY <3>1 DEF Items
    <2>2. PICK i \in 1 .. n + 1 :
             /\ q \in stateStack[i].done
             /\ \A k \in i .. n :
                   ~ dependentTransitions(TransitionAt(program, q, PosAfter(q, i - 1)),
                                          Decode(transitionStack[k]))
      <3>1. Justified(n + 1, q)
        BY <1>2
      <3> QED BY <3>1 DEF Justified
    <2>3. PosAfter(q, i - 1) = pos[q]
      BY <2>1, <2>2, AsleepStays
    <2>4. PosAfter(q, i - 1)' = pos[q]
      <3>1. n <= Len(transitionStack) /\ i - 1 \in 0 .. n
        OBVIOUS
      <3>2. PosAfter(q, i - 1)' = PosAfter(q, i - 1)
        BY <1>1, <1>3, <3>1, PosAfterStays
      <3> QED BY <2>3, <3>2
    <2>5. \A k \in i .. n : Decode(transitionStack[k])' = Decode(transitionStack[k])
      BY <1>1, <1>3 DEF Decode
    <2>6. TransitionAt(program, q, PosAfter(q, i - 1))' = TransitionAt(program, q, pos[q])
      BY <1>1, <2>4 DEF TransitionAt
    <2>7. \A k \in i .. n + 1 :
             ~ dependentTransitions(TransitionAt(program, q, PosAfter(q, i - 1))',
                                    Decode(transitionStack[k])')
      <3>1. \A k \in i .. n + 1 : k \in i .. n \/ k = n + 1
        OBVIOUS
      <3>2. ~ dependentTransitions(TransitionAt(program, q, PosAfter(q, i - 1))',
                                   Decode(transitionStack[n + 1])')
        BY <1>3, <1>7, <2>6
      <3>3. \A k \in i .. n :
               ~ dependentTransitions(TransitionAt(program, q, PosAfter(q, i - 1))',
                                      Decode(transitionStack[k])')
        BY <2>2, <2>3, <2>5, <2>6
      <3> QED BY <3>1, <3>2, <3>3
    <2>8. q \in stateStack'[i].done /\ i \in 1 .. n + 2 /\ (n + 2) - 1 = n + 1
      BY <1>4, <2>2
    <2> QED BY <2>7, <2>8 DEF Justified
  <1>8. ASSUME NEW j \in 1 .. n + 2, NEW q \in stateStack'[j].sleep
        PROVE  Justified(j, q)'
    <2>1. CASE j \in 1 .. n
      <3>1. q \in stateStack[j].sleep
        BY <2>1, ItemsAfter DEF Advances
      <3> QED BY <1>2, <1>5, <2>1, <3>1
    <2>2. CASE j = n + 1
      <3>1. q \in stateStack[n + 1].sleep \/ q = t
        BY <2>2, ItemsAfter DEF Advances
      <3> QED BY <1>2, <1>5, <1>6, <2>2, <3>1
    <2>3. CASE j = n + 2
      <3>1. q \in StillAsleep(stateStack[n + 1].sleep, Pending(t))
        BY <2>3, ItemsAfter DEF Advances
      <3> QED BY <1>7, <2>3, <3>1 DEF StillAsleep
    <2> QED BY <2>1, <2>2, <2>3
  <1>9. (\A j \in DOMAIN stateStack : \A q \in stateStack[j].sleep : Justified(j, q))'
    BY <1>1, <1>8
  <1> QED BY <1>9, SleepFormNext

LEMMA AdvanceKeeps ==
    ASSUME StackInv, Scheduled, NEW t \in Threads, Advances(t)
    PROVE  StackInv'
  BY AdvanceStacks, AdvanceDepths, AdvancePositions, AdvanceBacktrackSets, AdvanceSleep
     DEF StackInv

-----------------------------------------------------------------------------
(* Back to a branch point *)

\* Where the first transition undone was, is where the thread is after those left.
LEMMA PosBackIsPosAfter ==
    ASSUME Stacks, Succession, NEW j \in 0 .. Len(transitionStack), NEW u \in Threads
    PROVE  PosBack(u, j) = PosAfter(u, j) /\ PosBack(u, j) \in Nat
  <1> DEFINE n == Len(transitionStack)
             after == Runs(u, j + 1, n)
             i == Min(after)
  <1>1. transitionStack \in Seq(Steps) /\ n \in Nat /\ j \in Nat /\ j <= n
    BY DEF Stacks
  <1>2. PosBack(u, j) = IF after = {} THEN pos[u] ELSE transitionStack[i].pos
    BY DEF PosBack
  <1>3. CASE after = {}
    <2>1. PosAfter(u, n) = PosAfter(u, j)
      BY <1>1, <1>3, PosAfterSkips
    <2> QED BY <1>2, <1>3, <2>1 DEF Succession, Stacks
  <1>4. CASE after # {}
    <2>1. after \in SUBSET Nat /\ after \subseteq j + 1 .. n
      BY <1>1 DEF Runs
    <2>2. i \in after /\ \A k \in after : i <= k
      <3> HIDE DEF after
      <3> QED BY <1>4, <2>1, MinIsLeast
    <2>3. i \in j + 1 .. n /\ transitionStack[i].tid = u
      BY <2>2 DEF Runs
    <2>4. Runs(u, j + 1, i - 1) = {}
      <3>1. ASSUME NEW k \in Runs(u, j + 1, i - 1)
            PROVE  FALSE
        <4>1. k \in after /\ k < i
          BY <1>1, <2>3 DEF Runs
        <4> QED BY <2>1, <2>2, <4>1
      <3> QED BY <3>1
    <2> HIDE DEF i, after
    <2>5. i \in DOMAIN transitionStack
      BY <1>1, <2>3
    <2>6. transitionStack[i].pos = PosAfter(u, i - 1)
      BY <2>3, <2>5 DEF Succession
    <2>7. PosAfter(u, i - 1) = PosAfter(u, j)
      BY <1>1, <2>3, <2>4, PosAfterSkips
    <2>8. transitionStack[i].pos \in Nat
      <3>1. transitionStack[i] \in Steps
        BY <1>1, <2>5
      <3> QED BY <3>1 DEF Steps
    <2> QED BY <1>2, <1>4, <2>6, <2>7, <2>8
  <1> QED BY <1>3, <1>4

LEMMA DepthBackIsDepth ==
    ASSUME Stacks, Depths, NEW j \in 0 .. Len(transitionStack), NEW u \in Threads,
           NEW inReverse \in BOOLEAN
    PROVE  DepthBack(u, j, inReverse) = DepthOf(u, 1, j) /\ DepthOf(u, 1, j) \in Nat
  <1>1. Len(transitionStack) \in Nat
    BY DEF Stacks
  <1>2. /\ DepthOf(u, 1, j) \in Nat
        /\ DepthOf(u, j + 1, Len(transitionStack)) \in Nat
        /\ threadData[u].depth = DepthOf(u, 1, j) + DepthOf(u, j + 1, Len(transitionStack))
    BY <1>1, DepthSplits DEF Depths
  <1> QED BY <1>2 DEF DepthBack

LEMMA ClockBackType ==
    ASSUME Stacks, NEW j \in 0 .. Len(transitionStack), NEW u \in Threads,
           NEW inReverse \in BOOLEAN
    PROVE  ClockBack(u, j, inReverse) \in [Threads -> Nat]
  <1> DEFINE n == Len(transitionStack)
             touched == IF inReverse THEN Runs(u, j + 1, n) ELSE Runs(u, 1, j)
             i == IF inReverse THEN Min(touched) ELSE Max(touched)
  <1>1. n \in Nat /\ Len(stateStack) = n + 1 /\ stateStack \in Seq(Items)
    BY DEF Stacks
  <1>2. touched \in SUBSET Nat /\ touched \subseteq 1 .. n /\ \A k \in touched : k <= n
    BY <1>1 DEF Runs
  <1>3. ClockBack(u, j, inReverse) =
           IF touched = {} THEN threadData[u].clock ELSE stateStack[i + 1].clock
    BY DEF ClockBack, getStateItemAtIndex
  <1>4. ASSUME touched # {}
        PROVE  i \in 1 .. n
    <2> HIDE DEF touched
    <2>1. Min(touched) \in touched
      BY <1>2, <1>4, MinIsLeast
    <2>2. Max(touched) \in touched
      BY <1>1, <1>2, <1>4, MaxIsGreatest
    <2> QED BY <1>2, <2>1, <2>2
  <1> HIDE DEF touched, i
  <1>5. CASE touched = {}
    BY <1>3, <1>5 DEF Stacks
  <1>6. CASE touched # {}
    <2>1. stateStack[i + 1] \in Items
      BY <1>1, <1>4, <1>6
    <2> QED BY <1>3, <1>6, <2>1 DEF Items
  <1> QED BY <1>5, <1>6

\* What ExploreBranch does to the stacks.
LEMMA Explored ==
    ASSUME Stacks, BacktrackSetsAreUseful, ExploreBranch
    PROVE  \E j \in 1 .. Len(transitionStack) : \E inReverse \in BOOLEAN :
              /\ current' \in stateStack[j + 1].backtrack
              /\ current' \in Threads
              /\ transitionStack' = SubSeq(transitionStack, 1, j)
              /\ stateStack' = [SubSeq(stateStack, 1, j + 1) EXCEPT
                                  ![j + 1] = markBacktrackThreadSearched(stateStack[j + 1], current')]
              /\ pos' = [u \in Threads |-> PosBack(u, j)]
              /\ threadData' = [u \in Threads |-> [depth |-> DepthBack(u, j, inReverse),
                                                   clock |-> ClockBack(u, j, inReverse)]]
              /\ UNCHANGED <<program, env, known>>
  <1> DEFINE n == Len(transitionStack)
             j == Max(BranchPoints)
             item == stateStack[j + 1]
             inReverse == \A i \in irreversible : j >= i
  <1>1. n \in Nat /\ Len(stateStack) = n + 1 /\ stateStack \in Seq(Items)
    BY DEF Stacks
  <1>2. BranchPoints \subseteq 1 .. n
    BY <1>1 DEF BranchPoints, stateStackTop, BacktrackSetsAreUseful
  <1>3. j \in BranchPoints
    <2>1. BranchPoints \in SUBSET Nat /\ \A k \in BranchPoints : k <= n
      BY <1>2
    <2>2. BranchPoints # {}
      BY DEF ExploreBranch
    <2> QED BY <1>1, <2>1, <2>2, MaxIsGreatest
  <1>4. j \in 1 .. n
    BY <1>2, <1>3
  <1>5. item.backtrack # {} /\ item.backtrack \in SUBSET Threads
    <2>1. item.backtrack # {}
      BY <1>3 DEF BranchPoints, getStateItemAtIndex
    <2> HIDE DEF j
    <2>2. item \in Items
      BY <1>1, <1>4
    <2> QED BY <2>1, <2>2 DEF Items
  <1>6. ThreadToBacktrackOn(item) \in item.backtrack
    <2> HIDE DEF item
    <2>1. item.backtrack \in SUBSET Nat
      BY <1>5 DEF Threads
    <2> QED BY <1>5, <2>1, MinIsLeast DEF ThreadToBacktrackOn
  <1>7. /\ current' = ThreadToBacktrackOn(item)
        /\ transitionStack' = SubSeq(transitionStack, 1, j)
        /\ stateStack' = [SubSeq(stateStack, 1, j + 1) EXCEPT
                            ![j + 1] = markBacktrackThreadSearched(item, ThreadToBacktrackOn(item))]
        /\ pos' = [u \in Threads |-> PosBack(u, j)]
        /\ threadData' = [u \in Threads |-> [depth |-> DepthBack(u, j, inReverse),
                                             clock |-> ClockBack(u, j, inReverse)]]
        /\ UNCHANGED <<program, env, known>>
    BY DEF ExploreBranch, getStateItemAtIndex
  <1>8. inReverse \in BOOLEAN
    OBVIOUS
  <1> HIDE DEF j, inReverse
  <1> QED BY <1>4, <1>5, <1>6, <1>7, <1>8

LEMMA ExploreKeeps ==
    ASSUME StackInv, ExploreBranch
    PROVE  StackInv' /\ current' \in Threads
  <1>1. Stacks /\ ClocksLookBack /\ Depths /\ Succession /\ BacktrackSetsAreUseful /\ SleepIsJustified
    BY DEF StackInv
  <1>2. PICK j \in 1 .. Len(transitionStack), inReverse \in BOOLEAN :
           /\ current' \in stateStack[j + 1].backtrack
           /\ current' \in Threads
           /\ transitionStack' = SubSeq(transitionStack, 1, j)
           /\ stateStack' = [SubSeq(stateStack, 1, j + 1) EXCEPT
                               ![j + 1] = markBacktrackThreadSearched(stateStack[j + 1], current')]
           /\ pos' = [u \in Threads |-> PosBack(u, j)]
           /\ threadData' = [u \in Threads |-> [depth |-> DepthBack(u, j, inReverse),
                                                clock |-> ClockBack(u, j, inReverse)]]
           /\ UNCHANGED <<program, env, known>>
    BY <1>1, Explored
  <1>3. PICK t \in Threads : t = current'
    BY <1>2
  <1> DEFINE item == stateStack[j + 1]
             marked == markBacktrackThreadSearched(item, t)
  <1>4. /\ transitionStack \in Seq(Steps) /\ stateStack \in Seq(Items)
        /\ Len(transitionStack) \in Nat /\ Len(stateStack) = Len(transitionStack) + 1
        /\ j \in Nat /\ j >= 1 /\ j <= Len(transitionStack)
    BY <1>1 DEF Stacks
  <1>5. /\ transitionStack' \in Seq(Steps)
        /\ Len(transitionStack') = j
        /\ \A i \in 1 .. j : transitionStack'[i] = transitionStack[i]
    BY <1>2, <1>4
  <1>6. /\ item \in Items /\ marked \in Items
        /\ marked.done = item.done \cup {t} /\ marked.backtrack = item.backtrack \ {t}
        /\ marked.sleep = item.sleep /\ marked.enabled = item.enabled /\ marked.clock = item.clock
    <2>1. item \in Items
      BY <1>4
    <2> HIDE DEF item
    <2> QED BY <2>1 DEF markBacktrackThreadSearched, Items
  <1>7. /\ stateStack' \in Seq(Items)
        /\ Len(stateStack') = j + 1
        /\ \A i \in 1 .. j : stateStack'[i] = stateStack[i]
        /\ stateStack'[j + 1] = marked
    <2> DEFINE kept == SubSeq(stateStack, 1, j + 1)
    <2>1. kept \in Seq(Items) /\ Len(kept) = j + 1 /\ \A i \in 1 .. j + 1 : kept[i] = stateStack[i]
      BY <1>4
    <2>2. stateStack' = [kept EXCEPT ![j + 1] = marked]
      BY <1>2, <1>3
    <2> HIDE DEF kept, marked
    <2> QED BY <1>4, <1>6, <2>1, <2>2
  <1>8. DOMAIN stateStack = 1 .. Len(transitionStack) + 1 /\ DOMAIN stateStack' = 1 .. j + 1
    BY <1>4, <1>7
  <1>9. ASSUME NEW i \in 1 .. j + 1
        PROVE  /\ stateStack'[i].backtrack \subseteq stateStack[i].backtrack
               /\ stateStack[i].done \subseteq stateStack'[i].done
               /\ stateStack'[i].sleep = stateStack[i].sleep
               /\ stateStack'[i].enabled = stateStack[i].enabled
               /\ stateStack'[i].clock = stateStack[i].clock
               /\ i \in DOMAIN stateStack
               /\ \/ stateStack'[i] = stateStack[i]
                  \/ i = j + 1 /\ stateStack'[i] = marked
    <2> HIDE DEF item, marked
    <2>1. CASE i \in 1 .. j
      BY <1>4, <1>7, <1>8, <2>1
    <2>2. CASE i = j + 1
      BY <1>4, <1>6, <1>7, <1>8, <2>2 DEF item
    <2> QED BY <1>4, <2>1, <2>2
  <1>10. \A u \in Threads :
            /\ PosBack(u, j) = PosAfter(u, j) /\ PosBack(u, j) \in Nat
            /\ DepthBack(u, j, inReverse) = DepthOf(u, 1, j) /\ DepthOf(u, 1, j) \in Nat
            /\ ClockBack(u, j, inReverse) \in [Threads -> Nat]
    BY <1>1, <1>4, PosBackIsPosAfter, DepthBackIsDepth, ClockBackType
  <1>11. Stacks'
    <2>1. pos' \in [Threads -> Nat]
      BY <1>2, <1>10
    <2>2. threadData' \in [Threads -> [depth : Int, clock : [Threads -> Nat]]]
      BY <1>2, <1>10
    <2>3. /\ program' \in Programs /\ env'.PRINT_AT_TRACE_SEQ \in Seq(Threads)
          /\ known' \in SUBSET Threads /\ Main \in known'
      BY <1>1, <1>2 DEF Stacks
    <2>4. (Len(stateStack) = Len(transitionStack) + 1)'
      BY <1>5, <1>7
    <2> QED BY <1>5, <1>7, <2>1, <2>2, <2>3, <2>4 DEF Stacks, Steps, Items, Threads
  <1>12. ClocksLookBack'
    <2>1. \A i \in 1 .. j + 1 : \A u \in Threads : stateStack'[i].clock[u] <= i
      BY <1>1, <1>9 DEF ClocksLookBack
    <2> QED BY <1>8, <2>1 DEF ClocksLookBack
  <1>13. Depths'
    <2>1. \A u \in Threads : DepthOf(u, 1, j)' = DepthOf(u, 1, j)
      BY <1>2, <1>4, <1>5, DepthStays
    <2>2. \A u \in Threads : threadData'[u].depth = DepthOf(u, 1, j)'
      BY <1>2, <1>10, <2>1
    <2> QED BY <1>5, <2>2 DEF Depths
  <1>14. \A u, m : m \in 0 .. j => PosAfter(u, m)' = PosAfter(u, m)
    BY <1>2, <1>4, <1>5, PosAfterStays
  <1>15. Succession'
    <2>1. (\A u \in Threads : pos[u] = PosAfter(u, Len(transitionStack)))'
      <3>1. \A u \in Threads : pos'[u] = PosBack(u, j)
        BY <1>2
      <3>2. \A u \in Threads : PosAfter(u, j)' = PosAfter(u, j)
        BY <1>4, <1>14
      <3>3. \A u \in Threads : pos'[u] = PosAfter(u, j)'
        BY <1>10, <3>1, <3>2
      <3> QED BY <1>5, <3>3
    <2>2. (\A i \in DOMAIN transitionStack : \A u \in Threads :
              transitionStack[i].tid = u => transitionStack[i].pos = PosAfter(u, i - 1))'
      <3>1. ASSUME NEW i \in 1 .. j, NEW u \in Threads, transitionStack'[i].tid = u
            PROVE  transitionStack'[i].pos = PosAfter(u, i - 1)'
        <4>1. i \in DOMAIN transitionStack /\ i - 1 \in 0 .. j
          BY <1>4
        <4>2. transitionStack[i].pos = PosAfter(u, i - 1)
          BY <1>1, <1>5, <3>1, <4>1 DEF Succession
        <4> QED BY <1>5, <1>14, <4>1, <4>2
      <3>2. DOMAIN transitionStack' = 1 .. j
        BY <1>5
      <3> QED BY <3>1, <3>2
    <2> QED BY <2>1, <2>2 DEF Succession
  <1>16. BacktrackSetsAreUseful'
    <2>1. ASSUME NEW i \in 1 .. j + 1
          PROVE  /\ stateStack'[i].backtrack \subseteq stateStack'[i].enabled
                 /\ stateStack'[i].backtrack \cap (stateStack'[i].done \cup stateStack'[i].sleep) = {}
      <3>1. /\ stateStack[i].backtrack \subseteq stateStack[i].enabled
            /\ stateStack[i].backtrack \cap (stateStack[i].done \cup stateStack[i].sleep) = {}
        BY <1>1, <1>9 DEF BacktrackSetsAreUseful
      <3>2. CASE stateStack'[i] = stateStack[i]
        BY <3>1, <3>2
      <3>3. CASE i = j + 1 /\ stateStack'[i] = marked
        BY <1>6, <3>1, <3>3
      <3> QED BY <1>9, <3>2, <3>3
    <2>2. 0 \notin BranchPoints'
      <3>1. stateStack'[1].backtrack \subseteq stateStack[1].backtrack
        BY <1>4, <1>9
      <3>2. stateStack[1].backtrack = {}
        BY <1>1, <1>4 DEF BacktrackSetsAreUseful, BranchPoints, stateStackTop, getStateItemAtIndex
      <3> QED BY <3>1, <3>2 DEF BranchPoints, getStateItemAtIndex
    <2> QED BY <1>8, <2>1, <2>2 DEF BacktrackSetsAreUseful
  <1>17. SleepIsJustified'
    <2>1. ASSUME NEW m \in 1 .. j + 1, NEW q \in stateStack'[m].sleep
          PROVE  Justified(m, q)'
      <3>1. Justified(m, q)
        BY <1>1, <1>9, SleepForm
      <3>2. m \in Nat /\ m - 1 <= Len(transitionStack)
        BY <1>4
      <3>3. \A i \in 1 .. m : stateStack[i].done \subseteq stateStack'[i].done
        <4>1. \A i \in 1 .. m : i \in 1 .. j + 1
          BY <1>4
        <4> QED BY <1>9, <4>1
      <3>4. \A k \in 1 .. m - 1 : transitionStack'[k] = transitionStack[k]
        <4>1. \A k \in 1 .. m - 1 : k \in 1 .. j
          BY <1>4
        <4> QED BY <1>5, <4>1
      <3> QED BY <1>2, <3>1, <3>2, <3>3, <3>4, JustifiedStays
    <2>2. (\A m \in DOMAIN stateStack : \A q \in stateStack[m].sleep : Justified(m, q))'
      BY <1>8, <2>1
    <2> QED BY <2>2, SleepFormNext
  <1> QED BY <1>2, <1>11, <1>12, <1>13, <1>15, <1>16, <1>17 DEF StackInv

-----------------------------------------------------------------------------
(* A fresh search *)

Fresh ==
    /\ program \in Programs
    /\ env.PRINT_AT_TRACE_SEQ \in Seq(Threads)
    /\ pos = [t \in Threads |-> 0]
    /\ transitionStack = << >>
    /\ stateStack = <<NewItem(ZeroClock, {})>>
    /\ known = {Main}
    /\ threadData = [t \in Threads |-> [depth |-> 0, clock |-> ZeroClock]]

LEMMA FreshIsFine == Fresh => StackInv
  <1> SUFFICES ASSUME Fresh
               PROVE  StackInv
    OBVIOUS
  <1> DEFINE item == NewItem(ZeroClock, {})
  <1>1. /\ item \in Items /\ item.backtrack = {} /\ item.sleep = {} /\ item.done = {}
        /\ item.clock = ZeroClock
    BY DEF NewItem, Items, ZeroClock
  <1>2. stateStack \in Seq(Items) /\ Len(stateStack) = 1 /\ stateStack[1] = item
    <2> HIDE DEF item
    <2>1. stateStack = <<item>>
      BY DEF Fresh, item
    <2> QED BY <1>1, <2>1
  <1>3. Len(transitionStack) = 0 /\ transitionStack \in Seq(Steps) /\ DOMAIN transitionStack = {}
    BY DEF Fresh
  <1> HIDE DEF item
  <1>4. Main \in Threads
    BY LastThreadAssumption DEF Main, Threads
  <1>5. Stacks
    BY <1>2, <1>3, <1>4 DEF Fresh, Stacks, ZeroClock
  <1>6. ClocksLookBack
    BY <1>1, <1>2 DEF ClocksLookBack, ZeroClock
  <1>7. \A u : Runs(u, 1, 0) = {}
    BY DEF Runs
  <1>8. Depths
    <2>1. \A u : DepthOf(u, 1, 0) = 0
      BY FS_EmptySet DEF DepthOf
    <2> QED BY <1>3, <2>1 DEF Fresh, Depths
  <1>9. Succession
    <2>1. \A u : PosAfter(u, 0) = 0
      BY <1>7 DEF PosAfter
    <2> QED BY <1>3, <2>1 DEF Fresh, Succession
  <1>10. BacktrackSetsAreUseful
    BY <1>1, <1>2 DEF BacktrackSetsAreUseful, BranchPoints, getStateItemAtIndex
  <1>11. SleepIsJustified
    BY <1>1, <1>2 DEF SleepIsJustified
  <1> QED BY <1>5, <1>6, <1>8, <1>9, <1>10, <1>11 DEF StackInv

LEMMA FreshIsFineNext == Fresh' => StackInv'
  BY FreshIsFine, PTL

LEMMA StackInvStays ==
    ASSUME StackInv,
           UNCHANGED <<program, env, pos, transitionStack, stateStack, known, threadData>>
    PROVE  StackInv'
  <1>1. Stacks' /\ ClocksLookBack'
    BY DEF StackInv, Stacks, Steps, Items, ClocksLookBack
  <1>2. \A u, m : Runs(u, 1, m)' = Runs(u, 1, m)
    BY DEF Runs
  <1>3. \A u, m : PosAfter(u, m)' = PosAfter(u, m)
    BY <1>2 DEF PosAfter
  <1>4. \A i : Decode(transitionStack[i])' = Decode(transitionStack[i])
    BY DEF Decode
  <1>5. Depths'
    BY <1>4 DEF StackInv, Depths, DepthOf
  <1>6. Succession'
    BY <1>3 DEF StackInv, Succession
  <1>7. BacktrackSetsAreUseful'
    BY DEF StackInv, BacktrackSetsAreUseful, BranchPoints, stateStackTop, getStateItemAtIndex
  <1>8. SleepIsJustified'
    BY <1>3, <1>4 DEF StackInv, SleepIsJustified
  <1> QED BY <1>1, <1>5, <1>6, <1>7, <1>8 DEF StackInv

-----------------------------------------------------------------------------
(* Who runs next *)

LEMMA FirstIsThread ==
    ASSUME NEW o, NEW next, NEW data, NEW threads \in SUBSET Threads, NEW item
    PROVE  getFirstEnabledTransition(o, next, data, threads, item) \in Threads \cup {NoThread}
  <1> DEFINE ready == {t \in threads :
                          transitionIsEnabled(o, next, data, t) /\ t \notin item.sleep}
  <1>1. ready \in SUBSET Nat /\ ready \subseteq Threads
    <2>1. ready \subseteq threads
      OBVIOUS
    <2> HIDE DEF ready
    <2> QED BY <2>1, LastThreadAssumption DEF Threads
  <1>2. getFirstEnabledTransition(o, next, data, threads, item)
          = IF ready = {} THEN NoThread ELSE Min(ready)
    BY DEF getFirstEnabledTransition
  <1> HIDE DEF ready
  <1> QED BY <1>1, <1>2, MinIsLeast

LEMMA FairIsThread ==
    ASSUME NEW o, NEW next, NEW data, NEW threads \in SUBSET Threads, NEW item, NEW last \in Int
    PROVE  getNextFairTransition(o, next, data, threads, item, last) \in Threads \cup {NoThread}
  <1> DEFINE n == Cardinality(threads)
             ready == {i \in 0 .. n - 1 :
                          /\ transitionIsEnabled(o, next, data, (last + 1 + i) % n)
                          /\ i \notin item.sleep}
  <1>1. n \in Nat /\ n <= LastThread + 1
    <2>1. IsFiniteSet(Threads) /\ Cardinality(Threads) = LastThread + 1
      BY LastThreadAssumption, FS_Interval DEF Threads
    <2>2. IsFiniteSet(threads) /\ n <= Cardinality(Threads)
      BY <2>1, FS_Subset
    <2> QED BY <2>1, <2>2, FS_CardinalityType
  <1>2. getNextFairTransition(o, next, data, threads, item, last)
          = IF ready = {} THEN NoThread ELSE (last + 1 + Min(ready)) % n
    BY DEF getNextFairTransition
  <1>3. ready \in SUBSET Nat /\ ready \subseteq 0 .. n - 1
    BY <1>1
  <1> HIDE DEF n, ready
  <1>4. ASSUME ready # {}
        PROVE  (last + 1 + Min(ready)) % n \in Threads
    <2>1. Min(ready) \in ready
      BY <1>3, <1>4, MinIsLeast
    <2>2. Min(ready) \in 0 .. n - 1
      BY <1>3, <2>1
    <2>3. n > 0 /\ Min(ready) \in Nat
      BY <1>1, <2>2
    <2>4. (last + 1 + Min(ready)) % n \in 0 .. n - 1
      BY <1>1, <2>3
    <2> QED BY <1>1, <2>4, LastThreadAssumption DEF Threads
  <1> QED BY <1>2, <1>4

LEMMA NextIsThread ==
    ASSUME Stacks, Scheduled, NEW o, NEW next, NEW data, NEW threads \in SUBSET Threads,
           NEW item, NEW top, NEW end, NEW type, NEW t \in Threads
    PROVE  NextTransition(o, next, data, threads, item, top, end, type, t)
             \in Threads \cup {NoThread}
  <1>1. getNextTraceSeqEntry(seq.next, end) \in Threads \cup {NoThread}
    <2>1. seq.next \in Nat
      BY DEF Scheduled
    <2> QED BY <2>1, EntryIsThread
  <1>2. getFirstEnabledTransition(o, next, data, threads, item) \in Threads \cup {NoThread}
    BY FirstIsThread
  <1>3. \A last \in Int :
           getNextFairTransition(o, next, data, threads, item, last) \in Threads \cup {NoThread}
    BY FairIsThread
  <1>4. t \in Int /\ t - 1 + Cardinality(threads) \in Int
    <2>1. IsFiniteSet(Threads)
      BY LastThreadAssumption, FS_Interval DEF Threads
    <2>2. IsFiniteSet(threads)
      BY <2>1, FS_Subset
    <2>3. Cardinality(threads) \in Nat
      BY <2>2, FS_CardinalityType
    <2> QED BY <2>3, LastThreadAssumption DEF Threads
  <1> QED BY <1>1, <1>2, <1>3, <1>4 DEF NextTransition

LEMMA SeqIsNat ==
    ASSUME Stacks, Scheduled, NEW index \in Nat, NEW end \in Nat
    PROVE  Later(index) \in Nat /\ EndAfter(index, end) \in Nat
  BY DEF Scheduled, Later, EndAfter

-----------------------------------------------------------------------------
(* The actions of the search *)

LEMMA RunAdvances ==
    ASSUME StackInv, Scheduled, NEW ascending \in BOOLEAN, RunTransition(ascending)
    PROVE  \E t \in Threads : t = current /\ Advances(t)
  <1>1. Stacks /\ ClocksLookBack
    BY DEF StackInv
  <1>2. PICK t \in Threads : t = current
    BY DEF RunTransition, InLoop, Scheduled
  <1>3. /\ simulateRunningTransition(t)
        /\ stateStack' = dynamicallyUpdateBacktrackSets(growStateStackRunningTransition(t),
               transitionStack', threadData', objects', pos', known', ascending)
        /\ UNCHANGED <<program, env, traceId>>
    BY <1>2 DEF RunTransition
  <1>4. Advances(t)
    <2> DEFINE grown == growStateStackRunningTransition(t)
    <2>1. grown \in Seq(Items) /\ Len(grown) = Len(transitionStack) + 2
      BY <1>1, <1>3, Grown
    <2>2. /\ transitionStack' \in Seq(Steps) /\ Len(transitionStack') = Len(transitionStack) + 1
          /\ known' \in SUBSET Threads
          /\ threadData' \in [Threads -> [depth : Int, clock : [Threads -> Nat]]]
      BY <1>1, <1>3, Simulated
    <2>3. Len(transitionStack) \in Nat
      BY <1>1 DEF Stacks
    <2> HIDE DEF grown
    <2>4. Len(transitionStack') > 0 /\ Len(grown) = Len(transitionStack') + 1
      BY <2>1, <2>2, <2>3
    <2>5. ASSUME NEW stack, stack = transitionStack', NEW data, data = threadData',
                 NEW threads, threads = known', NEW o, NEW next
          PROVE  OnlyBacktrack(dynamicallyUpdateBacktrackSets(grown, stack, data, o, next,
                                                              threads, ascending), grown)
      <3>1. /\ stack \in Seq(Steps) /\ Len(stack) > 0 /\ Len(grown) = Len(stack) + 1
            /\ threads \in SUBSET Threads
            /\ data \in [Threads -> [depth : Int, clock : [Threads -> Nat]]]
        BY <2>2, <2>4, <2>5
      <3> QED BY <2>1, <3>1, UpdateAdds
    <2>6. OnlyBacktrack(dynamicallyUpdateBacktrackSets(grown, transitionStack', threadData',
                            objects', pos', known', ascending), grown)
      BY <2>5
    <2> QED BY <1>3, <2>6 DEF Advances, grown
  <1> QED BY <1>2, <1>4

LEMMA RunKeeps ==
    ASSUME StackInv, Scheduled, NEW ascending \in BOOLEAN, RunTransition(ascending)
    PROVE  StackInv' /\ Scheduled'
  <1>1. Stacks /\ ClocksLookBack
    BY DEF StackInv
  <1>2. PICK t \in Threads : t = current /\ Advances(t)
    BY RunAdvances
  <1>3. simulateRunningTransition(t) /\ UNCHANGED <<program, env, traceId>>
    BY <1>2 DEF RunTransition
  <1>4. Scheduled'
    <2> DEFINE end == EndAfter(seq.enabled, seq.end)
               type == TransitionAt(program, t, pos[t]).type
               chosen == NextTransition(objects', pos', threadData', known', Last(stateStack'),
                                        Len(transitionStack), end, type, t)
    <2>1. \/ UNCHANGED <<current, phase, seq>>
          \/ \E stop \in BOOLEAN :
                /\ chosen = NoThread => stop
                /\ current' = IF stop THEN NoThread ELSE chosen
                /\ phase' = IF stop THEN "ended" ELSE "running"
                /\ seq' = [next |-> Later(seq.next), enabled |-> Later(seq.enabled),
                           end |-> EndAfter(seq.next, end)]
      BY <1>2 DEF RunTransition
    <2>2. chosen \in Threads \cup {NoThread}
      <3>1. known' \in SUBSET Threads
        BY <1>1, <1>3, Simulated
      <3> QED BY <1>1, <3>1, NextIsThread
    <2>3. [next |-> Later(seq.next), enabled |-> Later(seq.enabled),
           end |-> EndAfter(seq.next, end)] \in [next : Nat, enabled : Nat, end : Nat]
      <3>1. seq.next \in Nat /\ seq.enabled \in Nat /\ seq.end \in Nat
        BY DEF Scheduled
      <3>2. end \in Nat
        BY <1>1, <3>1, SeqIsNat
      <3> HIDE DEF end
      <3>3. Later(seq.next) \in Nat /\ Later(seq.enabled) \in Nat /\ EndAfter(seq.next, end) \in Nat
        BY <1>1, <3>1, <3>2, SeqIsNat
      <3> QED BY <3>3
    <2> HIDE DEF end, chosen
    <2>4. CASE UNCHANGED <<current, phase, seq>>
      BY <1>3, <2>4 DEF Scheduled
    <2>5. ASSUME NEW stop \in BOOLEAN,
                 chosen = NoThread => stop,
                 current' = IF stop THEN NoThread ELSE chosen,
                 phase' = IF stop THEN "ended" ELSE "running",
                 seq' = [next |-> Later(seq.next), enabled |-> Later(seq.enabled),
                         end |-> EndAfter(seq.next, end)]
          PROVE  Scheduled'
      <3>1. seq' \in [next : Nat, enabled : Nat, end : Nat]
        BY <2>3, <2>5
      <3>2. traceId' \in Nat
        BY <1>3 DEF Scheduled
      <3>3. phase' = "running" => current' \in Threads
        BY <2>2, <2>5
      <3> QED BY <3>1, <3>2, <3>3 DEF Scheduled
    <2> QED BY <2>1, <2>4, <2>5
  <1> QED BY <1>2, <1>4, AdvanceKeeps

LEMMA RestoreKeeps ==
    ASSUME StackInv, Scheduled, mc_restore_initial_trace
    PROVE  StackInv' /\ Scheduled'
  <1>1. StackInv'
    <2>1. Fresh'
      BY DEF mc_restore_initial_trace, Fresh, StackInv, Stacks
    <2> QED BY <2>1, FreshIsFineNext
  <1>2. current' \in Threads
    <2>1. env.PRINT_AT_TRACE_SEQ \in Seq(Threads) /\ env.PRINT_AT_TRACE_SEQ # << >>
      BY DEF mc_restore_initial_trace, StackInv, Stacks
    <2>2. env.PRINT_AT_TRACE_SEQ[1] \in Threads
      BY <2>1
    <2> QED BY <2>2 DEF mc_restore_initial_trace
  <1>3. seq' \in [next : Nat, enabled : Nat, end : Nat] /\ traceId' \in Nat
    BY DEF mc_restore_initial_trace, Scheduled
  <1> QED BY <1>1, <1>2, <1>3 DEF Scheduled

LEMMA SearchKeeps ==
    ASSUME StackInv, Scheduled, SearchNext
    PROVE  StackInv' /\ Scheduled'
  <1>1. CASE \E ascending \in BOOLEAN : RunTransition(ascending)
    BY <1>1, RunKeeps
  <1>2. CASE Abort \/ ExecutionLimit \/ Finish
    <2>1. StackInv'
      BY <1>2, StackInvStays DEF Abort, ExecutionLimit, Finish, modelVars
    <2>2. UNCHANGED <<current, phase, traceId, seq>>
      BY <1>2 DEF Abort, ExecutionLimit, Finish
    <2> QED BY <2>1, <2>2 DEF Scheduled
  <1>3. CASE mc_restore_initial_trace
    BY <1>3, RestoreKeeps
  <1>4. CASE ExploreBranch
    <2>1. StackInv' /\ current' \in Threads
      BY <1>4, ExploreKeeps
    <2>2. seq' = [seq EXCEPT !.next = 0, !.end = traceId + 2] /\ traceId' = traceId + 1
      BY <1>4 DEF ExploreBranch
    <2>3. seq \in [next : Nat, enabled : Nat, end : Nat] /\ traceId + 2 \in Nat
      BY DEF Scheduled
    <2>4. seq' \in [next : Nat, enabled : Nat, end : Nat]
      BY <2>2, <2>3
    <2>5. traceId' \in Nat
      BY <2>2 DEF Scheduled
    <2> QED BY <2>1, <2>4, <2>5 DEF Scheduled
  <1> QED BY <1>1, <1>2, <1>3, <1>4 DEF SearchNext

-----------------------------------------------------------------------------
(* The livelock check *)

\* The loop runs, or a trace has been judged: no check is going on.
LEMMA NoCheckInSearch ==
    ASSUME Checked, SearchNext, UNCHANGED livelock
    PROVE  Checked' /\ EverybodyHadATurn'
  <1>1. phase # "ended"
    BY DEF SearchNext, RunTransition, Abort, ExecutionLimit, Finish, ExploreBranch,
           mc_restore_initial_trace, InLoop, Judged
  <1>2. livelock.stage = "idle" /\ ~ livelock.verdict
    BY <1>1 DEF Checked
  <1> QED BY <1>2 DEF Checked, EverybodyHadATurn

RunsInCheck(t) == \E calls \in 1 .. 3 : RunInCheck(t, calls)

LEMMA RunInCheckIsOne ==
    ASSUME NEW t, NEW revisited, RunInCheck(t, CallsOfTurn(revisited))
    PROVE  RunsInCheck(t)
  <1>1. CallsOfTurn(revisited) \in 1 .. 3
    BY DEF CallsOfTurn
  <1> QED BY <1>1 DEF RunsInCheck

LEMMA RunsInCheckChanges ==
    ASSUME NEW t, RunsInCheck(t)
    PROVE  /\ simulateRunningTransition(t)
           /\ stateStack' = growStateStackRunningTransition(t)
           /\ result' = IF Aborts(t) THEN "abort" ELSE result
           /\ UNCHANGED <<program, env, configuration, current, phase, traceId>>
           /\ \E calls \in 1 .. 3 : seq' = AfterCalls[calls]
  <1>1. PICK calls \in 1 .. 3 : RunInCheck(t, calls)
    BY DEF RunsInCheck
  <1> QED BY Zenon, <1>1 DEF RunInCheck

\* However often getCurrentlyEnabledThreads is called.
LEMMA AfterCallsIsSeq ==
    ASSUME Stacks, Scheduled, NEW calls \in 1 .. 3
    PROVE  AfterCalls[calls] \in [next : Nat, enabled : Nat, end : Nat]
  <1> DEFINE Seqs == [next : Nat, enabled : Nat, end : Nat]
  <1>1. \A s \in Seqs : AfterCall(s) \in Seqs
    <2> SUFFICES ASSUME NEW s \in Seqs PROVE AfterCall(s) \in Seqs
      OBVIOUS
    <2>1. Later(s.enabled) \in Nat /\ EndAfter(s.enabled, s.end) \in Nat
      BY SeqIsNat
    <2> QED BY <2>1 DEF AfterCall
  <1>2. seq \in Seqs
    BY DEF Scheduled
  <1> HIDE DEF Seqs
  <1>3. /\ AfterCall(seq) \in Seqs
        /\ AfterCall(AfterCall(seq)) \in Seqs
        /\ AfterCall(AfterCall(AfterCall(seq))) \in Seqs
    BY <1>1, <1>2
  <1>4. AfterCalls = <<AfterCall(seq), AfterCall(AfterCall(seq)),
                       AfterCall(AfterCall(AfterCall(seq)))>>
    BY DEF AfterCalls
  <1>5. AfterCalls[calls] \in Seqs
    BY <1>3, <1>4
  <1> QED BY <1>5 DEF Seqs

\* The check does to the stacks what the search does, and backtrack sets it leaves alone.
LEMMA RunInCheckKeeps ==
    ASSUME StackInv, Scheduled, phase = "ended", NEW t \in Threads, RunsInCheck(t),
           NEW n \in Nat, n = Len(transitionStack)
    PROVE  /\ StackInv'
           /\ Scheduled'
           /\ phase' = "ended"
           /\ Len(transitionStack') = n + 1
           /\ \A k \in 1 .. n : Decode(transitionStack[k])' = Decode(transitionStack[k])
           /\ Decode(transitionStack[n + 1])' = Pending(t)
  <1>1. Stacks /\ ClocksLookBack
    BY DEF StackInv
  <1>2. /\ simulateRunningTransition(t)
        /\ stateStack' = growStateStackRunningTransition(t)
        /\ UNCHANGED <<program, env, current, phase, traceId>>
    BY RunsInCheckChanges
  <1>3. StackInv'
    <2>1. OnlyBacktrack(stateStack', growStateStackRunningTransition(t))
      BY <1>1, <1>2, Grown DEF OnlyBacktrack
    <2> QED BY <1>2, <2>1, AdvanceKeeps DEF Advances
  <1>4. Scheduled'
    <2>1. PICK calls \in 1 .. 3 : seq' = AfterCalls[calls]
      BY RunsInCheckChanges
    <2>2. seq' \in [next : Nat, enabled : Nat, end : Nat]
      BY <1>1, <2>1, AfterCallsIsSeq
    <2> QED BY <1>2, <2>2 DEF Scheduled
  <1>5. /\ Len(transitionStack') = n + 1
        /\ \A i \in 1 .. n : transitionStack'[i] = transitionStack[i]
        /\ transitionStack'[n + 1] = [tid |-> t, pos |-> pos[t]]
    BY <1>1, <1>2, Simulated
  <1>6. \A k \in 1 .. n : Decode(transitionStack[k])' = Decode(transitionStack[k])
    BY <1>2, <1>5 DEF Decode
  <1>7. Decode(transitionStack[n + 1])' = Pending(t)
    BY <1>2, <1>5 DEF Decode, Pending
  <1> QED BY <1>2, <1>3, <1>4, <1>5, <1>6, <1>7

\* The thread whose turn it is, is the one before or another that the check knows.
LEMMA TurnIsKnown ==
    ASSUME Checked, livelock.stage = "cycle"
    PROVE  CycleTurn(InCycle, livelock.threads).next \in livelock.threads \cup {livelock.next}
  <1> DEFINE m == InCycle
             threads == livelock.threads
             related == Related(m, threads)
             t == Turn(m, related, threads)
             moved == [m EXCEPT !.related = related, !.next = t]
  <1>1. threads \subseteq Threads
    BY DEF Checked
  <1>2. t \in threads \cup {livelock.next}
    <2> DEFINE able == {u \in threads \cap related : Enabled1(m.objects, m.pos, u)}
    <2>1. able \subseteq threads
      OBVIOUS
    <2>2. t = livelock.next \/ (able # {} /\ t = Min(able))
      <3>1. m.next = livelock.next
        BY DEF InCycle
      <3> QED BY <3>1 DEF Turn
    <2> HIDE DEF able, t
    <2>3. able \in SUBSET Nat
      BY <1>1, <2>1, LastThreadAssumption DEF Threads
    <2> QED BY <2>1, <2>2, <2>3, MinIsLeast
  <1> HIDE DEF related, t
  <1>3. moved.next = t /\ After(moved, t).next = t
    BY DEF InCycle, After
  <1>4. CycleTurn(m, threads) = IF Enabled1(m.objects, m.pos, t) THEN After(moved, t) ELSE moved
    BY DEF CycleTurn, related, t
  <1> QED BY <1>2, <1>3, <1>4

LEMMA TurnIsThread ==
    ASSUME Checked, livelock.stage = "cycle"
    PROVE  CycleTurn(InCycle, livelock.threads).next \in Threads
  BY TurnIsKnown DEF Checked

LEMMA StartCheckKeeps ==
    ASSUME StackInv, Scheduled, Checked, StartCheck
    PROVE  SearchInv'
  <1>1. StackInv'
    BY StackInvStays DEF StartCheck, modelVars
  <1>2. Scheduled' /\ phase = "ended" /\ phase' = "ended"
    BY DEF Scheduled, StartCheck, Checking
  <1>3. Checked' /\ EverybodyHadATurn'
    <2> DEFINE enabled == EnabledIn(objects, pos, known)
    <2>1. known \in SUBSET Threads /\ enabled \subseteq Threads
      BY DEF EnabledIn, StackInv, Stacks
    <2>2. \/ /\ enabled # {}
             /\ livelock' = [Idle EXCEPT !.stage = "seed", !.threads = known,
                                         !.next = Max(enabled)]
          \/ livelock' = [Idle EXCEPT !.stage = "done"]
          \/ livelock.stage = "idle" /\ livelock' = livelock
      BY DEF StartCheck, Checking
    <2> HIDE DEF enabled
    <2>3. ASSUME enabled # {}
          PROVE  Max(enabled) \in Threads
      <3>1. enabled \in SUBSET Nat /\ \A k \in enabled : k <= LastThread
        BY <2>1, LastThreadAssumption DEF Threads
      <3> QED BY <2>1, <2>3, <3>1, MaxIsGreatest, LastThreadAssumption
    <2>4. CASE /\ enabled # {}
               /\ livelock' = [Idle EXCEPT !.stage = "seed", !.threads = known,
                                           !.next = Max(enabled)]
      BY <1>2, <2>1, <2>3, <2>4 DEF Idle, Checked, EverybodyHadATurn
    <2>5. CASE livelock' = [Idle EXCEPT !.stage = "done"]
      BY <1>2, <2>5 DEF Idle, Checked, EverybodyHadATurn
    <2>6. CASE livelock.stage = "idle" /\ livelock' = livelock
      BY <1>2, <2>6 DEF Checked, EverybodyHadATurn
    <2> QED BY <2>2, <2>4, <2>5, <2>6
  <1> QED BY <1>1, <1>2, <1>3 DEF SearchInv

\* A thread that comes to a GOAL() ends the check: no livelock.
LEMMA GoalKeeps ==
    ASSUME StackInv, Scheduled, Checked, phase = "ended", NEW t, GoalReached(t)
    PROVE  SearchInv'
  <1>1. StackInv'
    BY StackInvStays DEF GoalReached, searchVars, modelVars
  <1>2. Scheduled' /\ phase' = "ended"
    BY DEF Scheduled, GoalReached, searchVars
  <1>3. /\ DOMAIN livelock' = DOMAIN livelock
        /\ livelock'.stage = "done" /\ livelock'.verdict = FALSE
        /\ livelock'.threads = livelock.threads /\ livelock'.start = livelock.start
    BY DEF GoalReached, Checked, Idle
  <1>4. Checked' /\ EverybodyHadATurn'
    BY <1>2, <1>3 DEF Checked, EverybodyHadATurn
  <1> QED BY <1>1, <1>2, <1>4 DEF SearchInv

LEMMA StartCycleKeeps ==
    ASSUME StackInv, Scheduled, Checked, StartCycle
    PROVE  SearchInv'
  <1>1. PICK t \in Threads : t = livelock.next
    BY DEF StartCycle, Checking, Checked
  <1>2. phase = "ended"
    BY DEF StartCycle, Checking
  <1>3. CASE GoalReached(t)
    BY <1>2, <1>3, GoalKeeps
  <1>4. CASE ~ GoalReached(t)
    <2>1. PICK n \in Nat : n = Len(transitionStack)
      BY DEF StackInv, Stacks
    <2>2. PICK visited :
             /\ ~ AtGoal(t)
             /\ RunsInCheck(t)
             /\ livelock' = [livelock EXCEPT
                   !.stage = "cycle", !.i = 1, !.related = {t}, !.explored = @ \cup {t},
                   !.start = n + 1, !.visited = visited]
      BY <1>1, <1>4, <2>1, RunInCheckIsOne DEF StartCycle
    <2>3. /\ StackInv' /\ Scheduled' /\ phase' = "ended" /\ Len(transitionStack') = n + 1
          /\ Decode(transitionStack[n + 1])' = Pending(t)
      BY <1>2, <2>1, <2>2, RunInCheckKeeps
    <2>4. /\ DOMAIN livelock' = DOMAIN livelock
          /\ livelock'.stage = "cycle" /\ livelock'.next = t
          /\ livelock'.threads = livelock.threads /\ livelock'.start = n + 1
          /\ livelock'.verdict = livelock.verdict
      BY <1>1, <2>2 DEF Checked, Idle
    <2>5. ~ livelock.verdict
      BY DEF StartCycle, Checking, Checked
    <2>6. \A k \in n + 1 .. n + 1 : Decode(transitionStack[k])'.type # "progress"
      BY <2>2, <2>3 DEF AtGoal
    <2>7. Checked'
      BY <2>3, <2>4, <2>5, <2>6 DEF Checked
    <2>8. EverybodyHadATurn'
      BY <2>4 DEF EverybodyHadATurn
    <2> QED BY <2>3, <2>7, <2>8 DEF SearchInv
  <1> QED BY <1>3, <1>4

\* A turn in which nobody can run...
TurnPasses(t, related) ==
    /\ livelock' = [livelock EXCEPT !.related = related, !.next = t, !.i = @ + 1]
    /\ UNCHANGED searchVars

\* ... and one in which thread t runs, whatever becomes of the cycle.
TurnRuns(t, related, explored, visited, i) ==
    /\ ~ AtGoal(t)
    /\ RunsInCheck(t)
    /\ livelock' = [livelock EXCEPT
          !.related = related, !.next = t, !.explored = explored,
          !.visited = visited, !.i = i]

LEMMA ContinueCycleKeeps ==
    ASSUME StackInv, Scheduled, Checked, ContinueCycle
    PROVE  SearchInv'
  <1>1. /\ phase = "ended" /\ livelock.stage = "cycle" /\ ~ livelock.verdict
        /\ DOMAIN livelock = DOMAIN Idle
    BY DEF ContinueCycle, Checking, Checked
  <1>2. PICK t \in Threads : t = CycleTurn(InCycle, livelock.threads).next
    BY <1>1, TurnIsThread
  <1>3. PICK n \in Nat : n = Len(transitionStack)
    BY DEF StackInv, Stacks
  <1>4. \/ \E related : TurnPasses(t, related)
        \/ GoalReached(t)
        \/ \E related, explored, visited, i : TurnRuns(t, related, explored, visited, i)
    <2> DEFINE turn == CycleTurn(InCycle, livelock.threads)
               explored == livelock.explored \cup {turn.next}
               EnabledAt(calls) ==
                   EnabledAfter(AfterCalls[calls], objects', pos', known')
               seen == Seen(objects', pos', EnabledAt(1), livelock.threads)
               visited == livelock.visited \cup {seen}
               revisited == seen \in livelock.visited
               stop == /\ LIVELOCK_EARLY_STOPPING /\ revisited
                       /\ canStopSafely(turn, explored, EnabledAt(2), CycleSoFar \cup turn.ran)
    <2>1. \/ TurnPasses(turn.next, turn.related)
          \/ GoalReached(turn.next)
          \/ TurnRuns(turn.next, turn.related, explored, visited, AfterTurn(stop))
      BY RunInCheckIsOne DEF ContinueCycle, TurnPasses, TurnRuns
    <2> HIDE DEF turn, explored, visited, stop
    <2>2. t = turn.next
      BY <1>2 DEF turn
    <2> QED BY <2>1, <2>2
  <1>5. ASSUME NEW related, TurnPasses(t, related)
        PROVE  SearchInv'
    <2>1. StackInv'
      BY <1>5, StackInvStays DEF TurnPasses, searchVars, modelVars
    <2>2. Scheduled' /\ phase' = "ended" /\ transitionStack' = transitionStack /\ program' = program
      BY <1>1, <1>5 DEF TurnPasses, Scheduled, searchVars, modelVars
    <2>3. /\ DOMAIN livelock' = DOMAIN livelock
          /\ livelock'.stage = "cycle" /\ livelock'.next = t
          /\ livelock'.threads = livelock.threads /\ livelock'.start = livelock.start
          /\ livelock'.verdict = livelock.verdict
      BY <1>1, <1>5 DEF TurnPasses, Idle
    <2>4. Checked'
      BY <1>1, <2>2, <2>3 DEF Checked, Decode
    <2>5. EverybodyHadATurn'
      BY <2>3 DEF EverybodyHadATurn
    <2> QED BY <2>1, <2>2, <2>4, <2>5 DEF SearchInv
  <1>6. CASE GoalReached(t)
    BY <1>1, <1>6, GoalKeeps
  <1>7. ASSUME NEW related, NEW explored, NEW visited, NEW i,
               TurnRuns(t, related, explored, visited, i)
        PROVE  SearchInv'
    <2>1. /\ StackInv' /\ Scheduled' /\ phase' = "ended" /\ Len(transitionStack') = n + 1
          /\ \A k \in 1 .. n : Decode(transitionStack[k])' = Decode(transitionStack[k])
          /\ Decode(transitionStack[n + 1])' = Pending(t)
      BY <1>1, <1>3, <1>7, RunInCheckKeeps DEF TurnRuns
    <2>2. /\ DOMAIN livelock' = DOMAIN livelock
          /\ livelock'.stage = "cycle" /\ livelock'.next = t
          /\ livelock'.threads = livelock.threads /\ livelock'.start = livelock.start
          /\ livelock'.verdict = livelock.verdict
      BY <1>1, <1>7 DEF TurnRuns, Idle
    <2>3. /\ livelock.start \in Nat /\ livelock.start # 0
          /\ \A k \in livelock.start .. n : Decode(transitionStack[k]).type # "progress"
      BY <1>1, <1>3 DEF Checked
    <2>4. \A k \in livelock.start .. n + 1 : Decode(transitionStack[k])'.type # "progress"
      <3>1. \A k \in livelock.start .. n + 1 :
              k = n + 1 \/ (k \in 1 .. n /\ k \in livelock.start .. n)
        BY <2>3
      <3> QED BY <1>7, <2>1, <2>3, <3>1 DEF TurnRuns, AtGoal
    <2>5. Checked'
      BY <1>1, <2>1, <2>2, <2>4 DEF Checked
    <2>6. EverybodyHadATurn'
      BY <2>2 DEF EverybodyHadATurn
    <2> QED BY <2>1, <2>5, <2>6 DEF SearchInv
  <1> QED BY <1>4, <1>5, <1>6, <1>7

\* The verdict: nobody is left that can run and had no turn, and the last cycle, like
\* all the others, has met no GOAL().
LEMMA EndCycleKeeps ==
    ASSUME StackInv, Scheduled, Checked, EndCycle
    PROVE  SearchInv'
  <1> DEFINE left == {t \in livelock.threads \ livelock.explored : Enabled1(objects, pos, t)}
  <1>1. /\ phase = "ended" /\ livelock.stage = "cycle" /\ ~ livelock.verdict
        /\ DOMAIN livelock = DOMAIN Idle
        /\ livelock.threads \subseteq Threads
        /\ UNCHANGED searchVars
    BY DEF EndCycle, Checking, Checked
  <1>2. StackInv'
    BY <1>1, StackInvStays DEF searchVars, modelVars
  <1>3. Scheduled' /\ phase' = "ended" /\ UNCHANGED <<program, objects, pos, transitionStack>>
    BY <1>1 DEF Scheduled, searchVars, modelVars
  <1>4. left \subseteq Threads /\ left \in SUBSET Nat
    BY <1>1, LastThreadAssumption DEF Threads
  <1>5. \A k \in livelock.start .. Len(transitionStack) : Decode(transitionStack[k]).type # "progress"
    BY <1>1 DEF Checked
  <1>6. CASE left = {}
    <2>1. livelock' = [livelock EXCEPT !.stage = "done", !.verdict = TRUE]
      BY <1>6 DEF EndCycle
    <2>2. /\ DOMAIN livelock' = DOMAIN livelock
          /\ livelock'.stage = "done" /\ livelock'.verdict = TRUE
          /\ livelock'.threads = livelock.threads /\ livelock'.start = livelock.start
          /\ livelock'.explored = livelock.explored
      BY <1>1, <2>1 DEF Idle
    <2>3. Checked'
      BY <1>1, <1>3, <2>2 DEF Checked
    <2>4. EnabledIn(objects, pos, livelock.threads) \subseteq livelock.explored
      BY <1>6 DEF EnabledIn, Enabled1
    <2>5. EverybodyHadATurn'
      BY <1>3, <1>5, <2>2, <2>4 DEF EverybodyHadATurn, EnabledIn, Decode
    <2> QED BY <1>2, <1>3, <2>3, <2>5 DEF SearchInv
  <1>7. CASE left # {}
    <2>1. livelock' = [livelock EXCEPT !.stage = "seed", !.next = Min(left)]
      BY <1>7 DEF EndCycle
    <2>2. Min(left) \in Threads
      <3> HIDE DEF left
      <3> QED BY <1>4, <1>7, MinIsLeast
    <2> HIDE DEF left
    <2>3. /\ DOMAIN livelock' = DOMAIN livelock
          /\ livelock'.stage = "seed" /\ livelock'.next = Min(left)
          /\ livelock'.verdict = livelock.verdict
          /\ livelock'.threads = livelock.threads /\ livelock'.start = livelock.start
      BY <1>1, <2>1 DEF Idle
    <2>4. Checked'
      BY <1>1, <1>3, <2>2, <2>3 DEF Checked
    <2>5. EverybodyHadATurn'
      BY <2>3 DEF EverybodyHadATurn
    <2> QED BY <1>2, <1>3, <2>4, <2>5 DEF SearchInv
  <1> QED BY <1>6, <1>7

LEMMA JudgeKeeps ==
    ASSUME StackInv, Scheduled, Judge
    PROVE  SearchInv'
  <1>1. StackInv'
    BY StackInvStays DEF Judge, EndTrace, modelVars
  <1>2. Scheduled'
    BY DEF Scheduled, Judge, EndTrace
  <1>3. Checked' /\ EverybodyHadATurn'
    <2>1. livelock' = Idle
      BY DEF Judge
    <2> QED BY <2>1 DEF Idle, Checked, EverybodyHadATurn
  <1> QED BY <1>1, <1>2, <1>3 DEF SearchInv

-----------------------------------------------------------------------------
(* The theorems *)

LEMMA InitIsFine == McMiniInit => SearchInv
  <1> SUFFICES ASSUME McMiniInit
               PROVE  SearchInv
    OBVIOUS
  <1>1. PICK search \in Searches : program = search.program /\ env = Environment(search.args)
    BY DEF McMiniInit, SearchInit
  <1>2. Fresh
    BY <1>1, SearchAssumption DEF Fresh, McMiniInit, SearchInit
  <1>3. Scheduled
    BY LastThreadAssumption DEF Scheduled, McMiniInit, SearchInit, Main, Threads
  <1>4. Checked /\ EverybodyHadATurn
    <2>1. livelock = Idle
      BY DEF McMiniInit
    <2> QED BY <2>1 DEF Idle, Checked, EverybodyHadATurn
  <1> QED BY <1>2, <1>3, <1>4, FreshIsFine DEF SearchInv

LEMMA StepKeeps == SearchInv /\ [McMiniNext]_mcminiVars => SearchInv'
  <1> SUFFICES ASSUME SearchInv, [McMiniNext]_mcminiVars
               PROVE  SearchInv'
    OBVIOUS
  <1>1. StackInv /\ Scheduled /\ Checked
    BY DEF SearchInv
  <1>2. CASE SearchNext /\ UNCHANGED livelock
    BY <1>1, <1>2, SearchKeeps, NoCheckInSearch DEF SearchInv
  <1>3. CASE StartCheck
    BY <1>1, <1>3, StartCheckKeeps
  <1>4. CASE StartCycle
    BY <1>1, <1>4, StartCycleKeeps
  <1>5. CASE ContinueCycle
    BY <1>1, <1>5, ContinueCycleKeeps
  <1>6. CASE EndCycle
    BY <1>1, <1>6, EndCycleKeeps
  <1>7. CASE Judge
    BY <1>1, <1>7, JudgeKeeps
  <1>8. CASE UNCHANGED mcminiVars
    <2>1. UNCHANGED searchVars /\ UNCHANGED livelock
      BY <1>8 DEF mcminiVars
    <2>2. StackInv'
      BY <1>1, <2>1, StackInvStays DEF searchVars, modelVars
    <2>3. Scheduled' /\ Checked'
      BY <1>1, <2>1 DEF Scheduled, Checked, Decode, searchVars, modelVars
    <2>4. EverybodyHadATurn'
      BY <2>1 DEF SearchInv, EverybodyHadATurn, EnabledIn, Decode, searchVars, modelVars
    <2> QED BY <2>2, <2>3, <2>4 DEF SearchInv
  <1> QED BY <1>2, <1>3, <1>4, <1>5, <1>6, <1>7, <1>8 DEF McMiniNext

\* The invariant the others follow from: the two stacks, the pending transitions, the
\* depths, the clocks and the livelock check agree, through any number of backtracks.
THEOREM SearchInvariant == McMiniSpec => []SearchInv
  <1> QED BY InitIsFine, StepKeeps, PTL DEF McMiniSpec

\* The depth that "-m" compares is the number of the thread's transitions on the stack,
\* whether a branch point is reached by undoing or by replaying (MCStack.cpp).
THEOREM DepthCountsStackAlways == McMiniSpec => []DepthCountsStack
  <1>1. SearchInv => DepthCountsStack
    BY DEF SearchInv, StackInv, Stacks, Depths, DepthCountsStack
  <1> QED BY <1>1, SearchInvariant, PTL

\* What mc_explore_branch goes back for was enabled, is new and does not sleep; and
\* there is nothing to go back to in the first state.
THEOREM BacktrackSetsAreUsefulAlways == McMiniSpec => []BacktrackSetsAreUseful
  <1>1. SearchInv => BacktrackSetsAreUseful
    BY DEF SearchInv, StackInv
  <1> QED BY <1>1, SearchInvariant, PTL

\* Sleep sets hold only what growStateStackRunningTransition says of them: transitions
\* explored before, that commute with all that has run since.
THEOREM SleepIsJustifiedAlways == McMiniSpec => []SleepIsJustified
  <1>1. SearchInv => SleepIsJustified
    BY DEF SearchInv, StackInv
  <1> QED BY <1>1, SearchInvariant, PTL

\* isInLivelock says "livelock" only after each thread that can run had a turn, and its
\* last cycle met no GOAL().
THEOREM EverybodyHadATurnAlways == McMiniSpec => []EverybodyHadATurn
  <1>1. SearchInv => EverybodyHadATurn
    BY DEF SearchInv
  <1> QED BY <1>1, SearchInvariant, PTL

-----------------------------------------------------------------------------
(* Room on the stack for the livelock check                                  *)

\* As long as "-lc" does not raise the limit of a cycle, and "-t" gives no longer trace
\* than "-M" allows.  A program has MAX_TOTAL_THREADS_IN_PROGRAM threads at most.
DefaultsKept ==
    /\ LastThread < MaxThreads
    /\ \A search \in Searches :
          LET given == Environment(search.args)
          IN  given.CHECK_FOR_LIVELOCK =>
                /\ given.MAX_LIVELOCK_CYCLE_LIMIT <= CycleLimit
                /\ Len(given.PRINT_AT_TRACE_SEQ)
                     <= get_config_for_execution_environment(given).maxTotalTransitionsDepthLimit

Longest == configuration.maxTotalTransitionsDepthLimit

\* The limit of a trace leaves a cycle for every thread.
Reserved ==
    /\ LastThread < MaxThreads
    /\ Longest \in Nat
    /\ Longest + 1 + MaxThreads * CycleLimit <= MaxTransitions
    /\ Len(env.PRINT_AT_TRACE_SEQ) <= Longest
    /\ IncreasedDepth \in Nat /\ IncreasedDepth <= CycleLimit

\* A trace goes beyond its limit by one transition, and nothing goes back to there.
WithinTrace ==
    /\ InLoop => Len(transitionStack) <= Longest
    /\ InLoop /\ Following(seq.end) =>
          seq.next = Len(transitionStack) + 1 /\ seq.next <= Len(env.PRINT_AT_TRACE_SEQ)
    /\ phase = "ended" /\ livelock.stage = "idle" => Len(transitionStack) <= Longest + 1
    /\ \A j \in BranchPoints : j <= Longest

\* Each cycle begins with a thread that had no turn.
WithinCheck ==
    /\ livelock.stage \in {"seed", "cycle"} =>
          /\ livelock.explored \subseteq livelock.threads
          /\ livelock.next \in livelock.threads
    /\ livelock.stage = "seed" =>
          /\ livelock.next \notin livelock.explored
          /\ Len(transitionStack) <= Longest + 1 + CycleLimit * Cardinality(livelock.explored)
    /\ livelock.stage = "cycle" =>
          /\ livelock.i \in Nat /\ livelock.i <= CycleLimit
          /\ Len(transitionStack) + CycleLimit
               <= Longest + 1 + CycleLimit * Cardinality(livelock.explored) + livelock.i

FitInv ==
    /\ SearchInv
    /\ StackFits
    /\ env.CHECK_FOR_LIVELOCK => Reserved /\ WithinTrace /\ WithinCheck

LEMMA FollowingBefore ==
    ASSUME NEW index, NEW end, Following(EndAfter(index, end))
    PROVE  Following(end) /\ index # Len(env.PRINT_AT_TRACE_SEQ)
  BY DEF Following, EndAfter

\* Cycles of different threads add up.
LEMMA Cycles ==
    ASSUME DefaultsKept, Checked, NEW S \in SUBSET livelock.threads, NEW t
    PROVE  /\ Cardinality(S) \in Nat
           /\ CycleLimit * Cardinality(S) \in Nat
           /\ CycleLimit * Cardinality(S) <= MaxThreads * CycleLimit
           /\ t \in livelock.threads \ S =>
                 CycleLimit * Cardinality(S \cup {t}) = CycleLimit * Cardinality(S) + CycleLimit
           /\ CycleLimit * Cardinality(S) <= CycleLimit * Cardinality(S \cup {t})
  <1>1. IsFiniteSet(Threads) /\ Cardinality(Threads) = LastThread + 1
    BY LastThreadAssumption, FS_Interval DEF Threads
  <1>2. S \in SUBSET Threads
    BY DEF Checked
  <1>3. IsFiniteSet(S) /\ Cardinality(S) \in Nat /\ Cardinality(S) <= LastThread + 1
    BY <1>1, <1>2, FS_Subset, FS_CardinalityType
  <1>4. /\ t \notin S => Cardinality(S \cup {t}) = Cardinality(S) + 1
        /\ t \in S => S \cup {t} = S
    <2>1. Cardinality(S \cup {t}) = IF t \in S THEN Cardinality(S) ELSE Cardinality(S) + 1
      BY <1>3, FS_AddElement
    <2>2. t \in S => S \cup {t} = S
      OBVIOUS
    <2> QED BY <2>1, <2>2
  <1>5. /\ CycleLimit \in Nat /\ MaxThreads \in Nat /\ LastThread \in Nat
        /\ LastThread + 1 <= MaxThreads
    BY LauncherAssumption, LastThreadAssumption DEF DefaultsKept
  <1> DEFINE size == Cardinality(S)
  <1>6. size \in Nat /\ size <= MaxThreads
    BY <1>3, <1>5
  <1> HIDE DEF size
  <1>7. /\ CycleLimit * size \in Nat
        /\ CycleLimit * size <= MaxThreads * CycleLimit
        /\ CycleLimit * (size + 1) = CycleLimit * size + CycleLimit
    BY <1>5, <1>6
  <1> QED BY <1>3, <1>4, <1>5, <1>7 DEF size

LEMMA RunFits ==
    ASSUME FitInv, NEW ascending \in BOOLEAN, RunTransition(ascending), UNCHANGED livelock
    PROVE  StackFits' /\ (env'.CHECK_FOR_LIVELOCK => Reserved' /\ WithinTrace' /\ WithinCheck')
  <1>1. StackInv /\ Stacks /\ ClocksLookBack /\ Scheduled /\ Checked
    BY DEF FitInv, SearchInv, StackInv
  <1>2. PICK n \in Nat : n = Len(transitionStack)
    BY <1>1 DEF Stacks
  <1>3. PICK t \in Threads : t = current /\ Advances(t)
    BY <1>1, RunAdvances
  <1>4. Len(transitionStack') = n + 1
    BY <1>1, <1>2, <1>3, Simulated DEF Advances
  <1>5. StackFits'
    <2>1. Len(transitionStack) < MaxTransitions
      BY DEF RunTransition
    <2>2. MaxTransitions \in Nat
      BY LauncherAssumption
    <2> QED BY <1>2, <1>4, <2>1, <2>2 DEF StackFits
  <1>6. ASSUME env'.CHECK_FOR_LIVELOCK
        PROVE  Reserved' /\ WithinTrace' /\ WithinCheck'
    <2>1. /\ UNCHANGED <<env, configuration, traceId>>
          /\ InLoop
      BY DEF RunTransition
    <2>2. Reserved /\ WithinTrace /\ Reserved'
      BY <1>6, <2>1 DEF FitInv, Reserved, Longest, IncreasedDepth
    <2>3. n \in Nat /\ n <= Longest /\ Longest \in Nat /\ Longest' = Longest
      BY <1>2, <2>1, <2>2 DEF WithinTrace, Reserved, Longest
    <2>4. livelock'.stage = "idle"
      BY <1>1, <2>1 DEF Checked, InLoop
    <2> DEFINE given == env.PRINT_AT_TRACE_SEQ
               end == EndAfter(seq.enabled, seq.end)
    <2>5. Len(given) \in Nat
      BY <1>1 DEF Stacks
    <2>6. Following(end) => seq.next = n + 1 /\ seq.next <= Len(given)
      BY <1>2, <2>1, <2>2, FollowingBefore DEF WithinTrace
    <2>7. ASSUME InLoop'
          PROVE  n + 1 <= Longest
      <3> DEFINE type == TransitionAt(program, t, pos[t]).type
                 chosen == NextTransition(objects', pos', threadData', known', Last(stateStack'),
                                          Len(transitionStack), end, type, t)
                 entry == getNextTraceSeqEntry(seq.next, end)
      <3>1. chosen # NoThread
        BY <1>3, <2>7 DEF RunTransition, InLoop
      <3>2. entry # NoThread \/ ~ (n >= Longest)
        <4> HIDE DEF entry
        <4>1. entry = NoThread /\ Len(transitionStack) >= Longest => chosen = NoThread
          BY DEF NextTransition, Longest, entry
        <4> QED BY <1>2, <3>1, <4>1
      <3>3. CASE ~ (n >= Longest)
        BY <2>3, <3>3
      <3>4. CASE entry # NoThread
        <4> HIDE DEF end
        <4>1. Following(end) /\ seq.next # Len(given)
          BY <3>4 DEF getNextTraceSeqEntry
        <4>2. n + 1 < Len(given) /\ Len(given) <= Longest
          BY <2>2, <2>5, <2>6, <4>1 DEF Reserved
        <4> QED BY <2>3, <2>5, <4>2
      <3> QED BY <3>2, <3>3, <3>4
    <2>8. ASSUME InLoop', Following(seq.end)'
          PROVE  seq'.next = n + 2 /\ seq'.next <= Len(given)
      <3>1. seq' = [next |-> Later(seq.next), enabled |-> Later(seq.enabled),
                    end |-> EndAfter(seq.next, end)]
        BY <1>3, <2>8 DEF RunTransition, InLoop
      <3>2. seq'.next = Later(seq.next) /\ seq'.end = EndAfter(seq.next, end)
        BY <3>1
      <3>3. Following(EndAfter(seq.next, end))
        BY <2>1, <2>8, <3>2 DEF Following
      <3> HIDE DEF end
      <3>4. seq.next = n + 1 /\ seq.next <= Len(given) /\ seq.next # Len(given)
        BY <2>6, <3>3, FollowingBefore
      <3> QED BY <2>3, <2>5, <3>2, <3>4 DEF Later
    <2>9. ASSUME NEW j \in BranchPoints'
          PROVE  j <= Longest
      <3>1. Len(stateStack') = n + 2 /\ stateStack'[n + 2].backtrack = {}
        BY <1>1, <1>2, <1>3, ItemsAfter DEF Advances
      <3>2. j \in 0 .. n + 1 /\ stateStack'[j + 1].backtrack # {}
        BY <2>3, <3>1 DEF BranchPoints, stateStackTop, getStateItemAtIndex
      <3>3. j # n + 1
        BY <2>3, <3>1, <3>2
      <3> QED BY <2>3, <3>2, <3>3
    <2>10. WithinTrace'
      <3>1. InLoop' => (Len(transitionStack) <= Longest)'
        BY <1>4, <2>3, <2>7
      <3>2. (InLoop /\ Following(seq.end) =>
                seq.next = Len(transitionStack) + 1 /\ seq.next <= Len(env.PRINT_AT_TRACE_SEQ))'
        BY <1>4, <2>1, <2>3, <2>8
      <3>3. (Len(transitionStack) <= Longest + 1)'
        BY <1>4, <2>3
      <3>4. (\A j \in BranchPoints : j <= Longest)'
        BY <2>3, <2>9
      <3> QED BY <3>1, <3>2, <3>3, <3>4 DEF WithinTrace
    <2> QED BY <2>2, <2>4, <2>10 DEF WithinCheck
  <1> QED BY <1>5, <1>6

LEMMA SearchFits ==
    ASSUME FitInv, SearchNext, UNCHANGED livelock
    PROVE  StackFits' /\ (env'.CHECK_FOR_LIVELOCK => Reserved' /\ WithinTrace' /\ WithinCheck')
  <1>1. StackInv /\ Stacks /\ BacktrackSetsAreUseful /\ Scheduled /\ Checked /\ StackFits
    BY DEF FitInv, SearchInv, StackInv
  <1>2. CASE \E ascending \in BOOLEAN : RunTransition(ascending)
    BY <1>2, RunFits
  <1>3. ASSUME ~ \E ascending \in BOOLEAN : RunTransition(ascending)
        PROVE  StackFits' /\ (env'.CHECK_FOR_LIVELOCK => Reserved' /\ WithinTrace' /\ WithinCheck')
    <2>1. UNCHANGED <<env, configuration>> /\ phase # "ended" /\ phase' # "ended"
      BY <1>3 DEF SearchNext, Abort, ExecutionLimit, Finish, ExploreBranch,
                  mc_restore_initial_trace, InLoop, Judged
    <2>2. livelock'.stage = "idle"
      BY <1>1, <2>1 DEF Checked
    <2>3. ASSUME env.CHECK_FOR_LIVELOCK
          PROVE  Reserved /\ WithinTrace /\ Reserved' /\ Longest' = Longest /\ Longest \in Nat
      BY <2>1, <2>3 DEF FitInv, Reserved, Longest, IncreasedDepth
    <2>4. CASE Abort \/ ExecutionLimit \/ Finish
      <3>1. ~ InLoop' /\ UNCHANGED <<transitionStack, stateStack>>
        BY <2>1, <2>4 DEF Abort, ExecutionLimit, Finish, InLoop, modelVars
      <3>2. BranchPoints' = BranchPoints
        BY <3>1 DEF BranchPoints, stateStackTop, getStateItemAtIndex
      <3>3. StackFits'
        BY <1>1, <3>1 DEF StackFits
      <3>4. ASSUME env.CHECK_FOR_LIVELOCK
            PROVE  WithinTrace' /\ WithinCheck'
        BY <2>1, <2>2, <2>3, <3>1, <3>2, <3>4 DEF WithinTrace, WithinCheck
      <3> QED BY <2>1, <2>3, <3>3, <3>4
    <2>5. CASE mc_restore_initial_trace
      <3>1. /\ transitionStack' = << >>
            /\ stateStack' = <<NewItem(ZeroClock, {})>>
            /\ seq'.next = 1 /\ seq'.end = 0
            /\ env.PRINT_AT_TRACE_SEQ # << >>
        BY <1>1, <2>5 DEF mc_restore_initial_trace, Scheduled
      <3>2. Len(transitionStack') = 0
        BY <3>1
      <3>3. Len(env.PRINT_AT_TRACE_SEQ) \in Nat /\ Len(env.PRINT_AT_TRACE_SEQ) # 0
        <4>1. env.PRINT_AT_TRACE_SEQ \in Seq(Threads)
          BY <1>1 DEF Stacks
        <4> QED BY <3>1, <4>1
      <3>4. BranchPoints' = {}
        <4> DEFINE item == NewItem(ZeroClock, {})
        <4>1. item.backtrack = {}
          BY DEF NewItem
        <4> HIDE DEF item
        <4>2. Len(stateStack') = 1 /\ stateStack'[1] = item
          BY <3>1 DEF item
        <4>3. \A j \in 0 .. 0 : j + 1 = 1
          OBVIOUS
        <4> QED BY <4>1, <4>2, <4>3 DEF BranchPoints, stateStackTop, getStateItemAtIndex
      <3>5. StackFits'
        BY <3>2, LauncherAssumption DEF StackFits
      <3>6. ASSUME env.CHECK_FOR_LIVELOCK
            PROVE  WithinTrace' /\ WithinCheck'
        BY <2>1, <2>2, <2>3, <3>1, <3>2, <3>3, <3>4, <3>6 DEF WithinTrace, WithinCheck
      <3> QED BY <2>1, <2>3, <3>5, <3>6
    <2>6. CASE ExploreBranch
      <3>1. PICK j \in 1 .. Len(transitionStack) :
               /\ current' \in stateStack[j + 1].backtrack
               /\ transitionStack' = SubSeq(transitionStack, 1, j)
               /\ stateStack' = [SubSeq(stateStack, 1, j + 1) EXCEPT
                                   ![j + 1] = markBacktrackThreadSearched(stateStack[j + 1], current')]
        BY <1>1, <2>6, Explored
      <3>2. /\ transitionStack \in Seq(Steps) /\ stateStack \in Seq(Items)
            /\ Len(stateStack) = Len(transitionStack) + 1 /\ Len(transitionStack) \in Nat
        BY <1>1 DEF Stacks
      <3>3. Len(transitionStack') = j
        BY <3>1, <3>2
      <3>4. Len(stateStack') = j + 1
        <4> DEFINE kept == SubSeq(stateStack, 1, j + 1)
        <4>1. kept \in Seq(Items) /\ Len(kept) = j + 1
          BY <3>2
        <4> HIDE DEF kept
        <4>2. DOMAIN stateStack' = DOMAIN kept /\ stateStack' \in Seq(Items)
          BY <3>1, <1>1, <2>6, ExploreKeeps DEF kept, StackInv, Stacks, Items
        <4> QED BY <4>1, <4>2
      <3>5. j \in BranchPoints
        BY <3>1, <3>2 DEF BranchPoints, stateStackTop, getStateItemAtIndex
      <3>6. BranchPoints' \subseteq 0 .. j
        BY <3>4 DEF BranchPoints, stateStackTop
      <3>7. ~ Following(seq.end)'
        <4>1. seq' = [seq EXCEPT !.next = 0, !.end = traceId + 2] /\ traceId' = traceId + 1
          BY <2>6 DEF ExploreBranch
        <4>2. seq'.end = traceId' + 1
          BY <1>1, <4>1 DEF Scheduled
        <4> QED BY <4>2 DEF Following
      <3>8. StackFits'
        BY <1>1, <3>2, <3>3, LauncherAssumption DEF StackFits
      <3>9. ASSUME env.CHECK_FOR_LIVELOCK
            PROVE  WithinTrace' /\ WithinCheck'
        <4>1. j <= Longest /\ Longest' = Longest /\ Longest \in Nat
          BY <2>3, <3>5, <3>9 DEF WithinTrace
        <4>2. (\A i \in BranchPoints : i <= Longest)'
          BY <3>6, <4>1
        <4> QED BY <2>1, <2>2, <3>3, <3>7, <4>1, <4>2 DEF WithinTrace, WithinCheck
      <3> QED BY <2>1, <2>3, <3>8, <3>9
    <2> QED BY <1>3, <2>4, <2>5, <2>6 DEF SearchNext
  <1> QED BY <1>2, <1>3

\* The states that the check adds are never gone back to.
LEMMA RunInCheckFits ==
    ASSUME FitInv, phase = "ended", livelock'.stage = "cycle", NEW t \in Threads, RunsInCheck(t),
           env.CHECK_FOR_LIVELOCK
    PROVE  Reserved' /\ WithinTrace' /\ Longest' = Longest
  <1>1. StackInv /\ Stacks /\ ClocksLookBack /\ Scheduled /\ Reserved /\ WithinTrace
    BY DEF FitInv, SearchInv, StackInv
  <1>2. UNCHANGED <<env, configuration, phase>>
    BY RunsInCheckChanges
  <1>3. Reserved' /\ Longest' = Longest
    BY <1>1, <1>2 DEF Reserved, Longest, IncreasedDepth
  <1>4. PICK n \in Nat : n = Len(transitionStack)
    BY <1>1 DEF Stacks
  <1>5. ASSUME NEW j \in BranchPoints'
        PROVE  j \in BranchPoints
    <2>1. simulateRunningTransition(t) /\ stateStack' = growStateStackRunningTransition(t)
      BY RunsInCheckChanges
    <2>2. /\ Len(stateStack') = n + 2
          /\ \A i \in 1 .. n : stateStack'[i] = stateStack[i]
          /\ stateStack'[n + 1].backtrack \subseteq stateStack[n + 1].backtrack
          /\ stateStack'[n + 2].backtrack = {}
      <3>1. stateStack'[n + 2] = NewItem(threadData'[t].clock,
                                         StillAsleep(stateStack[n + 1].sleep, Pending(t)))
        BY <1>1, <1>4, <2>1, Grown
      <3>2. stateStack'[n + 2].backtrack = {}
        BY <3>1 DEF NewItem
      <3>3. /\ Len(stateStack') = n + 2
            /\ \A i \in 1 .. n : stateStack'[i] = stateStack[i]
            /\ stateStack'[n + 1].backtrack = stateStack[n + 1].backtrack \ {t}
        BY <1>1, <1>4, <2>1, Grown
      <3> QED BY <3>2, <3>3
    <2>3. j \in 0 .. n + 1 /\ stateStack'[j + 1].backtrack # {}
      BY <1>4, <2>2 DEF BranchPoints, stateStackTop, getStateItemAtIndex
    <2>4. j \in 0 .. n - 1 \/ j = n
      BY <2>2, <2>3
    <2>5. j \in 0 .. n /\ stateStack[j + 1].backtrack # {}
      <3>1. CASE j \in 0 .. n - 1
        BY <2>2, <2>3, <3>1
      <3>2. CASE j = n
        BY <2>2, <2>3, <3>2
      <3> QED BY <2>4, <3>1, <3>2
    <2> QED BY <1>1, <1>4, <2>5 DEF BranchPoints, stateStackTop, getStateItemAtIndex, Stacks
  <1>6. WithinTrace'
    BY <1>1, <1>2, <1>3, <1>5 DEF WithinTrace, InLoop
  <1> QED BY <1>3, <1>6

\* Steps of the check that run nobody.
LEMMA NobodyRunsFits ==
    ASSUME FitInv, phase = "ended", phase' # "running", env.CHECK_FOR_LIVELOCK,
           phase' = "ended" => livelock'.stage = livelock.stage \/ livelock'.stage # "idle",
           UNCHANGED <<env, configuration, transitionStack, stateStack>>
    PROVE  StackFits' /\ Reserved' /\ WithinTrace' /\ Longest' = Longest
  <1>1. StackFits /\ Reserved /\ WithinTrace
    BY DEF FitInv
  <1>2. StackFits' /\ Reserved' /\ Longest' = Longest
    BY <1>1 DEF StackFits, Reserved, Longest, IncreasedDepth
  <1>3. BranchPoints' = BranchPoints
    BY DEF BranchPoints, stateStackTop, getStateItemAtIndex
  <1>4. WithinTrace'
    BY <1>1, <1>2, <1>3 DEF WithinTrace, InLoop
  <1> QED BY <1>2, <1>4

LEMMA StartCheckFits ==
    ASSUME FitInv, StartCheck
    PROVE  StackFits' /\ Reserved' /\ WithinTrace' /\ WithinCheck'
  <1>1. Stacks /\ Checked /\ WithinTrace /\ WithinCheck
    BY DEF FitInv, SearchInv, StackInv, StartCheck, Checking
  <1>2. /\ phase = "ended" /\ phase' = "ended" /\ livelock.stage = "idle" /\ env.CHECK_FOR_LIVELOCK
        /\ UNCHANGED <<env, configuration, transitionStack, stateStack>>
    BY DEF StartCheck, Checking, modelVars
  <1>3. StackFits' /\ Reserved' /\ WithinTrace' /\ Longest' = Longest
    <2>1. livelock'.stage = livelock.stage \/ livelock'.stage # "idle"
      BY DEF StartCheck, Idle
    <2> QED BY <1>2, <2>1, NobodyRunsFits
  <1>4. Len(transitionStack) <= Longest + 1
    BY <1>1, <1>2 DEF WithinTrace
  <1>5. CASE livelock'.stage = "seed"
    <2> DEFINE enabled == EnabledIn(objects, pos, known)
    <2>1. enabled # {} /\ livelock' = [Idle EXCEPT !.stage = "seed", !.threads = known,
                                                   !.next = Max(enabled)]
      BY <1>2, <1>5 DEF StartCheck, Idle
    <2>2. enabled \subseteq known
      BY DEF EnabledIn
    <2> HIDE DEF enabled
    <2>3. Max(enabled) \in known
      <3>1. enabled \subseteq Threads
        BY <1>1, <2>2 DEF Stacks
      <3>2. enabled \in SUBSET Nat /\ \A k \in enabled : k <= LastThread
        BY <3>1, LastThreadAssumption DEF Threads
      <3> QED BY <2>1, <2>2, <3>2, MaxIsGreatest, LastThreadAssumption
    <2>4. /\ livelock'.explored = {} /\ livelock'.threads = known
          /\ livelock'.next = Max(enabled)
      BY <2>1 DEF Idle
    <2>5. CycleLimit * Cardinality(livelock'.explored) = 0
      <3>1. Cardinality({}) = 0
        BY FS_EmptySet
      <3>2. CycleLimit * 0 = 0
        BY LauncherAssumption
      <3> QED BY <2>4, <3>1, <3>2
    <2>6. Longest \in Nat
      BY <1>2 DEF FitInv, Reserved
    <2> QED BY <1>2, <1>3, <1>4, <1>5, <2>3, <2>4, <2>5, <2>6 DEF WithinCheck
  <1>6. CASE livelock'.stage # "seed"
    <2>1. livelock'.stage \in {"idle", "done"}
      BY <1>2, <1>6 DEF StartCheck, Idle
    <2> QED BY <1>3, <2>1 DEF WithinCheck
  <1> QED BY <1>3, <1>5, <1>6

LEMMA GoalFits ==
    ASSUME FitInv, phase = "ended", env.CHECK_FOR_LIVELOCK, NEW t, GoalReached(t)
    PROVE  StackFits' /\ Reserved' /\ WithinTrace' /\ WithinCheck'
  <1>1. livelock'.stage = "done"
    BY DEF GoalReached, FitInv, SearchInv, Checked, Idle
  <1>2. phase' = "ended" /\ UNCHANGED <<env, configuration, transitionStack, stateStack>>
    BY DEF GoalReached, searchVars, modelVars
  <1>3. StackFits' /\ Reserved' /\ WithinTrace'
    BY <1>1, <1>2, NobodyRunsFits
  <1> QED BY <1>1, <1>3 DEF WithinCheck

LEMMA StartCycleFits ==
    ASSUME DefaultsKept, FitInv, StartCycle
    PROVE  StackFits' /\ Reserved' /\ WithinTrace' /\ WithinCheck'
  <1>1. /\ StackInv /\ Scheduled /\ Checked /\ Reserved /\ WithinCheck
        /\ phase = "ended" /\ livelock.stage = "seed" /\ env.CHECK_FOR_LIVELOCK
    BY DEF FitInv, SearchInv, StartCycle, Checking
  <1>2. PICK t \in Threads : t = livelock.next
    BY <1>1 DEF Checked
  <1>3. PICK n \in Nat : n = Len(transitionStack)
    BY <1>1 DEF StackInv, Stacks
  <1>4. CASE GoalReached(t)
    BY <1>1, <1>4, GoalFits
  <1>5. CASE ~ GoalReached(t)
    <2>1. /\ RunsInCheck(t)
          /\ livelock' = [livelock EXCEPT
                !.stage = "cycle", !.i = 1, !.related = {t}, !.explored = @ \cup {t},
                !.start = Len(transitionStack) + 1,
                !.visited = {Seen(objects', pos', EnabledAfter(AfterCalls[1], objects', pos', known'),
                                  livelock.threads)}]
      BY <1>2, <1>5, RunInCheckIsOne DEF StartCycle
    <2>2. /\ livelock'.stage = "cycle" /\ livelock'.i = 1 /\ livelock'.next = t
          /\ livelock'.explored = livelock.explored \cup {t}
          /\ livelock'.threads = livelock.threads
      BY <1>1, <1>2, <2>1 DEF Checked, Idle
    <2>3. Len(transitionStack') = n + 1
      BY <1>1, <1>3, <2>1, RunInCheckKeeps
    <2>4. Reserved' /\ WithinTrace' /\ Longest' = Longest
      BY <1>1, <2>1, <2>2, RunInCheckFits
    <2> DEFINE before == CycleLimit * Cardinality(livelock.explored)
               after == CycleLimit * Cardinality(livelock.explored \cup {t})
    <2>5. /\ livelock.explored \subseteq livelock.threads
          /\ t \in livelock.threads /\ t \notin livelock.explored
          /\ n <= Longest + 1 + before
      BY <1>1, <1>2, <1>3 DEF WithinCheck
    <2>6. before \in Nat /\ after = before + CycleLimit
      BY <1>1, <2>5, Cycles
    <2>7. after <= MaxThreads * CycleLimit
      BY <1>1, <2>5, Cycles
    <2>8. /\ Longest \in Nat /\ MaxThreads * CycleLimit \in Nat
          /\ Longest + 1 + MaxThreads * CycleLimit <= MaxTransitions
          /\ CycleLimit \in Nat /\ 1 <= CycleLimit /\ MaxTransitions \in Nat
      BY <1>1, LauncherAssumption DEF Reserved
    <2> HIDE DEF before, after
    <2>9. /\ n + 1 <= MaxTransitions
          /\ n + 1 + CycleLimit <= Longest + 1 + after + 1
      BY <2>5, <2>6, <2>7, <2>8
    <2>10. StackFits'
      BY <2>3, <2>9 DEF StackFits
    <2>11. WithinCheck'
      <3>1. (Len(transitionStack) + CycleLimit
              <= Longest + 1 + CycleLimit * Cardinality(livelock.explored) + livelock.i)'
        BY <2>2, <2>3, <2>4, <2>9 DEF after
      <3> QED BY <2>2, <2>5, <2>8, <3>1 DEF WithinCheck
    <2> QED BY <2>4, <2>10, <2>11
  <1> QED BY <1>4, <1>5

\* A cycle is over after as many turns as it may have, early stopping or not.
LEMMA ContinueCycleFits ==
    ASSUME DefaultsKept, FitInv, ContinueCycle
    PROVE  StackFits' /\ Reserved' /\ WithinTrace' /\ WithinCheck'
  <1>1. /\ StackInv /\ Scheduled /\ Checked /\ Reserved /\ WithinCheck
        /\ phase = "ended" /\ livelock.stage = "cycle" /\ env.CHECK_FOR_LIVELOCK
        /\ livelock.i < IncreasedDepth
    BY DEF FitInv, SearchInv, ContinueCycle, Checking
  <1>2. PICK t \in Threads : t = CycleTurn(InCycle, livelock.threads).next
    BY <1>1, TurnIsThread
  <1>3. PICK n \in Nat : n = Len(transitionStack)
    BY <1>1 DEF StackInv, Stacks
  <1>4. /\ livelock.explored \subseteq livelock.threads
        /\ livelock.next \in livelock.threads
        /\ livelock.i \in Nat /\ livelock.i <= CycleLimit
        /\ n + CycleLimit <= Longest + 1 + CycleLimit * Cardinality(livelock.explored) + livelock.i
    BY <1>1, <1>3 DEF WithinCheck
  <1>5. /\ Longest \in Nat /\ MaxThreads * CycleLimit \in Nat
        /\ Longest + 1 + MaxThreads * CycleLimit <= MaxTransitions
        /\ CycleLimit \in Nat /\ MaxTransitions \in Nat
        /\ IncreasedDepth \in Nat /\ IncreasedDepth <= CycleLimit
    BY <1>1, LauncherAssumption DEF Reserved
  <1>6. t \in livelock.threads
    BY <1>1, <1>2, <1>4, TurnIsKnown
  <1>7. \/ \E related : TurnPasses(t, related)
        \/ GoalReached(t)
        \/ \E related, explored, visited, i :
              /\ TurnRuns(t, related, explored, visited, i)
              /\ explored = livelock.explored \cup {t}
              /\ i \in {IncreasedDepth, livelock.i + 1}
    <2> DEFINE turn == CycleTurn(InCycle, livelock.threads)
               explored == livelock.explored \cup {turn.next}
               EnabledAt(calls) ==
                   EnabledAfter(AfterCalls[calls], objects', pos', known')
               seen == Seen(objects', pos', EnabledAt(1), livelock.threads)
               visited == livelock.visited \cup {seen}
               revisited == seen \in livelock.visited
               stop == /\ LIVELOCK_EARLY_STOPPING /\ revisited
                       /\ canStopSafely(turn, explored, EnabledAt(2), CycleSoFar \cup turn.ran)
    <2>1. \/ TurnPasses(turn.next, turn.related)
          \/ GoalReached(turn.next)
          \/ TurnRuns(turn.next, turn.related, explored, visited, AfterTurn(stop))
      BY RunInCheckIsOne DEF ContinueCycle, TurnPasses, TurnRuns
    <2>2. AfterTurn(stop) \in {IncreasedDepth, livelock.i + 1}
      BY DEF AfterTurn
    <2> HIDE DEF turn, visited, stop
    <2>3. t = turn.next
      BY <1>2 DEF turn
    <2> QED BY <2>1, <2>2, <2>3
  <1>8. ASSUME NEW related, TurnPasses(t, related)
        PROVE  StackFits' /\ Reserved' /\ WithinTrace' /\ WithinCheck'
    <2>1. /\ phase' = "ended" /\ UNCHANGED <<env, configuration, transitionStack, stateStack>>
      BY <1>1, <1>8 DEF TurnPasses, searchVars, modelVars
    <2>2. /\ livelock'.stage = "cycle" /\ livelock'.i = livelock.i + 1 /\ livelock'.next = t
          /\ livelock'.explored = livelock.explored /\ livelock'.threads = livelock.threads
      BY <1>1, <1>8 DEF TurnPasses, Checked, Idle
    <2>3. StackFits' /\ Reserved' /\ WithinTrace' /\ Longest' = Longest
      BY <1>1, <2>1, <2>2, NobodyRunsFits
    <2> DEFINE cycles == CycleLimit * Cardinality(livelock.explored)
    <2>4. cycles \in Nat
      BY <1>1, <1>4, Cycles
    <2>5. n + CycleLimit <= Longest + 1 + cycles + livelock.i
      BY <1>4
    <2> HIDE DEF cycles
    <2>6. /\ n + CycleLimit <= Longest + 1 + cycles + (livelock.i + 1)
          /\ livelock.i + 1 \in Nat /\ livelock.i + 1 <= CycleLimit
      BY <1>1, <1>4, <1>5, <2>4, <2>5
    <2>7. (Len(transitionStack) + CycleLimit
              <= Longest + 1 + CycleLimit * Cardinality(livelock.explored) + livelock.i)'
      BY <1>3, <2>1, <2>2, <2>3, <2>6 DEF cycles
    <2> QED BY <1>4, <1>6, <2>2, <2>3, <2>6, <2>7 DEF WithinCheck
  <1>9. CASE GoalReached(t)
    BY <1>1, <1>9, GoalFits
  <1>10. ASSUME NEW related, NEW explored, NEW visited, NEW i,
                TurnRuns(t, related, explored, visited, i),
                explored = livelock.explored \cup {t},
                i \in {IncreasedDepth, livelock.i + 1}
         PROVE  StackFits' /\ Reserved' /\ WithinTrace' /\ WithinCheck'
    <2>1. /\ livelock'.stage = "cycle" /\ livelock'.i = i /\ livelock'.next = t
          /\ livelock'.explored = livelock.explored \cup {t}
          /\ livelock'.threads = livelock.threads
      BY <1>1, <1>10 DEF TurnRuns, Checked, Idle
    <2>2. RunsInCheck(t)
      BY <1>10 DEF TurnRuns
    <2>3. Len(transitionStack') = n + 1
      BY <1>1, <1>3, <2>2, RunInCheckKeeps
    <2>4. Reserved' /\ WithinTrace' /\ Longest' = Longest
      BY <1>1, <2>1, <2>2, RunInCheckFits
    <2> DEFINE before == CycleLimit * Cardinality(livelock.explored)
               after == CycleLimit * Cardinality(livelock.explored \cup {t})
    <2>5. before \in Nat /\ before <= after
      BY <1>1, <1>4, Cycles
    <2>6. after \in Nat /\ after <= MaxThreads * CycleLimit
      BY <1>1, <1>4, <1>6, Cycles
    <2>7. n + CycleLimit <= Longest + 1 + before + livelock.i
      BY <1>4
    <2> HIDE DEF before, after
    <2>8. i \in Nat /\ livelock.i + 1 <= i /\ i <= CycleLimit
      BY <1>1, <1>4, <1>5, <1>10
    <2>9. /\ n + 1 + CycleLimit <= Longest + 1 + after + i
          /\ n + 1 <= MaxTransitions
      BY <1>4, <1>5, <2>5, <2>6, <2>7, <2>8
    <2>10. StackFits'
      BY <2>3, <2>9 DEF StackFits
    <2>11. WithinCheck'
      <3>1. (Len(transitionStack) + CycleLimit
              <= Longest + 1 + CycleLimit * Cardinality(livelock.explored) + livelock.i)'
        BY <2>1, <2>3, <2>4, <2>9 DEF after
      <3> QED BY <1>4, <1>6, <2>1, <2>8, <3>1 DEF WithinCheck
    <2> QED BY <2>4, <2>10, <2>11
  <1> QED BY <1>7, <1>8, <1>9, <1>10

LEMMA EndCycleFits ==
    ASSUME FitInv, EndCycle
    PROVE  StackFits' /\ Reserved' /\ WithinTrace' /\ WithinCheck'
  <1>1. /\ Checked /\ Reserved /\ WithinCheck /\ Stacks
        /\ phase = "ended" /\ livelock.stage = "cycle" /\ env.CHECK_FOR_LIVELOCK
        /\ UNCHANGED searchVars
    BY DEF FitInv, SearchInv, StackInv, EndCycle, Checking
  <1>2. phase' = "ended" /\ UNCHANGED <<env, configuration, transitionStack, stateStack>>
    BY <1>1 DEF searchVars, modelVars
  <1> DEFINE left == {t \in livelock.threads \ livelock.explored : Enabled1(objects, pos, t)}
  <1>3. CASE left = {}
    <2>1. livelock'.stage = "done"
      BY <1>1, <1>3 DEF EndCycle, Checked, Idle
    <2>2. StackFits' /\ Reserved' /\ WithinTrace'
      BY <1>1, <1>2, <2>1, NobodyRunsFits
    <2> QED BY <2>1, <2>2 DEF WithinCheck
  <1>4. CASE left # {}
    <2>1. livelock' = [livelock EXCEPT !.stage = "seed", !.next = Min(left)]
      BY <1>4 DEF EndCycle
    <2>2. Min(left) \in livelock.threads \ livelock.explored
      <3>1. left \subseteq livelock.threads \ livelock.explored
        OBVIOUS
      <3> HIDE DEF left
      <3>2. left \in SUBSET Nat
        BY <1>1, <3>1, LastThreadAssumption DEF Checked, Threads
      <3> QED BY <1>4, <3>1, <3>2, MinIsLeast
    <2> HIDE DEF left
    <2>3. /\ livelock'.stage = "seed" /\ livelock'.next = Min(left)
          /\ livelock'.explored = livelock.explored /\ livelock'.threads = livelock.threads
      BY <1>1, <2>1 DEF Checked, Idle
    <2>4. StackFits' /\ Reserved' /\ WithinTrace' /\ Longest' = Longest
      BY <1>1, <1>2, <2>3, NobodyRunsFits
    <2> DEFINE cycles == CycleLimit * Cardinality(livelock.explored)
               n == Len(transitionStack)
    <2>5. /\ livelock.i \in Nat /\ livelock.i <= CycleLimit
          /\ n + CycleLimit <= Longest + 1 + cycles + livelock.i
          /\ livelock.explored \subseteq livelock.threads
      BY <1>1 DEF WithinCheck
    <2>6. n \in Nat /\ Longest \in Nat /\ CycleLimit \in Nat /\ cycles \in Nat
      <3>1. CycleLimit \in Nat
        BY LauncherAssumption
      <3>2. Cardinality(livelock.explored) \in Nat
        <4>1. IsFiniteSet(Threads)
          BY LastThreadAssumption, FS_Interval DEF Threads
        <4>2. livelock.explored \in SUBSET Threads
          BY <1>1, <2>5 DEF Checked
        <4> QED BY <4>1, <4>2, FS_Subset, FS_CardinalityType
      <3> QED BY <1>1, <3>1, <3>2 DEF Stacks, Reserved
    <2> HIDE DEF cycles, n
    <2>7. n <= Longest + 1 + cycles
      BY <2>5, <2>6
    <2>8. (Len(transitionStack) <= Longest + 1 + CycleLimit * Cardinality(livelock.explored))'
      BY <1>2, <2>3, <2>4, <2>7 DEF cycles, n
    <2> QED BY <2>2, <2>3, <2>4, <2>5, <2>8 DEF WithinCheck
  <1> QED BY <1>3, <1>4

LEMMA JudgeFits ==
    ASSUME FitInv, Judge
    PROVE  StackFits' /\ (env'.CHECK_FOR_LIVELOCK => Reserved' /\ WithinTrace' /\ WithinCheck')
  <1>1. /\ phase = "ended" /\ phase' = "judged" /\ livelock' = Idle
        /\ UNCHANGED <<env, configuration, transitionStack, stateStack>>
    BY DEF Judge, EndTrace, modelVars
  <1>2. StackFits'
    BY <1>1 DEF FitInv, StackFits
  <1>3. ASSUME env.CHECK_FOR_LIVELOCK
        PROVE  Reserved' /\ WithinTrace'
    BY <1>1, <1>3, NobodyRunsFits
  <1>4. WithinCheck'
    BY <1>1 DEF WithinCheck, Idle
  <1> QED BY <1>1, <1>2, <1>3, <1>4

LEMMA InitFits ==
    ASSUME DefaultsKept
    PROVE  McMiniInit => FitInv
  <1> SUFFICES ASSUME McMiniInit
               PROVE  FitInv
    OBVIOUS
  <1>1. PICK search \in Searches : program = search.program /\ env = Environment(search.args)
    BY DEF McMiniInit, SearchInit
  <1>2. SearchInv
    BY InitIsFine
  <1>3. /\ transitionStack = << >> /\ stateStack = <<NewItem(ZeroClock, {})>>
        /\ phase = "running" /\ livelock = Idle /\ seq.next = 1
        /\ configuration = get_config_for_execution_environment(env)
    BY DEF McMiniInit, SearchInit
  <1>4. Len(transitionStack) = 0
    BY <1>3
  <1>5. StackFits
    BY <1>4, LauncherAssumption DEF StackFits
  <1>6. ASSUME env.CHECK_FOR_LIVELOCK
        PROVE  Reserved /\ WithinTrace /\ WithinCheck
    <2>1. /\ env.MAX_TRANSITIONS_TOTAL \in Nat /\ env.MAX_LIVELOCK_CYCLE_LIMIT \in Nat
          /\ env.PRINT_AT_TRACE_SEQ \in Seq(Threads)
      BY <1>1, SearchAssumption
    <2>2. /\ LastThread < MaxThreads
          /\ env.MAX_LIVELOCK_CYCLE_LIMIT <= CycleLimit
          /\ Len(env.PRINT_AT_TRACE_SEQ) <= Longest
      BY <1>1, <1>3, <1>6 DEF DefaultsKept, Longest
    <2>3. Longest \in Nat /\ Longest + 1 + MaxThreads * CycleLimit <= MaxTransitions
      <3>1. /\ MaxTransitions \in Nat /\ MaxThreads * CycleLimit < MaxTransitions
            /\ MaxThreads * CycleLimit \in Nat
        BY LauncherAssumption
      <3>2. Longest = IF env.MAX_TRANSITIONS_TOTAL < MaxTransitions - 1 - MaxThreads * CycleLimit
                      THEN env.MAX_TRANSITIONS_TOTAL
                      ELSE MaxTransitions - 1 - MaxThreads * CycleLimit
        BY <1>3, <1>6 DEF Longest, get_config_for_execution_environment, LargestTotal
      <3> QED BY <2>1, <3>1, <3>2
    <2>4. Reserved
      BY <2>1, <2>2, <2>3 DEF Reserved, IncreasedDepth
    <2>5. \A j \in BranchPoints : j <= Longest
      <3> DEFINE item == NewItem(ZeroClock, {})
      <3>1. item.backtrack = {}
        BY DEF NewItem
      <3> HIDE DEF item
      <3>2. Len(stateStack) = 1 /\ stateStack[1] = item
        BY <1>3 DEF item
      <3>3. \A j \in 0 .. 0 : j + 1 = 1
        OBVIOUS
      <3> QED BY <3>1, <3>2, <3>3 DEF BranchPoints, stateStackTop, getStateItemAtIndex
    <2>6. Following(seq.end) => seq.next <= Len(env.PRINT_AT_TRACE_SEQ)
      BY <1>3, <2>1 DEF Following
    <2>7. WithinTrace
      BY <1>3, <1>4, <2>3, <2>5, <2>6 DEF WithinTrace
    <2>8. WithinCheck
      BY <1>3 DEF WithinCheck, Idle
    <2> QED BY <2>4, <2>7, <2>8
  <1> QED BY <1>2, <1>5, <1>6 DEF FitInv

LEMMA StepFits ==
    ASSUME DefaultsKept
    PROVE  FitInv /\ [McMiniNext]_mcminiVars => FitInv'
  <1> SUFFICES ASSUME FitInv, [McMiniNext]_mcminiVars
               PROVE  FitInv'
    OBVIOUS
  <1>1. SearchInv'
    BY StepKeeps DEF FitInv
  <1>2. CASE SearchNext /\ UNCHANGED livelock
    BY <1>1, <1>2, SearchFits DEF FitInv
  <1>3. CASE StartCheck
    BY <1>1, <1>3, StartCheckFits DEF FitInv
  <1>4. CASE StartCycle
    BY <1>1, <1>4, StartCycleFits DEF FitInv
  <1>5. CASE ContinueCycle
    BY <1>1, <1>5, ContinueCycleFits DEF FitInv
  <1>6. CASE EndCycle
    BY <1>1, <1>6, EndCycleFits DEF FitInv
  <1>7. CASE Judge
    BY <1>1, <1>7, JudgeFits DEF FitInv
  <1>8. CASE UNCHANGED mcminiVars
    <2>1. UNCHANGED <<env, configuration, transitionStack, stateStack, phase, result, seq, traceId, livelock>>
      BY <1>8 DEF mcminiVars, searchVars, modelVars
    <2>2. BranchPoints' = BranchPoints
      BY <2>1 DEF BranchPoints, stateStackTop, getStateItemAtIndex
    <2>3. StackFits'
      BY <2>1 DEF FitInv, StackFits
    <2>4. ASSUME env.CHECK_FOR_LIVELOCK
          PROVE  Reserved' /\ WithinTrace' /\ WithinCheck'
      BY <2>1, <2>2, <2>4 DEF FitInv, Reserved, WithinTrace, WithinCheck, Longest, IncreasedDepth,
                              InLoop, Following
    <2> QED BY <1>1, <2>1, <2>3, <2>4 DEF FitInv
  <1> QED BY <1>2, <1>3, <1>4, <1>5, <1>6, <1>7, <1>8 DEF McMiniNext

\* "The lower default value is calculated for the worst case" (mcmini_private.cpp): it is,
\* for as many threads as there can be, early stopping or not and after any number of
\* backtracks, unless "-lc" or "-t" asks for more.
THEOREM StackFitsByDefault ==
    ASSUME DefaultsKept
    PROVE  McMiniSpec => []StackFits
  <1>1. FitInv => StackFits
    BY DEF FitInv
  <1> QED BY <1>1, InitFits, StepFits, PTL DEF McMiniSpec

-----------------------------------------------------------------------------
(* The clocks are "happens before"                                           *)

\* The livelock check runs thread t: the first of a cycle, or one that can run.
RunsOn(t) ==
    /\ phase = "ended"
    /\ result = "none"
    /\ (livelock.stage = "seed" /\ t = livelock.next) \/ Enabled1(objects, pos, t)
    /\ RunsInCheck(t)

\* In a cycle only a thread that can run does.
LEMMA TurnIsEnabled ==
    ASSUME NEW m, NEW threads, CycleTurn(m, threads).ran # m.ran,
           DOMAIN m = {"objects", "pos", "last", "related", "next", "ran"}
    PROVE  Enabled1(m.objects, m.pos, CycleTurn(m, threads).next)
  <1> DEFINE related == Related(m, threads)
             t == Turn(m, related, threads)
             moved == [m EXCEPT !.related = related, !.next = t]
  <1>1. CycleTurn(m, threads) = IF Enabled1(m.objects, m.pos, t) THEN After(moved, t) ELSE moved
    BY DEF CycleTurn
  <1> HIDE DEF t, related
  <1>2. moved.ran = m.ran
    OBVIOUS
  <1>3. After(moved, t).next = t
    BY DEF After
  <1> QED BY <1>1, <1>2, <1>3

\* A step of McMini runs a thread, in the search or in the check, makes everything new,
\* goes back to a branch point, or leaves the model alone.
LEMMA StepShape ==
    ASSUME SearchInv, [McMiniNext]_mcminiVars
    PROVE  \/ \E ascending \in BOOLEAN : RunTransition(ascending)
           \/ \E t \in Threads : RunsOn(t)
           \/ mc_restore_initial_trace
           \/ ExploreBranch
           \/ UNCHANGED <<program, env, modelVars>>
  <1>1. Checked
    BY DEF SearchInv
  <1>2. CASE SearchNext
    <2>1. Abort \/ ExecutionLimit \/ Finish => UNCHANGED <<program, env, modelVars>>
      BY Zenon DEF Abort, ExecutionLimit, Finish
    <2> QED BY <1>2, <2>1 DEF SearchNext
  <1>3. CASE StartCheck \/ EndCycle \/ Judge \/ UNCHANGED mcminiVars
    <2>1. StartCheck \/ Judge => UNCHANGED <<program, env, modelVars>>
      BY Zenon DEF StartCheck, Judge, EndTrace
    <2>2. EndCycle \/ UNCHANGED mcminiVars => UNCHANGED <<program, env, modelVars>>
      BY DEF EndCycle, mcminiVars, searchVars
    <2> QED BY <1>3, <2>1, <2>2
  <1>4. CASE StartCycle
    <2>1. livelock.next \in Threads
      BY <1>1, <1>4 DEF StartCycle, Checking, Checked
    <2> QED BY <1>4, <2>1, RunInCheckIsOne DEF StartCycle, Checking, RunsOn, GoalReached, searchVars
  <1>5. CASE ContinueCycle
    <2> DEFINE turn == CycleTurn(InCycle, livelock.threads)
    <2>1. turn.next \in Threads
      BY <1>1, <1>5, TurnIsThread DEF ContinueCycle, Checking
    <2>2. turn.ran # {} => Enabled1(objects, pos, turn.next)
      <3>1. /\ DOMAIN InCycle = {"objects", "pos", "last", "related", "next", "ran"}
            /\ InCycle.objects = objects /\ InCycle.pos = pos /\ InCycle.ran = {}
        BY DEF InCycle
      <3> QED BY <3>1, TurnIsEnabled
    <2>3. \/ UNCHANGED searchVars
          \/ turn.ran # {} /\ RunsInCheck(turn.next)
      BY <1>5, RunInCheckIsOne DEF ContinueCycle, GoalReached
    <2>4. phase = "ended" /\ result = "none"
      BY <1>5 DEF ContinueCycle, Checking
    <2> HIDE DEF turn
    <2> QED BY <2>1, <2>2, <2>3, <2>4 DEF RunsOn, searchVars
  <1> QED BY <1>2, <1>3, <1>4, <1>5 DEF McMiniNext

\* Transition i is one that transition j depends on.
Follows(j, i) == dependentTransitions(Decode(transitionStack[i]), Decode(transitionStack[j]))

\* The clock of transition j of a stack: its own index for its own thread, the greatest
\* of what it depends on for the others.
ClockIsMade(j) ==
    LET clock(i) == stateStack[i + 1].clock
    IN  /\ clock(j)[transitionStack[j].tid] = j - 1
        /\ \A t \in Threads \ {transitionStack[j].tid} :
              /\ \A i \in 1 .. j - 1 : Follows(j, i) => clock(i)[t] <= clock(j)[t]
              /\ \/ clock(j)[t] = 0
                 \/ \E i \in 1 .. j - 1 : Follows(j, i) /\ clock(i)[t] = clock(j)[t]
        /\ \A t \in Threads : clock(j)[t] <= j - 1

ClocksAreMade == \A j \in 1 .. Len(transitionStack) : ClockIsMade(j)

\* The clock of a transition stays as long as the stacks up to it do.
LEMMA ClockStays ==
    ASSUME NEW j \in Nat, ClockIsMade(j),
           \A i \in 1 .. j : transitionStack'[i] = transitionStack[i],
           \A i \in 1 .. j + 1 : stateStack'[i].clock = stateStack[i].clock,
           program' = program, j > 0
    PROVE  ClockIsMade(j)'
  <1>1. \A i \in 1 .. j - 1 : (Follows(j, i)' <=> Follows(j, i))
    BY DEF Follows, Decode
  <1>2. \A i \in 1 .. j : stateStack'[i + 1].clock = stateStack[i + 1].clock
    OBVIOUS
  <1>3. transitionStack'[j] = transitionStack[j]
    OBVIOUS
  <1>4. \A i \in 1 .. j - 1 : i \in 1 .. j
    OBVIOUS
  <1>5. j \in 1 .. j
    OBVIOUS
  <1> QED BY <1>1, <1>2, <1>3, <1>4, <1>5 DEF ClockIsMade

\* A transition that is pushed gets the clock of what it depends on.
LEMMA AdvanceClocks ==
    ASSUME StackInv, Scheduled, ClocksAreMade, NEW t \in Threads, Advances(t)
    PROVE  ClocksAreMade'
  <1>0. Stacks /\ ClocksLookBack
    BY DEF StackInv
  <1> SUFFICES ASSUME NEW n \in Nat, n = Len(transitionStack)
               PROVE  ClocksAreMade'
    BY <1>0 DEF Stacks
  <1> DEFINE clock(i) == stateStack[i + 1].clock
             new == threadData'[t].clock
  <1>1. /\ Len(transitionStack') = n + 1
        /\ \A i \in 1 .. n : transitionStack'[i] = transitionStack[i]
        /\ transitionStack'[n + 1] = [tid |-> t, pos |-> pos[t]]
        /\ program' = program
    BY <1>0, Simulated DEF Advances
  <1>2. \A i \in 1 .. n + 1 : stateStack'[i].clock = stateStack[i].clock
    <2>1. \A i \in 1 .. n + 1 : i \in 1 .. n \/ i = n + 1
      OBVIOUS
    <2> QED BY <1>0, <2>1, ItemsAfter DEF Advances
  <1>3. stateStack'[n + 2].clock = new
    BY <1>0, ItemsAfter DEF Advances
  <1>4. \A i \in 1 .. n : clock(i) \in [Threads -> Nat] /\ clock(i)' = clock(i)
    <2>1. \A i \in 1 .. n : i + 1 \in DOMAIN stateStack
      BY <1>0 DEF Stacks
    <2>2. \A i \in 1 .. n : stateStack[i + 1] \in Items
      BY <1>0, <2>1 DEF Stacks
    <2>3. \A i \in 1 .. n : i + 1 \in 1 .. n + 1
      OBVIOUS
    <2> QED BY <1>2, <2>2, <2>3 DEF Items
  <1>5. ASSUME NEW j \in 1 .. n
        PROVE  ClockIsMade(j)'
    <2>1. ClockIsMade(j) /\ j \in Nat /\ j > 0
      BY DEF ClocksAreMade
    <2>2. /\ \A i \in 1 .. j : i \in 1 .. n
          /\ \A i \in 1 .. j + 1 : i \in 1 .. n + 1
      OBVIOUS
    <2> QED BY <1>1, <1>2, <2>1, <2>2, ClockStays
  <1> DEFINE before(i) == dependentTransitions(Decode(transitionStack[i]), Pending(t))
             cv == transitionStackMaxClockVector(Pending(t))
             clocks == {getStateItemAtIndex(i).clock : i \in DependsOnStates(Pending(t))}
  <1>6. \A i \in 1 .. n : Follows(n + 1, i)' <=> before(i)
    BY <1>1 DEF Follows, Decode, Pending
  <1>7. DependsOnStates(Pending(t)) = {i \in 1 .. n : before(i)}
    <2>1. stateStackTop = n
      BY <1>0 DEF Stacks, stateStackTop
    <2>2. \A i \in 1 .. n : getTransitionAtIndex(i - 1) = Decode(transitionStack[i])
      BY DEF getTransitionAtIndex
    <2> QED BY <2>1, <2>2 DEF DependsOnStates
  <1>8. new = [cv EXCEPT ![t] = n]
    BY <1>0 DEF Advances, simulateRunningTransition, Pending, Stacks
  <1>9. clocks = {clock(i) : i \in {k \in 1 .. n : before(k)}}
    BY <1>7 DEF getStateItemAtIndex
  <1>10. cv = [u \in Threads |-> Max({0} \cup {c[u] : c \in clocks})]
    BY DEF transitionStackMaxClockVector
  <1>11. new[t] = n
    BY <1>8, <1>10
  <1>12. ASSUME NEW u \in Threads \ {t}
         PROVE  /\ \A i \in 1 .. n : before(i) => clock(i)[u] <= new[u]
                /\ new[u] = 0 \/ \E i \in 1 .. n : before(i) /\ clock(i)[u] = new[u]
                /\ new[u] <= n
    <2> DEFINE S == {0} \cup {c[u] : c \in clocks}
    <2>1. new[u] = Max(S)
      BY <1>8, <1>10
    <2>2. \A x : x \in S <=> x = 0 \/ \E i \in 1 .. n : before(i) /\ x = clock(i)[u]
      <3>1. \A c : c \in clocks <=> \E i \in 1 .. n : before(i) /\ c = clock(i)
        <4> HIDE DEF clock, before, clocks
        <4> QED BY <1>9
      <3>2. \A x : x \in S <=> x = 0 \/ \E c \in clocks : x = c[u]
        <4> HIDE DEF clocks
        <4> QED OBVIOUS
      <3> HIDE DEF clock, before, clocks, S
      <3> QED BY <3>1, <3>2
    <2>3. \A i \in 1 .. n : clock(i)[u] \in Nat /\ clock(i)[u] <= n
      <3>1. \A i \in 1 .. n : clock(i)[u] <= i - 1
        BY DEF ClocksAreMade, ClockIsMade
      <3>2. \A i \in 1 .. n : clock(i)[u] \in Nat
        BY <1>4
      <3> HIDE DEF clock
      <3> QED BY <3>1, <3>2
    <2> HIDE DEF S, clock, before, new, clocks
    <2>4. S \in SUBSET Nat /\ S # {} /\ \A k \in S : k <= n
      <3>1. \A x \in S : x \in Nat /\ x <= n
        <4> SUFFICES ASSUME NEW x \in S
                     PROVE  x \in Nat /\ x <= n
          OBVIOUS
        <4>1. x = 0 \/ \E i \in 1 .. n : x = clock(i)[u]
          BY <2>2
        <4> QED BY <2>3, <4>1
      <3>2. 0 \in S
        BY <2>2
      <3> QED BY <3>1, <3>2
    <2>5. Max(S) \in S /\ \A k \in S : k <= Max(S)
      BY <2>4, MaxIsGreatest
    <2> QED BY <2>1, <2>2, <2>4, <2>5
  <1>13. ClockIsMade(n + 1)'
    <2>1. transitionStack'[n + 1].tid = t /\ (n + 1) - 1 = n /\ (n + 1) + 1 = n + 2
      BY <1>1
    <2>2. clock(n + 1)' = new
      BY <1>3, <2>1
    <2> HIDE DEF new, before
    <2>3. /\ \A i \in 1 .. n : Follows(n + 1, i)' => stateStack'[i + 1].clock = clock(i) /\ before(i)
          /\ \A i \in 1 .. n : before(i) => stateStack'[i + 1].clock = clock(i) /\ Follows(n + 1, i)'
      BY <1>4, <1>6
    <2> QED BY <1>11, <1>12, <2>1, <2>2, <2>3 DEF ClockIsMade
  <1>14. \A j \in 1 .. n + 1 : j \in 1 .. n \/ j = n + 1
    OBVIOUS
  <1> QED BY <1>1, <1>5, <1>13, <1>14 DEF ClocksAreMade

\* What of the stacks is left after going back.
LEMMA ExploredStacks ==
    ASSUME StackInv, ExploreBranch
    PROVE  \E j \in 1 .. Len(transitionStack) :
              /\ current' \in stateStack[j + 1].backtrack
              /\ Len(transitionStack') = j
              /\ \A i \in 1 .. j : transitionStack'[i] = transitionStack[i]
              /\ Len(stateStack') = j + 1
              /\ \A i \in 1 .. j : stateStack'[i] = stateStack[i]
              /\ stateStack'[j + 1] = markBacktrackThreadSearched(stateStack[j + 1], current')
              /\ \A i \in 1 .. j + 1 : /\ stateStack'[i].clock = stateStack[i].clock
                                       /\ stateStack'[i].enabled = stateStack[i].enabled
              /\ UNCHANGED <<program, env, known>>
  <1>1. Stacks /\ BacktrackSetsAreUseful
    BY DEF StackInv
  <1>2. PICK j \in 1 .. Len(transitionStack) :
           /\ current' \in stateStack[j + 1].backtrack
           /\ transitionStack' = SubSeq(transitionStack, 1, j)
           /\ stateStack' = [SubSeq(stateStack, 1, j + 1) EXCEPT
                               ![j + 1] = markBacktrackThreadSearched(stateStack[j + 1], current')]
           /\ UNCHANGED <<program, env, known>>
    BY <1>1, Explored
  <1> DEFINE item == stateStack[j + 1]
             marked == markBacktrackThreadSearched(item, current')
             kept == SubSeq(stateStack, 1, j + 1)
  <1>3. /\ transitionStack \in Seq(Steps) /\ stateStack \in Seq(Items)
        /\ Len(transitionStack) \in Nat /\ Len(stateStack) = Len(transitionStack) + 1
        /\ j \in Nat /\ j >= 1 /\ j <= Len(transitionStack)
    BY <1>1, <1>2 DEF Stacks
  <1>4. Len(transitionStack') = j /\ \A i \in 1 .. j : transitionStack'[i] = transitionStack[i]
    BY <1>2, <1>3
  <1>5. item \in Items
    BY <1>3
  <1>6. marked.enabled = item.enabled /\ marked.clock = item.clock
    <2> HIDE DEF item
    <2> QED BY <1>5 DEF markBacktrackThreadSearched, Items
  <1>7. kept \in Seq(Items) /\ Len(kept) = j + 1 /\ \A i \in 1 .. j + 1 : kept[i] = stateStack[i]
    BY <1>3
  <1>8. stateStack' = [kept EXCEPT ![j + 1] = marked]
    BY <1>2
  <1>9. /\ Len(stateStack') = j + 1
        /\ \A i \in 1 .. j : stateStack'[i] = stateStack[i]
        /\ stateStack'[j + 1] = marked
    <2> HIDE DEF kept, marked
    <2> QED BY <1>3, <1>7, <1>8
  <1>10. \A i \in 1 .. j + 1 : /\ stateStack'[i].clock = stateStack[i].clock
                               /\ stateStack'[i].enabled = stateStack[i].enabled
    <2> HIDE DEF marked, kept
    <2>1. \A i \in 1 .. j + 1 : i \in 1 .. j \/ i = j + 1
      BY <1>3
    <2> QED BY <1>6, <1>9, <2>1
  <1> QED BY <1>2, <1>4, <1>9, <1>10

\* The livelock check adds nothing to a backtrack set.
LEMMA CheckAdvances ==
    ASSUME StackInv, Scheduled, NEW t \in Threads, RunsInCheck(t)
    PROVE  Advances(t)
  <1>1. /\ simulateRunningTransition(t)
        /\ stateStack' = growStateStackRunningTransition(t)
        /\ UNCHANGED <<program, env>>
    BY RunsInCheckChanges
  <1>2. OnlyBacktrack(stateStack', growStateStackRunningTransition(t))
    BY <1>1, Grown DEF OnlyBacktrack, StackInv
  <1> QED BY <1>1, <1>2 DEF Advances

\* The clocks are made that way in every step.
LEMMA StepMakesClocks ==
    ASSUME SearchInv, ClocksAreMade, [McMiniNext]_mcminiVars
    PROVE  ClocksAreMade'
  <1>0. StackInv /\ Stacks /\ Scheduled
    BY DEF SearchInv, StackInv
  <1>1. ASSUME NEW t \in Threads, Advances(t)
        PROVE  ClocksAreMade'
    BY <1>0, <1>1, AdvanceClocks
  <1>2. CASE \E ascending \in BOOLEAN : RunTransition(ascending)
    BY <1>0, <1>1, <1>2, RunAdvances
  <1>3. CASE \E t \in Threads : RunsOn(t)
    BY <1>0, <1>1, <1>3, CheckAdvances DEF RunsOn
  <1>4. CASE mc_restore_initial_trace
    <2>1. Len(transitionStack') = 0
      BY <1>4 DEF mc_restore_initial_trace
    <2> QED BY <2>1 DEF ClocksAreMade
  <1>5. CASE ExploreBranch
    <2>1. PICK j \in 1 .. Len(transitionStack) :
              /\ Len(transitionStack') = j
              /\ \A i \in 1 .. j : transitionStack'[i] = transitionStack[i]
              /\ \A i \in 1 .. j + 1 : stateStack'[i].clock = stateStack[i].clock
              /\ program' = program
      BY <1>0, <1>5, ExploredStacks
    <2>2. ASSUME NEW i \in 1 .. j
          PROVE  ClockIsMade(i)'
      <3>1. i \in Nat /\ i > 0 /\ ClockIsMade(i)
        BY <1>0 DEF ClocksAreMade, Stacks
      <3>2. \A k \in 1 .. i : k \in 1 .. j
        BY <1>0 DEF Stacks
      <3>3. \A k \in 1 .. i + 1 : k \in 1 .. j + 1
        BY <1>0 DEF Stacks
      <3> QED BY <2>1, <3>1, <3>2, <3>3, ClockStays
    <2> QED BY <2>1, <2>2 DEF ClocksAreMade
  <1>6. CASE UNCHANGED <<program, env, modelVars>>
    <2>1. UNCHANGED <<program, transitionStack, stateStack>>
      BY <1>6 DEF modelVars
    <2>2. \A j, i : Follows(j, i)' <=> Follows(j, i)
      BY <2>1 DEF Follows, Decode
    <2> QED BY <2>1, <2>2 DEF ClocksAreMade, ClockIsMade
  <1> QED BY <1>2, <1>3, <1>4, <1>5, <1>6, StepShape

\* What happens before transition n, from what happens before the ones before it.
Befores(earlier, n) ==
    {n} \cup UNION {earlier[i] : i \in {k \in 1 .. n - 1 : Follows(n, k)}}

\* f says so for all transitions up to n.
IsBefore(f, n) ==
    f = [k \in 0 .. n |-> IF k = 0 THEN << >> ELSE Append(f[k - 1], Befores(f[k - 1], k))]

\* The recursive function exists: one that reaches to n - 1 can be extended.
LEMMA BeforeExists ==
    ASSUME NEW N \in Nat
    PROVE  \E f : IsBefore(f, N)
  <1> DEFINE bad == {n \in Nat : ~ \E f : IsBefore(f, n)}
  <1> SUFFICES ASSUME bad # {}
               PROVE  FALSE
    OBVIOUS
  <1>1. PICK n \in bad : \A k \in bad : n <= k
    <2>1. bad \in SUBSET Nat
      OBVIOUS
    <2> HIDE DEF bad
    <2> QED BY <2>1, LeastOf
  <1>2. n # 0
    <2>1. ASSUME n = 0
          PROVE  IsBefore([k \in 0 .. 0 |-> << >>], n)
      BY <2>1 DEF IsBefore
    <2> QED BY <2>1
  <1>3. n \in Nat /\ n - 1 \in Nat /\ n - 1 \notin bad
    BY <1>1, <1>2
  <1>4. PICK f : IsBefore(f, n - 1)
    BY <1>3
  <1> DEFINE g == [k \in 0 .. n |-> IF k = n THEN Append(f[n - 1], Befores(f[n - 1], n)) ELSE f[k]]
  <1>5. ASSUME NEW k \in 0 .. n
        PROVE  g[k] = IF k = 0 THEN << >> ELSE Append(g[k - 1], Befores(g[k - 1], k))
    <2>1. CASE k = n
      <3>1. g[k - 1] = f[n - 1]
        BY <1>2, <1>3, <2>1
      <3> QED BY <1>2, <2>1, <3>1
    <2>2. CASE k # n
      <3>1. k \in 0 .. n - 1 /\ g[k] = f[k] /\ (k # 0 => g[k - 1] = f[k - 1])
        BY <1>3, <2>2
      <3>2. f[k] = IF k = 0 THEN << >> ELSE Append(f[k - 1], Befores(f[k - 1], k))
        BY <1>4, <3>1 DEF IsBefore
      <3> QED BY <3>1, <3>2
    <2> QED BY <2>1, <2>2
  <1>6. DOMAIN g = 0 .. n
    OBVIOUS
  <1>7. g = [k \in 0 .. n |-> g[k]]
    OBVIOUS
  <1> HIDE DEF g
  <1>8. IsBefore(g, n)
    BY <1>5, <1>7 DEF IsBefore
  <1> QED BY <1>1, <1>8

\* HappenBefore is that function.
LEMMA HappenBeforeUnfolds ==
    ASSUME NEW N \in Nat, N = Len(transitionStack)
    PROVE  \A j \in 1 .. N : HappenBefore[j] = Befores(HappenBefore, j)
  <1> DEFINE before == CHOOSE f : IsBefore(f, N)
  <1>1. IsBefore(before, N)
    BY BeforeExists
  <1>2. HappenBefore = before[N]
    BY DEF HappenBefore, IsBefore, Befores, Follows
  <1> HIDE DEF before
  <1>3. /\ before[0] = << >>
        /\ \A k \in 1 .. N : before[k] = Append(before[k - 1], Befores(before[k - 1], k))
    <2>1. \A k \in 0 .. N : before[k] =
              IF k = 0 THEN << >> ELSE Append(before[k - 1], Befores(before[k - 1], k))
      <3>1. before = [k \in 0 .. N |-> IF k = 0 THEN << >>
                                       ELSE Append(before[k - 1], Befores(before[k - 1], k))]
        BY <1>1 DEF IsBefore
      <3> QED BY <3>1
    <2>2. 0 \in 0 .. N /\ \A k \in 1 .. N : k \in 0 .. N /\ k # 0
      OBVIOUS
    <2>3. \A k \in 1 .. N : before[k] = Append(before[k - 1], Befores(before[k - 1], k))
      BY <2>1, <2>2
    <2> QED BY <2>1, <2>2, <2>3
  <1> DEFINE Fine(n) == /\ before[n] \in Seq(SUBSET Nat)
                        /\ Len(before[n]) = n
                        /\ \A j \in 1 .. n : before[n][j] = Befores(before[n], j)
             bad == {n \in 0 .. N : ~ Fine(n)}
  <1>4. Fine(0)
    BY <1>3
  <1>5. ASSUME NEW n \in 1 .. N, Fine(n - 1)
        PROVE  Fine(n)
    <2> DEFINE earlier == before[n - 1]
               new == Befores(earlier, n)
    <2>1. earlier \in Seq(SUBSET Nat) /\ Len(earlier) = n - 1
      BY <1>5
    <2>2. new \in SUBSET Nat
      <3>1. \A i \in 1 .. n - 1 : earlier[i] \in SUBSET Nat
        BY <2>1
      <3> HIDE DEF earlier
      <3> QED BY <3>1 DEF Befores
    <2>3. before[n] = Append(earlier, new)
      BY <1>3
    <2> HIDE DEF earlier, new
    <2>4. /\ before[n] \in Seq(SUBSET Nat) /\ Len(before[n]) = n
          /\ \A i \in 1 .. n - 1 : before[n][i] = earlier[i]
          /\ before[n][n] = new
      BY <2>1, <2>2, <2>3
    <2>5. ASSUME NEW j \in 1 .. n
          PROVE  Befores(before[n], j) = Befores(earlier, j)
      <3>1. \A i \in 1 .. j - 1 : before[n][i] = earlier[i]
        BY <2>4
      <3> QED BY <3>1 DEF Befores
    <2>6. \A j \in 1 .. n - 1 : earlier[j] = Befores(earlier, j)
      BY <1>5 DEF earlier
    <2>7. \A j \in 1 .. n : j \in 1 .. n - 1 \/ j = n
      OBVIOUS
    <2>8. n \in 1 .. n
      OBVIOUS
    <2>9. before[n][n] = Befores(before[n], n)
      BY <2>4, <2>5, <2>8 DEF new
    <2>10. \A j \in 1 .. n - 1 : before[n][j] = Befores(before[n], j)
      BY <2>4, <2>5, <2>6
    <2> QED BY <2>4, <2>7, <2>9, <2>10
  <1>6. bad = {}
    <2> SUFFICES ASSUME bad # {}
                 PROVE  FALSE
      OBVIOUS
    <2>1. PICK n \in bad : \A k \in bad : n <= k
      <3>1. bad \in SUBSET Nat
        OBVIOUS
      <3> HIDE DEF bad
      <3> QED BY <3>1, LeastOf
    <2>2. n \in 0 .. N /\ ~ Fine(n)
      BY <2>1
    <2> HIDE DEF Fine
    <2>3. n # 0
      BY <1>4, <2>2
    <2>4. n - 1 \in 0 .. N /\ n - 1 \notin bad
      BY <2>1, <2>2, <2>3
    <2>5. Fine(n - 1) /\ n \in 1 .. N
      BY <2>2, <2>3, <2>4
    <2> QED BY <1>5, <2>2, <2>5
  <1>7. Fine(N)
    <2> HIDE DEF Fine
    <2> QED BY <1>6
  <1> QED BY <1>2, <1>7

\* Nothing happens before what comes earlier.
LEMMA BeforeIsBelow ==
    ASSUME NEW N \in Nat, N = Len(transitionStack)
    PROVE  \A j \in 1 .. N : HappenBefore[j] \subseteq 1 .. j
  <1> DEFINE bad == {j \in 1 .. N : ~ HappenBefore[j] \subseteq 1 .. j}
  <1> SUFFICES ASSUME bad # {}
               PROVE  FALSE
    OBVIOUS
  <1>1. PICK n \in bad : \A k \in bad : n <= k
    <2>1. bad \in SUBSET Nat
      OBVIOUS
    <2> HIDE DEF bad
    <2> QED BY <2>1, LeastOf
  <1>2. n \in 1 .. N /\ \A k \in 1 .. n - 1 : HappenBefore[k] \subseteq 1 .. k
    BY <1>1
  <1>3. HappenBefore[n] = Befores(HappenBefore, n)
    BY <1>2, HappenBeforeUnfolds
  <1>4. ASSUME NEW x \in Befores(HappenBefore, n)
        PROVE  x \in 1 .. n
    <2>1. x = n \/ \E k \in 1 .. n - 1 : x \in HappenBefore[k]
      BY DEF Befores
    <2> QED BY <1>2, <2>1
  <1> QED BY <1>1, <1>3, <1>4

\* The clocks answer as HappenBefore does, one transition after the other.
LEMMA ClocksTellBefore ==
    ASSUME Stacks, ClocksAreMade
    PROVE  ClocksAreHappensBefore
  <1>0. PICK N \in Nat : N = Len(transitionStack)
    BY DEF Stacks
  <1> DEFINE clock(j) == stateStack[j + 1].clock
             tid(i) == transitionStack[i].tid
             Tells(j) == \A i \in 2 .. j : (i - 1 <= clock(j)[tid(i)]) <=> i \in HappenBefore[j]
             bad == {j \in 1 .. N : ~ Tells(j)}
  <1>1. \A i \in 1 .. N : tid(i) \in Threads /\ clock(i) \in [Threads -> Nat]
    <2>1. \A i \in 1 .. N : transitionStack[i] \in Steps
      BY <1>0 DEF Stacks
    <2>2. \A i \in 1 .. N : stateStack[i + 1] \in Items
      BY <1>0 DEF Stacks
    <2> QED BY <2>1, <2>2 DEF Steps, Items
  <1>2. \A i \in 1 .. N : \A t \in Threads : clock(i)[t] <= i - 1
    BY <1>0 DEF ClocksAreMade, ClockIsMade
  <1>3. ASSUME NEW j \in 1 .. N, \A k \in 1 .. j - 1 : Tells(k), NEW i \in 2 .. j
        PROVE  i - 1 <= clock(j)[tid(i)] <=> i \in HappenBefore[j]
    <2>1. /\ HappenBefore[j] = Befores(HappenBefore, j)
          /\ \A k \in 1 .. N : HappenBefore[k] \subseteq 1 .. k
          /\ \A k \in 1 .. N : k \in HappenBefore[k]
      <3>1. \A k \in 1 .. N : HappenBefore[k] = Befores(HappenBefore, k)
        BY <1>0, HappenBeforeUnfolds
      <3> QED BY <1>0, <3>1, BeforeIsBelow DEF Befores
    <2>2. i \in HappenBefore[j] <=>
             i = j \/ \E k \in 1 .. j - 1 : Follows(j, k) /\ i \in HappenBefore[k]
      BY <2>1 DEF Befores
    <2>3. /\ clock(j)[tid(j)] = j - 1
          /\ \A t \in Threads \ {tid(j)} :
                /\ \A k \in 1 .. j - 1 : Follows(j, k) => clock(k)[t] <= clock(j)[t]
                /\ \/ clock(j)[t] = 0
                   \/ \E k \in 1 .. j - 1 : Follows(j, k) /\ clock(k)[t] = clock(j)[t]
      BY <1>0 DEF ClocksAreMade, ClockIsMade
    <2>4. i \in 1 .. N /\ tid(i) \in Threads /\ clock(j)[tid(i)] \in Nat
      <3>1. i \in 1 .. N
        BY <1>0
      <3> QED BY <1>1, <3>1
    <2>5. CASE tid(i) = tid(j)
      <3>1. i < j => Follows(j, i)
        BY <2>5 DEF Follows, Decode, TransitionAt, dependentTransitions
      <3>2. i = j \/ i \in 1 .. j - 1
        BY <1>0
      <3>3. i \in HappenBefore[j]
        BY <2>1, <2>2, <2>4, <3>1, <3>2
      <3> QED BY <1>0, <2>3, <2>5, <3>3
    <2>6. CASE tid(i) # tid(j)
      <3> HIDE DEF clock, tid
      <3>1. i # j
        BY <2>6
      <3>2. ASSUME NEW k \in 1 .. j - 1, Follows(j, k), i \in HappenBefore[k]
            PROVE  i - 1 <= clock(j)[tid(i)]
        <4>1. k \in 1 .. N /\ i \in 2 .. k
          BY <1>0, <2>1, <3>2
        <4>2. i - 1 <= clock(k)[tid(i)] /\ clock(k)[tid(i)] \in Nat
          BY <1>1, <1>3, <2>4, <3>2, <4>1
        <4>3. clock(k)[tid(i)] <= clock(j)[tid(i)]
          BY <2>3, <2>4, <2>6, <3>2
        <4> QED BY <2>4, <4>2, <4>3
      <3>3. ASSUME i - 1 <= clock(j)[tid(i)]
            PROVE  \E k \in 1 .. j - 1 : Follows(j, k) /\ i \in HappenBefore[k]
        <4>1. PICK k \in 1 .. j - 1 : Follows(j, k) /\ clock(k)[tid(i)] = clock(j)[tid(i)]
          BY <2>3, <2>4, <2>6, <3>3
        <4>2. k \in 1 .. N
          BY <1>0, <4>1
        <4>3. clock(k)[tid(i)] <= k - 1
          BY <1>2, <2>4, <4>2
        <4>4. i \in 2 .. k
          BY <2>4, <3>3, <4>1, <4>3
        <4>5. i \in HappenBefore[k]
          BY <1>3, <3>3, <4>1, <4>4
        <4> QED BY <4>1, <4>5
      <3> QED BY <2>2, <3>1, <3>2, <3>3
    <2> QED BY <2>5, <2>6
  <1>4. bad = {}
    <2> SUFFICES ASSUME bad # {}
                 PROVE  FALSE
      OBVIOUS
    <2>1. PICK j \in bad : \A k \in bad : j <= k
      <3>1. bad \in SUBSET Nat
        OBVIOUS
      <3> HIDE DEF bad
      <3> QED BY <3>1, LeastOf
    <2>2. j \in 1 .. N /\ ~ Tells(j)
      BY <2>1
    <2>3. \A k \in 1 .. j - 1 : Tells(k)
      <3>1. \A k \in 1 .. j - 1 : k \in 1 .. N /\ k \notin bad
        BY <2>1, <2>2
      <3> HIDE DEF Tells
      <3> QED BY <3>1
    <2> QED BY <1>3, <2>2, <2>3
  <1>5. ASSUME NEW j \in 1 .. N
        PROVE  {i \in 2 .. j : i - 1 <= clock(j)[tid(i)]} = HappenBefore[j] \ {1}
    <2>1. Tells(j)
      <3> HIDE DEF Tells
      <3> QED BY <1>4
    <2>2. HappenBefore[j] \subseteq 1 .. j
      BY <1>0, BeforeIsBelow
    <2>3. \A i : i \in HappenBefore[j] \ {1} => i \in 2 .. j
      BY <2>2
    <2> QED BY <2>1, <2>3
  <1>6. DOMAIN transitionStack = 1 .. N
    BY <1>0 DEF Stacks
  <1> QED BY <1>5, <1>6 DEF ClocksAreHappensBefore

\* The clock vectors of MCStack are exact: of two transitions of a trace, the clock of the
\* later one says whether a chain of dependent transitions leads to it from the earlier
\* one, in the search and in the livelock check, through any number of backtracks.
THEOREM ClocksAreHappensBeforeAlways == McMiniSpec => []ClocksAreHappensBefore
  <1>1. McMiniInit => ClocksAreMade
    BY DEF McMiniInit, SearchInit, ClocksAreMade
  <1>2. SearchInv /\ ClocksAreMade /\ [McMiniNext]_mcminiVars => ClocksAreMade'
    BY StepMakesClocks
  <1>3. SearchInv /\ ClocksAreMade => ClocksAreHappensBefore
    BY ClocksTellBefore DEF SearchInv, StackInv
  <1> QED BY <1>1, <1>2, <1>3, InitIsFine, StepKeeps, PTL DEF McMiniSpec

====
