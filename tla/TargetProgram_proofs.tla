---- MODULE TargetProgram_proofs ----
(***************************************************************************)
(* The shadow objects do what the real ones are for, the transitions that  *)
(* say they can be undone can, and what can run together is declared       *)
(* coenabled: for any number of threads and objects, in every interleaving *)
(* of every program that keeps the rules.                                  *)
(***************************************************************************)
EXTENDS ProgramRules, FiniteSetTheorems, SequenceTheorems, WellFoundedInduction, TLAPS

-----------------------------------------------------------------------------
(* Sequences *)

\* A non-empty set of positions has a first one.
LEMMA FirstPosition ==
    ASSUME NEW S \in SUBSET Nat, S # {}
    PROVE  \E n \in S : \A m \in S : n <= m
  <1>1. \E x \in S : \A y \in S : ~ (<<y, x>> \in OpToRel(<, Nat))
    BY NatLessThanWellFounded, WFMin
  <1>2. \A x \in Nat : \A y \in Nat : ~ (<<y, x>> \in OpToRel(<, Nat)) => x <= y
    BY DEF OpToRel
  <1> QED BY <1>1, <1>2

\* What is left of a sequence without the element at k.
LEMMA RemoveAtLeaves ==
    ASSUME NEW S, NEW s \in Seq(S), NEW k \in 1 .. Len(s)
    PROVE  /\ RemoveAt(s, k) \in Seq(S)
           /\ Len(RemoveAt(s, k)) = Len(s) - 1
           /\ \A i \in 1 .. Len(s) - 1 :
                 RemoveAt(s, k)[i] = s[IF i < k THEN i ELSE i + 1]
  <1> DEFINE before == SubSeq(s, 1, k - 1)
             after == SubSeq(s, k + 1, Len(s))
  <1>0. Len(s) \in Nat /\ \A i \in 1 .. Len(s) : s[i] \in S
    OBVIOUS
  <1>1. before \in Seq(S) /\ Len(before) = k - 1 /\ \A i \in 1 .. k - 1 : before[i] = s[i]
    <2>1. /\ before \in Seq(S)
          /\ Len(before) = IF 1 <= k - 1 THEN k - 1 - 1 + 1 ELSE 0
          /\ \A i \in 1 .. k - 1 - 1 + 1 : before[i] = s[1 + i - 1]
      <3>1. \A i \in 1 .. k - 1 : s[i] \in S
        BY <1>0
      <3> QED BY <3>1, <1>0, SubSeqProperties
    <2> QED BY <2>1, <1>0
  <1>2. /\ after \in Seq(S)
        /\ Len(after) = Len(s) - k
        /\ \A i \in 1 .. Len(s) - k : after[i] = s[k + i]
    <2>1. /\ after \in Seq(S)
          /\ Len(after) = IF k + 1 <= Len(s) THEN Len(s) - (k + 1) + 1 ELSE 0
          /\ \A i \in 1 .. Len(s) - (k + 1) + 1 : after[i] = s[(k + 1) + i - 1]
      <3>1. \A i \in k + 1 .. Len(s) : s[i] \in S
        BY <1>0
      <3>2. k + 1 \in Int /\ Len(s) \in Int
        BY <1>0
      <3> QED BY <3>1, <3>2, SubSeqProperties
    <2> QED BY <2>1, <1>0
  <1> HIDE DEF before, after
  <1>3. RemoveAt(s, k) = before \o after
    BY DEF RemoveAt, before, after
  <1>4. /\ before \o after \in Seq(S)
        /\ Len(before \o after) = Len(before) + Len(after)
        /\ \A i \in 1 .. Len(before) + Len(after) :
              (before \o after)[i] =
                 IF i <= Len(before) THEN before[i] ELSE after[i - Len(before)]
    BY <1>1, <1>2, ConcatProperties
  <1>5. Len(before) + Len(after) = Len(s) - 1
    BY <1>0, <1>1, <1>2
  <1>6. ASSUME NEW i \in 1 .. Len(s) - 1
        PROVE  (before \o after)[i] = s[IF i < k THEN i ELSE i + 1]
    <2>1. CASE i < k
      BY <2>1, <1>0, <1>1, <1>4, <1>5
    <2>2. CASE ~ (i < k)
      <3>1. i - (k - 1) \in 1 .. Len(s) - k
        BY <2>2, <1>0
      <3>2. (before \o after)[i] = after[i - (k - 1)]
        BY <2>2, <1>0, <1>1, <1>4, <1>5
      <3>3. after[i - (k - 1)] = s[k + (i - (k - 1))]
        BY <3>1, <1>2
      <3> QED BY <3>2, <3>3, <2>2, <1>0
    <2> QED BY <2>1, <2>2
  <1> QED BY <1>3, <1>4, <1>5, <1>6

\* A sequence in which everybody occurs once at most.
OnceEach(s) == \A i, j \in 1 .. Len(s) : s[i] = s[j] => i = j

\* ... keeps all but one when that one is removed.
LEMMA RemovedOnce ==
    ASSUME NEW S, NEW s \in Seq(S), NEW k \in 1 .. Len(s), OnceEach(s)
    PROVE  OnceEach(RemoveAt(s, k)) /\ ToSet(RemoveAt(s, k)) = ToSet(s) \ {s[k]}
  <1> DEFINE r == RemoveAt(s, k)
             At(i) == IF i < k THEN i ELSE i + 1
  <1>1. /\ r \in Seq(S)
        /\ Len(r) = Len(s) - 1
        /\ \A i \in 1 .. Len(s) - 1 : r[i] = s[At(i)]
    BY RemoveAtLeaves
  <1>2. Len(s) \in Nat /\ DOMAIN s = 1 .. Len(s) /\ DOMAIN r = 1 .. Len(r)
    BY <1>1
  <1> HIDE DEF r
  <1>3. \A i \in 1 .. Len(r) : At(i) \in (1 .. Len(s)) \ {k}
    BY <1>1, <1>2
  <1>4. \A j \in (1 .. Len(s)) \ {k} : \E i \in 1 .. Len(r) : At(i) = j
    <2> TAKE j \in (1 .. Len(s)) \ {k}
    <2>1. CASE j < k
      BY <2>1, <1>1, <1>2
    <2>2. CASE j > k
      <3>1. j - 1 \in 1 .. Len(r) /\ At(j - 1) = j
        BY <2>2, <1>1, <1>2
      <3> QED BY <3>1
    <2> QED BY <2>1, <2>2
  <1>5. OnceEach(r)
    <2> SUFFICES ASSUME NEW i \in 1 .. Len(r), NEW j \in 1 .. Len(r), r[i] = r[j]
                 PROVE  i = j
      BY DEF OnceEach
    <2>0. r[i] = r[j]
      OBVIOUS
    <2>1. s[At(i)] = s[At(j)] /\ At(i) \in 1 .. Len(s) /\ At(j) \in 1 .. Len(s)
      <3>1. r[i] = s[At(i)] /\ r[j] = s[At(j)]
        BY <1>1
      <3>2. At(i) \in 1 .. Len(s) /\ At(j) \in 1 .. Len(s)
        BY <1>3
      <3> HIDE DEF At
      <3> QED BY <3>1, <3>2, <2>0
    <2>2. At(i) = At(j)
      <3> HIDE DEF At
      <3> QED BY <2>1 DEF OnceEach
    <2> QED BY <2>2
  <1>6. ToSet(r) = ToSet(s) \ {s[k]}
    <2>1. \A i \in DOMAIN r : r[i] \in ToSet(s) \ {s[k]}
      <3> TAKE i \in DOMAIN r
      <3>1. r[i] = s[At(i)] /\ At(i) \in 1 .. Len(s) /\ At(i) # k
        BY <1>1, <1>2, <1>3
      <3> HIDE DEF At
      <3> QED BY <3>1, <1>2 DEF OnceEach, ToSet
    <2>2. \A j \in DOMAIN s : s[j] # s[k] => s[j] \in ToSet(r)
      <3> TAKE j \in DOMAIN s
      <3> HAVE s[j] # s[k]
      <3>1. PICK i \in 1 .. Len(r) : At(i) = j
        BY <1>2, <1>4
      <3>2. r[i] = s[j]
        BY <1>1, <3>1
      <3> QED BY <1>2, <3>2 DEF ToSet
    <2> QED BY <2>1, <2>2 DEF ToSet
  <1> QED BY <1>5, <1>6 DEF r

\* RemoveFirst takes out one position that holds the element.
LEMMA RemoveFirstRemoves ==
    ASSUME NEW S, NEW s \in Seq(S), NEW e, \E i \in 1 .. Len(s) : s[i] = e
    PROVE  \E k \in 1 .. Len(s) : s[k] = e /\ RemoveFirst(s, e) = RemoveAt(s, k)
  <1> DEFINE holding == {i \in 1 .. Len(s) : s[i] = e}
             k == CHOOSE i \in holding : \A j \in holding : i =< j
  <1>1. holding # {} /\ holding \in SUBSET Nat
    OBVIOUS
  <1>2. k \in holding
    BY <1>1, FirstPosition
  <1>3. RemoveFirst(s, e) = RemoveAt(s, k)
    BY <1>1 DEF RemoveFirst, SelectInSeq, Min
  <1> HIDE DEF k
  <1> QED BY <1>2, <1>3

\* Removing the first occurrence of anything leaves a sequence of the same kind.
LEMMA RemoveFirstType ==
    ASSUME NEW S, NEW s \in Seq(S), NEW e
    PROVE  RemoveFirst(s, e) \in Seq(S)
  <1>1. CASE \E i \in 1 .. Len(s) : s[i] = e
    <2>1. PICK k \in 1 .. Len(s) : RemoveFirst(s, e) = RemoveAt(s, k)
      BY <1>1, RemoveFirstRemoves
    <2> QED BY <2>1, RemoveAtLeaves
  <1>2. CASE ~ \E i \in 1 .. Len(s) : s[i] = e
    BY <1>2 DEF RemoveFirst
  <1> QED BY <1>1, <1>2

\* leaveWaitingQueue does the same.
LEMMA WithoutRemoves ==
    ASSUME NEW S, NEW s \in Seq(S), NEW e, \E i \in 1 .. Len(s) : s[i] = e
    PROVE  \E k \in 1 .. Len(s) : s[k] = e /\ Without(s, e) = RemoveAt(s, k)
  <1> DEFINE First(i) == i \in DOMAIN s /\ s[i] = e /\ \A j \in 1 .. i - 1 : s[j] # e
             k == CHOOSE i \in DOMAIN s : s[i] = e /\ \A j \in 1 .. i - 1 : s[j] # e
  <1>1. \E i : First(i)
    <2> DEFINE holding == {i \in 1 .. Len(s) : s[i] = e}
    <2>1. holding # {} /\ holding \in SUBSET Nat
      OBVIOUS
    <2>2. PICK i \in holding : \A j \in holding : i <= j
      <3> HIDE DEF holding
      <3> QED BY <2>1, FirstPosition
    <2>3. First(i)
      <3>1. i \in 1 .. Len(s) /\ s[i] = e /\ Len(s) \in Nat
        OBVIOUS
      <3>2. ASSUME NEW j \in 1 .. i - 1, s[j] = e PROVE FALSE
        <4>1. j \in 1 .. Len(s) /\ j < i
          BY <3>1
        <4>2. j \in holding
          BY <4>1, <3>2
        <4> QED BY <2>2, <4>1, <4>2, <3>1
      <3>3. DOMAIN s = 1 .. Len(s)
        OBVIOUS
      <3> QED BY <3>1, <3>2, <3>3
    <2> QED BY <2>3
  <1>2. First(k)
    BY <1>1
  <1>3. k \in 1 .. Len(s) /\ s[k] = e
    BY <1>2
  <1>4. Without(s, e) = SubSeq(s, 1, k - 1) \o SubSeq(s, k + 1, Len(s))
    BY <1>2 DEF Without
  <1> HIDE DEF k
  <1> QED BY <1>3, <1>4 DEF RemoveAt

\* ... as does leaving the queue of a semaphore.
LEMMA WithoutType ==
    ASSUME NEW S, NEW s \in Seq(S), NEW e
    PROVE  Without(s, e) \in Seq(S)
  <1>1. CASE \E i \in 1 .. Len(s) : s[i] = e
    <2>1. PICK k \in 1 .. Len(s) : Without(s, e) = RemoveAt(s, k)
      BY <1>1, WithoutRemoves
    <2> QED BY <2>1, RemoveAtLeaves
  <1>2. CASE ~ \E i \in 1 .. Len(s) : s[i] = e
    BY <1>2 DEF Without
  <1> QED BY <1>1, <1>2

\* Somebody more at the end.
LEMMA AppendedOnce ==
    ASSUME NEW S, NEW s \in Seq(S), NEW e \in S, OnceEach(s), e \notin ToSet(s)
    PROVE  OnceEach(Append(s, e)) /\ ToSet(Append(s, e)) = ToSet(s) \cup {e}
  <1> DEFINE r == Append(s, e)
  <1>1. /\ Len(s) \in Nat
        /\ Len(r) = Len(s) + 1
        /\ r[Len(s) + 1] = e
        /\ \A i \in 1 .. Len(s) : r[i] = s[i]
        /\ DOMAIN s = 1 .. Len(s)
        /\ DOMAIN r = 1 .. Len(s) + 1
    OBVIOUS
  <1>2. \A i \in 1 .. Len(s) : s[i] # e
    BY <1>1 DEF ToSet
  <1> HIDE DEF r
  <1>3. OnceEach(r)
    BY <1>1, <1>2 DEF OnceEach
  <1>4. ToSet(r) = ToSet(s) \cup {e}
    BY <1>1 DEF ToSet
  <1> QED BY <1>3, <1>4 DEF r

-----------------------------------------------------------------------------
(* Counting operations *)

\* Counting goes on by one operation.
LEMMA BeforeNext ==
    ASSUME NEW prg \in Programs, NEW t \in Threads, NEW n \in Nat, NEW ops
    PROVE  /\ Before(prg, t, n, ops) \in Nat
           /\ Before(prg, t, n + 1, ops) =
                 IF n \in DOMAIN prg[t] /\ prg[t][n] \in ops
                 THEN Before(prg, t, n, ops) + 1 ELSE Before(prg, t, n, ops)
           /\ Before(prg, t, n, ops) = 0
                 <=> \A p \in DOMAIN prg[t] : p < n => prg[t][p] \notin ops
  <1> DEFINE Sel(m) == {p \in DOMAIN prg[t] : p < m /\ prg[t][p] \in ops}
  <1>1. prg[t] \in Seq(Operations)
    BY ProgramsAssumption
  <1>2. DOMAIN prg[t] = 1 .. Len(prg[t]) /\ Len(prg[t]) \in Nat
    BY <1>1
  <1>3. IsFiniteSet(Sel(n)) /\ Cardinality(Sel(n)) \in Nat
    <2>1. IsFiniteSet(1 .. Len(prg[t]))
      BY <1>2, FS_Interval
    <2>2. Sel(n) \in SUBSET (1 .. Len(prg[t]))
      BY <1>2
    <2> QED BY <2>1, <2>2, FS_Subset, FS_CardinalityType
  <1>4. CASE n \in DOMAIN prg[t] /\ prg[t][n] \in ops
    <2>1. Sel(n + 1) = Sel(n) \cup {n} /\ n \notin Sel(n)
      BY <1>2, <1>4
    <2> HIDE DEF Sel
    <2>2. Cardinality(Sel(n + 1)) = Cardinality(Sel(n)) + 1
      BY <1>3, <2>1, FS_AddElement
    <2> QED BY <1>3, <1>4, <2>2, FS_EmptySet DEF Before, Sel
  <1>5. CASE ~ (n \in DOMAIN prg[t] /\ prg[t][n] \in ops)
    <2>1. Sel(n + 1) = Sel(n)
      BY <1>2, <1>5
    <2> HIDE DEF Sel
    <2> QED BY <1>3, <1>5, <2>1, FS_EmptySet DEF Before, Sel
  <1> QED BY <1>4, <1>5

\* The operation thread t is about to run is one of ops.
PendingIn(t, ops) == pos[t] \in DOMAIN program[t] /\ program[t][pos[t]] \in ops

\* Where the threads are.
Positions ==
    /\ program \in Programs
    /\ pos \in [Threads -> Nat]
    /\ \A t \in Threads :
          /\ pos[t] <= Len(program[t]) + 1
          /\ pos[t] \in DOMAIN program[t] => program[t][pos[t]].type # "repeat"

\* A thread of a program without loops goes on by one operation, or stays at its finish.
LEMMA NextInLine ==
    ASSUME Positions, HasNoLoop(program), NEW t \in Threads
    PROVE  NextPosition(program, t, pos[t]) =
              IF pos[t] = Len(program[t]) + 1 THEN pos[t] ELSE pos[t] + 1
  <1> DEFINE q == IF pos[t] = Len(program[t]) + 1 THEN pos[t] ELSE pos[t] + 1
  <1>1. ~ (q \in DOMAIN program[t] /\ program[t][q].type = "repeat")
    BY DEF HasNoLoop
  <1>2. NextPosition(program, t, pos[t])
           = IF q \in DOMAIN program[t] /\ program[t][q].type = "repeat"
             THEN program[t][q].obj ELSE q
    BY DEF NextPosition
  <1> QED BY <1>1, <1>2

\* A step keeps every thread within its program, and never leaves it at a repeat.
LEMMA PositionsStep ==
    ASSUME Positions, NEW t \in Threads, Run(t)
    PROVE  Positions'
  <1> DEFINE q == IF pos[t] = Len(program[t]) + 1 THEN pos[t] ELSE pos[t] + 1
             r == NextPosition(program, t, pos[t])
  <1>1. program' = program /\ pos' = [pos EXCEPT ![t] = r]
    BY DEF Run
  <1>2. program[t] \in Seq(Operations)
    BY ProgramsAssumption DEF Positions
  <1>3. DOMAIN program[t] = 1 .. Len(program[t]) /\ Len(program[t]) \in Nat
    BY <1>2
  <1>4. pos[t] \in Nat /\ pos[t] <= Len(program[t]) + 1
    BY DEF Positions
  <1>5. r = IF q \in DOMAIN program[t] /\ program[t][q].type = "repeat"
            THEN program[t][q].obj ELSE q
    BY DEF NextPosition
  <1>6. q \in Nat /\ q <= Len(program[t]) + 1
    BY <1>3, <1>4
  <1>7. /\ r \in Nat
        /\ r <= Len(program[t]) + 1
        /\ r \in DOMAIN program[t] => program[t][r].type # "repeat"
    <2> HIDE DEF q, r
    <2>1. CASE q \in DOMAIN program[t] /\ program[t][q].type = "repeat"
      <3>1. program[t][q].obj \in DOMAIN program[t]
            /\ program[t][program[t][q].obj].type # "repeat"
        BY <2>1, ProgramsAssumption DEF Positions
      <3> QED BY <1>3, <1>5, <2>1, <3>1
    <2>2. CASE ~ (q \in DOMAIN program[t] /\ program[t][q].type = "repeat")
      BY <1>5, <1>6, <2>2
    <2> QED BY <2>1, <2>2
  <1> HIDE DEF r
  <1> QED BY <1>1, <1>7 DEF Positions

\* What the threads have run after a step: one operation more, if it is one of ops.
LEMMA RanStep ==
    ASSUME Positions, HasNoLoop(program), NEW t \in Threads, Run(t), NEW ops
    PROVE  /\ \A u \in Threads : Ran(u, ops) \in Nat
           /\ \A u \in Threads \ {t} : Ran(u, ops)' = Ran(u, ops)
           /\ Ran(t, ops)' = IF PendingIn(t, ops) THEN Ran(t, ops) + 1 ELSE Ran(t, ops)
           /\ AllRan(ops)' = IF PendingIn(t, ops) THEN AllRan(ops) \cup {<<t, pos[t]>>}
                             ELSE AllRan(ops)
           /\ <<t, pos[t]>> \notin AllRan(ops)
  <1>1. program' = program /\ pos' = [pos EXCEPT ![t] = NextPosition(program, t, pos[t])]
    BY DEF Run
  <1>2. program[t] \in Seq(Operations)
    BY ProgramsAssumption DEF Positions
  <1>3. DOMAIN program[t] = 1 .. Len(program[t]) /\ Len(program[t]) \in Nat
    BY <1>2
  <1>4. program \in Programs /\ pos \in [Threads -> Nat] /\ pos[t] <= Len(program[t]) + 1
    BY DEF Positions
  <1>5. pos'[t] = IF pos[t] = Len(program[t]) + 1 THEN pos[t] ELSE pos[t] + 1
    BY <1>1, <1>4, NextInLine
  <1>6. \A u \in Threads \ {t} : pos'[u] = pos[u]
    BY <1>1, <1>4
  <1>7. \A u \in Threads : Ran(u, ops) \in Nat
    BY <1>4, BeforeNext DEF Ran
  <1>8. \A u \in Threads \ {t} : Ran(u, ops)' = Ran(u, ops)
    BY <1>1, <1>6 DEF Ran, Before
  <1>9. Ran(t, ops)' = IF PendingIn(t, ops) THEN Ran(t, ops) + 1 ELSE Ran(t, ops)
    <2>1. Ran(t, ops)' = Before(program, t, pos'[t], ops)
      BY <1>1 DEF Ran, Before
    <2>2. CASE pos[t] = Len(program[t]) + 1
      BY <1>3, <1>5, <2>1, <2>2 DEF Ran, PendingIn
    <2>3. CASE pos[t] # Len(program[t]) + 1
      BY <1>4, <1>5, <2>1, <2>3, BeforeNext DEF Ran, PendingIn
    <2> QED BY <2>2, <2>3
  <1>10. /\ AllRan(ops)' = IF PendingIn(t, ops) THEN AllRan(ops) \cup {<<t, pos[t]>>}
                           ELSE AllRan(ops)
         /\ <<t, pos[t]>> \notin AllRan(ops)
    <2>1. \A u \in Threads : \A p : <<u, p>> \in AllRan(ops)
             <=> p \in DOMAIN program[u] /\ p < pos[u] /\ program[u][p] \in ops
      BY DEF AllRan
    <2>2. \A u \in Threads : \A p : <<u, p>> \in AllRan(ops)'
             <=> p \in DOMAIN program[u] /\ p < pos'[u] /\ program[u][p] \in ops
      BY <1>1 DEF AllRan
    <2>3. \A at \in AllRan(ops) \cup AllRan(ops)' : \E u \in Threads, p \in Nat : at = <<u, p>>
      <3>1. \A u \in Threads : DOMAIN program[u] \subseteq Nat
        <4> TAKE u \in Threads
        <4>1. program[u] \in Seq(Operations)
          BY <1>4, ProgramsAssumption
        <4> QED BY <4>1
      <3> QED BY <1>1, <3>1 DEF AllRan
    <2>4. ASSUME NEW u \in Threads \ {t}, NEW p
          PROVE  <<u, p>> \in AllRan(ops)' <=> <<u, p>> \in AllRan(ops)
      <3>1. <<u, p>> \in AllRan(ops)
               <=> p \in DOMAIN program[u] /\ p < pos[u] /\ program[u][p] \in ops
        BY <2>1
      <3>2. <<u, p>> \in AllRan(ops)'
               <=> p \in DOMAIN program[u] /\ p < pos'[u] /\ program[u][p] \in ops
        BY <2>2
      <3> QED BY <1>6, <3>1, <3>2
    <2>5. \A p \in Nat : <<t, p>> \in AllRan(ops)'
             <=> <<t, p>> \in AllRan(ops) \/ (PendingIn(t, ops) /\ p = pos[t])
      BY <1>3, <1>4, <1>5, <2>1, <2>2 DEF PendingIn
    <2>6. <<t, pos[t]>> \notin AllRan(ops)
      BY <1>4, <2>1
    <2> DEFINE new == IF PendingIn(t, ops) THEN AllRan(ops) \cup {<<t, pos[t]>>} ELSE AllRan(ops)
    <2>7. \A at : at \in AllRan(ops)' => at \in new
      <3> SUFFICES ASSUME NEW at \in AllRan(ops)' PROVE at \in new
        OBVIOUS
      <3>1. PICK u \in Threads, p \in Nat : at = <<u, p>>
        BY <2>3
      <3>2. CASE u = t
        BY <2>5, <3>1, <3>2
      <3>3. CASE u # t
        BY <2>4, <3>1, <3>3
      <3> QED BY <3>2, <3>3
    <2>8. \A at : at \in new => at \in AllRan(ops)'
      <3> SUFFICES ASSUME NEW at \in new PROVE at \in AllRan(ops)'
        OBVIOUS
      <3>1. CASE at \in AllRan(ops)
        <4>1. PICK u \in Threads, p \in Nat : at = <<u, p>>
          BY <2>3, <3>1
        <4>2. CASE u = t
          BY <2>5, <3>1, <4>1, <4>2
        <4>3. CASE u # t
          BY <2>4, <3>1, <4>1, <4>3
        <4> QED BY <4>2, <4>3
      <3>2. CASE at \notin AllRan(ops)
        BY <1>4, <2>5, <3>2
      <3> QED BY <3>1, <3>2
    <2>9. AllRan(ops)' = new
      <3> HIDE DEF new
      <3> QED BY <2>7, <2>8
    <2> QED BY <2>6, <2>9
  <1> QED BY <1>7, <1>8, <1>9, <1>10

-----------------------------------------------------------------------------
(* What the operations do to the objects *)

\* What a thread of a program may announce.
Transitions ==
    [tid : Threads, type : {"start", "finish"}, obj : {NoObject}]
    \cup [tid : Threads, type : {"create", "join"}, obj : Threads]
    \cup [tid : Threads, type : MutexOperationTypes, obj : Mutexes]
    \cup [tid : Threads, type : SemOperationTypes, obj : Semaphores]
    \cup [tid : Threads, type : CondOperationTypes, obj : Conds]
    \cup [tid : Threads, type : BarrierOperationTypes, obj : Barriers]
    \cup [tid : Threads, type : MCRWLockTypes \cup MCRWWLockTypes, obj : RWLocks]
    \cup [tid : Threads, type : MiscOperationTypes, obj : Variables \cup {NoObject}]

\* The family of a transition, and only that one.
LEMMA OneFamily ==
    ASSUME NEW tr \in Transitions
    PROVE  /\ tr.tid \in Threads
           /\ tr.type \in ThreadOperationTypes => Subject(tr) \in Threads
           /\ tr.type \in MutexOperationTypes => tr.obj \in Mutexes
           /\ tr.type \in SemOperationTypes => tr.obj \in Semaphores
           /\ tr.type \in CondOperationTypes => tr.obj \in Conds
           /\ tr.type \in BarrierOperationTypes => tr.obj \in Barriers
           /\ tr.type \in MCRWLockTypes \cup MCRWWLockTypes => tr.obj \in RWLocks
           /\ \/ tr.type \in ThreadOperationTypes
              \/ tr.type \in MutexOperationTypes
              \/ tr.type \in SemOperationTypes
              \/ tr.type \in CondOperationTypes
              \/ tr.type \in BarrierOperationTypes
              \/ tr.type \in MCRWLockTypes
              \/ tr.type \in MCRWWLockTypes
              \/ tr.type \in MiscOperationTypes
  BY DEF Transitions, Subject, ThreadOperationTypes, MutexOperationTypes, SemOperationTypes,
         CondOperationTypes, BarrierOperationTypes, MCRWLockTypes, MCRWWLockTypes,
         MiscOperationTypes, GlobalOperationTypes

\* No type belongs to two families.
LEMMA OneFamilyOnly ==
    ASSUME NEW type
    PROVE  /\ type \in ThreadOperationTypes =>
                type \notin MutexOperationTypes \cup SemOperationTypes \cup CondOperationTypes
                    \cup BarrierOperationTypes \cup MCRWLockTypes \cup MCRWWLockTypes
                    \cup MiscOperationTypes
           /\ type \in MutexOperationTypes =>
                type \notin SemOperationTypes \cup CondOperationTypes
                    \cup BarrierOperationTypes \cup MCRWLockTypes \cup MCRWWLockTypes
                    \cup MiscOperationTypes
           /\ type \in SemOperationTypes =>
                type \notin CondOperationTypes \cup BarrierOperationTypes \cup MCRWLockTypes
                    \cup MCRWWLockTypes \cup MiscOperationTypes
           /\ type \in CondOperationTypes =>
                type \notin BarrierOperationTypes \cup MCRWLockTypes \cup MCRWWLockTypes
                    \cup MiscOperationTypes
           /\ type \in BarrierOperationTypes =>
                type \notin MCRWLockTypes \cup MCRWWLockTypes \cup MiscOperationTypes
           /\ type \in MCRWLockTypes => type \notin MCRWWLockTypes \cup MiscOperationTypes
           /\ type \in MCRWWLockTypes => type \notin MiscOperationTypes
           /\ type \in {"cond_enqueue", "cond_wait"} => type \in CondOperationTypes
  BY DEF ThreadOperationTypes, MutexOperationTypes, SemOperationTypes,
         CondOperationTypes, BarrierOperationTypes, MCRWLockTypes, MCRWWLockTypes,
         MiscOperationTypes, GlobalOperationTypes

\* What the classes of each family make of an object is an object of its kind: threads,
LEMMA ThreadOperationType ==
    ASSUME NEW type \in ThreadOperationTypes, NEW state \in ThreadStates, NEW t
    PROVE  /\ ThreadOperation(type, state, t).announced \in ThreadStates
           /\ ThreadOperation(type, state, t).applied \in ThreadStates
  BY DEF ThreadOperationTypes, ThreadOperation, ThreadStates, MCThreadStart, MCThreadCreate,
         MCThreadJoin, MCThreadFinish, addNewThread

\* mutexes,
LEMMA MutexOperationType ==
    ASSUME NEW type \in MutexOperationTypes, NEW m \in MutexStates
    PROVE  /\ MutexOperation(type, m).announced \in MutexStates
           /\ MutexOperation(type, m).applied \in MutexStates
  BY DEF MutexOperationTypes, MutexOperation, MutexStates, MCMutexInit, MCMutexLock,
         MCMutexTrylock, MCMutexUnlock, RegisteredMutex, StaticallyInitialised

\* semaphores,
LEMMA SemOperationType ==
    ASSUME NEW type \in SemOperationTypes, NEW sem \in SemStates, NEW t \in Threads,
           NEW initial \in Nat
    PROVE  /\ SemOperation(type, sem, t, initial).announced \in SemStates
           /\ SemOperation(type, sem, t, initial).applied \in SemStates
  <1>1. Without(sem.waitingQueue, t) \in Seq(Threads)
    BY WithoutType DEF SemStates
  <1>2. Enqueue(sem.waitingQueue, t) \in Seq(Threads)
    BY DEF Enqueue, SemStates
  <1>3. << >> \in Seq(Threads)
    OBVIOUS
  <1>4. [sem EXCEPT !.waitingQueue = Enqueue(@, t)] \in SemStates
    BY <1>2 DEF SemStates
  <1>5. [sem EXCEPT !.count = IF @ > 0 THEN @ - 1 ELSE @,
                    !.waitingQueue = Without(@, t)] \in SemStates
    <2>1. (IF sem.count > 0 THEN sem.count - 1 ELSE sem.count) \in Nat
      BY DEF SemStates
    <2> QED BY <1>1, <2>1 DEF SemStates
  <1>6. [sem EXCEPT !.count = @ + 1] \in SemStates
    BY DEF SemStates
  <1>7. [registered |-> TRUE, count |-> initial, waitingQueue |-> << >>] \in SemStates
    BY <1>3 DEF SemStates
  <1>8. CASE type = "sem_init"
    BY <1>7, <1>8 DEF SemOperation, MCSemInit
  <1>9. CASE type = "sem_enqueue"
    BY <1>4, <1>9 DEF SemOperation, MCSemEnqueue
  <1>10. CASE type = "sem_wait"
    BY <1>5, <1>10 DEF SemOperation, MCSemWait
  <1>11. CASE type = "sem_post"
    BY <1>6, <1>11 DEF SemOperation, MCSemPost
  <1> QED BY <1>8, <1>9, <1>10, <1>11 DEF SemOperationTypes

\* barriers,
LEMMA BarrierOperationType ==
    ASSUME NEW type \in BarrierOperationTypes, NEW b \in BarrierStates, NEW t \in Threads,
           NEW count
    PROVE  /\ BarrierOperation(type, b, t, count).announced \in BarrierStates
           /\ BarrierOperation(type, b, t, count).applied \in BarrierStates
  BY DEF BarrierOperationTypes, BarrierOperation, BarrierStates, MCBarrierInit, MCBarrierWait,
         EnterBarrier, waitingSetForParity

\* condition variables,
LEMMA CondOperationType ==
    ASSUME NEW type \in CondOperationTypes, NEW c \in CondStates, NEW t \in Threads
    PROVE  /\ CondOperation(type, c, t).announced \in CondStates
           /\ CondOperation(type, c, t).applied \in CondStates
  <1>1. /\ c.wait_queue \in Seq(Threads)
        /\ c.wake_groups \in Seq(SUBSET Threads)
        /\ c.broadcast_eligible_threads \in SUBSET Threads
    BY DEF CondStates
  <1>2. add_waiter(c, t) \in CondStates
    <2>1. Append(c.wait_queue, t) \in Seq(Threads)
      BY <1>1
    <2> QED BY <2>1 DEF add_waiter, CondStates
  <1>3. ToSet(c.wait_queue) \in SUBSET Threads
    BY <1>1 DEF ToSet
  <1>4. receive_signal_message(c) \in CondStates
    <2>1. Append(c.wake_groups, ToSet(c.wait_queue)) \in Seq(SUBSET Threads)
      <3> HIDE <1>1
      <3>1. c.wake_groups \in Seq(SUBSET Threads)
        BY <1>1
      <3> QED BY <1>3, <3>1
    <2> QED BY <2>1 DEF receive_signal_message, CondStates
  <1>5. receive_broadcast_message(c) \in CondStates
    <2>1. UNION ToSet(c.wake_groups) \in SUBSET Threads
      BY <1>1 DEF ToSet
    <2>2. << >> \in Seq(SUBSET Threads)
      OBVIOUS
    <2> QED BY <1>3, <2>1, <2>2 DEF receive_broadcast_message, CondStates
  <1>6. ASSUME thread_can_exit(c, t)
        PROVE  wake_thread(c, t) \in CondStates
    <2> DEFINE left == SignalsLeft(c, t)
               First(i) == i \in DOMAIN c.wake_groups /\ t \in c.wake_groups[i]
                           /\ \A j \in 1 .. i - 1 : t \notin c.wake_groups[j]
    <2>1. left \in Seq(SUBSET Threads)
      <3>1. CASE t \in c.broadcast_eligible_threads
        BY <1>1, <3>1 DEF SignalsLeft
      <3>2. CASE t \notin c.broadcast_eligible_threads
        <4> DEFINE groups == {i \in 1 .. Len(c.wake_groups) : t \in c.wake_groups[i]}
                   k == CHOOSE i \in DOMAIN c.wake_groups :
                           /\ t \in c.wake_groups[i]
                           /\ \A j \in 1 .. i - 1 : t \notin c.wake_groups[j]
        <4>1. DOMAIN c.wake_groups = 1 .. Len(c.wake_groups) /\ Len(c.wake_groups) \in Nat
          BY <1>1
        <4>2. groups # {} /\ groups \in SUBSET Nat
          BY <1>6, <3>2, <4>1 DEF thread_can_exit
        <4>3. PICK i \in groups : \A j \in groups : i <= j
          <5> HIDE DEF groups
          <5> QED BY <4>2, FirstPosition
        <4>4. First(i)
          <5>1. i \in 1 .. Len(c.wake_groups) /\ t \in c.wake_groups[i]
            OBVIOUS
          <5>2. ASSUME NEW j \in 1 .. i - 1, t \in c.wake_groups[j] PROVE FALSE
            <6>1. j \in groups /\ j < i
              BY <4>1, <5>1, <5>2
            <6> QED BY <4>3, <5>1, <6>1
          <5> QED BY <4>1, <5>1, <5>2
        <4>5. k \in 1 .. Len(c.wake_groups)
          BY <4>1, <4>4
        <4>6. left = RemoveAt(c.wake_groups, k)
          BY <3>2 DEF SignalsLeft
        <4> HIDE DEF k, left
        <4> QED BY <1>1, <4>5, <4>6, RemoveAtLeaves
      <3> QED BY <3>1, <3>2
    <2>2. [i \in DOMAIN left |-> left[i] \ {t}] \in Seq(SUBSET Threads)
      <3> HIDE DEF left
      <3>1. Len(left) \in Nat /\ DOMAIN left = 1 .. Len(left)
        BY <2>1
      <3>2. \A i \in 1 .. Len(left) : left[i] \in SUBSET Threads
        BY <2>1
      <3>3. [i \in 1 .. Len(left) |-> left[i] \ {t}] \in Seq(SUBSET Threads)
        BY <3>1, <3>2, IsASeq
      <3> QED BY <3>1, <3>3
    <2>3. RemoveFirst(c.wait_queue, t) \in Seq(Threads)
      BY <1>1, RemoveFirstType
    <2>4. wake_thread(c, t) =
             [wait_queue |-> IF t \in ToSet(c.wait_queue)
                             THEN RemoveFirst(c.wait_queue, t) ELSE c.wait_queue,
              wake_groups |-> [i \in DOMAIN left |-> left[i] \ {t}],
              broadcast_eligible_threads |-> c.broadcast_eligible_threads \ {t}]
      BY DEF wake_thread
    <2> HIDE DEF left
    <2> QED BY <1>1, <2>2, <2>3, <2>4 DEF CondStates
  <1>7. CASE type = "cond_init"
    BY <1>7 DEF CondOperation, MCCondInit
  <1>8. CASE type = "cond_enqueue"
    BY <1>2, <1>8 DEF CondOperation, MCCondEnqueue
  <1>9. CASE type = "cond_wait"
    BY <1>6, <1>9 DEF CondOperation, MCCondWait
  <1>10. CASE type = "cond_signal"
    BY <1>4, <1>10 DEF CondOperation, MCCondSignal
  <1>11. CASE type = "cond_broadcast"
    BY <1>5, <1>11 DEF CondOperation, MCCondBroadcast
  <1> QED BY <1>7, <1>8, <1>9, <1>10, <1>11 DEF CondOperationTypes

\* The queues of a reader-writer lock.
LEMMA QueuesType ==
    ASSUME NEW l \in RWLockStates, NEW t \in Threads, NEW kind \in Kinds
    PROVE  /\ EnqueueAs(l, kind, t) \in RWLockStates
           /\ Dequeued(l, kind) \in RWLockStates
  <1>1. /\ l.queue \in [Kinds -> Seq(Threads)]
        /\ l.acquire_queue \in Seq(Threads)
    BY DEF RWLockStates
  <1>2. l.queue[kind] \in Seq(Threads)
    BY <1>1
  <1>3. /\ Append(l.queue[kind], t) \in Seq(Threads)
        /\ Append(l.acquire_queue, t) \in Seq(Threads)
    BY <1>1, <1>2
  <1>4. \A q \in Seq(Threads) : Pop(q) \in Seq(Threads)
    BY DEF Pop
  <1>5. EnqueueAs(l, kind, t) \in RWLockStates
    <2>1. [l.queue EXCEPT ![kind] = Append(l.queue[kind], t)] \in [Kinds -> Seq(Threads)]
      BY <1>1, <1>3
    <2>2. EnqueueAs(l, kind, t) =
             [l EXCEPT !.queue = [l.queue EXCEPT ![kind] = Append(l.queue[kind], t)],
                       !.acquire_queue = Append(l.acquire_queue, t)]
      BY DEF EnqueueAs, RWLockStates
    <2> QED BY <1>3, <2>1, <2>2 DEF RWLockStates
  <1>6. Dequeued(l, kind) \in RWLockStates
    <2>1. [l.queue EXCEPT ![kind] = Pop(l.queue[kind])] \in [Kinds -> Seq(Threads)]
      BY <1>1, <1>2, <1>4
    <2>2. Dequeued(l, kind) =
             [l EXCEPT !.queue = [l.queue EXCEPT ![kind] = Pop(l.queue[kind])],
                       !.acquire_queue = Pop(l.acquire_queue)]
      BY DEF Dequeued, RWLockStates
    <2> QED BY <1>1, <1>4, <2>1, <2>2 DEF RWLockStates
  <1> QED BY <1>5, <1>6

\* ... and so do taking the lock and releasing it,
LEMMA LocksType ==
    ASSUME NEW l \in RWLockStates, NEW t \in Threads, NEW kind \in Writers
    PROVE  /\ LockAsReader(l, t) \in RWLockStates
           /\ LockAsWriter(l, kind, t) \in RWLockStates
           /\ ReleaseRWLock(l, t) \in RWLockStates
           /\ ReleaseRWWLock(l, t) \in RWLockStates
  <1>1. /\ l.active_readers \in Seq(Threads)
        /\ l.active_writer \in [Writers -> Threads \cup {Nobody}]
    BY DEF RWLockStates
  <1>2. "reader" \in Kinds /\ kind \in Kinds
    BY DEF Kinds
  <1>3. LockAsReader(l, t) \in RWLockStates
    <2> DEFINE d == Dequeued(l, "reader")
    <2>1. d \in RWLockStates
      BY <1>2, QueuesType
    <2> HIDE DEF d
    <2>2. Append(d.active_readers, t) \in Seq(Threads)
      BY <2>1 DEF RWLockStates
    <2>3. [d EXCEPT !.active_readers = Append(@, t)] \in RWLockStates
      BY <2>1, <2>2 DEF RWLockStates
    <2> QED BY <2>3 DEF LockAsReader, d
  <1>4. LockAsWriter(l, kind, t) \in RWLockStates
    <2> DEFINE d == Dequeued(l, kind)
    <2>1. d \in RWLockStates
      BY <1>2, QueuesType
    <2> HIDE DEF d
    <2>2. [d EXCEPT !.active_writer[kind] = t] \in RWLockStates
      BY <2>1 DEF RWLockStates
    <2> QED BY <2>2 DEF LockAsWriter, d
  <1>5. ReleaseRWLock(l, t) \in RWLockStates
    <2>1. RemoveFirst(l.active_readers, t) \in Seq(Threads)
      BY <1>1, RemoveFirstType
    <2>2. [l EXCEPT !.active_writer = [k \in Writers |-> Nobody]] \in RWLockStates
      BY DEF RWLockStates
    <2>3. [l EXCEPT !.active_readers = IF Contains(@, t) THEN RemoveFirst(@, t) ELSE @]
             \in RWLockStates
      BY <2>1 DEF RWLockStates
    <2> QED BY <2>2, <2>3 DEF ReleaseRWLock
  <1>6. ReleaseRWWLock(l, t) \in RWLockStates
    <2>1. \A k \in {"writer1", "writer2"} : [l EXCEPT !.active_writer[k] = Nobody] \in RWLockStates
      BY DEF RWLockStates, Writers
    <2> QED BY <1>5, <2>1 DEF ReleaseRWWLock
  <1> QED BY <1>3, <1>4, <1>5, <1>6

\* ... and with them the operations on both kinds of reader-writer locks.
LEMMA RWLockOperationType ==
    ASSUME NEW type, NEW l \in RWLockStates, NEW t \in Threads
    PROVE  /\ type \in MCRWLockTypes =>
                 /\ RWLockOperation(type, l, t).announced = l
                 /\ RWLockOperation(type, l, t).applied \in RWLockStates
           /\ type \in MCRWWLockTypes =>
                 /\ RWWLockOperation(type, l, t).announced = l
                 /\ RWWLockOperation(type, l, t).applied \in RWLockStates
  <1>1. /\ \A kind \in Kinds : EnqueueAs(l, kind, t) \in RWLockStates
        /\ "reader" \in Kinds
        /\ \A kind \in Writers : kind \in Kinds /\ LockAsWriter(l, kind, t) \in RWLockStates
        /\ LockAsReader(l, t) \in RWLockStates
        /\ ReleaseRWLock(l, t) \in RWLockStates
        /\ ReleaseRWWLock(l, t) \in RWLockStates
    <2>1. "writer" \in Writers
      BY DEF Writers
    <2> QED BY <2>1, QueuesType, LocksType DEF Kinds
  <1>2. "writer" \in Writers /\ "writer1" \in Writers /\ "writer2" \in Writers
    BY DEF Writers
  <1>3. type \in MCRWLockTypes =>
           /\ RWLockOperation(type, l, t).announced = l
           /\ RWLockOperation(type, l, t).applied \in RWLockStates
    BY <1>1, <1>2 DEF MCRWLockTypes, RWLockOperation, MCRWLockInit, MCRWLockReaderEnqueue,
       MCRWLockWriterEnqueue, MCRWLockReaderLock, MCRWLockWriterLock, MCRWLockUnlock
  <1>4. type \in MCRWWLockTypes =>
           /\ RWWLockOperation(type, l, t).announced = l
           /\ RWWLockOperation(type, l, t).applied \in RWLockStates
    BY <1>1, <1>2 DEF MCRWWLockTypes, RWWLockOperation, MCRWWLockInit, MCRWWLockReaderEnqueue,
       MCRWWLockWriter1Enqueue, MCRWWLockWriter2Enqueue, MCRWWLockReaderLock,
       MCRWWLockWriter1Lock, MCRWWLockWriter2Lock, MCRWWLockUnlock
  <1> QED BY <1>3, <1>4

-----------------------------------------------------------------------------
(* The object store, object by object *)

\* n is o, but for the object of tr, whose state is new.
ReplacedBy(o, tr, new, n) ==
    /\ n.thread = IF tr.type \in ThreadOperationTypes
                  THEN [o.thread EXCEPT ![Subject(tr)] = new] ELSE o.thread
    /\ n.mutex = IF tr.type \in MutexOperationTypes
                 THEN [o.mutex EXCEPT ![tr.obj] = new] ELSE o.mutex
    /\ n.sem = IF tr.type \in SemOperationTypes
               THEN [o.sem EXCEPT ![tr.obj] = new] ELSE o.sem
    /\ n.cond = IF tr.type \in CondOperationTypes
                THEN [o.cond EXCEPT ![tr.obj] = new] ELSE o.cond
    /\ n.barrier = IF tr.type \in BarrierOperationTypes
                   THEN [o.barrier EXCEPT ![tr.obj] = new] ELSE o.barrier
    /\ n.rwlock = IF tr.type \in MCRWLockTypes \cup MCRWWLockTypes
                  THEN [o.rwlock EXCEPT ![tr.obj] = new] ELSE o.rwlock
    /\ n = [thread |-> n.thread, mutex |-> n.mutex, sem |-> n.sem,
            cond |-> n.cond, barrier |-> n.barrier, rwlock |-> n.rwlock]

\* Replacing the state of the object of a transition leaves all others.
LEMMA UpdatedFields ==
    ASSUME NEW o \in ObjectStates, NEW tr \in Transitions, tr.type \notin MiscOperationTypes,
           NEW new
    PROVE  ReplacedBy(o, tr, new, Updated(o, tr, new))
  <1>1. CASE tr.type \in ThreadOperationTypes
    BY <1>1, OneFamilyOnly DEF ReplacedBy, Updated, ObjectStates
  <1>2. CASE tr.type \in MutexOperationTypes
    BY <1>2, OneFamilyOnly DEF ReplacedBy, Updated, ObjectStates
  <1>3. CASE tr.type \in SemOperationTypes
    BY <1>3, OneFamilyOnly DEF ReplacedBy, Updated, ObjectStates
  <1>4. CASE tr.type \in CondOperationTypes
    BY <1>4, OneFamilyOnly DEF ReplacedBy, Updated, ObjectStates
  <1>5. CASE tr.type \in BarrierOperationTypes
    BY <1>5, OneFamilyOnly DEF ReplacedBy, Updated, ObjectStates
  <1>6. CASE tr.type \in MCRWLockTypes \cup MCRWWLockTypes
    BY <1>6, OneFamilyOnly DEF ReplacedBy, Updated, ObjectStates
  <1> QED BY <1>1, <1>2, <1>3, <1>4, <1>5, <1>6, OneFamily

\* What an operation makes of its object is a state of such an object.
StateOfItsKind(tr, new) ==
    /\ tr.type \in ThreadOperationTypes => new \in ThreadStates
    /\ tr.type \in MutexOperationTypes => new \in MutexStates
    /\ tr.type \in SemOperationTypes => new \in SemStates
    /\ tr.type \in CondOperationTypes => new \in CondStates
    /\ tr.type \in BarrierOperationTypes => new \in BarrierStates
    /\ tr.type \in MCRWLockTypes \cup MCRWWLockTypes => new \in RWLockStates

\* An object replaced by one of its kind leaves the objects well typed,
LEMMA UpdatedType ==
    ASSUME NEW o \in ObjectStates, NEW tr \in Transitions, tr.type \notin MiscOperationTypes,
           NEW new, StateOfItsKind(tr, new)
    PROVE  Updated(o, tr, new) \in ObjectStates
  <1> DEFINE n == Updated(o, tr, new)
  <1>1. /\ o.thread \in [Threads -> ThreadStates]
        /\ o.mutex \in [Mutexes -> MutexStates]
        /\ o.sem \in [Semaphores -> SemStates]
        /\ o.cond \in [Conds -> CondStates]
        /\ o.barrier \in [Barriers -> BarrierStates]
        /\ o.rwlock \in [RWLocks -> RWLockStates]
    BY DEF ObjectStates
  <1>2. ReplacedBy(o, tr, new, n)
    BY UpdatedFields
  <1> HIDE DEF n
  <1>3. n.thread \in [Threads -> ThreadStates]
    BY <1>1, <1>2 DEF StateOfItsKind, ReplacedBy
  <1>4. n.mutex \in [Mutexes -> MutexStates]
    BY <1>1, <1>2 DEF StateOfItsKind, ReplacedBy
  <1>5. n.sem \in [Semaphores -> SemStates]
    BY <1>1, <1>2 DEF StateOfItsKind, ReplacedBy
  <1>6. n.cond \in [Conds -> CondStates]
    BY <1>1, <1>2 DEF StateOfItsKind, ReplacedBy
  <1>7. n.barrier \in [Barriers -> BarrierStates]
    BY <1>1, <1>2 DEF StateOfItsKind, ReplacedBy
  <1>8. n.rwlock \in [RWLocks -> RWLockStates]
    BY <1>1, <1>2 DEF StateOfItsKind, ReplacedBy
  <1>9. n \in ObjectStates
    BY <1>2, <1>3, <1>4, <1>5, <1>6, <1>7, <1>8 DEF ObjectStates, ReplacedBy
  <1> QED BY <1>9 DEF n

\* The operation of a transition, by its family.
LEMMA OperationOfItsKind ==
    ASSUME NEW o \in ObjectStates, NEW tr \in Transitions, tr.type \notin MiscOperationTypes
    PROVE  /\ StateOfItsKind(tr, Operation(o, tr).announced)
           /\ StateOfItsKind(tr, Operation(o, tr).applied)
  <1>1. /\ o.thread \in [Threads -> ThreadStates]
        /\ o.mutex \in [Mutexes -> MutexStates]
        /\ o.sem \in [Semaphores -> SemStates]
        /\ o.cond \in [Conds -> CondStates]
        /\ o.barrier \in [Barriers -> BarrierStates]
        /\ o.rwlock \in [RWLocks -> RWLockStates]
    BY DEF ObjectStates
  <1>2. CASE tr.type \in ThreadOperationTypes
    <2>1. o.thread[Subject(tr)] \in ThreadStates
      BY <1>1, <1>2, OneFamily
    <2>2. Operation(o, tr) = ThreadOperation(tr.type, o.thread[Subject(tr)], tr.tid)
      BY <1>2, OneFamilyOnly DEF Operation
    <2> QED BY <1>2, <2>1, <2>2, OneFamilyOnly, ThreadOperationType DEF StateOfItsKind
  <1>3. CASE tr.type \in MutexOperationTypes
    <2>1. o.mutex[tr.obj] \in MutexStates
      BY <1>1, <1>3, OneFamily
    <2>2. Operation(o, tr) = MutexOperation(tr.type, o.mutex[tr.obj])
      BY <1>3, OneFamilyOnly DEF Operation
    <2> QED BY <1>3, <2>1, <2>2, OneFamilyOnly, MutexOperationType DEF StateOfItsKind
  <1>4. CASE tr.type \in SemOperationTypes
    <2>1. o.sem[tr.obj] \in SemStates /\ InitialCount[tr.obj] \in Nat /\ tr.tid \in Threads
      BY <1>1, <1>4, OneFamily, ObjectsAssumption
    <2>2. Operation(o, tr) = SemOperation(tr.type, o.sem[tr.obj], tr.tid, InitialCount[tr.obj])
      BY <1>4, OneFamilyOnly DEF Operation
    <2> QED BY <1>4, <2>1, <2>2, OneFamilyOnly, SemOperationType DEF StateOfItsKind
  <1>5. CASE tr.type \in CondOperationTypes
    <2>1. o.cond[tr.obj] \in CondStates /\ tr.tid \in Threads
      BY <1>1, <1>5, OneFamily
    <2>2. Operation(o, tr) = CondOperation(tr.type, o.cond[tr.obj], tr.tid)
      BY <1>5, OneFamilyOnly DEF Operation
    <2> QED BY <1>5, <2>1, <2>2, OneFamilyOnly, CondOperationType DEF StateOfItsKind
  <1>6. CASE tr.type \in BarrierOperationTypes
    <2>1. o.barrier[tr.obj] \in BarrierStates /\ tr.tid \in Threads
      BY <1>1, <1>6, OneFamily
    <2>2. Operation(o, tr)
             = BarrierOperation(tr.type, o.barrier[tr.obj], tr.tid, BarrierCount[tr.obj])
      BY <1>6, OneFamilyOnly DEF Operation
    <2> QED BY <1>6, <2>1, <2>2, OneFamilyOnly, BarrierOperationType DEF StateOfItsKind
  <1>7. CASE tr.type \in MCRWLockTypes
    <2>1. o.rwlock[tr.obj] \in RWLockStates /\ tr.tid \in Threads
      BY <1>1, <1>7, OneFamily
    <2>2. Operation(o, tr) = RWLockOperation(tr.type, o.rwlock[tr.obj], tr.tid)
      BY <1>7, OneFamilyOnly DEF Operation
    <2> QED BY <1>7, <2>1, <2>2, OneFamilyOnly, RWLockOperationType DEF StateOfItsKind
  <1>8. CASE tr.type \in MCRWWLockTypes
    <2>1. o.rwlock[tr.obj] \in RWLockStates /\ tr.tid \in Threads
      BY <1>1, <1>8, OneFamily
    <2>2. Operation(o, tr) = RWWLockOperation(tr.type, o.rwlock[tr.obj], tr.tid)
      BY <1>8, OneFamilyOnly DEF Operation
    <2> QED BY <1>8, <2>1, <2>2, OneFamilyOnly, RWLockOperationType DEF StateOfItsKind
  <1> QED BY <1>2, <1>3, <1>4, <1>5, <1>6, <1>7, <1>8, OneFamily

\* The mutex of a condition variable.
LEMMA CondMutexType ==
    ASSUME NEW o \in ObjectStates, NEW tr \in Transitions, UsesCondMutex(tr)
    PROVE  /\ CondMutex[tr.obj] \in Mutexes
           /\ tr.type \in CondOperationTypes
           /\ CondMutexOperation(o, tr).applied \in MutexStates
  <1>1. tr.type \in CondOperationTypes
    BY OneFamilyOnly DEF UsesCondMutex
  <1>2. CondMutex[tr.obj] \in Mutexes
    BY <1>1, OneFamily, ObjectsAssumption
  <1> QED BY <1>1, <1>2 DEF CondMutexOperation, MCMutexLock, MCMutexUnlock, MutexStates

\* so running a transition does,
LEMMA AppliedType ==
    ASSUME NEW o \in ObjectStates, NEW tr \in Transitions
    PROVE  applyToState(o, tr) \in ObjectStates
  <1> DEFINE applied == Updated(o, tr, Operation(o, tr).applied)
             m == CondMutex[tr.obj]
             new == CondMutexOperation(o, tr).applied
  <1>1. CASE tr.type \in MiscOperationTypes
    BY <1>1 DEF applyToState
  <1>2. CASE tr.type \notin MiscOperationTypes
    <2>1. applied \in ObjectStates
      BY <1>2, OperationOfItsKind, UpdatedType
    <2>2. UsesCondMutex(tr) => m \in Mutexes /\ new \in MutexStates
      BY CondMutexType
    <2>3. applyToState(o, tr) =
             IF UsesCondMutex(tr) THEN [applied EXCEPT !.mutex[m] = new] ELSE applied
      BY <1>2 DEF applyToState
    <2> HIDE DEF applied, m, new
    <2>4. UsesCondMutex(tr) => [applied EXCEPT !.mutex[m] = new] \in ObjectStates
      BY <2>1, <2>2 DEF ObjectStates
    <2> QED BY <2>1, <2>3, <2>4
  <1> QED BY <1>1, <1>2

\* and so does announcing one.
LEMMA AnnouncedType ==
    ASSUME NEW o \in ObjectStates, NEW tr \in Transitions
    PROVE  readTransition(o, tr) \in ObjectStates
  BY OperationOfItsKind, UpdatedType DEF readTransition

\* What an operation does to each kind of object.
LEMMA AppliedEffect ==
    ASSUME NEW o \in ObjectStates, NEW tr \in Transitions
    PROVE  LET a == applyToState(o, tr)
           IN  /\ \A u \in Threads :
                    a.thread[u] = IF tr.type \in ThreadOperationTypes /\ Subject(tr) = u
                                  THEN ThreadOperation(tr.type, o.thread[u], tr.tid).applied
                                  ELSE o.thread[u]
               /\ \A m \in Mutexes :
                    a.mutex[m] = IF tr.type \in MutexOperationTypes /\ tr.obj = m
                                 THEN MutexOperation(tr.type, o.mutex[m]).applied
                                 ELSE IF UsesCondMutex(tr) /\ CondMutex[tr.obj] = m
                                 THEN CondMutexOperation(o, tr).applied ELSE o.mutex[m]
               /\ \A s \in Semaphores :
                    a.sem[s] = IF tr.type \in SemOperationTypes /\ tr.obj = s
                               THEN SemOperation(tr.type, o.sem[s], tr.tid, InitialCount[s]).applied
                               ELSE o.sem[s]
               /\ \A l \in RWLocks :
                    a.rwlock[l] = IF tr.type \in MCRWLockTypes /\ tr.obj = l
                                  THEN RWLockOperation(tr.type, o.rwlock[l], tr.tid).applied
                                  ELSE IF tr.type \in MCRWWLockTypes /\ tr.obj = l
                                  THEN RWWLockOperation(tr.type, o.rwlock[l], tr.tid).applied
                                  ELSE o.rwlock[l]
               /\ \A b \in Barriers : a.barrier[b] = o.barrier[b]
  <1> DEFINE a == applyToState(o, tr)
             n == Updated(o, tr, Operation(o, tr).applied)
  <1>1. /\ o.thread \in [Threads -> ThreadStates]
        /\ o.mutex \in [Mutexes -> MutexStates]
        /\ o.sem \in [Semaphores -> SemStates]
        /\ o.barrier \in [Barriers -> BarrierStates]
        /\ o.rwlock \in [RWLocks -> RWLockStates]
    BY DEF ObjectStates
  <1>2. CASE tr.type \in MiscOperationTypes
    <2>1. a = o /\ ~ UsesCondMutex(tr)
      BY <1>2, OneFamilyOnly DEF applyToState, UsesCondMutex
    <2>2. tr.type \notin ThreadOperationTypes \cup MutexOperationTypes \cup SemOperationTypes
                         \cup MCRWLockTypes \cup MCRWWLockTypes
      BY <1>2, OneFamilyOnly
    <2> HIDE DEF a
    <2> QED BY <2>1, <2>2 DEF a
  <1>3. ASSUME tr.type \notin MiscOperationTypes
        PROVE  n \in ObjectStates /\ ReplacedBy(o, tr, Operation(o, tr).applied, n)
    BY <1>3, UpdatedFields, OperationOfItsKind, UpdatedType
  <1>4. ASSUME tr.type \notin MiscOperationTypes
        PROVE  /\ a.thread = n.thread
               /\ a.sem = n.sem
               /\ a.barrier = n.barrier
               /\ a.rwlock = n.rwlock
               /\ a.mutex = IF UsesCondMutex(tr)
                            THEN [n.mutex EXCEPT ![CondMutex[tr.obj]]
                                     = CondMutexOperation(o, tr).applied]
                            ELSE n.mutex
    <2>1. a = IF UsesCondMutex(tr)
              THEN [n EXCEPT !.mutex[CondMutex[tr.obj]] = CondMutexOperation(o, tr).applied]
              ELSE n
      BY <1>4 DEF applyToState
    <2>2. n \in ObjectStates
      BY <1>3, <1>4
    <2> HIDE DEF a, n
    <2> QED BY <2>1, <2>2 DEF ObjectStates
  <1>5. ASSUME tr.type \notin MiscOperationTypes, NEW u \in Threads
        PROVE  a.thread[u] = IF tr.type \in ThreadOperationTypes /\ Subject(tr) = u
                             THEN ThreadOperation(tr.type, o.thread[u], tr.tid).applied
                             ELSE o.thread[u]
    <2>1. tr.type \in ThreadOperationTypes =>
             Operation(o, tr) = ThreadOperation(tr.type, o.thread[Subject(tr)], tr.tid)
      BY OneFamilyOnly DEF Operation
    <2> HIDE DEF a, n
    <2> QED BY <1>1, <1>3, <1>4, <1>5, <2>1 DEF ReplacedBy
  <1>6. ASSUME tr.type \notin MiscOperationTypes, NEW m \in Mutexes
        PROVE  a.mutex[m] = IF tr.type \in MutexOperationTypes /\ tr.obj = m
                            THEN MutexOperation(tr.type, o.mutex[m]).applied
                            ELSE IF UsesCondMutex(tr) /\ CondMutex[tr.obj] = m
                            THEN CondMutexOperation(o, tr).applied ELSE o.mutex[m]
    <2>1. tr.type \in MutexOperationTypes =>
             Operation(o, tr) = MutexOperation(tr.type, o.mutex[tr.obj])
      BY OneFamilyOnly DEF Operation
    <2>2. UsesCondMutex(tr) => tr.type \notin MutexOperationTypes
      BY CondMutexType, OneFamilyOnly
    <2> HIDE DEF a, n
    <2> QED BY <1>1, <1>3, <1>4, <1>6, <2>1, <2>2 DEF ReplacedBy
  <1>7. ASSUME tr.type \notin MiscOperationTypes, NEW s \in Semaphores
        PROVE  a.sem[s] = IF tr.type \in SemOperationTypes /\ tr.obj = s
                          THEN SemOperation(tr.type, o.sem[s], tr.tid, InitialCount[s]).applied
                          ELSE o.sem[s]
    <2>1. tr.type \in SemOperationTypes =>
             Operation(o, tr) = SemOperation(tr.type, o.sem[tr.obj], tr.tid, InitialCount[tr.obj])
      BY OneFamilyOnly DEF Operation
    <2> HIDE DEF a, n
    <2> QED BY <1>1, <1>3, <1>4, <1>7, <2>1 DEF ReplacedBy
  <1>8. ASSUME tr.type \notin MiscOperationTypes, NEW l \in RWLocks
        PROVE  a.rwlock[l] = IF tr.type \in MCRWLockTypes /\ tr.obj = l
                             THEN RWLockOperation(tr.type, o.rwlock[l], tr.tid).applied
                             ELSE IF tr.type \in MCRWWLockTypes /\ tr.obj = l
                             THEN RWWLockOperation(tr.type, o.rwlock[l], tr.tid).applied
                             ELSE o.rwlock[l]
    <2>1. /\ tr.type \in MCRWLockTypes =>
                Operation(o, tr) = RWLockOperation(tr.type, o.rwlock[tr.obj], tr.tid)
          /\ tr.type \in MCRWWLockTypes =>
                Operation(o, tr) = RWWLockOperation(tr.type, o.rwlock[tr.obj], tr.tid)
          /\ tr.type \in MCRWLockTypes => tr.type \notin MCRWWLockTypes
      BY OneFamilyOnly DEF Operation
    <2> HIDE DEF a, n
    <2> QED BY <1>1, <1>3, <1>4, <1>8, <2>1 DEF ReplacedBy
  <1>9. ASSUME tr.type \notin MiscOperationTypes, NEW b \in Barriers
        PROVE  a.barrier[b] = o.barrier[b]
    <2>1. tr.type \in BarrierOperationTypes =>
             Operation(o, tr)
                = BarrierOperation(tr.type, o.barrier[tr.obj], tr.tid, BarrierCount[tr.obj])
      BY OneFamilyOnly DEF Operation
    <2>2. tr.type \in BarrierOperationTypes => Operation(o, tr).applied = o.barrier[tr.obj]
      BY <2>1 DEF BarrierOperationTypes, BarrierOperation, MCBarrierInit, MCBarrierWait
    <2> HIDE DEF a, n
    <2> QED BY <1>1, <1>3, <1>4, <1>9, <2>2 DEF ReplacedBy
  <1> HIDE DEF a
  <1>10. CASE tr.type \notin MiscOperationTypes
    BY <1>5, <1>6, <1>7, <1>8, <1>9, <1>10 DEF a
  <1> QED BY <1>2, <1>10 DEF a

\* What an announcement does to each kind of object.
LEMMA AnnouncedEffect ==
    ASSUME NEW o \in ObjectStates, NEW tr \in Transitions
    PROVE  LET a == readTransition(o, tr)
           IN  /\ \A u \in Threads :
                    \/ a.thread[u] = o.thread[u]
                    \/ tr.type \in {"create", "join"} /\ o.thread[u] = "none"
                          /\ a.thread[u] = "embryo"
               /\ \A m \in Mutexes :
                    a.mutex[m] = IF tr.type \in MutexOperationTypes /\ tr.obj = m
                                 THEN MutexOperation(tr.type, o.mutex[m]).announced
                                 ELSE o.mutex[m]
               /\ \A s \in Semaphores :
                    a.sem[s] = IF tr.type = "sem_init" /\ tr.obj = s /\ ~ o.sem[s].registered
                               THEN [registered |-> TRUE, count |-> InitialCount[s],
                                     waitingQueue |-> << >>]
                               ELSE o.sem[s]
               /\ \A l \in RWLocks : a.rwlock[l] = o.rwlock[l]
               /\ \A b \in Barriers :
                    a.barrier[b] = IF tr.type \in BarrierOperationTypes /\ tr.obj = b
                                   THEN BarrierOperation(tr.type, o.barrier[b], tr.tid,
                                                         BarrierCount[b]).announced
                                   ELSE o.barrier[b]
  <1> DEFINE a == readTransition(o, tr)
             heard == Operation(o, tr).announced
  <1>1. /\ o.thread \in [Threads -> ThreadStates]
        /\ o.mutex \in [Mutexes -> MutexStates]
        /\ o.sem \in [Semaphores -> SemStates]
        /\ o.barrier \in [Barriers -> BarrierStates]
        /\ o.rwlock \in [RWLocks -> RWLockStates]
    BY DEF ObjectStates
  <1>2. CASE tr.type \in MiscOperationTypes
    <2>1. a = o
      BY <1>2 DEF readTransition
    <2>2. tr.type \notin MutexOperationTypes \cup SemOperationTypes \cup BarrierOperationTypes
      BY <1>2, OneFamilyOnly
    <2>3. tr.type # "sem_init"
      BY <2>2 DEF SemOperationTypes
    <2> HIDE DEF a
    <2> QED BY <2>1, <2>2, <2>3 DEF a
  <1>3. ASSUME tr.type \notin MiscOperationTypes
        PROVE  ReplacedBy(o, tr, heard, a)
    BY <1>3, UpdatedFields DEF readTransition
  <1>4. ASSUME tr.type \notin MiscOperationTypes, NEW u \in Threads
        PROVE  \/ a.thread[u] = o.thread[u]
               \/ tr.type \in {"create", "join"} /\ o.thread[u] = "none"
                     /\ a.thread[u] = "embryo"
    <2>1. tr.type \in ThreadOperationTypes =>
             heard = ThreadOperation(tr.type, o.thread[Subject(tr)], tr.tid).announced
      BY OneFamilyOnly DEF Operation
    <2>2. tr.type \in ThreadOperationTypes =>
             \/ heard = o.thread[Subject(tr)]
             \/ tr.type \in {"create", "join"} /\ o.thread[Subject(tr)] = "none" /\ heard = "embryo"
      BY <2>1 DEF ThreadOperationTypes, ThreadOperation, MCThreadStart, MCThreadCreate,
         MCThreadJoin, MCThreadFinish, addNewThread
    <2> HIDE DEF a, heard
    <2> QED BY <1>1, <1>3, <1>4, <2>2 DEF ReplacedBy
  <1>5. ASSUME tr.type \notin MiscOperationTypes, NEW m \in Mutexes
        PROVE  a.mutex[m] = IF tr.type \in MutexOperationTypes /\ tr.obj = m
                            THEN MutexOperation(tr.type, o.mutex[m]).announced
                            ELSE o.mutex[m]
    <2>1. tr.type \in MutexOperationTypes =>
             heard = MutexOperation(tr.type, o.mutex[tr.obj]).announced
      BY OneFamilyOnly DEF Operation
    <2> HIDE DEF a, heard
    <2> QED BY <1>1, <1>3, <1>5, <2>1 DEF ReplacedBy
  <1>6. ASSUME tr.type \notin MiscOperationTypes, NEW s \in Semaphores
        PROVE  a.sem[s] = IF tr.type = "sem_init" /\ tr.obj = s /\ ~ o.sem[s].registered
                          THEN [registered |-> TRUE, count |-> InitialCount[s],
                                waitingQueue |-> << >>]
                          ELSE o.sem[s]
    <2>1. tr.type \in SemOperationTypes =>
             heard = SemOperation(tr.type, o.sem[tr.obj], tr.tid, InitialCount[tr.obj]).announced
      BY OneFamilyOnly DEF Operation
    <2>2. tr.type \in SemOperationTypes =>
             heard = IF tr.type = "sem_init" /\ ~ o.sem[tr.obj].registered
                   THEN [registered |-> TRUE, count |-> InitialCount[tr.obj],
                         waitingQueue |-> << >>]
                   ELSE o.sem[tr.obj]
      BY <2>1 DEF SemOperationTypes, SemOperation, MCSemInit, MCSemEnqueue, MCSemWait, MCSemPost
    <2>3. tr.type = "sem_init" => tr.type \in SemOperationTypes
      BY DEF SemOperationTypes
    <2> HIDE DEF a, heard
    <2> QED BY <1>1, <1>3, <1>6, <2>2, <2>3 DEF ReplacedBy
  <1>7. ASSUME tr.type \notin MiscOperationTypes, NEW l \in RWLocks
        PROVE  a.rwlock[l] = o.rwlock[l]
    <2>1. CASE tr.type \in MCRWLockTypes \cup MCRWWLockTypes
      <3>1. o.rwlock[tr.obj] \in RWLockStates /\ tr.tid \in Threads
        BY <1>1, <2>1, OneFamily
      <3>2. /\ tr.type \in MCRWLockTypes =>
                  heard = RWLockOperation(tr.type, o.rwlock[tr.obj], tr.tid).announced
            /\ tr.type \in MCRWWLockTypes =>
                  heard = RWWLockOperation(tr.type, o.rwlock[tr.obj], tr.tid).announced
        BY OneFamilyOnly DEF Operation
      <3>3. heard = o.rwlock[tr.obj]
        BY <2>1, <3>1, <3>2, RWLockOperationType
      <3> HIDE DEF a, heard
      <3> QED BY <1>1, <1>3, <1>7, <3>3 DEF ReplacedBy
    <2>2. CASE tr.type \notin MCRWLockTypes \cup MCRWWLockTypes
      BY <1>3, <1>7, <2>2 DEF ReplacedBy
    <2> QED BY <2>1, <2>2
  <1>8. ASSUME tr.type \notin MiscOperationTypes, NEW b \in Barriers
        PROVE  a.barrier[b] = IF tr.type \in BarrierOperationTypes /\ tr.obj = b
                              THEN BarrierOperation(tr.type, o.barrier[b], tr.tid,
                                                    BarrierCount[b]).announced
                              ELSE o.barrier[b]
    <2>1. tr.type \in BarrierOperationTypes =>
             heard = BarrierOperation(tr.type, o.barrier[tr.obj], tr.tid,
                                    BarrierCount[tr.obj]).announced
      BY OneFamilyOnly DEF Operation
    <2> HIDE DEF a, heard
    <2> QED BY <1>1, <1>3, <1>8, <2>1 DEF ReplacedBy
  <1> HIDE DEF a
  <1>9. CASE tr.type \notin MiscOperationTypes
    BY <1>4, <1>5, <1>6, <1>7, <1>8, <1>9 DEF a
  <1> QED BY <1>2, <1>9 DEF a

-----------------------------------------------------------------------------
(* Types *)

\* Wherever a thread stands, it announces something.
LEMMA TransitionType ==
    ASSUME NEW prg \in Programs, NEW t \in Threads, NEW p \in Nat,
           p \in DOMAIN prg[t] => prg[t][p].type # "repeat"
    PROVE  /\ TransitionAt(prg, t, p) \in Transitions
           /\ TransitionAt(prg, t, p).tid = t
           /\ p \in DOMAIN prg[t] =>
                 /\ TransitionAt(prg, t, p).type = prg[t][p].type
                 /\ TransitionAt(prg, t, p).obj = prg[t][p].obj
                 /\ prg[t][p] \in Operations
           /\ p \notin DOMAIN prg[t] => TransitionAt(prg, t, p).type \in {"start", "finish"}
  <1>1. prg[t] \in Seq(Operations)
    BY ProgramsAssumption
  <1>2. p \in DOMAIN prg[t] => p # 0 /\ prg[t][p] \in Operations
    BY <1>1
  <1>3. p \in DOMAIN prg[t] =>
           TransitionAt(prg, t, p) = [tid |-> t, type |-> prg[t][p].type, obj |-> prg[t][p].obj]
    BY <1>2 DEF TransitionAt
  <1>4. p \notin DOMAIN prg[t] =>
           \E type \in {"start", "finish"} :
              TransitionAt(prg, t, p) = [tid |-> t, type |-> type, obj |-> NoObject]
    BY DEF TransitionAt
  <1>5. p \in DOMAIN prg[t] =>
           [tid |-> t, type |-> prg[t][p].type, obj |-> prg[t][p].obj] \in Transitions
    <2> SUFFICES ASSUME p \in DOMAIN prg[t]
                 PROVE  [tid |-> t, type |-> prg[t][p].type, obj |-> prg[t][p].obj] \in Transitions
      OBVIOUS
    <2> DEFINE op == prg[t][p]
    <2>1. op \in Operations /\ op.type # "repeat"
      BY <1>2
    <2> HIDE DEF op
    <2>2. [tid |-> t, type |-> op.type, obj |-> op.obj] \in Transitions
      BY <2>1 DEF Operations, Transitions, MiscOperationTypes
    <2> QED BY <2>2 DEF op
  <1>6. \A type \in {"start", "finish"} :
           [tid |-> t, type |-> type, obj |-> NoObject] \in Transitions
    BY DEF Transitions
  <1> QED BY <1>2, <1>3, <1>4, <1>5, <1>6

\* What a thread is blocked at is a transition of that thread,
LEMMA PendingType ==
    ASSUME Positions, NEW t \in Threads
    PROVE  Pending(t) \in Transitions /\ Pending(t).tid = t
  BY TransitionType DEF Pending, Positions

\* and so is what it announces next, which is what it is blocked at after its step.
LEMMA SuccessorType ==
    ASSUME Positions, NEW t \in Threads, Run(t)
    PROVE  /\ Successor(t) = Pending(t)'
           /\ Successor(t) \in Transitions
           /\ Successor(t).tid = t
           /\ pos'[t] = NextPosition(program, t, pos[t])
           /\ objects' = readTransition(applyToState(objects, Pending(t)), Successor(t))
  <1>1. Positions'
    BY PositionsStep
  <1>2. /\ program' = program
        /\ pos' = [pos EXCEPT ![t] = NextPosition(program, t, pos[t])]
        /\ objects' = readTransition(applyToState(objects, Pending(t)), Successor(t))
    BY DEF Run, Stepped
  <1>3. pos'[t] = NextPosition(program, t, pos[t])
    BY <1>2 DEF Positions
  <1>4. Successor(t) = TransitionAt(program, t, pos'[t])
    BY <1>3 DEF Successor
  <1>5. /\ program \in Programs /\ pos'[t] \in Nat
        /\ pos'[t] \in DOMAIN program[t] => program[t][pos'[t]].type # "repeat"
    BY <1>1, <1>2 DEF Positions
  <1>6. Successor(t) \in Transitions /\ Successor(t).tid = t
    BY <1>4, <1>5, TransitionType
  <1>7. Pending(t)' = TransitionAt(program, t, pos'[t])
    BY <1>2 DEF Pending, TransitionAt
  <1> QED BY <1>2, <1>3, <1>4, <1>6, <1>7

\* The type invariant, and that nobody stands at the end of a loop.
Typed == TypeOK /\ Positions

\* Typed holds at first,
LEMMA InitialObjects == NoObjects \in ObjectStates
  <1>1. [t \in Threads |-> IF t = Main THEN "alive" ELSE "none"] \in [Threads -> ThreadStates]
    BY DEF ThreadStates
  <1>2. [m \in Mutexes |-> "none"] \in [Mutexes -> MutexStates]
    BY DEF MutexStates
  <1>3. << >> \in Seq(Threads) /\ << >> \in Seq(SUBSET Threads)
    OBVIOUS
  <1>4. NoSem \in SemStates /\ NewCond \in CondStates
    BY <1>3 DEF NoSem, SemStates, NewCond, CondStates
  <1>5. NewBarrier(FALSE) \in BarrierStates
    BY DEF NewBarrier, BarrierStates
  <1>6. NewRWLock \in RWLockStates
    BY <1>3 DEF NewRWLock, RWLockStates
  <1> QED BY <1>1, <1>2, <1>4, <1>5, <1>6 DEF NoObjects, ObjectStates

\* ... in every initial state,
LEMMA TypedInit == Init => Typed
  <1> SUFFICES ASSUME Init PROVE Typed
    OBVIOUS
  <1>1. program \in Programs /\ objects = NoObjects /\ pos = [t \in Threads |-> 0]
    BY DEF Init
  <1>2. \A t \in Threads : Len(program[t]) \in Nat /\ 0 \notin DOMAIN program[t]
    <2> TAKE t \in Threads
    <2>1. program[t] \in Seq(Operations)
      BY <1>1, ProgramsAssumption
    <2> QED BY <2>1
  <1>3. Positions
    BY <1>1, <1>2 DEF Positions
  <1> QED BY <1>1, <1>2, <1>3, InitialObjects DEF Typed, TypeOK

\* and after every step.
LEMMA TypedStep == Typed /\ [Next]_vars => Typed'
  <1> SUFFICES ASSUME Typed, [Next]_vars PROVE Typed'
    OBVIOUS
  <1>1. ASSUME NEW t \in Threads, Run(t)
        PROVE  Typed'
    <2>1. Positions /\ objects \in ObjectStates
      BY DEF Typed, TypeOK
    <2>2. Positions'
      BY <1>1, <2>1, PositionsStep
    <2>3. objects' \in ObjectStates
      <3>1. applyToState(objects, Pending(t)) \in ObjectStates
        BY <2>1, PendingType, AppliedType
      <3> QED BY <1>1, <2>1, <3>1, SuccessorType, AnnouncedType
    <2> QED BY <2>2, <2>3 DEF Typed, TypeOK, Positions
  <1>2. CASE UNCHANGED vars
    BY <1>2 DEF vars, Typed, TypeOK, Positions
  <1> QED BY <1>1, <1>2 DEF Next

\* Whatever the program, the shadow objects stay what their types say, and no thread
\* runs past its finish (VisibleOperations, NextPosition).
THEOREM TypeCorrect == Spec => []TypeOK
  <1>1. Typed => TypeOK
    BY DEF Typed
  <1> QED BY TypedInit, TypedStep, <1>1, PTL DEF Spec

-----------------------------------------------------------------------------
(* Threads of a program that keeps the rules *)

\* An operation is one of On(types, x) if it looks like one.
LEMMA OperationOn ==
    ASSUME NEW op \in Operations, NEW types, NEW x
    PROVE  op \in On(types, x) <=> op.type \in types /\ op.obj = x
  BY DEF Operations, On

\* Operations are told apart by type and object.
LEMMA SameOperation ==
    ASSUME NEW op1 \in Operations, NEW op2 \in Operations,
           op1.type = op2.type, op1.obj = op2.obj
    PROVE  op1 = op2
  <1>1. \A op \in Operations : op = [type |-> op.type, obj |-> op.obj]
    BY DEF Operations
  <1> QED BY <1>1

\* A thread is at an operation of some types on x exactly if its transition is.
LEMMA PendingOn ==
    ASSUME Positions, NEW t \in Threads, NEW types, NEW x,
           "start" \notin types, "finish" \notin types
    PROVE  PendingIn(t, On(types, x)) <=> Pending(t).type \in types /\ Pending(t).obj = x
  BY TransitionType, OperationOn DEF PendingIn, Pending, Positions

\* How the positions change.
LEMMA Advance ==
    ASSUME Positions, HasNoLoop(program), NEW t \in Threads, Run(t)
    PROVE  /\ program' = program
           /\ program \in Programs
           /\ pos[t] \in Nat
           /\ Len(program[t]) \in Nat
           /\ DOMAIN program[t] = 1 .. Len(program[t])
           /\ pos'[t] = IF pos[t] = Len(program[t]) + 1 THEN pos[t] ELSE pos[t] + 1
           /\ \A u \in Threads \ {t} : pos'[u] = pos[u]
           /\ objects.thread[t] = "alive"
           /\ Operation(objects, Pending(t)).enabled
           /\ UsesCondMutex(Pending(t)) => CondMutexOperation(objects, Pending(t)).enabled
  <1>1. /\ program' = program
        /\ pos' = [pos EXCEPT ![t] = NextPosition(program, t, pos[t])]
        /\ transitionEnabledInState(objects, Pending(t))
    BY DEF Run, Enabled
  <1>2. program[t] \in Seq(Operations) /\ program \in Programs
    BY ProgramsAssumption DEF Positions
  <1>3. Pending(t).tid = t
    BY PendingType
  <1> QED BY <1>1, <1>2, <1>3, NextInLine DEF Positions, transitionEnabledInState,
             MCThreadEnabled

\* A thread that was created.
Started(u) == objects.thread[u] \in {"alive", "dead"}

\* The operations that create u.
Creation(u) == On({"create"}, u)

\* Nobody runs before its creation, and nobody but the main thread is created while that
\* still initialises.
ThreadsAreCreated ==
    /\ \A u \in Threads : pos[u] # 0 => Started(u)
    /\ \A u \in Threads \ {Main} : Started(u) =>
          \E t \in Threads : \E p \in DOMAIN program[t] :
             program[t][p] \in Creation(u) /\ p < pos[t]
    /\ \A p \in DOMAIN program[Main] :
          program[Main][p].type \in InitTypes /\ pos[Main] <= p =>
             \A u \in Threads \ {Main} : pos[u] = 0 /\ ~ Started(u)

\* Only a create starts a thread.
LEMMA StartedStep ==
    ASSUME Typed, NEW t \in Threads, Run(t), NEW u \in Threads
    PROVE  Started(u)' <=> Started(u) \/ (Pending(t).type = "create" /\ Pending(t).obj = u)
  <1> DEFINE tr == Pending(t)
             o == applyToState(objects, tr)
  <1>1. objects \in ObjectStates /\ Positions
    BY DEF Typed, TypeOK
  <1>2. tr \in Transitions /\ tr.tid = t
    BY <1>1, PendingType
  <1>3. o.thread[u] = IF tr.type \in ThreadOperationTypes /\ Subject(tr) = u
                      THEN ThreadOperation(tr.type, objects.thread[u], t).applied
                      ELSE objects.thread[u]
    BY <1>1, <1>2, AppliedEffect
  <1>4. \/ objects'.thread[u] = o.thread[u]
        \/ o.thread[u] = "none" /\ objects'.thread[u] = "embryo"
    <2>1. o \in ObjectStates
      BY <1>1, <1>2, AppliedType
    <2>2. objects' = readTransition(o, Successor(t)) /\ Successor(t) \in Transitions
      BY <1>1, SuccessorType
    <2> HIDE DEF o
    <2> QED BY <2>1, <2>2, AnnouncedEffect
  <1>5. objects.thread[t] = "alive"
    BY <1>2 DEF Run, Enabled, transitionEnabledInState, MCThreadEnabled
  <1>6. Started(u)' <=> o.thread[u] \in {"alive", "dead"}
    BY <1>4 DEF Started
  <1>7. o.thread[u] \in {"alive", "dead"}
           <=> Started(u) \/ (tr.type = "create" /\ tr.obj = u)
    <2> HIDE DEF o, tr
    <2>1. CASE tr.type \in ThreadOperationTypes /\ Subject(tr) = u
      BY <1>2, <1>3, <1>5, <2>1 DEF ThreadOperationTypes, ThreadOperation, MCThreadStart,
         MCThreadCreate, MCThreadJoin, MCThreadFinish, Subject, Started
    <2>2. CASE ~ (tr.type \in ThreadOperationTypes /\ Subject(tr) = u)
      BY <1>3, <2>2 DEF ThreadOperationTypes, Subject, Started
    <2> QED BY <2>1, <2>2
  <1> QED BY <1>6, <1>7

\* While the main thread initialises, it is the only one that runs, and only
\* initialises.
LEMMA MainInitialises ==
    ASSUME Typed, KeepsTheRules(program), ThreadsAreCreated, NEW t \in Threads, Run(t),
           NEW p \in DOMAIN program[Main], program[Main][p].type \in InitTypes,
           pos'[Main] <= p
    PROVE  /\ t = Main
           /\ pos[Main] < p
           /\ pos'[Main] = pos[Main] + 1
           /\ Pending(t).type \in InitTypes \cup {"start"}
           /\ Successor(t).type \in InitTypes
           /\ pos[Main] # 0 => /\ pos[Main] \in DOMAIN program[Main]
                              /\ program[Main][pos[Main]].type = Pending(t).type
                              /\ program[Main][pos[Main]].obj = Pending(t).obj
           /\ pos'[Main] \in DOMAIN program[Main]
           /\ program[Main][pos'[Main]].type = Successor(t).type
           /\ program[Main][pos'[Main]].obj = Successor(t).obj
  <1>1. Positions /\ HasNoLoop(program) /\ InitialisesFirst(program)
    BY DEF Typed, KeepsTheRules
  <1>2. Main \in Threads
    BY LastThreadAssumption DEF Main, Threads
  <1>3. /\ program' = program
        /\ program \in Programs
        /\ pos'[t] = IF pos[t] = Len(program[t]) + 1 THEN pos[t] ELSE pos[t] + 1
        /\ \A u \in Threads \ {t} : pos'[u] = pos[u]
        /\ DOMAIN program[t] = 1 .. Len(program[t])
        /\ pos[t] \in Nat /\ Len(program[t]) \in Nat
    BY <1>1, Advance
  <1>4. t = Main
    <2> SUFFICES ASSUME t # Main PROVE FALSE
      OBVIOUS
    <2>1. pos[Main] <= p
      BY <1>2, <1>3
    <2>2. ~ Started(t)
      BY <2>1 DEF ThreadsAreCreated
    <2> QED BY <1>1, <2>2, Advance DEF Started
  <1>5. pos'[Main] = pos[Main] + 1 /\ pos[Main] < p /\ p \in Nat /\ p <= Len(program[Main])
    BY <1>3, <1>4
  <1>6. \A q \in 1 .. p : program[Main][q].type \in InitTypes
    <2>1. \A q \in 1 .. p - 1 : program[Main][q].type \in InitTypes
      BY <1>1, <1>2 DEF InitialisesFirst
    <2> QED BY <1>5, <2>1
  <1>7. \A q \in 1 .. p : q \in DOMAIN program[Main] /\ program[Main][q].type # "repeat"
    BY <1>1, <1>3, <1>4, <1>5, <1>2 DEF HasNoLoop
  <1>8. pos[Main] # 0 =>
           /\ pos[Main] \in 1 .. p
           /\ program[Main][pos[Main]].type = Pending(t).type
           /\ program[Main][pos[Main]].obj = Pending(t).obj
    <2> SUFFICES ASSUME pos[Main] # 0
                 PROVE  /\ pos[Main] \in 1 .. p
                        /\ program[Main][pos[Main]].type = Pending(t).type
                        /\ program[Main][pos[Main]].obj = Pending(t).obj
      OBVIOUS
    <2>1. pos[Main] \in 1 .. p
      BY <1>3, <1>4, <1>5
    <2> QED BY <1>2, <1>3, <1>4, <1>7, <2>1, TransitionType DEF Pending
  <1>9. pos[Main] = 0 => Pending(t).type = "start"
    BY <1>3, <1>4 DEF Pending, TransitionAt
  <1>10. /\ pos'[Main] \in 1 .. p
         /\ program[Main][pos'[Main]].type = Successor(t).type
         /\ program[Main][pos'[Main]].obj = Successor(t).obj
    <2>1. pos'[Main] \in 1 .. p
      BY <1>3, <1>4, <1>5
    <2>2. Successor(t) = TransitionAt(program, Main, pos'[Main])
      BY <1>1, <1>4, SuccessorType DEF Successor
    <2> QED BY <1>2, <1>3, <1>7, <2>1, <2>2, TransitionType
  <1> QED BY <1>4, <1>5, <1>6, <1>7, <1>8, <1>9, <1>10

\* Before the trace nobody but the main thread is started,
LEMMA ThreadsInit == Init => ThreadsAreCreated
  <1> SUFFICES ASSUME Init PROVE ThreadsAreCreated
    OBVIOUS
  <1>1. /\ \A u \in Threads : pos[u] = 0
        /\ \A u \in Threads \ {Main} : ~ Started(u)
    BY DEF Init, NoObjects, Started
  <1> QED BY <1>1 DEF ThreadsAreCreated

\* and each step keeps the threads created in their order.
LEMMA ThreadsStep ==
    ASSUME Typed, KeepsTheRules(program), ThreadsAreCreated, NEW t \in Threads, Run(t)
    PROVE  ThreadsAreCreated'
  <1>1. Positions /\ HasNoLoop(program)
    BY DEF Typed, KeepsTheRules
  <1>2. Main \in Threads
    BY LastThreadAssumption DEF Main, Threads
  <1>3. /\ program' = program
        /\ pos[t] \in Nat
        /\ Len(program[t]) \in Nat
        /\ DOMAIN program[t] = 1 .. Len(program[t])
        /\ pos'[t] = IF pos[t] = Len(program[t]) + 1 THEN pos[t] ELSE pos[t] + 1
        /\ \A u \in Threads \ {t} : pos'[u] = pos[u]
        /\ objects.thread[t] = "alive"
    BY <1>1, Advance
  <1>4. ASSUME NEW u \in Threads, pos'[u] # 0
        PROVE  Started(u)'
    <2>1. CASE u = t
      BY <1>3, <2>1, StartedStep DEF Started
    <2>2. CASE u # t
      BY <1>3, <1>4, <2>2, StartedStep DEF ThreadsAreCreated
    <2> QED BY <2>1, <2>2
  <1>5. ASSUME NEW u \in Threads \ {Main}, Started(u)'
        PROVE  \E s \in Threads : \E p \in DOMAIN program'[s] :
                  program'[s][p] \in Creation(u) /\ p < pos'[s]
    <2>1. CASE Started(u)
      <3>0. PICK s \in Threads : \E p \in DOMAIN program[s] :
               program[s][p] \in Creation(u) /\ p < pos[s]
        BY <2>1 DEF ThreadsAreCreated
      <3>1. PICK p \in DOMAIN program[s] : program[s][p] \in Creation(u) /\ p < pos[s]
        BY <3>0
      <3>2. p < pos'[s]
        <4>1. CASE s = t
          BY <1>3, <3>1, <4>1
        <4>2. CASE s # t
          BY <1>3, <3>1, <4>2
        <4> QED BY <4>1, <4>2
      <3> QED BY <1>3, <3>1, <3>2
    <2>2. CASE Pending(t).type = "create" /\ Pending(t).obj = u
      <3>1. pos[t] \in DOMAIN program[t] /\ program[t][pos[t]] \in Creation(u)
        BY <1>1, <2>2, PendingOn DEF PendingIn, Creation
      <3>2. pos[t] < pos'[t]
        BY <1>3, <3>1
      <3> QED BY <1>3, <3>1, <3>2
    <2> QED BY <1>5, <2>1, <2>2, StartedStep
  <1>6. ASSUME NEW p \in DOMAIN program[Main], program[Main][p].type \in InitTypes,
               pos'[Main] <= p, NEW u \in Threads \ {Main}
        PROVE  pos'[u] = 0 /\ ~ Started(u)'
    <2>1. t = Main /\ pos[Main] < p /\ Pending(t).type \in InitTypes \cup {"start"}
      BY <1>6, MainInitialises
    <2>2. pos[u] = 0 /\ ~ Started(u)
      <3>1. pos[Main] <= p
        <4>1. p \in Nat
          BY <1>3, <2>1
        <4> QED BY <1>3, <2>1, <4>1
      <3> QED BY <1>6, <3>1 DEF ThreadsAreCreated
    <2>3. Pending(t).type # "create"
      BY <2>1 DEF InitTypes
    <2> QED BY <1>3, <2>1, <2>2, <2>3, StartedStep
  <1>7. \A p \in DOMAIN program'[Main] :
          program'[Main][p].type \in InitTypes /\ pos'[Main] <= p =>
             \A u \in Threads \ {Main} : pos'[u] = 0 /\ ~ Started(u)'
    BY <1>3, <1>6
  <1> QED BY <1>4, <1>5, <1>7 DEF ThreadsAreCreated, Creation, On

-----------------------------------------------------------------------------
(* Taking and giving in turns *)

\* A thread that has taken and not given.
Between(t, takes, gives) == Ran(t, takes) > Ran(t, gives)

\* It has taken once more, at most, than it has given.
InTurnsSoFar(takes, gives) ==
    \A t \in Threads :
       /\ Ran(t, takes) \in Nat /\ Ran(t, gives) \in Nat
       /\ Ran(t, gives) <= Ran(t, takes) /\ Ran(t, takes) <= Ran(t, gives) + 1

\* A thread that has passed none of some operations has run none of them.
LEMMA NothingRan ==
    ASSUME Positions, NEW t \in Threads, NEW ops,
           \A p \in DOMAIN program[t] : p < pos[t] => program[t][p] \notin ops
    PROVE  Ran(t, ops) = 0
  BY BeforeNext DEF Ran, Positions

\* Nobody has taken anything yet,
LEMMA TurnsInit ==
    ASSUME Init, NEW takes, NEW gives
    PROVE  /\ InTurnsSoFar(takes, gives)
           /\ \A t \in Threads : ~ Between(t, takes, gives)
  <1>1. Positions
    BY TypedInit DEF Typed
  <1>2. ASSUME NEW t \in Threads, NEW ops
        PROVE  Ran(t, ops) = 0
    <2>1. program[t] \in Seq(Operations)
      BY <1>1, ProgramsAssumption DEF Positions
    <2>2. \A p \in DOMAIN program[t] : ~ (p < pos[t])
      BY <2>1 DEF Init
    <2> QED BY <1>1, <2>2, NothingRan
  <1> QED BY <1>2 DEF InTurnsSoFar, Between

\* and a step takes only what is not held, gives only what is, and moves nobody else.
LEMMA TurnsStep ==
    ASSUME Positions, HasNoLoop(program), NEW t \in Threads, Run(t), NEW takes, NEW gives,
           InTurns(program, takes, gives), takes \cap gives = {}, InTurnsSoFar(takes, gives)
    PROVE  /\ InTurnsSoFar(takes, gives)'
           /\ \A u \in Threads \ {t} : Between(u, takes, gives)' <=> Between(u, takes, gives)
           /\ PendingIn(t, takes) => ~ Between(t, takes, gives) /\ Between(t, takes, gives)'
           /\ PendingIn(t, gives) => Between(t, takes, gives) /\ ~ Between(t, takes, gives)'
           /\ ~ PendingIn(t, takes) /\ ~ PendingIn(t, gives) =>
                 (Between(t, takes, gives)' <=> Between(t, takes, gives))
  <1>1. \A u \in Threads \ {t} : Ran(u, takes)' = Ran(u, takes) /\ Ran(u, gives)' = Ran(u, gives)
    BY RanStep
  <1>2. /\ Ran(t, takes)' = IF PendingIn(t, takes) THEN Ran(t, takes) + 1 ELSE Ran(t, takes)
        /\ Ran(t, gives)' = IF PendingIn(t, gives) THEN Ran(t, gives) + 1 ELSE Ran(t, gives)
    BY RanStep
  <1>3. /\ PendingIn(t, takes) => Ran(t, takes) = Ran(t, gives)
        /\ PendingIn(t, gives) => Ran(t, takes) = Ran(t, gives) + 1
    BY DEF PendingIn, Ran, InTurns
  <1>4. ~ (PendingIn(t, takes) /\ PendingIn(t, gives))
    BY DEF PendingIn
  <1>5. InTurnsSoFar(takes, gives)'
    BY <1>1, <1>2, <1>3, <1>4 DEF InTurnsSoFar
  <1> QED BY <1>1, <1>2, <1>3, <1>4, <1>5 DEF InTurnsSoFar, Between

-----------------------------------------------------------------------------
(* Mutexes *)

\* Before the main thread has initialised a mutex nobody has touched it.
InitialMutexes ==
    \A m \in Mutexes : \A p \in DOMAIN program[Main] :
       program[Main][p] \in On({"mutex_init"}, m) =>
          /\ pos[Main] < p => objects.mutex[m] = "none"
          /\ pos[Main] = p => objects.mutex[m] = "undefined"

\* The inductive invariant of the mutexes.
MutexInv ==
    /\ \A m \in Mutexes : InTurnsSoFar(Takes(m), Gives(m))
    /\ MutualExclusion
    /\ InitialMutexes

\* Whether a thread is about to take or to give a mutex can be read off its transition.
LEMMA TakesAndGives ==
    ASSUME Positions, NEW t \in Threads, NEW m
    PROVE  /\ Takes(m) \cap Gives(m) = {}
           /\ PendingIn(t, Takes(m)) <=>
                 \/ Pending(t).type = "mutex_lock" /\ Pending(t).obj = m
                 \/ Pending(t).type = "cond_wait" /\ CondMutex[Pending(t).obj] = m
           /\ PendingIn(t, Gives(m)) <=>
                 \/ Pending(t).type = "mutex_unlock" /\ Pending(t).obj = m
                 \/ Pending(t).type = "cond_enqueue" /\ CondMutex[Pending(t).obj] = m
  <1>1. Takes(m) \cap Gives(m) = {}
    BY DEF Takes, Gives, On
  <1>2. pos[t] \in DOMAIN program[t] =>
           /\ Pending(t).type = program[t][pos[t]].type
           /\ Pending(t).obj = program[t][pos[t]].obj
           /\ program[t][pos[t]] \in Operations
    BY TransitionType DEF Pending, Positions
  <1>3. pos[t] \notin DOMAIN program[t] => Pending(t).type \in {"start", "finish"}
    BY TransitionType DEF Pending, Positions
  <1>4. \A op \in Operations :
           /\ op \in Takes(m) <=> \/ op.type = "mutex_lock" /\ op.obj = m
                                  \/ op.type = "cond_wait" /\ CondMutex[op.obj] = m
           /\ op \in Gives(m) <=> \/ op.type = "mutex_unlock" /\ op.obj = m
                                  \/ op.type = "cond_enqueue" /\ CondMutex[op.obj] = m
    <2> TAKE op \in Operations
    <2>1. op.type \in {"cond_wait", "cond_enqueue"} => op.obj \in Conds
      BY DEF Operations, MutexOperationTypes, SemOperationTypes, CondOperationTypes,
         BarrierOperationTypes, MCRWLockTypes, MCRWWLockTypes, GlobalOperationTypes
    <2>2. op = [type |-> op.type, obj |-> op.obj]
      BY DEF Operations
    <2>3. ASSUME NEW type, NEW X
          PROVE  op \in [type : {type}, obj : X] <=> op.type = type /\ op.obj \in X
      BY <2>2
    <2>4. op \in Takes(m) <=> \/ op \in [type : {"mutex_lock"}, obj : {m}]
                              \/ op \in [type : {"cond_wait"}, obj : WaitingWith(m)]
      BY DEF Takes, On
    <2>5. op \in Gives(m) <=> \/ op \in [type : {"mutex_unlock"}, obj : {m}]
                              \/ op \in [type : {"cond_enqueue"}, obj : WaitingWith(m)]
      BY DEF Gives, On
    <2>6. /\ op \in [type : {"mutex_lock"}, obj : {m}] <=> op.type = "mutex_lock" /\ op.obj = m
          /\ op \in [type : {"mutex_unlock"}, obj : {m}]
                <=> op.type = "mutex_unlock" /\ op.obj = m
      BY <2>3
    <2>7. /\ op \in [type : {"cond_wait"}, obj : WaitingWith(m)]
                <=> op.type = "cond_wait" /\ op.obj \in WaitingWith(m)
          /\ op \in [type : {"cond_enqueue"}, obj : WaitingWith(m)]
                <=> op.type = "cond_enqueue" /\ op.obj \in WaitingWith(m)
      BY <2>3
    <2>8. op.obj \in WaitingWith(m) <=> op.obj \in Conds /\ CondMutex[op.obj] = m
      BY DEF WaitingWith
    <2> QED BY <2>1, <2>4, <2>5, <2>6, <2>7, <2>8
  <1>5. /\ PendingIn(t, Takes(m)) <=>
              \/ Pending(t).type = "mutex_lock" /\ Pending(t).obj = m
              \/ Pending(t).type = "cond_wait" /\ CondMutex[Pending(t).obj] = m
        /\ PendingIn(t, Gives(m)) <=>
              \/ Pending(t).type = "mutex_unlock" /\ Pending(t).obj = m
              \/ Pending(t).type = "cond_enqueue" /\ CondMutex[Pending(t).obj] = m
    <2>1. CASE pos[t] \in DOMAIN program[t]
      BY <1>2, <1>4, <2>1 DEF PendingIn
    <2>2. CASE pos[t] \notin DOMAIN program[t]
      BY <1>3, <2>2 DEF PendingIn
    <2> QED BY <2>1, <2>2
  <1> HIDE DEF PendingIn, Takes, Gives, Pending
  <1> QED BY <1>1, <1>5

\* What a step does to a mutex.
LEMMA MutexChange ==
    ASSUME Typed, HasNoLoop(program), NEW t \in Threads, Run(t), NEW m \in Mutexes
    PROVE  /\ PendingIn(t, Takes(m)) =>
                 objects.mutex[m] = "unlocked" /\ objects'.mutex[m] = "locked"
           /\ PendingIn(t, Gives(m)) => objects'.mutex[m] # "locked"
           /\ Pending(t).type = "mutex_init" /\ Pending(t).obj = m => objects'.mutex[m] # "locked"
           /\ ~ PendingIn(t, Takes(m)) /\ ~ PendingIn(t, Gives(m))
              /\ Pending(t).type # "mutex_init" =>
                 \/ objects'.mutex[m] = "locked" <=> objects.mutex[m] = "locked"
                 \/ /\ Pending(t).type = "mutex_trylock" /\ Pending(t).obj = m
                    /\ objects.mutex[m] = "unlocked"
           /\ ~ (Successor(t).type \in MutexOperationTypes /\ Successor(t).obj = m)
              /\ ~ (Pending(t).type \in MutexOperationTypes /\ Pending(t).obj = m)
              /\ ~ UsesCondMutex(Pending(t)) =>
                 objects'.mutex[m] = objects.mutex[m]
           /\ Successor(t).type = "mutex_init" /\ Successor(t).obj = m
              /\ ~ (Pending(t).type \in MutexOperationTypes /\ Pending(t).obj = m)
              /\ ~ UsesCondMutex(Pending(t)) =>
                 objects'.mutex[m] = RegisteredMutex(objects.mutex[m])
           /\ Pending(t).type = "mutex_init" /\ Pending(t).obj # m =>
                 objects'.mutex[m] = "locked" <=> objects.mutex[m] = "locked"
  <1> DEFINE tr == Pending(t)
             su == Successor(t)
             o == applyToState(objects, tr)
             x == o.mutex[m]
             y == objects'.mutex[m]
  <1>1. Positions /\ objects \in ObjectStates
    BY DEF Typed, TypeOK
  <1>2. tr \in Transitions /\ tr.tid = t /\ su \in Transitions
    BY <1>1, PendingType, SuccessorType
  <1>3. x = IF tr.type \in MutexOperationTypes /\ tr.obj = m
            THEN MutexOperation(tr.type, objects.mutex[m]).applied
            ELSE IF UsesCondMutex(tr) /\ CondMutex[tr.obj] = m
            THEN CondMutexOperation(objects, tr).applied ELSE objects.mutex[m]
    BY <1>1, <1>2, AppliedEffect
  <1>4. y = IF su.type \in MutexOperationTypes /\ su.obj = m
            THEN MutexOperation(su.type, x).announced ELSE x
    <2>1. o \in ObjectStates /\ objects' = readTransition(o, su)
      BY <1>1, <1>2, AppliedType, SuccessorType
    <2> HIDE DEF o, su
    <2> QED BY <1>2, <2>1, AnnouncedEffect
  <1>5. /\ PendingIn(t, Takes(m)) <=> \/ tr.type = "mutex_lock" /\ tr.obj = m
                                      \/ tr.type = "cond_wait" /\ CondMutex[tr.obj] = m
        /\ PendingIn(t, Gives(m)) <=> \/ tr.type = "mutex_unlock" /\ tr.obj = m
                                      \/ tr.type = "cond_enqueue" /\ CondMutex[tr.obj] = m
    <2>1. /\ PendingIn(t, Takes(m)) <=>
                \/ Pending(t).type = "mutex_lock" /\ Pending(t).obj = m
                \/ Pending(t).type = "cond_wait" /\ CondMutex[Pending(t).obj] = m
          /\ PendingIn(t, Gives(m)) <=>
                \/ Pending(t).type = "mutex_unlock" /\ Pending(t).obj = m
                \/ Pending(t).type = "cond_enqueue" /\ CondMutex[Pending(t).obj] = m
      BY <1>1, TakesAndGives
    <2> QED BY <2>1
  <1>6. /\ Operation(objects, tr).enabled
        /\ UsesCondMutex(tr) => CondMutexOperation(objects, tr).enabled
    BY <1>1, Advance
  <1>7. PendingIn(t, Takes(m)) => objects.mutex[m] = "unlocked"
    <2>1. ASSUME tr.type = "mutex_lock", tr.obj = m
          PROVE  objects.mutex[m] = "unlocked"
      <3>1. Operation(objects, tr) = MutexOperation(tr.type, objects.mutex[m])
        BY <2>1, OneFamilyOnly DEF Operation, MutexOperationTypes
      <3>2. MutexOperation(tr.type, objects.mutex[m]).enabled
        BY <1>6, <3>1
      <3> HIDE DEF tr
      <3> QED BY <2>1, <3>2 DEF MutexOperation, MCMutexLock, canAcquire
    <2>2. ASSUME tr.type = "cond_wait", CondMutex[tr.obj] = m
          PROVE  objects.mutex[m] = "unlocked"
      BY <1>6, <2>2 DEF UsesCondMutex, CondMutexOperation, MCMutexLock, canAcquire
    <2> QED BY <1>5, <2>1, <2>2
  <1>8. y = "locked" <=> x = "locked"
    <2> HIDE DEF x, y, su
    <2> QED BY <1>4 DEF MutexOperationTypes, MutexOperation, MCMutexInit, MCMutexLock,
         MCMutexTrylock, MCMutexUnlock, RegisteredMutex, StaticallyInitialised
  <1>9. /\ tr.type = "mutex_lock" /\ tr.obj = m => x = "locked"
        /\ tr.type = "mutex_unlock" /\ tr.obj = m => x = "unlocked"
        /\ tr.type = "mutex_init" /\ tr.obj = m => x = "unlocked"
        /\ tr.type = "mutex_trylock" /\ tr.obj = m =>
              x = IF objects.mutex[m] = "unlocked" THEN "locked" ELSE objects.mutex[m]
        /\ tr.type = "cond_wait" /\ CondMutex[tr.obj] = m => x = "locked"
        /\ tr.type = "cond_enqueue" /\ CondMutex[tr.obj] = m => x = "unlocked"
        /\ ~ (tr.type \in MutexOperationTypes /\ tr.obj = m)
           /\ ~ (UsesCondMutex(tr) /\ CondMutex[tr.obj] = m) => x = objects.mutex[m]
    <2> HIDE DEF x, tr
    <2> QED BY <1>3 DEF MutexOperationTypes, MutexOperation, MCMutexInit, MCMutexLock,
         MCMutexTrylock, MCMutexUnlock, UsesCondMutex, CondMutexOperation
  <1>10. su.type = "mutex_init" /\ su.obj = m => y = RegisteredMutex(x)
    <2> HIDE DEF x, y, su
    <2> QED BY <1>4 DEF MutexOperationTypes, MutexOperation, MCMutexInit
  <1>11. ~ (su.type \in MutexOperationTypes /\ su.obj = m) => y = x
    BY <1>4
  <1> HIDE DEF x, y, tr, su
  <1>12. /\ PendingIn(t, Takes(m)) => objects.mutex[m] = "unlocked" /\ y = "locked"
         /\ PendingIn(t, Gives(m)) => y # "locked"
         /\ tr.type = "mutex_init" /\ tr.obj = m => y # "locked"
    BY <1>5, <1>7, <1>8, <1>9
  <1>13. /\ ~ PendingIn(t, Takes(m)) /\ ~ PendingIn(t, Gives(m)) /\ tr.type # "mutex_init" =>
                 \/ y = "locked" <=> objects.mutex[m] = "locked"
                 \/ /\ tr.type = "mutex_trylock" /\ tr.obj = m
                    /\ objects.mutex[m] = "unlocked"
         /\ tr.type = "mutex_init" /\ tr.obj # m =>
                 y = "locked" <=> objects.mutex[m] = "locked"
    <2>1. CASE tr.type \in MutexOperationTypes /\ tr.obj = m
      BY <1>5, <1>8, <1>9, <2>1 DEF MutexOperationTypes
    <2>2. CASE UsesCondMutex(tr) /\ CondMutex[tr.obj] = m
      BY <1>5, <2>2 DEF UsesCondMutex
    <2>3. CASE ~ (tr.type \in MutexOperationTypes /\ tr.obj = m)
               /\ ~ (UsesCondMutex(tr) /\ CondMutex[tr.obj] = m)
      BY <1>8, <1>9, <2>3
    <2> QED BY <2>1, <2>2, <2>3
  <1>14. /\ ~ (su.type \in MutexOperationTypes /\ su.obj = m)
            /\ ~ (tr.type \in MutexOperationTypes /\ tr.obj = m)
            /\ ~ UsesCondMutex(tr) => y = objects.mutex[m]
         /\ su.type = "mutex_init" /\ su.obj = m
            /\ ~ (tr.type \in MutexOperationTypes /\ tr.obj = m)
            /\ ~ UsesCondMutex(tr) => y = RegisteredMutex(objects.mutex[m])
    BY <1>9, <1>10, <1>11
  <1> QED BY <1>12, <1>13, <1>14 DEF y, tr, su

\* Only the main thread is there while it initialises, and it has done nothing else.
LEMMA NothingRanWhileInitialising ==
    ASSUME Typed, KeepsTheRules(program), ThreadsAreCreated,
           NEW p \in DOMAIN program[Main], program[Main][p].type \in InitTypes,
           pos[Main] <= p, NEW ops, \A op \in ops : op.type \notin InitTypes
    PROVE  AllRan(ops) = {} /\ \A u \in Threads : Ran(u, ops) = 0
  <1>1. Positions /\ InitialisesFirst(program) /\ Main \in Threads
    BY LastThreadAssumption DEF Typed, KeepsTheRules, Main, Threads
  <1>2. \A q \in 1 .. p - 1 : program[Main][q].type \in InitTypes
    BY <1>1 DEF InitialisesFirst
  <1>3. \A u \in Threads : DOMAIN program[u] = 1 .. Len(program[u]) /\ pos[u] \in Nat
    BY <1>1, ProgramsAssumption DEF Positions
  <1>4. \A u \in Threads \ {Main} : pos[u] = 0
    BY DEF ThreadsAreCreated
  <1>5. ASSUME NEW u \in Threads, NEW q \in DOMAIN program[u], q < pos[u]
        PROVE  program[u][q] \notin ops
    <2>1. u = Main
      BY <1>3, <1>4, <1>5
    <2>2. q \in 1 .. p - 1
      BY <1>1, <1>3, <1>5, <2>1
    <2> QED BY <1>2, <2>1, <2>2
  <1>6. AllRan(ops) = {}
    BY <1>5 DEF AllRan
  <1>7. \A u \in Threads : Ran(u, ops) = 0
    BY <1>1, <1>5, NothingRan
  <1> QED BY <1>6, <1>7

\* It holds at first.
LEMMA MutexInit == Init => MutexInv
  <1> SUFFICES ASSUME Init PROVE MutexInv
    OBVIOUS
  <1>1. \A m \in Mutexes : objects.mutex[m] = "none"
    BY DEF Init, NoObjects
  <1>2. \A m \in Mutexes :
          /\ InTurnsSoFar(Takes(m), Gives(m))
          /\ \A t \in Threads : ~ Between(t, Takes(m), Gives(m))
    BY TurnsInit
  <1>3. MutualExclusion
    BY <1>1, <1>2 DEF MutualExclusion, Holds, Between
  <1>4. InitialMutexes
    <2>1. Main \in Threads
      BY LastThreadAssumption DEF Main, Threads
    <2>2. program[Main] \in Seq(Operations) /\ pos[Main] = 0
      BY <2>1, ProgramsAssumption DEF Init
    <2>3. 0 \notin DOMAIN program[Main]
      BY <2>2
    <2> QED BY <1>1, <2>2, <2>3 DEF InitialMutexes
  <1> QED BY <1>2, <1>3, <1>4 DEF MutexInv

\* What a mutex is before its initialisation, once more.
LEMMA InitialMutexesStep ==
    ASSUME Typed, KeepsTheRules(program), ThreadsAreCreated, InitialMutexes,
           NEW t \in Threads, Run(t)
    PROVE  InitialMutexes'
  <1>1. Positions /\ HasNoLoop(program) /\ InitialisesFirst(program)
    BY DEF Typed, KeepsTheRules
  <1>2. program' = program /\ program \in Programs
    BY <1>1, Advance
  <1>3. Main \in Threads
    BY LastThreadAssumption DEF Main, Threads
  <1>4. program[Main] \in Seq(Operations)
    BY <1>2, <1>3, ProgramsAssumption
  <1>5. ASSUME NEW m \in Mutexes, NEW p \in DOMAIN program[Main],
               program[Main][p] \in On({"mutex_init"}, m), pos'[Main] <= p
        PROVE  /\ pos'[Main] < p => objects'.mutex[m] = "none"
               /\ pos'[Main] = p => objects'.mutex[m] = "undefined"
    <2>1. program[Main][p].type = "mutex_init" /\ program[Main][p].obj = m
      BY <1>5 DEF On
    <2>2. program[Main][p].type \in InitTypes
      BY <2>1 DEF InitTypes
    <2>3. /\ t = Main
          /\ pos[Main] < p
          /\ pos'[Main] = pos[Main] + 1
          /\ Pending(t).type \in InitTypes \cup {"start"}
          /\ Successor(t).type \in InitTypes
          /\ pos[Main] # 0 => /\ pos[Main] \in DOMAIN program[Main]
                             /\ program[Main][pos[Main]].type = Pending(t).type
                             /\ program[Main][pos[Main]].obj = Pending(t).obj
          /\ pos'[Main] \in DOMAIN program[Main]
          /\ program[Main][pos'[Main]].type = Successor(t).type
          /\ program[Main][pos'[Main]].obj = Successor(t).obj
      BY <1>5, <2>2, MainInitialises
    <2>4. ASSUME NEW q \in DOMAIN program[Main], q < p,
                 program[Main][q].type = "mutex_init", program[Main][q].obj = m
          PROVE  FALSE
      <3>1. program[Main][q] = program[Main][p]
        <4>1. program[Main][q] \in Operations /\ program[Main][p] \in Operations
          BY <1>4
        <4>2. program[Main][q].type = program[Main][p].type
              /\ program[Main][q].obj = program[Main][p].obj
          BY <2>1, <2>4
        <4> QED BY <4>1, <4>2, SameOperation
      <3>2. q \in 1 .. p - 1
        BY <1>4, <2>4
      <3> QED BY <1>1, <1>3, <2>1, <2>2, <3>1, <3>2 DEF InitialisesFirst
    <2>5. objects.mutex[m] = "none"
      BY <1>5, <2>3 DEF InitialMutexes
    <2>6. ~ (Pending(t).type \in MutexOperationTypes /\ Pending(t).obj = m)
      <3> SUFFICES ASSUME Pending(t).type \in MutexOperationTypes, Pending(t).obj = m
                   PROVE  FALSE
        OBVIOUS
      <3>1. Pending(t).type = "mutex_init"
        BY <2>3 DEF InitTypes, MutexOperationTypes
      <3>2. pos[Main] # 0
        <4>1. t = Main
          BY <2>3
        <4>2. pos[Main] = 0 => Pending(t).type = "start"
          BY <1>4, <4>1 DEF Pending, TransitionAt
        <4> QED BY <3>1, <4>2
      <3> QED BY <2>3, <2>4, <3>1, <3>2
    <2>7. ~ UsesCondMutex(Pending(t))
      BY <2>3 DEF UsesCondMutex, InitTypes
    <2>8. CASE pos'[Main] < p
      <3>1. ~ (Successor(t).type \in MutexOperationTypes /\ Successor(t).obj = m)
        <4>1. Successor(t).type \in MutexOperationTypes => Successor(t).type = "mutex_init"
          BY <2>3 DEF InitTypes, MutexOperationTypes
        <4> QED BY <2>3, <2>4, <2>8, <4>1
      <3>2. objects'.mutex[m] = objects.mutex[m]
        BY <1>1, <2>6, <2>7, <3>1, MutexChange
      <3>3. p \in Nat
        BY <1>4
      <3> QED BY <1>4, <2>3, <2>5, <2>8, <3>2, <3>3
    <2>9. CASE pos'[Main] = p
      <3>1. Successor(t).type = "mutex_init" /\ Successor(t).obj = m
        BY <2>1, <2>3, <2>9
      <3>2. objects'.mutex[m] = RegisteredMutex(objects.mutex[m])
        BY <1>1, <2>6, <2>7, <3>1, MutexChange
      <3>3. p \in Nat
        BY <1>4
      <3> QED BY <2>5, <2>9, <3>2, <3>3 DEF RegisteredMutex
    <2>10. pos'[Main] \in Nat /\ p \in Nat
      BY <1>4, <2>3
    <2> QED BY <1>5, <2>8, <2>9, <2>10
  <1>6. /\ \A p \in DOMAIN program[Main] : p \in Nat
        /\ pos'[Main] \in Nat
    BY <1>1, <1>2, <1>3, <1>4, PositionsStep DEF Positions
  <1>7. \A m \in Mutexes : \A p \in DOMAIN program[Main] :
          program[Main][p] \in On({"mutex_init"}, m) =>
             /\ pos'[Main] < p => objects'.mutex[m] = "none"
             /\ pos'[Main] = p => objects'.mutex[m] = "undefined"
    BY <1>5, <1>6
  <1> QED BY <1>2, <1>7 DEF InitialMutexes, On

\* A mutex excludes for one more step: who takes it finds it unlocked, who gives it is
\* the one that holds it.
LEMMA MutexStep ==
    ASSUME Typed, KeepsTheRules(program), ThreadsAreCreated, MutexInv, NEW t \in Threads, Run(t)
    PROVE  MutexInv'
  <1>1. Positions /\ HasNoLoop(program) /\ LocksInTurns(program)
    BY DEF Typed, KeepsTheRules
  <1>2. program' = program
    BY <1>1, Advance
  <1>3. ASSUME NEW m \in Mutexes
        PROVE  /\ InTurnsSoFar(Takes(m), Gives(m))'
               /\ \A u \in Threads \ {t} : Holds(u, m)' <=> Holds(u, m)
               /\ PendingIn(t, Takes(m)) => ~ Holds(t, m) /\ Holds(t, m)'
               /\ PendingIn(t, Gives(m)) => Holds(t, m) /\ ~ Holds(t, m)'
               /\ ~ PendingIn(t, Takes(m)) /\ ~ PendingIn(t, Gives(m)) =>
                     (Holds(t, m)' <=> Holds(t, m))
    <2>1. InTurns(program, Takes(m), Gives(m)) /\ InTurnsSoFar(Takes(m), Gives(m))
      BY <1>1 DEF LocksInTurns, MutexInv
    <2>2. Takes(m) \cap Gives(m) = {}
      BY <1>1, TakesAndGives
    <2> QED BY <1>1, <2>1, <2>2, TurnsStep DEF Holds, Between
  <1>4. ASSUME NEW m \in Mutexes
        PROVE  /\ \A u, v \in Threads : Holds(u, m)' /\ Holds(v, m)' => u = v
               /\ (\E u \in Threads : Holds(u, m)') => objects'.mutex[m] = "locked"
               /\ objects'.mutex[m] = "locked" => Tried(m) \/ \E u \in Threads : Holds(u, m)'
    <2>1. /\ \A u, v \in Threads : Holds(u, m) /\ Holds(v, m) => u = v
          /\ (\E u \in Threads : Holds(u, m)) => objects.mutex[m] = "locked"
          /\ objects.mutex[m] = "locked" => Tried(m) \/ \E u \in Threads : Holds(u, m)
      BY DEF MutexInv, MutualExclusion
    <2>2. CASE PendingIn(t, Takes(m))
      <3>1. objects.mutex[m] = "unlocked" /\ objects'.mutex[m] = "locked"
        BY <1>1, <2>2, MutexChange
      <3>2. \A u \in Threads : ~ Holds(u, m)
        BY <2>1, <3>1
      <3>3. \A u \in Threads : Holds(u, m)' <=> u = t
        BY <1>3, <2>2, <3>2
      <3> QED BY <3>1, <3>3
    <2>3. CASE PendingIn(t, Gives(m))
      <3>1. objects'.mutex[m] # "locked"
        BY <1>1, <2>3, MutexChange
      <3>2. \A u \in Threads : ~ Holds(u, m)'
        BY <1>3, <2>1, <2>3
      <3> QED BY <3>1, <3>2
    <2>4. CASE ~ PendingIn(t, Takes(m)) /\ ~ PendingIn(t, Gives(m))
      <3>1. \A u \in Threads : Holds(u, m)' <=> Holds(u, m)
        BY <1>3, <2>4
      <3>2. CASE Pending(t).type = "mutex_init" /\ Pending(t).obj = m
        <4>1. objects'.mutex[m] # "locked"
          BY <1>1, <3>2, MutexChange
        <4>2. \A u \in Threads : ~ Holds(u, m)
          <5>1. PendingIn(t, On({"mutex_init"}, m))
            BY <1>1, <3>2, PendingOn
          <5>2. pos[t] \in DOMAIN program[t] /\ program[t][pos[t]].type \in InitTypes
            BY <5>1 DEF PendingIn, On, InitTypes
          <5>3. /\ \A op \in Takes(m) : op.type \notin InitTypes
                /\ \A op \in Gives(m) : op.type \notin InitTypes
            BY DEF Takes, Gives, On, InitTypes
          <5>4. t = Main /\ pos[t] <= pos[t]
            BY <1>1, <5>2 DEF KeepsTheRules, InitialisesFirst, Positions
          <5>5. \A u \in Threads : Ran(u, Takes(m)) = 0
            BY <5>2, <5>3, <5>4, NothingRanWhileInitialising
          <5>6. \A u \in Threads : Ran(u, Gives(m)) = 0
            BY <5>2, <5>3, <5>4, NothingRanWhileInitialising
          <5> QED BY <5>5, <5>6 DEF Holds
        <4> QED BY <3>1, <4>1, <4>2
      <3>3. CASE objects'.mutex[m] = "locked" <=> objects.mutex[m] = "locked"
        BY <2>1, <3>1, <3>3
      <3>4. CASE /\ Pending(t).type = "mutex_trylock" /\ Pending(t).obj = m
                 /\ objects.mutex[m] = "unlocked"
        <4>1. PendingIn(t, On({"mutex_trylock"}, m))
          BY <1>1, <3>4, PendingOn
        <4>2. Tried(m)
          BY <4>1 DEF Tried, PendingIn
        <4>3. \A u \in Threads : ~ Holds(u, m)
          BY <2>1, <3>4
        <4> QED BY <3>1, <4>2, <4>3
      <3>5. \/ Pending(t).type = "mutex_init" /\ Pending(t).obj = m
            \/ objects'.mutex[m] = "locked" <=> objects.mutex[m] = "locked"
            \/ /\ Pending(t).type = "mutex_trylock" /\ Pending(t).obj = m
               /\ objects.mutex[m] = "unlocked"
        BY <1>1, <2>4, MutexChange
      <3> QED BY <3>2, <3>3, <3>4, <3>5
    <2> QED BY <2>2, <2>3, <2>4
  <1>5. MutualExclusion'
    BY <1>2, <1>4 DEF MutualExclusion, Tried, On
  <1>6. InitialMutexes'
    BY InitialMutexesStep DEF MutexInv
  <1> QED BY <1>3, <1>5, <1>6 DEF MutexInv, Takes, Gives, On, WaitingWith

-----------------------------------------------------------------------------
(* Semaphores *)

\* One more of the operations ops has run, or not.
LEMMA CountStep ==
    ASSUME Positions, HasNoLoop(program), NEW t \in Threads, Run(t), NEW ops
    PROVE  /\ Cardinality(AllRan(ops)) \in Nat
           /\ Cardinality(AllRan(ops))' = IF PendingIn(t, ops) THEN Cardinality(AllRan(ops)) + 1
                                          ELSE Cardinality(AllRan(ops))
  <1> DEFINE steps == {{u} \X DOMAIN program[u] : u \in Threads}
  <1>1. IsFiniteSet(UNION steps)
    <2>1. \A u \in Threads : DOMAIN program[u] = 1 .. Len(program[u]) /\ Len(program[u]) \in Nat
      BY ProgramsAssumption DEF Positions
    <2>2. \A u \in Threads : IsFiniteSet({u} \X DOMAIN program[u])
      <3> TAKE u \in Threads
      <3>1. IsFiniteSet(DOMAIN program[u])
        <4> DEFINE n == Len(program[u])
        <4>1. n \in Int /\ DOMAIN program[u] = 1 .. n
          BY <2>1
        <4> HIDE DEF n
        <4>2. IsFiniteSet(1 .. n)
          BY <4>1, FS_Interval
        <4> QED BY <4>1, <4>2
      <3>2. IsFiniteSet({u})
        BY FS_Singleton
      <3> QED BY <3>1, <3>2, FS_Product
    <2>3. IsFiniteSet(Threads)
      BY LastThreadAssumption, FS_Interval DEF Threads
    <2>4. IsFiniteSet(steps)
      <3> DEFINE f == [u \in Threads |-> {u} \X DOMAIN program[u]]
      <3>1. f \in Surjection(Threads, steps)
        BY DEF Surjection
      <3> HIDE DEF f, steps
      <3> QED BY <2>3, <3>1, FS_Surjection
    <2> QED BY <2>2, <2>4, FS_UNION
  <1>2. IsFiniteSet(AllRan(ops)) /\ Cardinality(AllRan(ops)) \in Nat
    <2>1. AllRan(ops) \in SUBSET UNION steps
      BY DEF AllRan
    <2> QED BY <1>1, <2>1, FS_Subset, FS_CardinalityType
  <1>3. /\ AllRan(ops)' = IF PendingIn(t, ops) THEN AllRan(ops) \cup {<<t, pos[t]>>}
                          ELSE AllRan(ops)
        /\ <<t, pos[t]>> \notin AllRan(ops)
    BY RanStep
  <1>4. Cardinality(AllRan(ops) \cup {<<t, pos[t]>>}) = Cardinality(AllRan(ops)) + 1
    BY <1>2, <1>3, FS_AddElement
  <1> QED BY <1>2, <1>3, <1>4

\* The inductive invariant of the semaphores: nobody is twice in a queue.
SemInv ==
    /\ \A s \in Semaphores :
          /\ InTurnsSoFar(Queues(s), Leaves(s))
          /\ objects.sem[s].registered => OnceEach(objects.sem[s].waitingQueue)
    /\ SemaphoresConservePermits

\* It holds at first.
LEMMA SemInit == Init => SemInv
  <1> SUFFICES ASSUME Init PROVE SemInv
    OBVIOUS
  <1>1. \A s \in Semaphores : InTurnsSoFar(Queues(s), Leaves(s))
    BY TurnsInit
  <1>2. \A s \in Semaphores : ~ objects.sem[s].registered
    BY DEF Init, NoObjects, NoSem
  <1> QED BY <1>1, <1>2 DEF SemInv, SemaphoresConservePermits

\* What a step of thread t, which then announces su, does to a semaphore: it was sem and
\* is now.
SemMoves(t, s, su, sem, now) ==
    IF su.type = "sem_init" /\ su.obj = s /\ ~ sem.registered
    THEN now.count = InitialCount[s] /\ now.waitingQueue = << >>
    ELSE /\ now.registered = sem.registered
         /\ PendingIn(t, Posts(s)) =>
               now.count = sem.count + 1 /\ now.waitingQueue = sem.waitingQueue
         /\ PendingIn(t, Queues(s)) =>
               now.count = sem.count /\ now.waitingQueue = Append(sem.waitingQueue, t)
         /\ PendingIn(t, Leaves(s)) =>
               /\ sem.count > 0
               /\ now.count = sem.count - 1
               /\ now.waitingQueue = Without(sem.waitingQueue, t)
         /\ ~ PendingIn(t, Posts(s)) /\ ~ PendingIn(t, Queues(s)) /\ ~ PendingIn(t, Leaves(s)) =>
               now.count = sem.count /\ now.waitingQueue = sem.waitingQueue

\* It is what a step does to a semaphore.
LEMMA SemChange ==
    ASSUME Typed, HasNoLoop(program), NEW t \in Threads, Run(t), NEW s \in Semaphores
    PROVE  SemMoves(t, s, Successor(t), objects.sem[s], objects'.sem[s])
  <1> DEFINE sem == objects.sem[s]
             now == objects'.sem[s]
             tr == Pending(t)
             su == Successor(t)
             o == applyToState(objects, tr)
             x == o.sem[s]
  <1>1. Positions /\ objects \in ObjectStates
    BY DEF Typed, TypeOK
  <1>2. tr \in Transitions /\ tr.tid = t /\ su \in Transitions
    BY <1>1, PendingType, SuccessorType
  <1>3. x = IF tr.type \in SemOperationTypes /\ tr.obj = s
            THEN SemOperation(tr.type, sem, t, InitialCount[s]).applied ELSE sem
    BY <1>1, <1>2, AppliedEffect
  <1>4. now = IF su.type = "sem_init" /\ su.obj = s /\ ~ x.registered
              THEN [registered |-> TRUE, count |-> InitialCount[s], waitingQueue |-> << >>]
              ELSE x
    <2>1. o \in ObjectStates /\ objects' = readTransition(o, su)
      BY <1>1, <1>2, AppliedType, SuccessorType
    <2> HIDE DEF o, su
    <2> QED BY <1>2, <2>1, AnnouncedEffect
  <1>5. Operation(objects, tr).enabled
    BY <1>1, Advance
  <1>6. /\ PendingIn(t, Posts(s)) <=> tr.type = "sem_post" /\ tr.obj = s
        /\ PendingIn(t, Queues(s)) <=> tr.type = "sem_enqueue" /\ tr.obj = s
        /\ PendingIn(t, Leaves(s)) <=> tr.type = "sem_wait" /\ tr.obj = s
    BY <1>1, PendingOn DEF Posts, Queues, Leaves
  <1>7. sem \in [registered : BOOLEAN, count : Nat, waitingQueue : Seq(Threads)]
    BY <1>1 DEF ObjectStates, SemStates
  <1>8. ASSUME tr.type = "sem_wait", tr.obj = s
        PROVE  sem.count > 0
    <2>1. Operation(objects, tr) = SemOperation("sem_wait", sem, t, InitialCount[s])
      BY <1>2, <1>8, OneFamilyOnly DEF Operation, SemOperationTypes
    <2>2. SemOperation("sem_wait", sem, t, InitialCount[s]).enabled
      BY <1>5, <2>1
    <2> QED BY <2>2 DEF SemOperation, MCSemWait, ThreadCanExit
  <1> HIDE DEF x, tr, su, o
  <1>9. /\ x.registered = sem.registered
        /\ tr.type = "sem_post" /\ tr.obj = s =>
              x.count = sem.count + 1 /\ x.waitingQueue = sem.waitingQueue
        /\ tr.type = "sem_enqueue" /\ tr.obj = s =>
              x.count = sem.count /\ x.waitingQueue = Append(sem.waitingQueue, t)
        /\ tr.type = "sem_wait" /\ tr.obj = s =>
              x.count = sem.count - 1 /\ x.waitingQueue = Without(sem.waitingQueue, t)
        /\ ~ (tr.type \in {"sem_post", "sem_enqueue", "sem_wait"} /\ tr.obj = s) => x = sem
    <2>1. CASE tr.type = "sem_post" /\ tr.obj = s
      BY <1>3, <1>7, <2>1 DEF SemOperationTypes, SemOperation, MCSemPost
    <2>2. CASE tr.type = "sem_enqueue" /\ tr.obj = s
      BY <1>3, <1>7, <2>2 DEF SemOperationTypes, SemOperation, MCSemEnqueue, Enqueue
    <2>3. CASE tr.type = "sem_wait" /\ tr.obj = s
      BY <1>3, <1>7, <1>8, <2>3 DEF SemOperationTypes, SemOperation, MCSemWait
    <2>4. CASE ~ (tr.type \in {"sem_post", "sem_enqueue", "sem_wait"} /\ tr.obj = s)
      BY <1>3, <2>4 DEF SemOperationTypes, SemOperation, MCSemInit
    <2> QED BY <2>1, <2>2, <2>3, <2>4
  <1>10. CASE su.type = "sem_init" /\ su.obj = s /\ ~ sem.registered
    BY <1>4, <1>9, <1>10 DEF su, SemMoves
  <1>11. CASE ~ (su.type = "sem_init" /\ su.obj = s /\ ~ sem.registered)
    <2>1. now = x
      BY <1>4, <1>9, <1>11
    <2> QED BY <1>6, <1>8, <1>9, <1>11, <2>1 DEF su, SemMoves
  <1> QED BY <1>10, <1>11

\* When an initialisation is announced, nothing but initialisations has run.
LEMMA InitialisationAnnounced ==
    ASSUME Typed, KeepsTheRules(program), ThreadsAreCreated, NEW t \in Threads, Run(t),
           Successor(t).type \in InitTypes, NEW ops, \A op \in ops : op.type \notin InitTypes
    PROVE  /\ t = Main
           /\ ~ PendingIn(t, ops)
           /\ AllRan(ops) = {}
           /\ \A u \in Threads : Ran(u, ops) = 0
  <1>1. Positions /\ HasNoLoop(program) /\ InitialisesFirst(program)
    BY DEF Typed, KeepsTheRules
  <1>2. /\ program' = program
        /\ program \in Programs
        /\ DOMAIN program[t] = 1 .. Len(program[t])
        /\ Len(program[t]) \in Nat
    BY <1>1, Advance
  <1>3. pos'[t] \in DOMAIN program[t] /\ program[t][pos'[t]].type = Successor(t).type
    <2>1. Successor(t) = TransitionAt(program, t, pos'[t])
      BY <1>1, SuccessorType DEF Successor
    <2>2. /\ pos'[t] \in Nat
          /\ pos'[t] \in DOMAIN program[t] => program[t][pos'[t]].type # "repeat"
      BY <1>1, <1>2, PositionsStep DEF Positions
    <2>3. Successor(t).type \notin {"start", "finish"}
      BY DEF InitTypes
    <2> QED BY <1>2, <2>1, <2>2, <2>3, TransitionType
  <1>4. t = Main
    BY <1>1, <1>3 DEF InitialisesFirst
  <1>5. pos[Main] < pos'[Main] /\ pos'[Main] \in Nat
    <2>1. pos'[Main] <= pos'[Main]
      BY <1>2, <1>3, <1>4
    <2>2. pos[Main] < pos'[Main]
      BY <1>3, <1>4, <2>1, MainInitialises
    <2> QED BY <1>2, <1>3, <1>4, <2>2
  <1>6. ~ PendingIn(t, ops)
    <2>1. pos[t] \in DOMAIN program[t] => pos[t] \in 1 .. pos'[t] - 1
      BY <1>2, <1>4, <1>5
    <2>2. pos[t] \in DOMAIN program[t] => program[t][pos[t]].type \in InitTypes
      BY <1>1, <1>3, <2>1 DEF InitialisesFirst
    <2> QED BY <2>2 DEF PendingIn
  <1>7. pos[Main] <= pos'[Main]
    BY <1>1, <1>4, <1>5 DEF Positions
  <1>8. AllRan(ops) = {} /\ \A u \in Threads : Ran(u, ops) = 0
    BY <1>3, <1>4, <1>7, NothingRanWhileInitialising
  <1> QED BY <1>4, <1>6, <1>8

\* A semaphore counts for one more step: who waits comes first in the queue, and finds
\* a permit.
LEMMA SemStep ==
    ASSUME Typed, KeepsTheRules(program), ThreadsAreCreated, SemInv, NEW t \in Threads, Run(t)
    PROVE  SemInv'
  <1>1. Positions /\ HasNoLoop(program) /\ WaitsInTurns(program)
    BY DEF Typed, KeepsTheRules
  <1>2. program' = program
    BY <1>1, Advance
  <1>3. ASSUME NEW s \in Semaphores
        PROVE  /\ InTurnsSoFar(Queues(s), Leaves(s))'
               /\ \A u \in Threads \ {t} :
                     Between(u, Queues(s), Leaves(s))' <=> Between(u, Queues(s), Leaves(s))
               /\ PendingIn(t, Queues(s)) =>
                     ~ Between(t, Queues(s), Leaves(s)) /\ Between(t, Queues(s), Leaves(s))'
               /\ PendingIn(t, Leaves(s)) =>
                     Between(t, Queues(s), Leaves(s)) /\ ~ Between(t, Queues(s), Leaves(s))'
               /\ ~ PendingIn(t, Queues(s)) /\ ~ PendingIn(t, Leaves(s)) =>
                     (Between(t, Queues(s), Leaves(s))' <=> Between(t, Queues(s), Leaves(s)))
    <2>1. InTurns(program, Queues(s), Leaves(s)) /\ InTurnsSoFar(Queues(s), Leaves(s))
      BY <1>1 DEF WaitsInTurns, SemInv
    <2>2. Queues(s) \cap Leaves(s) = {}
      BY DEF Queues, Leaves, On
    <2> QED BY <1>1, <2>1, <2>2, TurnsStep
  <1>4. ASSUME NEW s \in Semaphores, objects'.sem[s].registered
        PROVE  /\ OnceEach(objects'.sem[s].waitingQueue)
               /\ objects'.sem[s].count =
                     InitialCount[s] + Cardinality(AllRan(Posts(s)))'
                        - Cardinality(AllRan(Leaves(s)))'
               /\ \A u \in Threads :
                     u \in ToSet(objects'.sem[s].waitingQueue)
                        <=> Between(u, Queues(s), Leaves(s))'
    <2> DEFINE sem == objects.sem[s]
               now == objects'.sem[s]
               su == Successor(t)
               posted == Cardinality(AllRan(Posts(s)))
               left == Cardinality(AllRan(Leaves(s)))
    <2>1. SemMoves(t, s, su, sem, now)
      BY <1>1, SemChange
    <2>2. /\ posted \in Nat
          /\ posted' = IF PendingIn(t, Posts(s)) THEN posted + 1 ELSE posted
      BY <1>1, CountStep
    <2>3. /\ left \in Nat
          /\ left' = IF PendingIn(t, Leaves(s)) THEN left + 1 ELSE left
      BY <1>1, CountStep
    <2>4. /\ sem.waitingQueue \in Seq(Threads)
          /\ sem.count \in Nat
          /\ InitialCount[s] \in Nat
      BY ObjectsAssumption DEF Typed, TypeOK, ObjectStates, SemStates
    <2>5. /\ ~ (PendingIn(t, Posts(s)) /\ PendingIn(t, Queues(s)))
          /\ ~ (PendingIn(t, Posts(s)) /\ PendingIn(t, Leaves(s)))
          /\ ~ (PendingIn(t, Queues(s)) /\ PendingIn(t, Leaves(s)))
      BY DEF PendingIn, Posts, Queues, Leaves, On
    <2>6. CASE su.type = "sem_init" /\ su.obj = s /\ ~ sem.registered
      <3>1. su.type \in InitTypes
        BY <2>6 DEF InitTypes
      <3>2. /\ \A op \in Posts(s) : op.type \notin InitTypes
            /\ \A op \in Queues(s) : op.type \notin InitTypes
            /\ \A op \in Leaves(s) : op.type \notin InitTypes
        BY DEF Posts, Queues, Leaves, On, InitTypes
      <3>3. ~ PendingIn(t, Posts(s)) /\ AllRan(Posts(s)) = {}
        BY <3>1, <3>2, InitialisationAnnounced
      <3>4. ~ PendingIn(t, Queues(s)) /\ \A u \in Threads : Ran(u, Queues(s)) = 0
        BY <3>1, <3>2, InitialisationAnnounced
      <3>5. /\ ~ PendingIn(t, Leaves(s)) /\ AllRan(Leaves(s)) = {}
            /\ \A u \in Threads : Ran(u, Leaves(s)) = 0
        BY <3>1, <3>2, InitialisationAnnounced
      <3>6. \A u \in Threads : ~ Between(u, Queues(s), Leaves(s))'
        BY <1>3, <3>4, <3>5 DEF Between
      <3>7. posted = 0 /\ left = 0
        BY <3>3, <3>5, FS_EmptySet
      <3>8. posted' = 0 /\ left' = 0
        BY <2>2, <2>3, <3>3, <3>5, <3>7
      <3>9. now.count = InitialCount[s] /\ now.waitingQueue = << >>
        BY <2>1, <2>6 DEF SemMoves
      <3> HIDE DEF now, posted, left
      <3>10. OnceEach(now.waitingQueue) /\ ToSet(now.waitingQueue) = {}
        BY <3>9 DEF OnceEach, ToSet
      <3>11. now.count = InitialCount[s] + posted' - left'
        BY <2>4, <3>8, <3>9
      <3> QED BY <3>6, <3>10, <3>11 DEF now, posted, left
    <2>7. CASE ~ (su.type = "sem_init" /\ su.obj = s /\ ~ sem.registered)
      <3>1. sem.registered
        BY <1>4, <2>1, <2>7 DEF SemMoves
      <3>2. /\ OnceEach(sem.waitingQueue)
            /\ sem.count = InitialCount[s] + posted - left
            /\ \A u \in Threads :
                  u \in ToSet(sem.waitingQueue) <=> Between(u, Queues(s), Leaves(s))
        BY <3>1 DEF SemInv, SemaphoresConservePermits, Between
      <3> DEFINE between == {u \in Threads : Between(u, Queues(s), Leaves(s))}
      <3>3. ToSet(sem.waitingQueue) = between
        <4>1. ToSet(sem.waitingQueue) \subseteq Threads
          <5> HIDE DEF sem
          <5> QED BY <2>4 DEF ToSet
        <4> QED BY <3>2, <4>1
      <3> HIDE DEF now, sem, su, posted, left
      <3>4. OnceEach(now.waitingQueue) /\ now.count = InitialCount[s] + posted' - left'
            /\ ToSet(now.waitingQueue) = IF PendingIn(t, Queues(s)) THEN between \cup {t}
                                         ELSE IF PendingIn(t, Leaves(s)) THEN between \ {t}
                                         ELSE between
        <4> HIDE DEF between
        <4>1. CASE PendingIn(t, Posts(s))
          BY <2>1, <2>2, <2>3, <2>4, <2>5, <2>7, <3>2, <3>3, <4>1 DEF SemMoves
        <4>2. CASE PendingIn(t, Queues(s))
          <5>1. now.count = sem.count /\ now.waitingQueue = Append(sem.waitingQueue, t)
            BY <2>1, <2>7, <4>2 DEF SemMoves
          <5>2. t \notin ToSet(sem.waitingQueue)
            BY <1>3, <3>3, <4>2 DEF between
          <5>3. /\ OnceEach(Append(sem.waitingQueue, t))
                /\ ToSet(Append(sem.waitingQueue, t)) = ToSet(sem.waitingQueue) \cup {t}
            BY <2>4, <3>2, <5>2, AppendedOnce
          <5>4. now.count = InitialCount[s] + posted' - left'
            BY <2>2, <2>3, <2>5, <3>2, <4>2, <5>1
          <5> QED BY <3>3, <4>2, <5>1, <5>3, <5>4
        <4>3. CASE PendingIn(t, Leaves(s))
          <5>1. /\ sem.count > 0 /\ now.count = sem.count - 1
                /\ now.waitingQueue = Without(sem.waitingQueue, t)
            BY <2>1, <2>7, <4>3 DEF SemMoves
          <5>2. t \in ToSet(sem.waitingQueue)
            BY <1>3, <3>3, <4>3 DEF between
          <5>3. \E i \in 1 .. Len(sem.waitingQueue) : sem.waitingQueue[i] = t
            BY <2>4, <5>2 DEF ToSet
          <5>4. PICK k \in 1 .. Len(sem.waitingQueue) :
                   /\ sem.waitingQueue[k] = t
                   /\ Without(sem.waitingQueue, t) = RemoveAt(sem.waitingQueue, k)
            BY <2>4, <5>3, WithoutRemoves
          <5>5. /\ OnceEach(RemoveAt(sem.waitingQueue, k))
                /\ ToSet(RemoveAt(sem.waitingQueue, k)) = ToSet(sem.waitingQueue) \ {t}
            BY <2>4, <3>2, <5>4, RemovedOnce
          <5>6. now.count = InitialCount[s] + posted' - left'
            BY <2>2, <2>3, <2>4, <2>5, <3>2, <4>3, <5>1
          <5> QED BY <2>5, <3>3, <4>3, <5>1, <5>4, <5>5, <5>6
        <4>4. CASE ~ (PendingIn(t, Posts(s)) \/ PendingIn(t, Queues(s)) \/ PendingIn(t, Leaves(s)))
          BY <2>1, <2>2, <2>3, <2>7, <3>2, <3>3, <4>4 DEF SemMoves
        <4> QED BY <4>1, <4>2, <4>3, <4>4
      <3>5. ASSUME NEW u \in Threads
            PROVE  u \in ToSet(now.waitingQueue) <=> Between(u, Queues(s), Leaves(s))'
        <4>1. CASE u = t
          BY <1>3, <2>5, <3>4, <4>1
        <4>2. CASE u # t
          BY <1>3, <3>4, <4>2
        <4> QED BY <4>1, <4>2
      <3> QED BY <3>4, <3>5 DEF now, posted, left
    <2> QED BY <2>6, <2>7
  <1>5. SemaphoresConservePermits'
    BY <1>4 DEF SemaphoresConservePermits, Between
  <1> QED BY <1>3, <1>4, <1>5 DEF SemInv, Queues, Leaves, On

-----------------------------------------------------------------------------
(* Reader-writer locks *)

\* What a step of thread t does to those inside a lock: it was lock and is now.
ReadersEnter(t, l, lock, now) ==
    /\ PendingIn(t, Enters(l)) /\ ~ PendingIn(t, Exits(l))
    /\ ~ isWriterLocked(lock)
    /\ now.active_readers = Append(lock.active_readers, t)
    /\ now.active_writer = lock.active_writer

\* A writer enters an empty lock,
WriterEnters(t, l, lock, now, kind) ==
    /\ PendingIn(t, Enters(l)) /\ ~ PendingIn(t, Exits(l))
    /\ isUnlocked(lock)
    /\ now.active_readers = lock.active_readers
    /\ now.active_writer = [lock.active_writer EXCEPT ![kind] = t]
    /\ kind = "writer" => Uses(program, On(MCRWLockTypes, l))

\* a reader leaves,
ReaderLeaves(t, l, lock, now) ==
    /\ PendingIn(t, Exits(l)) /\ ~ PendingIn(t, Enters(l))
    /\ ~ isWriterLocked(lock)
    /\ now.active_readers = IF Contains(lock.active_readers, t)
                            THEN RemoveFirst(lock.active_readers, t) ELSE lock.active_readers
    /\ now.active_writer = lock.active_writer

\* a writer leaves (the second kind of lock looks for writer1 first),
WriterLeaves(t, l, lock, now) ==
    /\ PendingIn(t, Exits(l)) /\ ~ PendingIn(t, Enters(l))
    /\ isWriterLocked(lock)
    /\ now.active_readers = lock.active_readers
    /\ \/ now.active_writer = [k \in Writers |-> Nobody]
       \/ /\ Uses(program, On(MCRWWLockTypes, l))
          /\ now.active_writer =
                [lock.active_writer EXCEPT
                    ![IF lock.active_writer["writer1"] # Nobody THEN "writer1" ELSE "writer2"]
                        = Nobody]

\* or nobody does either.
NobodyMoves(t, l, lock, now) ==
    /\ ~ PendingIn(t, Enters(l)) /\ ~ PendingIn(t, Exits(l))
    /\ now.active_readers = lock.active_readers
    /\ now.active_writer = lock.active_writer

\* One of the five.
LockMoves(t, l, lock, now) ==
    \/ ReadersEnter(t, l, lock, now)
    \/ \E kind \in Writers : WriterEnters(t, l, lock, now, kind)
    \/ ReaderLeaves(t, l, lock, now)
    \/ WriterLeaves(t, l, lock, now)
    \/ NobodyMoves(t, l, lock, now)

\* It is what a step does to a reader-writer lock.
LEMMA LockChange ==
    ASSUME Typed, HasNoLoop(program), NEW t \in Threads, Run(t), NEW l \in RWLocks
    PROVE  LockMoves(t, l, objects.rwlock[l], objects'.rwlock[l])
  <1> DEFINE lock == objects.rwlock[l]
             now == objects'.rwlock[l]
             tr == Pending(t)
             o == applyToState(objects, tr)
  <1>1. Positions /\ objects \in ObjectStates
    BY DEF Typed, TypeOK
  <1>2. tr \in Transitions /\ tr.tid = t
    BY <1>1, PendingType
  <1>3. now = IF tr.type \in MCRWLockTypes /\ tr.obj = l
              THEN RWLockOperation(tr.type, lock, t).applied
              ELSE IF tr.type \in MCRWWLockTypes /\ tr.obj = l
              THEN RWWLockOperation(tr.type, lock, t).applied ELSE lock
    <2>1. o.rwlock[l] = IF tr.type \in MCRWLockTypes /\ tr.obj = l
                        THEN RWLockOperation(tr.type, lock, t).applied
                        ELSE IF tr.type \in MCRWWLockTypes /\ tr.obj = l
                        THEN RWWLockOperation(tr.type, lock, t).applied ELSE lock
      BY <1>1, <1>2, AppliedEffect
    <2>2. /\ o \in ObjectStates /\ objects' = readTransition(o, Successor(t))
          /\ Successor(t) \in Transitions
      BY <1>1, <1>2, AppliedType, SuccessorType
    <2>3. now = o.rwlock[l]
      <3> HIDE DEF o
      <3> QED BY <2>2, AnnouncedEffect
    <2> QED BY <2>1, <2>3
  <1>4. Operation(objects, tr).enabled
    BY <1>1, Advance
  <1>5. /\ PendingIn(t, Enters(l)) <=>
              tr.type \in {"reader_lock", "writer_lock", "rww_reader_lock", "writer1_lock",
                           "writer2_lock"} /\ tr.obj = l
        /\ PendingIn(t, Exits(l)) <=> tr.type \in {"rwlock_unlock", "rwwlock_unlock"} /\ tr.obj = l
    BY <1>1, PendingOn DEF Enters, Exits
  <1>6. /\ tr.type \in MCRWLockTypes /\ tr.obj = l => Uses(program, On(MCRWLockTypes, l))
        /\ tr.type \in MCRWWLockTypes /\ tr.obj = l => Uses(program, On(MCRWWLockTypes, l))
    <2>1. "start" \notin MCRWLockTypes \cup MCRWWLockTypes
          /\ "finish" \notin MCRWLockTypes \cup MCRWWLockTypes
      BY DEF MCRWLockTypes, MCRWWLockTypes
    <2>2. tr.type \in MCRWLockTypes /\ tr.obj = l => PendingIn(t, On(MCRWLockTypes, l))
      BY <1>1, <2>1, PendingOn
    <2>3. tr.type \in MCRWWLockTypes /\ tr.obj = l => PendingIn(t, On(MCRWWLockTypes, l))
      BY <1>1, <2>1, PendingOn
    <2> QED BY <2>2, <2>3 DEF Uses, PendingIn
  <1>7. lock \in RWLockStates
    BY <1>1 DEF ObjectStates
  <1>8. /\ tr.type \in MCRWLockTypes /\ tr.obj = l => RWLockOperation(tr.type, lock, t).enabled
        /\ tr.type \in MCRWWLockTypes /\ tr.obj = l => RWWLockOperation(tr.type, lock, t).enabled
    <2>1. tr.type \in MCRWLockTypes /\ tr.obj = l =>
             Operation(objects, tr) = RWLockOperation(tr.type, lock, t)
      BY <1>2, OneFamilyOnly DEF Operation
    <2>2. tr.type \in MCRWWLockTypes /\ tr.obj = l =>
             Operation(objects, tr) = RWWLockOperation(tr.type, lock, t)
      BY <1>2, OneFamilyOnly DEF Operation
    <2> QED BY <1>4, <2>1, <2>2
  <1> HIDE DEF lock, now, tr, o
  <1>9. CASE ~ (tr.type \in MCRWLockTypes \cup MCRWWLockTypes /\ tr.obj = l)
    BY <1>3, <1>5, <1>9 DEF MCRWLockTypes, MCRWWLockTypes, LockMoves, NobodyMoves, lock, now
  <1>10. CASE tr.obj = l /\ tr.type \in {"rwlock_init", "reader_enqueue", "writer_enqueue"}
    <2>1. now \in {lock, EnqueueAs(lock, "reader", t), EnqueueAs(lock, "writer", t)}
      BY <1>3, <1>10 DEF MCRWLockTypes, RWLockOperation, MCRWLockInit, MCRWLockReaderEnqueue,
         MCRWLockWriterEnqueue
    <2> QED BY <1>5, <1>7, <1>10, <2>1 DEF EnqueueAs, RWLockStates, LockMoves, NobodyMoves,
               lock, now
  <1>11. CASE tr.obj = l /\ tr.type \in {"rwwlock_init", "rww_reader_enqueue", "writer1_enqueue",
                                        "writer2_enqueue"}
    <2>1. now \in {lock, EnqueueAs(lock, "reader", t), EnqueueAs(lock, "writer1", t),
                  EnqueueAs(lock, "writer2", t)}
      BY <1>3, <1>11 DEF MCRWLockTypes, MCRWWLockTypes, RWWLockOperation, MCRWWLockInit,
         MCRWWLockReaderEnqueue, MCRWWLockWriter1Enqueue, MCRWWLockWriter2Enqueue
    <2> QED BY <1>5, <1>7, <1>11, <2>1 DEF EnqueueAs, RWLockStates, LockMoves, NobodyMoves,
               lock, now
  <1>12. CASE tr.obj = l /\ tr.type \in {"reader_lock", "rww_reader_lock"}
    <2>1. now = LockAsReader(lock, t) /\ ~ isWriterLocked(lock)
      BY <1>3, <1>8, <1>12 DEF MCRWLockTypes, MCRWWLockTypes, RWLockOperation, RWWLockOperation,
         MCRWLockReaderLock, MCRWWLockReaderLock, canAcquireAsReader
    <2>2. /\ now.active_readers = Append(lock.active_readers, t)
          /\ now.active_writer = lock.active_writer
      BY <1>7, <2>1 DEF LockAsReader, Dequeued, RWLockStates
    <2> QED BY <1>5, <1>12, <2>1, <2>2 DEF LockMoves, ReadersEnter, lock, now
  <1>13. ASSUME tr.obj = l, NEW kind \in Writers,
                now = LockAsWriter(lock, kind, t), isUnlocked(lock),
                tr.type \in {"writer_lock", "writer1_lock", "writer2_lock"},
                kind = "writer" => tr.type = "writer_lock"
         PROVE  LockMoves(t, l, lock, now)
    <2>1. /\ now.active_readers = lock.active_readers
          /\ now.active_writer = [lock.active_writer EXCEPT ![kind] = t]
      BY <1>7, <1>13 DEF LockAsWriter, Dequeued, RWLockStates
    <2>2. kind = "writer" => Uses(program, On(MCRWLockTypes, l))
      BY <1>6, <1>13 DEF MCRWLockTypes
    <2>3. WriterEnters(t, l, lock, now, kind)
      BY <1>5, <1>13, <2>1, <2>2 DEF WriterEnters
    <2> QED BY <2>3 DEF LockMoves
  <1>14. CASE tr.obj = l /\ tr.type = "writer_lock"
    <2>1. now = LockAsWriter(lock, "writer", t) /\ isUnlocked(lock)
      BY <1>3, <1>8, <1>14 DEF MCRWLockTypes, RWLockOperation, MCRWLockWriterLock,
         canAcquireAsWriter
    <2> QED BY <1>13, <1>14, <2>1 DEF Writers, lock, now
  <1>15. CASE tr.obj = l /\ tr.type = "writer1_lock"
    <2>1. now = LockAsWriter(lock, "writer1", t) /\ isUnlocked(lock)
      BY <1>3, <1>8, <1>15 DEF MCRWLockTypes, MCRWWLockTypes, RWWLockOperation,
         MCRWWLockWriter1Lock, canAcquireAsWriter
    <2> QED BY <1>13, <1>15, <2>1 DEF Writers, lock, now
  <1>16. CASE tr.obj = l /\ tr.type = "writer2_lock"
    <2>1. now = LockAsWriter(lock, "writer2", t) /\ isUnlocked(lock)
      BY <1>3, <1>8, <1>16 DEF MCRWLockTypes, MCRWWLockTypes, RWWLockOperation,
         MCRWWLockWriter2Lock, canAcquireAsWriter
    <2> QED BY <1>13, <1>16, <2>1 DEF Writers, lock, now
  <1>17. CASE tr.obj = l /\ tr.type \in {"rwlock_unlock", "rwwlock_unlock"}
    <2>1. \/ now = ReleaseRWLock(lock, t)
          \/ tr.type = "rwwlock_unlock" /\ now = ReleaseRWWLock(lock, t)
      BY <1>3, <1>17 DEF MCRWLockTypes, MCRWWLockTypes, RWLockOperation, RWWLockOperation,
         MCRWLockUnlock, MCRWWLockUnlock
    <2>2. PendingIn(t, Exits(l)) /\ ~ PendingIn(t, Enters(l))
      BY <1>5, <1>17
    <2>3. CASE ~ isWriterLocked(lock)
      <3>1. now = ReleaseRWLock(lock, t)
        BY <2>1, <2>3 DEF ReleaseRWWLock
      <3> QED BY <1>7, <2>2, <2>3, <3>1 DEF ReleaseRWLock, RWLockStates, LockMoves,
                 ReaderLeaves,
           lock, now
    <2>4. CASE isWriterLocked(lock)
      <3>1. tr.type = "rwwlock_unlock" => Uses(program, On(MCRWWLockTypes, l))
        BY <1>6, <1>17 DEF MCRWWLockTypes
      <3>2. \/ now = [lock EXCEPT !.active_writer = [k \in Writers |-> Nobody]]
            \/ /\ tr.type = "rwwlock_unlock"
               /\ now = [lock EXCEPT !.active_writer
                            [IF lock.active_writer["writer1"] # Nobody THEN "writer1" ELSE "writer2"]
                               = Nobody]
        BY <2>1, <2>4 DEF ReleaseRWLock, ReleaseRWWLock
      <3>3. WriterLeaves(t, l, lock, now)
        BY <1>7, <2>2, <2>4, <3>1, <3>2 DEF RWLockStates, WriterLeaves
      <3> QED BY <3>3 DEF LockMoves, lock, now
    <2> QED BY <2>3, <2>4
  <1>18. tr.type \in MCRWLockTypes \cup MCRWWLockTypes =>
            tr.type \in {"rwlock_init", "reader_enqueue", "writer_enqueue", "rwwlock_init",
                         "rww_reader_enqueue", "writer1_enqueue", "writer2_enqueue", "reader_lock",
                         "rww_reader_lock", "writer_lock", "writer1_lock", "writer2_lock",
                         "rwlock_unlock", "rwwlock_unlock"}
    BY DEF MCRWLockTypes, MCRWWLockTypes
  <1> QED BY <1>9, <1>10, <1>11, <1>12, <1>14, <1>15, <1>16, <1>17, <1>18

\* Who is inside, as the shadow lock has it; writers are alone.
LockIsRight(lock, in) ==
    /\ OnceEach(lock.active_readers)
    /\ in = ToSet(lock.active_readers) \cup ({lock.active_writer[k] : k \in Writers} \ {Nobody})
    /\ \A j \in Writers : lock.active_writer[j] # Nobody =>
          /\ lock.active_readers = << >>
          /\ \A k \in Writers : lock.active_writer[k] # Nobody => j = k

\* The threads inside, as their operations tell.
In(l) == {t \in Threads : Between(t, Enters(l), Exits(l))}

\* The inductive invariant of the reader-writer locks.
LockInv ==
    \A l \in RWLocks :
       /\ InTurnsSoFar(Enters(l), Exits(l))
       /\ LockIsRight(objects.rwlock[l], In(l))
       /\ objects.rwlock[l].active_writer["writer"] # Nobody =>
             Uses(program, On(MCRWLockTypes, l))

\* It holds at first,
LEMMA LockInit == Init => LockInv
  <1> SUFFICES ASSUME Init, NEW l \in RWLocks
               PROVE  /\ InTurnsSoFar(Enters(l), Exits(l))
                      /\ LockIsRight(objects.rwlock[l], In(l))
                      /\ objects.rwlock[l].active_writer["writer"] = Nobody
    BY DEF LockInv
  <1> DEFINE lock == objects.rwlock[l]
  <1>1. InTurnsSoFar(Enters(l), Exits(l)) /\ In(l) = {}
    BY TurnsInit DEF In
  <1>2. lock.active_readers = << >> /\ lock.active_writer = [k \in Writers |-> Nobody]
    BY DEF Init, NoObjects, NewRWLock
  <1> HIDE DEF lock
  <1>3. OnceEach(lock.active_readers) /\ ToSet(lock.active_readers) = {}
    BY <1>2 DEF OnceEach, ToSet
  <1>4. \A k \in Writers : lock.active_writer[k] = Nobody
    BY <1>2
  <1> QED BY <1>1, <1>3, <1>4 DEF LockIsRight, Writers, lock

\* Writers are alone for one more step: who enters as a writer finds nobody inside, and
\* who leaves is inside.
LEMMA LockIsRightStep ==
    ASSUME NEW lock \in RWLockStates, NEW now, NEW in, NEW inNow, NEW t \in Threads, NEW l,
           LockMoves(t, l, lock, now), LockIsRight(lock, in),
           PendingIn(t, Enters(l)) => t \notin in /\ inNow = in \cup {t},
           PendingIn(t, Exits(l)) => t \in in /\ inNow = in \ {t},
           ~ PendingIn(t, Enters(l)) /\ ~ PendingIn(t, Exits(l)) => inNow = in,
           lock.active_writer["writer"] # Nobody => Uses(program, On(MCRWLockTypes, l)),
           ~ Uses(program, On(MCRWLockTypes, l)) \/ ~ Uses(program, On(MCRWWLockTypes, l))
    PROVE  /\ LockIsRight(now, inNow)
           /\ now.active_writer["writer"] # Nobody => Uses(program, On(MCRWLockTypes, l))
  <1> DEFINE readers == lock.active_readers
             writer == lock.active_writer
  <1>1. readers \in Seq(Threads) /\ writer \in [Writers -> Threads \cup {Nobody}]
    BY DEF RWLockStates
  <1>2. t # Nobody
    BY ObjectsAssumption
  <1>3. /\ OnceEach(readers)
        /\ in = ToSet(readers) \cup ({writer[k] : k \in Writers} \ {Nobody})
        /\ \A j \in Writers : writer[j] # Nobody =>
              /\ readers = << >>
              /\ \A k \in Writers : writer[k] # Nobody => j = k
    BY DEF LockIsRight
  <1>4. ToSet(<< >>) = {}
    BY DEF ToSet
  <1>5. CASE ReadersEnter(t, l, lock, now)
    <2>1. /\ now.active_readers = Append(readers, t) /\ now.active_writer = writer
          /\ \A k \in Writers : writer[k] = Nobody
          /\ t \notin in /\ inNow = in \cup {t}
      BY <1>5 DEF ReadersEnter, isWriterLocked
    <2>2. OnceEach(Append(readers, t)) /\ ToSet(Append(readers, t)) = ToSet(readers) \cup {t}
      BY <1>1, <1>3, <2>1, AppendedOnce
    <2> HIDE DEF readers, writer
    <2> QED BY <1>3, <2>1, <2>2 DEF LockIsRight, Writers
  <1>6. ASSUME NEW kind \in Writers, WriterEnters(t, l, lock, now, kind)
        PROVE  /\ LockIsRight(now, inNow)
               /\ now.active_writer["writer"] # Nobody => Uses(program, On(MCRWLockTypes, l))
    <2>1. /\ now.active_readers = readers /\ readers = << >>
          /\ now.active_writer = [writer EXCEPT ![kind] = t]
          /\ \A k \in Writers : writer[k] = Nobody
          /\ inNow = in \cup {t}
      BY <1>6 DEF WriterEnters, isUnlocked, isWriterLocked, isReaderLocked
    <2>2. \A k \in Writers : now.active_writer[k] = IF k = kind THEN t ELSE Nobody
      BY <1>1, <2>1
    <2>3. in = {}
      BY <1>3, <1>4, <2>1
    <2>4. {now.active_writer[k] : k \in Writers} \ {Nobody} = {t}
      BY <1>2, <1>6, <2>2
    <2>5. LockIsRight(now, inNow)
      <3> HIDE DEF readers, writer
      <3> QED BY <1>2, <1>3, <1>4, <2>1, <2>2, <2>3, <2>4 DEF LockIsRight
    <2>6. now.active_writer["writer"] # Nobody => kind = "writer"
      BY <2>2 DEF Writers
    <2> QED BY <1>6, <2>5, <2>6 DEF WriterEnters
  <1>7. CASE ReaderLeaves(t, l, lock, now)
    <2>1. /\ now.active_writer = writer
          /\ \A k \in Writers : writer[k] = Nobody
          /\ t \in in /\ inNow = in \ {t}
      BY <1>7 DEF ReaderLeaves, isWriterLocked
    <2>2. t \in ToSet(readers)
      <3> HIDE DEF readers, writer
      <3> QED BY <1>3, <2>1
    <2>3. \E i \in 1 .. Len(readers) : readers[i] = t
      BY <1>1, <2>2 DEF ToSet
    <2>4. now.active_readers = RemoveFirst(readers, t)
      BY <1>7, <2>3 DEF ReaderLeaves, Contains
    <2>5. PICK k \in 1 .. Len(readers) :
             readers[k] = t /\ RemoveFirst(readers, t) = RemoveAt(readers, k)
      BY <1>1, <2>3, RemoveFirstRemoves
    <2>6. /\ OnceEach(RemoveAt(readers, k))
          /\ ToSet(RemoveAt(readers, k)) = ToSet(readers) \ {t}
      BY <1>1, <1>3, <2>5, RemovedOnce
    <2> HIDE DEF readers, writer
    <2> QED BY <1>3, <2>1, <2>4, <2>5, <2>6 DEF LockIsRight, Writers
  <1>8. CASE WriterLeaves(t, l, lock, now)
    <2>1. /\ now.active_readers = readers
          /\ \E k \in Writers : writer[k] # Nobody
          /\ t \in in /\ inNow = in \ {t}
          /\ \/ now.active_writer = [k \in Writers |-> Nobody]
             \/ /\ Uses(program, On(MCRWWLockTypes, l))
                /\ now.active_writer =
                      [writer EXCEPT ![IF writer["writer1"] # Nobody THEN "writer1" ELSE "writer2"]
                                         = Nobody]
      BY <1>8 DEF WriterLeaves, isWriterLocked
    <2>2. PICK j \in Writers : writer[j] # Nobody
      BY <2>1
    <2>3. readers = << >> /\ \A k \in Writers : writer[k] # Nobody => k = j
      <3> HIDE DEF readers, writer
      <3> QED BY <1>3, <2>2
    <2>4. inNow = {} /\ ToSet(readers) = {}
      <3> HIDE DEF readers, writer
      <3>1. in = {writer[j]}
        BY <1>3, <1>4, <2>2, <2>3
      <3> QED BY <1>4, <2>1, <2>3, <3>1
    <2>5. \A k \in Writers : now.active_writer[k] = Nobody
      <3>1. CASE now.active_writer = [k \in Writers |-> Nobody]
        BY <3>1
      <3>2. CASE /\ Uses(program, On(MCRWWLockTypes, l))
                 /\ now.active_writer =
                       [writer EXCEPT ![IF writer["writer1"] # Nobody THEN "writer1" ELSE "writer2"]
                                          = Nobody]
        <4>1. writer["writer"] = Nobody
          BY <3>2
        <4> HIDE DEF readers, writer
        <4> QED BY <1>1, <2>3, <3>2, <4>1 DEF Writers
      <3> QED BY <2>1, <3>1, <3>2
    <2> HIDE DEF readers, writer
    <2> QED BY <1>3, <2>1, <2>4, <2>5 DEF LockIsRight, Writers
  <1>9. CASE NobodyMoves(t, l, lock, now)
    BY <1>9 DEF NobodyMoves, LockIsRight
  <1> QED BY <1>5, <1>6, <1>7, <1>8, <1>9 DEF LockMoves

\* and after every step,
LEMMA LockStep ==
    ASSUME Typed, KeepsTheRules(program), LockInv, NEW t \in Threads, Run(t)
    PROVE  LockInv'
  <1>1. Positions /\ HasNoLoop(program) /\ EntersInTurns(program) /\ KeepsToOneKind(program)
    BY DEF Typed, KeepsTheRules
  <1>2. program' = program
    BY <1>1, Advance
  <1>3. ASSUME NEW l \in RWLocks
        PROVE  /\ InTurnsSoFar(Enters(l), Exits(l))'
               /\ LockIsRight(objects'.rwlock[l], In(l)')
               /\ objects'.rwlock[l].active_writer["writer"] # Nobody =>
                     Uses(program, On(MCRWLockTypes, l))
    <2>1. InTurns(program, Enters(l), Exits(l)) /\ InTurnsSoFar(Enters(l), Exits(l))
      BY <1>1 DEF EntersInTurns, LockInv
    <2>2. Enters(l) \cap Exits(l) = {}
      BY DEF Enters, Exits, On
    <2>3. /\ InTurnsSoFar(Enters(l), Exits(l))'
          /\ \A u \in Threads \ {t} :
                Between(u, Enters(l), Exits(l))' <=> Between(u, Enters(l), Exits(l))
          /\ PendingIn(t, Enters(l)) =>
                ~ Between(t, Enters(l), Exits(l)) /\ Between(t, Enters(l), Exits(l))'
          /\ PendingIn(t, Exits(l)) =>
                Between(t, Enters(l), Exits(l)) /\ ~ Between(t, Enters(l), Exits(l))'
          /\ ~ PendingIn(t, Enters(l)) /\ ~ PendingIn(t, Exits(l)) =>
                (Between(t, Enters(l), Exits(l))' <=> Between(t, Enters(l), Exits(l)))
      BY <1>1, <2>1, <2>2, TurnsStep
    <2>4. /\ PendingIn(t, Enters(l)) => t \notin In(l) /\ In(l)' = In(l) \cup {t}
          /\ PendingIn(t, Exits(l)) => t \in In(l) /\ In(l)' = In(l) \ {t}
          /\ ~ PendingIn(t, Enters(l)) /\ ~ PendingIn(t, Exits(l)) => In(l)' = In(l)
      BY <2>3 DEF In
    <2>5. objects.rwlock[l] \in RWLockStates
      BY DEF Typed, TypeOK, ObjectStates
    <2>6. LockMoves(t, l, objects.rwlock[l], objects'.rwlock[l])
      BY <1>1, LockChange
    <2>7. /\ LockIsRight(objects.rwlock[l], In(l))
          /\ objects.rwlock[l].active_writer["writer"] # Nobody =>
                Uses(program, On(MCRWLockTypes, l))
          /\ ~ Uses(program, On(MCRWLockTypes, l)) \/ ~ Uses(program, On(MCRWWLockTypes, l))
      BY <1>1 DEF LockInv, KeepsToOneKind
    <2>8. /\ LockIsRight(objects'.rwlock[l], In(l)')
          /\ objects'.rwlock[l].active_writer["writer"] # Nobody =>
                Uses(program, On(MCRWLockTypes, l))
      BY <2>4, <2>5, <2>6, <2>7, LockIsRightStep
    <2> QED BY <2>3, <2>8
  <1> QED BY <1>2, <1>3 DEF LockInv, Enters, Exits, On, Uses

\* and says in particular that writers are alone.
LEMMA WritersFollow == LockInv => WritersAreAlone
  <1> SUFFICES ASSUME LockInv, NEW l \in RWLocks
               PROVE  LET lock == objects.rwlock[l]
                          in == {t \in Threads : Inside(t, l)}
                      IN  /\ in = ToSet(lock.active_readers)
                                   \cup ({lock.active_writer[k] : k \in Writers} \ {Nobody})
                          /\ isWriterLocked(lock) => Cardinality(in) = 1 /\ ~ isReaderLocked(lock)
    BY DEF WritersAreAlone
  <1> DEFINE lock == objects.rwlock[l]
             in == {t \in Threads : Inside(t, l)}
  <1>1. in = In(l)
    BY DEF Inside, In, Between
  <1>2. LockIsRight(lock, in)
    BY <1>1 DEF LockInv
  <1>3. ASSUME isWriterLocked(lock)
        PROVE  Cardinality(in) = 1 /\ ~ isReaderLocked(lock)
    <2>1. PICK j \in Writers : lock.active_writer[j] # Nobody
      BY <1>3 DEF isWriterLocked
    <2> HIDE DEF lock, in
    <2>2. lock.active_readers = << >>
          /\ \A k \in Writers : lock.active_writer[k] # Nobody => k = j
      BY <1>2, <2>1 DEF LockIsRight
    <2>3. ToSet(lock.active_readers) = {}
      BY <2>2 DEF ToSet
    <2>4. in = {lock.active_writer[j]}
      BY <1>2, <2>1, <2>2, <2>3 DEF LockIsRight
    <2> QED BY <2>2, <2>4, FS_Singleton DEF isReaderLocked
  <1> QED BY <1>2, <1>3 DEF LockIsRight

-----------------------------------------------------------------------------
(* Barriers *)

\* The operation a thread announces is the one it then waits at.
LEMMA SuccessorOn ==
    ASSUME Positions, HasNoLoop(program), NEW t \in Threads, Run(t), NEW types, NEW x,
           "start" \notin types, "finish" \notin types
    PROVE  PendingIn(t, On(types, x))' <=> Successor(t).type \in types /\ Successor(t).obj = x
  <1>1. program' = program /\ program \in Programs
    BY Advance
  <1>2. Successor(t) = TransitionAt(program, t, pos'[t])
    BY SuccessorType DEF Successor
  <1>3. /\ pos'[t] \in Nat
        /\ pos'[t] \in DOMAIN program[t] => program[t][pos'[t]].type # "repeat"
    BY <1>1, PositionsStep DEF Positions
  <1>4. /\ pos'[t] \in DOMAIN program[t] =>
              /\ Successor(t).type = program[t][pos'[t]].type
              /\ Successor(t).obj = program[t][pos'[t]].obj
              /\ program[t][pos'[t]] \in Operations
        /\ pos'[t] \notin DOMAIN program[t] => Successor(t).type \in {"start", "finish"}
    BY <1>1, <1>2, <1>3, TransitionType
  <1>5. PendingIn(t, On(types, x))'
           <=> pos'[t] \in DOMAIN program[t] /\ program[t][pos'[t]] \in On(types, x)
    BY <1>1 DEF PendingIn, On
  <1> QED BY <1>4, <1>5, OperationOn

\* Those that have come to a barrier, and those that are there.
Came(b) == {t \in Threads : Ran(t, Meets(b)) > 0 \/ PendingIn(t, Meets(b))}
\* The threads that are at barrier b now.
There(b) == {t \in Threads : PendingIn(t, Meets(b))}

\* Only those that came are counted, all that are there are, and nobody passes (met) or
\* finds the second parity before enough have come to the first.
BarrierIsRight(bar, came, there, met, count) ==
    /\ bar.odd \cup bar.even \subseteq came
    /\ there \subseteq bar.odd \cup bar.even
    /\ bar.isEven \/ bar.even # {} \/ met => count <= Cardinality(bar.odd)

\* The inductive invariant of the barriers.
BarrierInv ==
    \A b \in Barriers :
       BarrierIsRight(objects.barrier[b], Came(b), There(b), AllRan(Meets(b)) # {},
                      BarrierCount[b])

\* There are finitely many threads.
LEMMA ThreadsAreFinite ==
    ASSUME NEW S \in SUBSET Threads
    PROVE  IsFiniteSet(S) /\ Cardinality(S) \in Nat
  <1>1. IsFiniteSet(Threads)
    BY LastThreadAssumption, FS_Interval DEF Threads
  <1> QED BY <1>1, FS_Subset, FS_CardinalityType

\* What the entry of one more thread does (MCBarrier::wait).
LEMMA Entered ==
    ASSUME NEW bar \in BarrierStates, NEW t \in Threads, NEW count \in Nat
    PROVE  LET now == EnterBarrier(bar, t, count)
           IN  /\ now.odd \cup now.even = bar.odd \cup bar.even \cup {t}
               /\ bar.odd \subseteq now.odd /\ now.odd \subseteq Threads
               /\ now.isEven \/ now.even # {} =>
                     bar.isEven \/ bar.even # {} \/ Cardinality(now.odd) = count
  BY DEF BarrierStates, EnterBarrier, isWaitingOnBarrier, waitingSetForParity

\* What a step does to a barrier: a thread enters when it announces the wait, and passes
\* only if it need not wait.
LEMMA BarrierChange ==
    ASSUME Typed, HasNoLoop(program), NEW t \in Threads, Run(t), NEW b \in Barriers
    PROVE  /\ IF PendingIn(t, Meets(b))'
              THEN objects'.barrier[b] = EnterBarrier(objects.barrier[b], t, BarrierCount[b])
              ELSE /\ objects'.barrier[b].odd = objects.barrier[b].odd
                   /\ objects'.barrier[b].even = objects.barrier[b].even
                   /\ objects'.barrier[b].isEven = objects.barrier[b].isEven
           /\ PendingIn(t, Meets(b)) =>
                 ~ wouldBlockIfWaitedOn(objects.barrier[b], t, BarrierCount[b])
  <1> DEFINE bar == objects.barrier[b]
             now == objects'.barrier[b]
             tr == Pending(t)
             su == Successor(t)
             o == applyToState(objects, tr)
  <1>1. Positions /\ objects \in ObjectStates
    BY DEF Typed, TypeOK
  <1>2. /\ tr \in Transitions /\ tr.tid = t
        /\ su \in Transitions /\ su.tid = t
    BY <1>1, PendingType, SuccessorType
  <1>3. o.barrier[b] = bar
    BY <1>1, <1>2, AppliedEffect
  <1>4. now = IF su.type \in BarrierOperationTypes /\ su.obj = b
              THEN BarrierOperation(su.type, bar, t, BarrierCount[b]).announced
              ELSE bar
    <2>1. o \in ObjectStates /\ objects' = readTransition(o, su)
      BY <1>1, <1>2, AppliedType, SuccessorType
    <2> HIDE DEF o, su
    <2> QED BY <1>2, <1>3, <2>1, AnnouncedEffect
  <1>5. bar \in BarrierStates
    BY <1>1 DEF ObjectStates
  <1>6. PendingIn(t, Meets(b))' <=> su.type = "barrier_wait" /\ su.obj = b
    BY <1>1, SuccessorOn DEF Meets
  <1>7. PendingIn(t, Meets(b)) => ~ wouldBlockIfWaitedOn(bar, t, BarrierCount[b])
    <2> SUFFICES ASSUME PendingIn(t, Meets(b))
                 PROVE  ~ wouldBlockIfWaitedOn(bar, t, BarrierCount[b])
      OBVIOUS
    <2>1. tr.type = "barrier_wait" /\ tr.obj = b
      BY <1>1, PendingOn DEF Meets
    <2>2. Operation(objects, tr) = BarrierOperation("barrier_wait", bar, t, BarrierCount[b])
      BY <1>2, <2>1, OneFamilyOnly DEF Operation, BarrierOperationTypes
    <2>3. Operation(objects, tr).enabled
      BY <1>1, Advance
    <2>4. BarrierOperation("barrier_wait", bar, t, BarrierCount[b])
             = MCBarrierWait(bar, t, BarrierCount[b])
      BY DEF BarrierOperation
    <2>5. MCBarrierWait(bar, t, BarrierCount[b]).enabled
      BY <2>2, <2>3, <2>4
    <2> HIDE DEF tr, bar
    <2> QED BY <2>5 DEF MCBarrierWait, wouldBlockIfWaitedOn, isWaitingOnBarrier,
         waitingSetForParity
  <1> HIDE DEF bar, now, tr, su, o
  <1>8. CASE su.type = "barrier_wait" /\ su.obj = b
    <2>1. now = EnterBarrier(bar, t, BarrierCount[b])
      BY <1>4, <1>8 DEF BarrierOperationTypes, BarrierOperation, MCBarrierWait
    <2> QED BY <1>6, <1>7, <1>8, <2>1 DEF bar, now
  <1>9. CASE ~ (su.type = "barrier_wait" /\ su.obj = b)
    <2>1. now.odd = bar.odd /\ now.even = bar.even /\ now.isEven = bar.isEven
      BY <1>4, <1>5, <1>9 DEF BarrierOperationTypes, BarrierOperation, MCBarrierInit,
         BarrierStates
    <2> QED BY <1>6, <1>7, <1>9, <2>1 DEF bar, now
  <1> QED BY <1>8, <1>9

\* It holds at first.
LEMMA BarrierInit == Init => BarrierInv
  <1> SUFFICES ASSUME Init, NEW b \in Barriers
               PROVE  BarrierIsRight(objects.barrier[b], Came(b), There(b),
                                     AllRan(Meets(b)) # {}, BarrierCount[b])
    BY DEF BarrierInv
  <1>1. \A t \in Threads : pos[t] = 0 /\ program[t] \in Seq(Operations)
    BY ProgramsAssumption DEF Init
  <1>2. \A t \in Threads : \A p \in DOMAIN program[t] : p > 0
    BY <1>1
  <1>3. There(b) = {}
    BY <1>1, <1>2 DEF There, PendingIn
  <1>4. AllRan(Meets(b)) = {}
    BY <1>1, <1>2 DEF AllRan
  <1>5. objects.barrier[b] = NewBarrier(FALSE)
    BY DEF Init, NoObjects
  <1> QED BY <1>3, <1>4, <1>5 DEF BarrierIsRight, NewBarrier

\* A barrier holds for one more step.
LEMMA BarrierStep ==
    ASSUME Typed, HasNoLoop(program), BarrierInv, NEW t \in Threads, Run(t)
    PROVE  BarrierInv'
  <1>1. Positions
    BY DEF Typed
  <1>2. ASSUME NEW b \in Barriers
        PROVE  BarrierIsRight(objects'.barrier[b], Came(b)', There(b)',
                              (AllRan(Meets(b)) # {})', BarrierCount[b])
    <2> DEFINE bar == objects.barrier[b]
               now == objects'.barrier[b]
               count == BarrierCount[b]
    <2>1. /\ bar \in BarrierStates
          /\ count \in Nat
      BY ObjectsAssumption DEF Typed, TypeOK, ObjectStates
    <2>2. /\ bar.odd \cup bar.even \subseteq Came(b)
          /\ There(b) \subseteq bar.odd \cup bar.even
          /\ bar.isEven \/ bar.even # {} \/ AllRan(Meets(b)) # {} =>
                count <= Cardinality(bar.odd)
      BY DEF BarrierInv, BarrierIsRight
    <2>3. /\ IF PendingIn(t, Meets(b))' THEN now = EnterBarrier(bar, t, count)
             ELSE now.odd = bar.odd /\ now.even = bar.even /\ now.isEven = bar.isEven
          /\ PendingIn(t, Meets(b)) => ~ wouldBlockIfWaitedOn(bar, t, count)
      BY <1>1, BarrierChange
    <2>4. /\ \A u \in Threads : Ran(u, Meets(b)) \in Nat
          /\ \A u \in Threads \ {t} : Ran(u, Meets(b))' = Ran(u, Meets(b))
          /\ Ran(t, Meets(b))' = IF PendingIn(t, Meets(b)) THEN Ran(t, Meets(b)) + 1
                                 ELSE Ran(t, Meets(b))
          /\ ~ PendingIn(t, Meets(b)) => AllRan(Meets(b))' = AllRan(Meets(b))
      BY <1>1, RanStep
    <2>5. \A u \in Threads \ {t} : PendingIn(u, Meets(b))' <=> PendingIn(u, Meets(b))
      BY <1>1, Advance DEF PendingIn, Meets, On
    <2>6. Came(b) \subseteq Came(b)'
      BY <2>4, <2>5 DEF Came
    <2>7. /\ There(b)' \subseteq There(b) \cup {t}
          /\ PendingIn(t, Meets(b))' => t \in Came(b)'
          /\ t \in There(b)' => PendingIn(t, Meets(b))'
      BY <2>5 DEF There, Came
    <2> HIDE DEF bar, now, count
    <2>8. PendingIn(t, Meets(b)) => count <= Cardinality(bar.odd)
      <3> SUFFICES ASSUME PendingIn(t, Meets(b)) PROVE count <= Cardinality(bar.odd)
        OBVIOUS
      <3>1. t \in bar.odd \cup bar.even
        BY <2>2 DEF There
      <3>2. Cardinality(bar.odd) \in Nat
        BY <2>1, ThreadsAreFinite DEF BarrierStates
      <3>3. \/ bar.isEven
            \/ bar.even # {}
            \/ ~ bar.isEven /\ ~ (Cardinality(bar.odd) < count)
        <4>1. bar.isEven \in BOOLEAN
          BY <2>1 DEF BarrierStates
        <4>2. ~ wouldBlockIfWaitedOn(bar, t, count)
          BY <2>3
        <4>3. CASE bar.isEven
          BY <4>3
        <4>4. CASE ~ bar.isEven /\ t \notin bar.even
          <5>1. (t \in bar.even) = bar.isEven
            BY <4>1, <4>4
          <5>2. waitingSetForParity(bar) = bar.odd
            BY <4>4 DEF waitingSetForParity
          <5> QED BY <4>2, <4>4, <5>1, <5>2 DEF wouldBlockIfWaitedOn
        <4> QED BY <4>3, <4>4
      <3> QED BY <2>1, <2>2, <3>2, <3>3
    <2>9. bar.isEven \/ bar.even # {} \/ (AllRan(Meets(b)) # {})' => count <= Cardinality(bar.odd)
      BY <2>2, <2>4, <2>8
    <2>10. CASE PendingIn(t, Meets(b))'
      <3>1. /\ now.odd \cup now.even = bar.odd \cup bar.even \cup {t}
            /\ bar.odd \subseteq now.odd /\ now.odd \subseteq Threads
            /\ now.isEven \/ now.even # {} =>
                  bar.isEven \/ bar.even # {} \/ Cardinality(now.odd) = count
        BY <2>1, <2>3, <2>10, Entered
      <3>2. /\ Cardinality(bar.odd) \in Nat /\ Cardinality(now.odd) \in Nat
            /\ Cardinality(bar.odd) <= Cardinality(now.odd)
        <4>1. IsFiniteSet(now.odd) /\ Cardinality(now.odd) \in Nat
          BY <3>1, ThreadsAreFinite
        <4> QED BY <3>1, <4>1, FS_Subset, FS_CardinalityType
      <3>3. now.isEven \/ now.even # {} \/ (AllRan(Meets(b)) # {})' =>
               count <= Cardinality(now.odd)
        BY <2>1, <2>9, <3>1, <3>2
      <3> QED BY <2>2, <2>6, <2>7, <2>10, <3>1, <3>3 DEF BarrierIsRight, now, count
    <2>11. CASE ~ PendingIn(t, Meets(b))'
      BY <2>2, <2>3, <2>6, <2>7, <2>9, <2>11 DEF BarrierIsRight, now, count
    <2> QED BY <2>10, <2>11
  <1> QED BY <1>2 DEF BarrierInv

\* It says in particular that barriers hold.
LEMMA BarriersFollow == Typed /\ ThreadsAreCreated /\ BarrierInv => BarrierHolds
  <1> SUFFICES ASSUME Typed, ThreadsAreCreated, BarrierInv, NEW b \in Barriers,
                      AllRan(Meets(b)) # {}
               PROVE  BarrierCount[b] <=
                         Cardinality({t \in Threads : \/ Ran(t, Meets(b)) > 0
                                                      \/ Known(t) /\ Pending(t).obj = b
                                                           /\ Pending(t).type = "barrier_wait"})
    BY DEF BarrierHolds
  <1> DEFINE counted == {t \in Threads : \/ Ran(t, Meets(b)) > 0
                                         \/ Known(t) /\ Pending(t).obj = b
                                              /\ Pending(t).type = "barrier_wait"}
             odd == objects.barrier[b].odd
  <1>1. odd \subseteq Came(b) /\ BarrierCount[b] <= Cardinality(odd)
    BY DEF BarrierInv, BarrierIsRight
  <1>2. Came(b) \subseteq counted
    <2> SUFFICES ASSUME NEW t \in Threads, PendingIn(t, Meets(b))
                 PROVE  Known(t) /\ Pending(t).obj = b /\ Pending(t).type = "barrier_wait"
      BY DEF Came
    <2>1. Positions
      BY DEF Typed
    <2>2. Pending(t).obj = b /\ Pending(t).type = "barrier_wait"
      BY <2>1, PendingOn DEF Meets
    <2>3. pos[t] # 0
      BY <2>1, ProgramsAssumption DEF Positions, PendingIn
    <2>4. Known(t)
      BY <2>3 DEF ThreadsAreCreated, Started, Known
    <2> QED BY <2>2, <2>4
  <1>3. IsFiniteSet(counted) /\ Cardinality(counted) \in Nat
    BY ThreadsAreFinite
  <1>4. BarrierCount[b] \in Nat
    BY ObjectsAssumption
  <1> HIDE DEF counted, odd
  <1>5. Cardinality(odd) \in Nat /\ Cardinality(odd) <= Cardinality(counted)
    BY <1>1, <1>2, <1>3, FS_Subset, FS_CardinalityType
  <1> QED BY <1>1, <1>3, <1>4, <1>5 DEF counted

-----------------------------------------------------------------------------
(* Programs that keep the rules *)

\* The inductive invariant.
Regular ==
    KeepsTheRules(program) => ThreadsAreCreated /\ MutexInv /\ SemInv /\ LockInv /\ BarrierInv

\* It holds at first,
LEMMA RegularInit == Init => Regular
  BY ThreadsInit, MutexInit, SemInit, LockInit, BarrierInit DEF Regular

\* and after every step,
LEMMA RegularStep == Typed /\ Regular /\ [Next]_vars => Regular'
  <1> SUFFICES ASSUME Typed, Regular, [Next]_vars PROVE Regular'
    OBVIOUS
  <1>1. ASSUME NEW t \in Threads, Run(t)
        PROVE  Regular'
    <2> SUFFICES ASSUME KeepsTheRules(program)'
                 PROVE  (ThreadsAreCreated /\ MutexInv /\ SemInv /\ LockInv /\ BarrierInv)'
      BY DEF Regular
    <2>1. program' = program
      BY <1>1 DEF Run
    <2>2. KeepsTheRules(program)
      BY <2>1
    <2>3. ThreadsAreCreated /\ MutexInv /\ SemInv /\ LockInv /\ BarrierInv
      BY <2>2 DEF Regular
    <2>4. HasNoLoop(program)
      BY <2>2 DEF KeepsTheRules
    <2> QED BY <1>1, <2>2, <2>3, <2>4, ThreadsStep, MutexStep, SemStep, LockStep, BarrierStep
  <1>2. CASE UNCHANGED vars
    <2>1. program' = program /\ objects' = objects /\ pos' = pos
      BY <1>2 DEF vars
    <2>2. ThreadsAreCreated' <=> ThreadsAreCreated
      BY <2>1 DEF ThreadsAreCreated, Started, Creation, On
    <2>3. MutexInv' <=> MutexInv
      BY <2>1 DEF MutexInv, InTurnsSoFar, MutualExclusion, InitialMutexes, Holds, Tried, Ran,
         Takes, Gives, WaitingWith, On
    <2>4. SemInv' <=> SemInv
      BY <2>1 DEF SemInv, InTurnsSoFar, SemaphoresConservePermits, Ran, AllRan, Queues, Leaves,
         Posts, On
    <2>5. LockInv' <=> LockInv
      BY <2>1 DEF LockInv, InTurnsSoFar, In, Between, Ran, Enters, Exits, On
    <2>6. BarrierInv' <=> BarrierInv
      BY <2>1 DEF BarrierInv, Came, There, PendingIn, Ran, AllRan, Meets, On
    <2> QED BY <2>1, <2>2, <2>3, <2>4, <2>5, <2>6 DEF Regular
  <1> QED BY <1>1, <1>2 DEF Next

\* and implies what the objects are there for.
LEMMA RegularFollows == Typed /\ Regular => (KeepsTheRules(program) => SynchronisationHolds)
  BY WritersFollow, BarriersFollow DEF Regular, MutexInv, SemInv, SynchronisationHolds

\* So it always holds.
LEMMA AlwaysRegular == Spec => [](Typed /\ Regular)
  BY TypedInit, TypedStep, RegularInit, RegularStep, PTL DEF Spec

\* The shadow objects do what the real ones are there for: mutexes exclude, semaphores
\* keep their permits and their queue, writers are alone in a reader-writer lock, barriers
\* hold.  In every interleaving of every program that keeps the rules.
THEOREM Synchronisation == Spec => [](KeepsTheRules(program) => SynchronisationHolds)
  BY AlwaysRegular, RegularFollows, PTL

-----------------------------------------------------------------------------
(* What the classes answer *)

\* Each family answers for its own types.
LEMMA ClassOfItsKind ==
    ASSUME NEW type
    PROVE  /\ type \in ThreadOperationTypes => Class(type) = ThreadClass(type)
           /\ type \in MutexOperationTypes => Class(type) = MutexClass(type)
           /\ type \in SemOperationTypes => Class(type) = SemClass(type)
           /\ type \in CondOperationTypes => Class(type) = CondClass(type)
           /\ type \in BarrierOperationTypes => Class(type) = BarrierClass(type)
           /\ type \in MCRWLockTypes => Class(type) = RWLockClass(type)
           /\ type \in MCRWWLockTypes => Class(type) = RWWLockClass(type)
           /\ type \in MiscOperationTypes => Class(type) = MiscClass(type)
  BY OneFamilyOnly DEF Class

\* The transitions that are never coenabled with another on the same object.
NeverTogether ==
    {<<"mutex_lock", "mutex_unlock">>, <<"cond_enqueue", "cond_enqueue">>,
     <<"cond_wait", "cond_wait">>,
     <<"reader_lock", "writer_lock">>, <<"writer_lock", "reader_lock">>,
     <<"writer_lock", "writer_lock">>,
     <<"rww_reader_lock", "writer1_lock">>, <<"rww_reader_lock", "writer2_lock">>,
     <<"writer1_lock", "rww_reader_lock">>, <<"writer1_lock", "writer1_lock">>,
     <<"writer1_lock", "writer2_lock">>, <<"writer2_lock", "rww_reader_lock">>,
     <<"writer2_lock", "writer2_lock">>}

\* What a class answers about itself, as far as it matters here.
Answers(c, reversible, aboutTarget, neverCoenabled) ==
    /\ c.reversible = reversible
    /\ c.aboutTarget = aboutTarget
    /\ c.neverCoenabled = neverCoenabled

\* Of the classes only these say that they can be undone, or are about a target.
LEMMA ClassAnswers ==
    ASSUME NEW type, type \in ThreadOperationTypes \cup MutexOperationTypes \cup SemOperationTypes
                        \cup CondOperationTypes \cup BarrierOperationTypes \cup MCRWLockTypes
                        \cup MCRWWLockTypes \cup MiscOperationTypes
    PROVE  /\ Class(type).reversible => type \in {"join", "finish", "mutex_init", "mutex_unlock"}
           /\ Class(type).aboutTarget => type \in {"create", "join"}
           /\ type \notin ThreadOperationTypes =>
                 \A x \in Class(type).neverCoenabled : <<type, x>> \in NeverTogether
  <1>2. CASE type \in ThreadOperationTypes
    BY <1>2, ClassOfItsKind DEF ThreadOperationTypes, ThreadClass, MCTransition,
       MCThreadStartClass, MCThreadCreateClass, MCThreadJoinClass, MCThreadFinishClass
  <1>3. CASE type \in MutexOperationTypes
    <2>1. Class(type) = MutexClass(type)
      BY <1>3, ClassOfItsKind
    <2>2. CASE type = "mutex_lock"
      <3>1. Class(type) = MCMutexLockClass
        BY <2>1, <2>2 DEF MutexClass
      <3>2. Answers(Class(type), FALSE, FALSE, {"mutex_unlock"})
        BY <3>1 DEF Answers, DependsOn, MCTransition, MCMutexLockClass
      <3>3. \A x \in {"mutex_unlock"} : <<type, x>> \in NeverTogether
        BY <2>2 DEF NeverTogether
      <3> QED BY <3>2, <3>3 DEF Answers
    <2>3. CASE type = "mutex_trylock"
      <3>1. Class(type) = MCMutexTrylockClass
        BY <2>1, <2>3 DEF MutexClass
      <3>2. Answers(Class(type), FALSE, FALSE, {})
        BY <3>1 DEF Answers, DependsOn, MCTransition, MCMutexTrylockClass
      <3>3. \A x \in {} : <<type, x>> \in NeverTogether
        BY <2>3 DEF NeverTogether
      <3> QED BY <3>2, <3>3 DEF Answers
    <2>4. CASE type \in {"mutex_init", "mutex_unlock"}
      <3>1. Class(type) \in {MCMutexInitClass, MCMutexUnlockClass}
        BY <2>1, <2>4 DEF MutexClass
      <3>2. Answers(Class(type), TRUE, FALSE, {})
        BY <3>1 DEF Answers, DependsOn, MCTransition, MCMutexInitClass, MCMutexUnlockClass
      <3> QED BY <2>4, <3>2 DEF Answers
    <2> QED BY <1>3, <2>2, <2>3, <2>4 DEF MutexOperationTypes
  <1>4. CASE type \in SemOperationTypes
    <2>1. Class(type) = SemClass(type)
      BY <1>4, ClassOfItsKind
    <2>2. CASE type \in {"sem_init", "sem_enqueue", "sem_wait", "sem_post"}
      <3>1. Class(type) \in {MCSemInitClass, MCSemEnqueueClass, MCSemWaitClass, MCSemPostClass}
        BY <2>1, <2>2 DEF SemClass
      <3>2. Answers(Class(type), FALSE, FALSE, {})
        BY <3>1 DEF Answers, DependsOn, MCTransition, MCSemInitClass, MCSemEnqueueClass,
           MCSemWaitClass,
                                 MCSemPostClass
      <3> QED BY <3>2 DEF Answers
    <2> QED BY <1>4, <2>2 DEF SemOperationTypes
  <1>5. CASE type \in CondOperationTypes
    <2>1. Class(type) = CondClass(type)
      BY <1>5, ClassOfItsKind
    <2>2. CASE type = "cond_enqueue"
      <3>1. Class(type) = MCCondEnqueueClass
        BY <2>1, <2>2 DEF CondClass
      <3>2. Answers(Class(type), FALSE, FALSE, {"cond_enqueue"})
        BY <3>1 DEF Answers, DependsOn, MCTransition, MCCondEnqueueClass
      <3>3. \A x \in {"cond_enqueue"} : <<type, x>> \in NeverTogether
        BY <2>2 DEF NeverTogether
      <3> QED BY <3>2, <3>3 DEF Answers
    <2>3. CASE type = "cond_wait"
      <3>1. Class(type) = MCCondWaitClass
        BY <2>1, <2>3 DEF CondClass
      <3>2. Answers(Class(type), FALSE, FALSE, {"cond_wait"})
        BY <3>1 DEF Answers, DependsOn, MCTransition, MCCondWaitClass
      <3>3. \A x \in {"cond_wait"} : <<type, x>> \in NeverTogether
        BY <2>3 DEF NeverTogether
      <3> QED BY <3>2, <3>3 DEF Answers
    <2>4. CASE type \in {"cond_init", "cond_signal", "cond_broadcast"}
      <3>1. Class(type) \in {MCCondInitClass, MCCondSignalClass, MCCondBroadcastClass}
        BY <2>1, <2>4 DEF CondClass
      <3>2. Answers(Class(type), FALSE, FALSE, {})
        BY <3>1 DEF Answers, DependsOn, MCTransition, MCCondInitClass, MCCondSignalClass,
           MCCondBroadcastClass
      <3> QED BY <3>2 DEF Answers
    <2> QED BY <1>5, <2>2, <2>3, <2>4 DEF CondOperationTypes
  <1>6. CASE type \in BarrierOperationTypes
    <2>1. Class(type) = BarrierClass(type)
      BY <1>6, ClassOfItsKind
    <2>2. CASE type \in {"barrier_init", "barrier_wait"}
      <3>1. Class(type) \in {MCBarrierInitClass, MCBarrierWaitClass}
        BY <2>1, <2>2 DEF BarrierClass
      <3>2. Answers(Class(type), FALSE, FALSE, {})
        BY <3>1 DEF Answers, DependsOn, MCTransition, MCBarrierInitClass, MCBarrierWaitClass
      <3> QED BY <3>2 DEF Answers
    <2> QED BY <1>6, <2>2 DEF BarrierOperationTypes
  <1>7. CASE type \in MCRWLockTypes
    <2>1. Class(type) = RWLockClass(type)
      BY <1>7, ClassOfItsKind
    <2>2. CASE type = "reader_lock"
      <3>1. Class(type) = MCRWLockReaderLockClass
        BY <2>1, <2>2 DEF RWLockClass
      <3>2. Answers(Class(type), FALSE, FALSE, {"writer_lock"})
        BY <3>1 DEF Answers, DependsOn, MCTransition, MCRWLockReaderLockClass
      <3>3. \A x \in {"writer_lock"} : <<type, x>> \in NeverTogether
        BY <2>2 DEF NeverTogether
      <3> QED BY <3>2, <3>3 DEF Answers
    <2>3. CASE type = "writer_lock"
      <3>1. Class(type) = MCRWLockWriterLockClass
        BY <2>1, <2>3 DEF RWLockClass
      <3>2. Answers(Class(type), FALSE, FALSE, {"reader_lock", "writer_lock"})
        BY <3>1 DEF Answers, DependsOn, MCTransition, MCRWLockWriterLockClass
      <3>3. \A x \in {"reader_lock", "writer_lock"} : <<type, x>> \in NeverTogether
        BY <2>3 DEF NeverTogether
      <3> QED BY <3>2, <3>3 DEF Answers
    <2>4. CASE type \in {"rwlock_init", "reader_enqueue", "writer_enqueue", "rwlock_unlock"}
      <3>1. Class(type) \in {MCRWLockInitClass, MCRWLockReaderEnqueueClass,
                             MCRWLockWriterEnqueueClass, MCRWLockUnlockClass}
        BY <2>1, <2>4 DEF RWLockClass
      <3>2. Answers(Class(type), FALSE, FALSE, {})
        BY <3>1 DEF Answers, DependsOn, MCTransition, MCRWLockInitClass,
           MCRWLockReaderEnqueueClass,
                                 MCRWLockWriterEnqueueClass, MCRWLockUnlockClass
      <3> QED BY <3>2 DEF Answers
    <2> QED BY <1>7, <2>2, <2>3, <2>4 DEF MCRWLockTypes
  <1>8. CASE type \in MCRWWLockTypes
    <2>1. Class(type) = RWWLockClass(type)
      BY <1>8, ClassOfItsKind
    <2>2. CASE type = "rww_reader_lock"
      <3>1. Class(type) = MCRWWLockReaderLockClass
        BY <2>1, <2>2 DEF RWWLockClass
      <3>2. Answers(Class(type), FALSE, FALSE, {"writer1_lock", "writer2_lock"})
        BY <3>1 DEF Answers, DependsOn, MCTransition, MCRWWLockReaderLockClass
      <3>3. \A x \in {"writer1_lock", "writer2_lock"} : <<type, x>> \in NeverTogether
        BY <2>2 DEF NeverTogether
      <3> QED BY <3>2, <3>3 DEF Answers
    <2>3. CASE type = "writer1_lock"
      <3>1. Class(type) = MCRWWLockWriter1LockClass
        BY <2>1, <2>3 DEF RWWLockClass
      <3>2. Answers(Class(type), FALSE, FALSE, {"rww_reader_lock", "writer1_lock", "writer2_lock"})
        BY <3>1 DEF Answers, DependsOn, MCTransition, MCRWWLockWriter1LockClass
      <3>3. \A x \in {"rww_reader_lock", "writer1_lock", "writer2_lock"} :
               <<type, x>> \in NeverTogether
        BY <2>3 DEF NeverTogether
      <3> QED BY <3>2, <3>3 DEF Answers
    <2>4. CASE type = "writer2_lock"
      <3>1. Class(type) = MCRWWLockWriter2LockClass
        BY <2>1, <2>4 DEF RWWLockClass
      <3>2. Answers(Class(type), FALSE, FALSE, {"rww_reader_lock", "writer2_lock"})
        BY <3>1 DEF Answers, DependsOn, MCTransition, MCRWWLockWriter2LockClass
      <3>3. \A x \in {"rww_reader_lock", "writer2_lock"} : <<type, x>> \in NeverTogether
        BY <2>4 DEF NeverTogether
      <3> QED BY <3>2, <3>3 DEF Answers
    <2>5. CASE type \in {"rwwlock_init", "rww_reader_enqueue", "writer1_enqueue",
                         "writer2_enqueue", "rwwlock_unlock"}
      <3>1. Class(type) \in {MCRWWLockInitClass, MCRWWLockReaderEnqueueClass,
                             MCRWWLockWriter1EnqueueClass, MCRWWLockWriter2EnqueueClass,
                             MCRWWLockUnlockClass}
        BY <2>1, <2>5 DEF RWWLockClass
      <3>2. Answers(Class(type), FALSE, FALSE, {})
        BY <3>1 DEF Answers, DependsOn, MCTransition, MCRWWLockInitClass,
           MCRWWLockReaderEnqueueClass,
                                 MCRWWLockWriter1EnqueueClass, MCRWWLockWriter2EnqueueClass,
                                 MCRWWLockUnlockClass
      <3> QED BY <3>2 DEF Answers
    <2> QED BY <1>8, <2>2, <2>3, <2>4, <2>5 DEF MCRWWLockTypes
  <1>9. CASE type \in MiscOperationTypes
    <2>1. Class(type) = MiscClass(type)
      BY <1>9, ClassOfItsKind
    <2>2. MiscClass(type) \in {MCGlobalVariableReadClass, MCGlobalVariableWriteClass,
                               MCExitTransitionClass, MCAbortTransitionClass,
                               MCProgressTransitionClass}
      BY <1>9 DEF MiscOperationTypes, GlobalOperationTypes, MiscClass
    <2>3. CASE MiscClass(type) \in {MCGlobalVariableReadClass, MCGlobalVariableWriteClass}
      <3>1. Answers(Class(type), FALSE, FALSE, {})
        BY <2>1, <2>3 DEF Answers, DependsOn, MCTransition, MCGlobalVariableReadClass,
           MCGlobalVariableWriteClass
      <3> QED BY <3>1 DEF Answers
    <2>4. CASE MiscClass(type) = MCExitTransitionClass
      <3>1. Answers(MCExitTransitionClass, FALSE, FALSE, {})
        BY DEF Answers, MCTransition, MCExitTransitionClass
      <3> QED BY <2>1, <2>4, <3>1 DEF Answers
    <2>5. CASE MiscClass(type) = MCAbortTransitionClass
      <3>1. Answers(MCAbortTransitionClass, FALSE, FALSE, {})
        BY DEF Answers, MCTransition, MCAbortTransitionClass
      <3> QED BY <2>1, <2>5, <3>1 DEF Answers
    <2>6. CASE MiscClass(type) = MCProgressTransitionClass
      <3>1. Answers(MCProgressTransitionClass, FALSE, FALSE, {})
        BY DEF Answers, MCTransition, MCProgressTransitionClass
      <3> QED BY <2>1, <2>6, <3>1 DEF Answers
    <2> QED BY <2>2, <2>3, <2>4, <2>5, <2>6
  <1> QED BY <1>2, <1>3, <1>4, <1>5, <1>6, <1>7, <1>8, <1>9

\* A thread that is enabled.
LEMMA EnabledFacts ==
    ASSUME Positions, NEW t \in Threads, Enabled(t)
    PROVE  /\ objects.thread[t] = "alive"
           /\ Operation(objects, Pending(t)).enabled
           /\ UsesCondMutex(Pending(t)) => CondMutexOperation(objects, Pending(t)).enabled
  BY PendingType DEF Enabled, transitionEnabledInState, MCThreadEnabled

\* Who is about to unlock a mutex holds it.
LEMMA GiverHolds ==
    ASSUME Positions, LocksInTurns(program), MutexInv, NEW t \in Threads, NEW m \in Mutexes,
           PendingIn(t, Gives(m))
    PROVE  Holds(t, m) /\ objects.mutex[m] = "locked"
  <1>1. Ran(t, Takes(m)) = Ran(t, Gives(m)) + 1
    BY DEF LocksInTurns, InTurns, PendingIn, Ran
  <1>2. Holds(t, m)
    BY <1>1 DEF Holds, MutexInv, InTurnsSoFar
  <1> QED BY <1>2 DEF MutexInv, MutualExclusion

-----------------------------------------------------------------------------
(* Unapplying *)

\* Undone right after they ran: they put back the object they changed.
LEMMA UnapplyFollows ==
    ASSUME Typed, KeepsTheRules(program), MutexInv
    PROVE  UnapplyIsExact
  <1> SUFFICES ASSUME NEW t \in Threads, Enabled(t), isReversibleInState(Pending(t))
               PROVE  unapplyToState(applyToState(objects, Pending(t)), Pending(t)) = objects
    BY DEF UnapplyIsExact
  <1> DEFINE tr == Pending(t)
             o == applyToState(objects, tr)
  <1>1. Positions /\ objects \in ObjectStates /\ LocksInTurns(program) /\ InitialisesFirst(program)
    BY DEF Typed, TypeOK, KeepsTheRules
  <1>2. tr \in Transitions /\ tr.tid = t
    BY <1>1, PendingType
  <1>3. tr.type \in {"join", "finish", "mutex_init", "mutex_unlock"}
    <2>1. tr.type \in ThreadOperationTypes \cup MutexOperationTypes \cup SemOperationTypes
                    \cup CondOperationTypes \cup BarrierOperationTypes \cup MCRWLockTypes
                    \cup MCRWWLockTypes \cup MiscOperationTypes
      BY <1>2, OneFamily
    <2> HIDE DEF tr
    <2> QED BY <2>1, ClassAnswers DEF isReversibleInState, tr
  <1>4. objects.thread[t] = "alive"
    BY <1>1, EnabledFacts
  <1>5. o = Updated(objects, tr, Operation(objects, tr).applied)
    BY <1>3 DEF applyToState, MiscOperationTypes, GlobalOperationTypes, UsesCondMutex
  <1>6. unapplyToState(o, tr) = Updated(o, tr, Operation(o, tr).unapplied)
    BY DEF unapplyToState
  <1>7. CASE tr.type \in {"join", "finish"}
    <2> DEFINE u == Subject(tr)
               before == objects.thread[u]
               after == ThreadOperation(tr.type, before, t).applied
    <2>1. tr.type \in ThreadOperationTypes /\ u \in Threads
      BY <1>2, <1>7, OneFamily DEF ThreadOperationTypes
    <2>2. \A x : Operation(x, tr) = ThreadOperation(tr.type, x.thread[u], t)
      BY <1>2, <2>1, OneFamilyOnly DEF Operation
    <2>3. \A x, new : Updated(x, tr, new) = [x EXCEPT !.thread[u] = new]
      BY <2>1, OneFamilyOnly DEF Updated
    <2>4. ThreadOperation(tr.type, after, t).unapplied = before
      BY <1>2, <1>4, <1>7 DEF ThreadOperation, MCThreadJoin, MCThreadFinish, Subject
    <2> HIDE DEF o, u, tr, before
    <2>5. o = [objects EXCEPT !.thread[u] = after]
      BY <1>5, <2>2, <2>3 DEF before
    <2> HIDE DEF after
    <2>6. o.thread[u] = after
      BY <1>1, <2>1, <2>5 DEF ObjectStates
    <2>7. unapplyToState(o, tr) = [o EXCEPT !.thread[u] = before]
      BY <1>6, <2>2, <2>3, <2>4, <2>6
    <2>8. [[objects EXCEPT !.thread[u] = after] EXCEPT !.thread[u] = objects.thread[u]] = objects
      BY <1>1, <2>1 DEF ObjectStates
    <2>9. before = objects.thread[u]
      BY DEF before
    <2> QED BY <2>5, <2>7, <2>8, <2>9 DEF o, tr
  <1>8. CASE tr.type \in {"mutex_init", "mutex_unlock"}
    <2> DEFINE m == tr.obj
               before == objects.mutex[m]
               after == MutexOperation(tr.type, before).applied
    <2>1. tr.type \in MutexOperationTypes /\ m \in Mutexes
      BY <1>2, <1>8, OneFamily DEF MutexOperationTypes
    <2>2. \A x : Operation(x, tr) = MutexOperation(tr.type, x.mutex[m])
      BY <2>1, OneFamilyOnly DEF Operation
    <2>3. \A x, new : Updated(x, tr, new) = [x EXCEPT !.mutex[m] = new]
      BY <2>1, OneFamilyOnly DEF Updated
    <2>4. PendingIn(t, On({tr.type}, m))
      <3>1. "start" \notin {tr.type} /\ "finish" \notin {tr.type}
        BY <1>8
      <3> QED BY <1>1, <3>1, PendingOn
    <2>5. tr.type = "mutex_unlock" => before = "locked"
      <3> SUFFICES ASSUME tr.type = "mutex_unlock" PROVE before = "locked"
        OBVIOUS
      <3>1. PendingIn(t, Gives(m))
        BY <1>1, TakesAndGives
      <3> QED BY <1>1, <2>1, <3>1, GiverHolds
    <2>6. tr.type = "mutex_init" => before = "undefined"
      <3> SUFFICES ASSUME tr.type = "mutex_init" PROVE before = "undefined"
        OBVIOUS
      <3>1. pos[t] \in DOMAIN program[t] /\ program[t][pos[t]] \in On({"mutex_init"}, m)
        BY <2>4 DEF PendingIn
      <3>2. program[t][pos[t]].type \in InitTypes
        BY <3>1 DEF On, InitTypes
      <3>3. t = Main
        BY <1>1, <3>1, <3>2 DEF InitialisesFirst
      <3> QED BY <2>1, <3>1, <3>3 DEF MutexInv, InitialMutexes
    <2> HIDE DEF m, tr, o, before
    <2>7. o = [objects EXCEPT !.mutex[m] = after]
      BY <1>5, <2>2, <2>3 DEF before
    <2>8. o.mutex[m] = after
      BY <1>1, <2>1, <2>7 DEF ObjectStates
    <2>9. MutexOperation(tr.type, after).unapplied = before
      BY <1>8, <2>5, <2>6 DEF MutexOperation, MCMutexInit, MCMutexUnlock
    <2>10. unapplyToState(o, tr) = [o EXCEPT !.mutex[m] = before]
      BY <1>6, <2>2, <2>3, <2>8, <2>9
    <2>11. [[objects EXCEPT !.mutex[m] = after] EXCEPT !.mutex[m] = objects.mutex[m]] = objects
      BY <1>1, <2>1 DEF ObjectStates
    <2>12. before = objects.mutex[m]
      BY DEF before
    <2> QED BY <2>7, <2>10, <2>11, <2>12 DEF o, tr
  <1> QED BY <1>3, <1>7, <1>8

\* What a transition says can be undone is undone exactly: join, finish, mutex_init and
\* mutex_unlock, in every interleaving of every program that keeps the rules.
THEOREM UnapplyIsExactAlways == Spec => [](KeepsTheRules(program) => UnapplyIsExact)
  <1>1. Typed /\ Regular => (KeepsTheRules(program) => UnapplyIsExact)
    BY UnapplyFollows DEF Regular
  <1> QED BY <1>1, AlwaysRegular, PTL

-----------------------------------------------------------------------------
(* Enabled together *)

\* Who may lock a mutex finds it unlocked.
LEMMA TakerFinds ==
    ASSUME Positions, NEW t \in Threads, Enabled(t), NEW m \in Mutexes, PendingIn(t, Takes(m))
    PROVE  objects.mutex[m] = "unlocked"
  <1> DEFINE tr == Pending(t)
  <1>1. /\ Operation(objects, tr).enabled
        /\ UsesCondMutex(tr) => CondMutexOperation(objects, tr).enabled
    BY EnabledFacts
  <1>2. \/ tr.type = "mutex_lock" /\ tr.obj = m
        \/ tr.type = "cond_wait" /\ CondMutex[tr.obj] = m
    BY TakesAndGives
  <1>3. MCMutexLock(objects.mutex[m]).enabled => objects.mutex[m] = "unlocked"
    BY DEF MCMutexLock, canAcquire
  <1> HIDE DEF tr
  <1>4. CASE tr.type = "mutex_lock" /\ tr.obj = m
    <2>1. Operation(objects, tr) = MutexOperation("mutex_lock", objects.mutex[m])
      BY <1>4, OneFamilyOnly DEF Operation, MutexOperationTypes
    <2>2. MutexOperation("mutex_lock", objects.mutex[m]) = MCMutexLock(objects.mutex[m])
      BY DEF MutexOperation
    <2> QED BY <1>1, <1>3, <2>1, <2>2
  <1>5. CASE tr.type = "cond_wait" /\ CondMutex[tr.obj] = m
    <2>1. CondMutexOperation(objects, tr) = MCMutexLock(objects.mutex[m])
      BY <1>5 DEF CondMutexOperation
    <2> QED BY <1>1, <1>3, <1>5, <2>1 DEF UsesCondMutex
  <1> QED BY <1>2, <1>4, <1>5

\* Nobody can lock a mutex while another is about to unlock it.
LEMMA LockOrUnlock ==
    ASSUME Positions, LocksInTurns(program), MutexInv, NEW m \in Mutexes,
           NEW t \in Threads, Enabled(t), PendingIn(t, Takes(m)),
           NEW u \in Threads, PendingIn(u, Gives(m))
    PROVE  FALSE
  BY TakerFinds, GiverHolds

\* Who may enter a reader-writer lock is in front of its queue.
LEMMA InFront ==
    ASSUME Positions, NEW t \in Threads, Enabled(t),
           Pending(t).type \in {"reader_lock", "writer_lock", "rww_reader_lock", "writer1_lock",
                                "writer2_lock"}
    PROVE  Head(objects.rwlock[Pending(t).obj].acquire_queue) = t
  <1> DEFINE tr == Pending(t)
             lock == objects.rwlock[tr.obj]
  <1>1. tr.tid = t /\ Operation(objects, tr).enabled
    BY PendingType, EnabledFacts
  <1> HIDE DEF tr
  <1>2. CASE tr.type \in {"reader_lock", "writer_lock"}
    <2>1. Operation(objects, tr) = RWLockOperation(tr.type, lock, t)
      <3>1. tr.type \in MCRWLockTypes
        BY <1>2 DEF MCRWLockTypes
      <3> QED BY <1>1, <3>1, OneFamilyOnly DEF Operation
    <2> HIDE DEF lock
    <2>2. RWLockOperation(tr.type, lock, t) \in {MCRWLockReaderLock(lock, t),
                                                 MCRWLockWriterLock(lock, t)}
      BY <1>2 DEF RWLockOperation
    <2>3. canAcquireAsReader(lock, t) \/ canAcquireAsWriter(lock, t)
      BY <1>1, <2>1, <2>2 DEF MCRWLockReaderLock, MCRWLockWriterLock
    <2> QED BY <2>3 DEF canAcquireAsReader, canAcquireAsWriter, IsFront, lock, tr
  <1>3. CASE tr.type \in {"rww_reader_lock", "writer1_lock", "writer2_lock"}
    <2>1. Operation(objects, tr) = RWWLockOperation(tr.type, lock, t)
      <3>1. tr.type \in MCRWWLockTypes
        BY <1>3 DEF MCRWWLockTypes
      <3> QED BY <1>1, <3>1, OneFamilyOnly DEF Operation
    <2> HIDE DEF lock
    <2>2. RWWLockOperation(tr.type, lock, t) \in {MCRWWLockReaderLock(lock, t),
                                                  MCRWWLockWriter1Lock(lock, t),
                                                  MCRWWLockWriter2Lock(lock, t)}
      BY <1>3 DEF RWWLockOperation
    <2>3. canAcquireAsReader(lock, t) \/ canAcquireAsWriter(lock, t)
      BY <1>1, <2>1, <2>2 DEF MCRWWLockReaderLock, MCRWWLockWriter1Lock, MCRWWLockWriter2Lock
    <2> QED BY <2>3 DEF canAcquireAsReader, canAcquireAsWriter, IsFront, lock, tr
  <1> QED BY <1>2, <1>3 DEF tr

\* What the classes say is never enabled together is not, but for two cond_waits.
LEMMA IndeedNeverTogether ==
    ASSUME Positions, LocksInTurns(program), MutexInv,
           NEW t \in Threads, Enabled(t), NEW u \in Threads, Enabled(u), t # u,
           <<Pending(t).type, Pending(u).type>> \in NeverTogether, Pending(t).obj = Pending(u).obj,
           {Pending(t).type, Pending(u).type} # {"cond_wait"}
    PROVE  FALSE
  <1> DEFINE x == Pending(t).obj
             tt == Pending(t).type
             tu == Pending(u).type
             entering == {"reader_lock", "writer_lock", "rww_reader_lock", "writer1_lock",
                          "writer2_lock"}
  <1>1. Pending(t) \in Transitions
    BY PendingType
  <1>2. \/ tt = "mutex_lock" /\ tu = "mutex_unlock"
        \/ tt = "cond_enqueue" /\ tu = "cond_enqueue"
        \/ tt \in entering /\ tu \in entering
    BY DEF NeverTogether
  <1>3. CASE tt = "mutex_lock" /\ tu = "mutex_unlock"
    <2>1. x \in Mutexes
      BY <1>1, <1>3, OneFamily DEF MutexOperationTypes
    <2>2. PendingIn(t, Takes(x)) /\ PendingIn(u, Gives(x))
      BY <1>3, TakesAndGives
    <2> QED BY <2>1, <2>2, LockOrUnlock
  <1>4. CASE tt = "cond_enqueue" /\ tu = "cond_enqueue"
    <2>1. x \in Conds
      BY <1>1, <1>4, OneFamily DEF CondOperationTypes
    <2>2. CondMutex[x] \in Mutexes
      BY <2>1, ObjectsAssumption
    <2>3. PendingIn(t, Gives(CondMutex[x])) /\ PendingIn(u, Gives(CondMutex[x]))
      BY <1>4, TakesAndGives
    <2>4. Holds(t, CondMutex[x]) /\ Holds(u, CondMutex[x])
      BY <2>2, <2>3, GiverHolds
    <2> QED BY <2>2, <2>4 DEF MutexInv, MutualExclusion
  <1>5. CASE tt \in entering /\ tu \in entering
    BY <1>5, InFront
  <1> QED BY <1>2, <1>3, <1>4, <1>5

\* A thread that can run is neither being created nor joined.
LEMMA TargetDoesNotRun ==
    ASSUME Typed, CreatesOnce(program), ThreadsAreCreated,
           NEW t \in Threads, Enabled(t), NEW u \in Threads, Enabled(u), t # u,
           Pending(t).type \in {"create", "join"}, Pending(t).obj = u
    PROVE  FALSE
  <1>1. Positions
    BY DEF Typed
  <1>2. objects.thread[u] = "alive"
    BY <1>1, EnabledFacts
  <1>3. Pending(t).tid = t
    BY <1>1, PendingType
  <1>4. CASE Pending(t).type = "join"
    <2> DEFINE tr == Pending(t)
    <2>1. Operation(objects, tr).enabled
      BY <1>1, EnabledFacts
    <2> HIDE DEF tr
    <2>2. tr.type = "join" /\ tr.obj = u
      BY <1>4 DEF tr
    <2>3. Operation(objects, tr) = ThreadOperation("join", objects.thread[u], tr.tid)
      BY <2>2, OneFamilyOnly DEF Operation, ThreadOperationTypes, Subject
    <2>4. ThreadOperation("join", objects.thread[u], tr.tid).enabled <=> objects.thread[u] = "dead"
      BY DEF ThreadOperation, MCThreadJoin
    <2> QED BY <1>2, <2>1, <2>3, <2>4
  <1>5. CASE Pending(t).type = "create"
    <2>1. PendingIn(t, Creation(u))
      BY <1>1, <1>5, PendingOn DEF Creation
    <2>2. pos[t] \in DOMAIN program[t] /\ program[t][pos[t]].type = "create"
             /\ program[t][pos[t]].obj = u
      BY <2>1 DEF PendingIn, Creation, On
    <2>3. u # Main
      BY <2>2 DEF CreatesOnce
    <2>4. PICK s \in Threads : \E p \in DOMAIN program[s] :
             program[s][p] \in Creation(u) /\ p < pos[s]
      BY <1>2, <2>3 DEF ThreadsAreCreated, Started
    <2>5. PICK p \in DOMAIN program[s] : program[s][p] \in Creation(u) /\ p < pos[s]
      BY <2>4
    <2>6. program[s][p] = program[t][pos[t]]
      BY <2>1, <2>5 DEF PendingIn, Creation, On
    <2>7. s = t /\ p = pos[t]
      BY <2>2, <2>5, <2>6 DEF CreatesOnce
    <2>8. pos[t] \in Nat
      BY <1>1 DEF Positions
    <2> QED BY <2>5, <2>7, <2>8
  <1> QED BY <1>4, <1>5

\* Of two threads that can run, the one's transition says they are coenabled.
LEMMA SaysCoenabled ==
    ASSUME Typed, KeepsTheRules(program), ThreadsAreCreated, MutexInv,
           NEW t \in Threads, Enabled(t), NEW u \in Threads, Enabled(u), t # u,
           {Pending(t).type, Pending(u).type} # {"cond_wait"}
    PROVE  coenabledWith(objects, Pending(t), Pending(u))
  <1> DEFINE tr == Pending(t)
             ur == Pending(u)
  <1>1. Positions /\ LocksInTurns(program) /\ CreatesOnce(program)
    BY DEF Typed, KeepsTheRules
  <1>2. tr \in Transitions /\ tr.tid = t /\ ur \in Transitions /\ ur.tid = u
    BY <1>1, PendingType
  <1>3. tr.type \in ThreadOperationTypes \cup MutexOperationTypes \cup SemOperationTypes
                  \cup CondOperationTypes \cup BarrierOperationTypes \cup MCRWLockTypes
                  \cup MCRWWLockTypes \cup MiscOperationTypes
    BY <1>2, OneFamily
  <1>4. CASE tr.type \in ThreadOperationTypes
    <2>1. ~ Names(tr, u)
      <3> SUFFICES ASSUME Names(tr, u) PROVE FALSE
        OBVIOUS
      <3>1. Class(tr.type).aboutTarget /\ tr.obj = u
        BY DEF Names
      <3> HIDE DEF tr
      <3>2. tr.type \in {"create", "join"}
        BY <1>3, <3>1, ClassAnswers
      <3> QED BY <1>1, <3>1, <3>2, TargetDoesNotRun DEF tr
    <2>2. ~ Names(tr, ur.tid)
      BY <1>2, <2>1
    <2> HIDE DEF tr, ur
    <2>3. ~ UsesCondMutex(tr) /\ tr.type # "barrier_wait"
      BY <1>4 DEF UsesCondMutex, ThreadOperationTypes
    <2>4. coenabledWith(objects, tr, ur)
      BY <1>2, <1>4, <2>2, <2>3 DEF coenabledWith
    <2> QED BY <2>4 DEF tr, ur
  <1>5. CASE UsesCondMutex(tr) /\ ur.type \in MutexOperationTypes
    <2> DEFINE m == CondMutex[tr.obj]
               as == AsMutexOperation(tr).type
    <2>1. tr.type \in {"cond_wait", "cond_enqueue"} /\ tr.type \notin ThreadOperationTypes
      BY <1>5, OneFamilyOnly DEF UsesCondMutex, ThreadOperationTypes
    <2>2. tr.obj \in Conds
      BY <1>2, <2>1, OneFamily DEF CondOperationTypes
    <2>3. m \in Mutexes
      BY <2>2, ObjectsAssumption
    <2>4. /\ AsMutexOperation(tr).obj = m
          /\ as = IF tr.type = "cond_wait" THEN "mutex_lock" ELSE "mutex_unlock"
      BY DEF AsMutexOperation
    <2>5. ~ (ur.obj = m /\ as = "mutex_lock" /\ ur.type = "mutex_unlock")
      <3> SUFFICES ASSUME ur.obj = m, as = "mutex_lock", ur.type = "mutex_unlock" PROVE FALSE
        OBVIOUS
      <3>1. PendingIn(t, Takes(m)) /\ PendingIn(u, Gives(m))
        BY <1>1, <2>1, <2>4, TakesAndGives
      <3> QED BY <1>1, <2>3, <3>1, LockOrUnlock
    <2>6. ~ (ur.obj = m /\ ur.type = "mutex_lock" /\ as = "mutex_unlock")
      <3> SUFFICES ASSUME ur.obj = m, ur.type = "mutex_lock", as = "mutex_unlock" PROVE FALSE
        OBVIOUS
      <3>1. PendingIn(u, Takes(m)) /\ PendingIn(t, Gives(m))
        BY <1>1, <2>1, <2>4, TakesAndGives
      <3> QED BY <1>1, <2>3, <3>1, LockOrUnlock
    <2> HIDE DEF tr, ur, as, m
    <2>7. as \in MutexOperationTypes
      BY <2>4 DEF MutexOperationTypes
    <2>8. ASSUME NEW one \in MutexOperationTypes, NEW other \in MutexClass(one).neverCoenabled
          PROVE  one = "mutex_lock" /\ other = "mutex_unlock"
      <3>1. <<one, other>> \in NeverTogether
        BY ClassAnswers, ClassOfItsKind, OneFamilyOnly
      <3> QED BY <3>1 DEF NeverTogether, MutexOperationTypes
    <2>9. MutexesCoenabled(AsMutexOperation(tr), ur)
      BY <1>5, <2>4, <2>5, <2>6, <2>7, <2>8 DEF MutexesCoenabled, as
    <2>10. coenabledWith(objects, tr, ur)
      BY <1>5, <2>1, <2>9 DEF coenabledWith
    <2> QED BY <2>10 DEF tr, ur
  <1>6. CASE tr.type = "barrier_wait"
    <2> DEFINE bar == objects.barrier[tr.obj]
               count == BarrierCount[tr.obj]
    <2>1. Operation(objects, tr).enabled
      BY <1>1, EnabledFacts
    <2> HIDE DEF tr, ur
    <2>2. tr.type \notin ThreadOperationTypes /\ ~ UsesCondMutex(tr)
      BY <1>6, OneFamilyOnly DEF UsesCondMutex, BarrierOperationTypes
    <2>3. Operation(objects, tr) = BarrierOperation("barrier_wait", bar, t, count)
      BY <1>2, <1>6, OneFamilyOnly DEF Operation, BarrierOperationTypes
    <2> HIDE DEF bar, count
    <2>4. BarrierOperation("barrier_wait", bar, t, count) = MCBarrierWait(bar, t, count)
      BY DEF BarrierOperation
    <2>5. MCBarrierWait(bar, t, count).enabled
      BY <2>1, <2>3, <2>4
    <2>6. ~ wouldBlockIfWaitedOn(bar, t, count)
      BY <2>5 DEF MCBarrierWait
    <2>7. coenabledWith(objects, tr, ur)
      BY <1>2, <1>6, <2>2, <2>6 DEF coenabledWith, bar, count
    <2> QED BY <2>7 DEF tr, ur
  <1>7. CASE /\ tr.type \notin ThreadOperationTypes
             /\ ~ (UsesCondMutex(tr) /\ ur.type \in MutexOperationTypes)
             /\ tr.type # "barrier_wait"
    <2>1. ~ (ur.obj = tr.obj /\ ur.type \in Class(tr.type).neverCoenabled)
      <3> SUFFICES ASSUME ur.obj = tr.obj, ur.type \in Class(tr.type).neverCoenabled PROVE FALSE
        OBVIOUS
      <3> HIDE DEF tr, ur
      <3>1. <<tr.type, ur.type>> \in NeverTogether
        BY <1>3, <1>7, ClassAnswers
      <3> QED BY <1>1, <3>1, IndeedNeverTogether DEF tr, ur
    <2> HIDE DEF tr, ur
    <2>2. coenabledWith(objects, tr, ur)
      BY <1>7, <2>1 DEF coenabledWith
    <2> QED BY <2>2 DEF tr, ur
  <1> QED BY <1>4, <1>5, <1>6, <1>7

\* Where two threads can both run, their transitions are declared coenabled (two
\* cond_waits excepted), so the search adds its backtrack points: in every interleaving
\* of every program that keeps the rules.
THEOREM EnabledAreCoenabled ==
    Spec => [](KeepsTheRules(program) => EnabledTogetherAreCoenabled)
  <1>1. ASSUME Typed, Regular, KeepsTheRules(program)
        PROVE  EnabledTogetherAreCoenabled
    <2> SUFFICES ASSUME NEW t \in Threads, NEW u \in Others(t), Enabled(t), Enabled(u),
                        {Pending(t).type, Pending(u).type} # {"cond_wait"}
                 PROVE  coenabledTransitions(objects, Pending(t), objects, Pending(u))
      BY DEF EnabledTogetherAreCoenabled
    <2>1. u \in Threads /\ u # t
      BY DEF Others
    <2>2. Pending(t).tid = t /\ Pending(u).tid = u
      BY <1>1, <2>1, PendingType DEF Typed
    <2>3. ThreadsAreCreated /\ MutexInv
      BY <1>1 DEF Regular
    <2>4. coenabledWith(objects, Pending(t), Pending(u))
      BY <1>1, <2>1, <2>3, SaysCoenabled
    <2>5. {Pending(u).type, Pending(t).type} # {"cond_wait"}
      OBVIOUS
    <2>6. coenabledWith(objects, Pending(u), Pending(t))
      BY <1>1, <2>1, <2>3, <2>5, SaysCoenabled
    <2> QED BY <2>1, <2>2, <2>4, <2>6 DEF coenabledTransitions
  <1> QED BY <1>1, AlwaysRegular, PTL

====
