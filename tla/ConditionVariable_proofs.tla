---- MODULE ConditionVariable_proofs ----
(***************************************************************************)
(* A shadow condition variable keeps its books for any number of threads   *)
(* and signals: who may wake is always somebody who waits, and a thread    *)
(* that may use up a signal may use up every later one.                    *)
(*                                                                         *)
(* And its wakeup policy keeps the promise of condition variables.  The    *)
(* policy stores one group of threads per signal; the promise is about     *)
(* sets of threads that may have been woken.  Such a set is what a         *)
(* matching of threads to signals leaves, so the proof is one about        *)
(* matchings: that a set which cannot be made larger is as large as any    *)
(* (Exchange), and what happens to the largest ones when a signal comes    *)
(* (SignalSpreads) and when one is used up (LeavingUsesOneUp).             *)
(***************************************************************************)
EXTENDS ConditionVariable, SequenceTheorems, FiniteSetTheorems, WellFoundedInduction, TLAPS

-----------------------------------------------------------------------------
(* Removing from a sequence *)

\* A non-empty set of positions has a first one.
LEMMA FirstPosition ==
    ASSUME NEW S \in SUBSET Nat, S # {}
    PROVE  \E n \in S : \A m \in S : n <= m
  <1>1. \E x \in S : \A y \in S : ~ (<<y, x>> \in OpToRel(<, Nat))
    BY NatLessThanWellFounded, WFMin
  <1>2. \A x \in Nat : \A y \in Nat : ~ (<<y, x>> \in OpToRel(<, Nat)) => x <= y
    BY DEF OpToRel
  <1> QED BY <1>1, <1>2

\* What RemoveAt leaves, position by position.
LEMMA RemoveAtLeaves ==
    ASSUME NEW S, NEW s \in Seq(S), NEW k \in 1 .. Len(s)
    PROVE  /\ RemoveAt(s, k) \in Seq(S)
           /\ DOMAIN RemoveAt(s, k) = 1 .. Len(s) - 1
           /\ \A i \in 1 .. Len(s) - 1 :
                 RemoveAt(s, k)[i] = s[IF i < k THEN i ELSE i + 1]
  <1> DEFINE before == SubSeq(s, 1, k - 1)
             after == SubSeq(s, k + 1, Len(s))
  <1>0. Len(s) \in Nat /\ \A i \in 1 .. Len(s) : s[i] \in S
    OBVIOUS
  <1>1. /\ before \in Seq(S)
        /\ Len(before) = k - 1
        /\ \A i \in 1 .. k - 1 : before[i] = s[i]
    <2>1. /\ before \in Seq(S)
          /\ Len(before) = IF 1 <= k - 1 THEN k - 1 - 1 + 1 ELSE 0
          /\ \A i \in 1 .. k - 1 - 1 + 1 : before[i] = s[1 + i - 1]
      <3>1. \A i \in 1 .. k - 1 : s[i] \in S
        BY <1>0
      <3> QED BY <3>1, <1>0, SubSeqProperties
    <2> QED BY <2>1, <1>0
  <1>2. /\ after \in Seq(S)
        /\ Len(after) = Len(s) - k
        /\ \A i \in 1 .. Len(s) - k : after[i] = s[k + i]
    <2>1. /\ after \in Seq(S)
          /\ Len(after) = IF k + 1 <= Len(s) THEN Len(s) - (k + 1) + 1 ELSE 0
          /\ \A i \in 1 .. Len(s) - (k + 1) + 1 : after[i] = s[(k + 1) + i - 1]
      <3>1. \A i \in k + 1 .. Len(s) : s[i] \in S
        BY <1>0
      <3>2. k + 1 \in Int /\ Len(s) \in Int
        BY <1>0
      <3> QED BY <3>1, <3>2, SubSeqProperties
    <2> QED BY <2>1, <1>0
  <1> HIDE DEF before, after
  <1>3. RemoveAt(s, k) = before \o after
    BY DEF RemoveAt, before, after
  <1>4. /\ before \o after \in Seq(S)
        /\ Len(before \o after) = Len(before) + Len(after)
        /\ \A i \in 1 .. Len(before) + Len(after) :
              (before \o after)[i] =
                 IF i <= Len(before) THEN before[i] ELSE after[i - Len(before)]
    BY <1>1, <1>2, ConcatProperties
  <1>5. Len(before) + Len(after) = Len(s) - 1
    BY <1>0, <1>1, <1>2
  <1>6. DOMAIN (before \o after) = 1 .. Len(s) - 1
    BY <1>4, <1>5
  <1>7. ASSUME NEW i \in 1 .. Len(s) - 1
        PROVE  (before \o after)[i] = s[IF i < k THEN i ELSE i + 1]
    <2>1. CASE i < k
      BY <2>1, <1>0, <1>1, <1>4, <1>5
    <2>2. CASE ~ (i < k)
      <3>1. i - (k - 1) \in 1 .. Len(s) - k
        BY <2>2, <1>0
      <3>2. (before \o after)[i] = after[i - (k - 1)]
        BY <2>2, <1>0, <1>1, <1>4, <1>5
      <3>3. after[i - (k - 1)] = s[k + (i - (k - 1))]
        BY <3>1, <1>2
      <3> QED BY <3>2, <3>3, <2>2, <1>0
    <2> QED BY <2>1, <2>2
  <1> QED BY <1>3, <1>4, <1>6, <1>7

\* RemoveFirst takes out one position that holds the element.
LEMMA RemoveFirstRemoves ==
    ASSUME NEW S, NEW s \in Seq(S), NEW e \in ToSet(s)
    PROVE  \E k \in 1 .. Len(s) : s[k] = e /\ RemoveFirst(s, e) = RemoveAt(s, k)
  <1> DEFINE holding == {i \in 1 .. Len(s) : s[i] = e}
             k == CHOOSE i \in holding : \A j \in holding : i =< j
  <1>1. holding # {} /\ holding \in SUBSET Nat
    BY DEF ToSet
  <1>2. k \in holding
    BY <1>1, FirstPosition
  <1>3. RemoveFirst(s, e) = RemoveAt(s, k)
    BY <1>1 DEF RemoveFirst, SelectInSeq, Min
  <1> HIDE DEF k
  <1> QED BY <1>2, <1>3

-----------------------------------------------------------------------------
(* The inductive invariant *)

\* Who waits, and who was promised to wake.
Bookkeeping == TypeOK /\ WaitersOnly /\ LaterSignalsReachMore

\* The signals left when a thread leaves: all, or all but one.
LEMMA SignalsLeftAreFewer ==
    ASSUME TypeOK, NEW t \in Threads, thread_can_exit(cond, t)
    PROVE  \/ SignalsLeft(cond, t) = cond.wake_groups
           \/ \E k \in 1 .. Len(cond.wake_groups) :
                 SignalsLeft(cond, t) = RemoveAt(cond.wake_groups, k)
  <1> DEFINE groups == cond.wake_groups
             with == {i \in 1 .. Len(groups) : t \in groups[i]}
             k == CHOOSE i \in DOMAIN groups :
                     t \in groups[i] /\ \A j \in 1 .. i - 1 : t \notin groups[j]
  <1>1. SUFFICES ASSUME t \notin cond.broadcast_eligible_threads
                 PROVE  k \in 1 .. Len(groups)
    BY DEF SignalsLeft
  <1>2. groups \in Seq(SUBSET Threads)
    BY DEF TypeOK, CondStates
  <1>3. with # {} /\ with \in SUBSET Nat
    BY <1>1, <1>2 DEF thread_can_exit
  <1>4. PICK i \in with : \A j \in with : i <= j
    BY <1>3, FirstPosition
  <1>5. \A j \in 1 .. i - 1 : t \notin groups[j]
    BY <1>2, <1>4
  <1>6. i \in DOMAIN groups /\ t \in groups[i]
    BY <1>2, <1>4
  <1>7. k \in DOMAIN groups
    BY <1>5, <1>6
  <1> QED BY <1>2, <1>7

\* Removing a signal keeps the order of the others.
LEMMA LeftInOrder ==
    ASSUME Bookkeeping, NEW t \in Threads, thread_can_exit(cond, t)
    PROVE  LET left == SignalsLeft(cond, t)
           IN  /\ left \in Seq(SUBSET Threads)
               /\ \A i \in DOMAIN left : left[i] \subseteq Queued
               /\ \A i, j \in DOMAIN left : i <= j => left[i] \subseteq left[j]
  <1> DEFINE groups == cond.wake_groups
             left == SignalsLeft(cond, t)
  <1>1. /\ groups \in Seq(SUBSET Threads)
        /\ \A i \in DOMAIN groups : groups[i] \subseteq Queued
        /\ \A i, j \in DOMAIN groups : i <= j => groups[i] \subseteq groups[j]
    BY DEF Bookkeeping, TypeOK, CondStates, WaitersOnly, LaterSignalsReachMore
  <1>2. CASE left = groups
    BY <1>1, <1>2
  <1>3. ASSUME NEW k \in 1 .. Len(groups), left = RemoveAt(groups, k)
        PROVE  /\ left \in Seq(SUBSET Threads)
               /\ \A i \in DOMAIN left : left[i] \subseteq Queued
               /\ \A i, j \in DOMAIN left : i <= j => left[i] \subseteq left[j]
    <2> DEFINE place(i) == IF i < k THEN i ELSE i + 1
    <2>1. /\ left \in Seq(SUBSET Threads)
          /\ DOMAIN left = 1 .. Len(groups) - 1
          /\ \A i \in 1 .. Len(groups) - 1 : left[i] = groups[place(i)]
      BY <1>1, <1>3, RemoveAtLeaves
    <2>2. \A i \in DOMAIN left : place(i) \in DOMAIN groups
      BY <1>1, <2>1
    <2>3. \A i, j \in DOMAIN left : i <= j => place(i) <= place(j)
      BY <1>1, <2>1
    <2> HIDE DEF place, left
    <2> QED BY <1>1, <2>1, <2>2, <2>3
  <1>4. left = groups \/ \E k \in 1 .. Len(groups) : left = RemoveAt(groups, k)
    BY SignalsLeftAreFewer DEF Bookkeeping
  <1> QED BY <1>2, <1>3, <1>4

\* The queue when a waiter leaves: nobody waits twice, and everybody else still waits.
LEMMA QueueWithout ==
    ASSUME NEW q \in Seq(Threads), NEW t \in ToSet(q),
           \A i, j \in DOMAIN q : q[i] = q[j] => i = j
    PROVE  LET rest == RemoveFirst(q, t)
           IN  /\ rest \in Seq(Threads)
               /\ \A i, j \in DOMAIN rest : rest[i] = rest[j] => i = j
               /\ ToSet(q) \ {t} \subseteq ToSet(rest)
  <1>1. PICK k \in 1 .. Len(q) : q[k] = t /\ RemoveFirst(q, t) = RemoveAt(q, k)
    BY RemoveFirstRemoves
  <1> DEFINE rest == RemoveFirst(q, t)
             place(i) == IF i < k THEN i ELSE i + 1
  <1>2. /\ rest \in Seq(Threads)
        /\ DOMAIN rest = 1 .. Len(q) - 1
        /\ \A i \in 1 .. Len(q) - 1 : rest[i] = q[place(i)]
    BY <1>1, RemoveAtLeaves
  <1> HIDE DEF rest
  <1>3. \A i \in DOMAIN rest : place(i) \in DOMAIN q
    BY <1>2
  <1>4. \A i, j \in DOMAIN rest : place(i) = place(j) => i = j
    BY <1>2
  <1>5. \A i, j \in DOMAIN rest : rest[i] = rest[j] => i = j
    <2> HIDE DEF place
    <2> QED BY <1>2, <1>3, <1>4
  <1>6. ASSUME NEW u \in ToSet(q) \ {t}
        PROVE  u \in ToSet(rest)
    <2>1. PICK n \in 1 .. Len(q) : q[n] = u
      BY DEF ToSet
    <2>2. n # k
      BY <1>1, <2>1
    <2>3. PICK i \in 1 .. Len(q) - 1 : place(i) = n
      <3>1. CASE n < k
        BY <3>1
      <3>2. CASE n > k
        <4>1. n - 1 \in 1 .. Len(q) - 1 /\ place(n - 1) = n
          BY <3>2
        <4> QED BY <4>1
      <3> QED BY <2>2, <3>1, <3>2
    <2>4. rest[i] = u
      BY <1>2, <2>1, <2>3
    <2> QED BY <1>2, <2>4 DEF ToSet
  <1> QED BY <1>2, <1>5, <1>6 DEF rest

LEMMA BookkeepingInit == Init => Bookkeeping
  BY DEF Init, NewCond, Bookkeeping, TypeOK, CondStates, WaitersOnly, LaterSignalsReachMore

\* A thread that joins the queue.
LEMMA EnqueueKeeps ==
    ASSUME Bookkeeping, NEW t \in Threads, Enqueue(t)
    PROVE  Bookkeeping'
  <1> DEFINE q == cond.wait_queue
  <1>1. /\ cond \in CondStates
        /\ t \notin ToSet(q)
        /\ cond' = [cond EXCEPT !.wait_queue = Append(@, t)]
    BY DEF Bookkeeping, TypeOK, Enqueue, MCCondEnqueue, add_waiter
  <1>2. q \in Seq(Threads) /\ cond'.wait_queue = Append(q, t)
    BY <1>1 DEF CondStates
  <1>3. /\ cond'.wake_groups = cond.wake_groups
        /\ cond'.broadcast_eligible_threads = cond.broadcast_eligible_threads
    BY <1>1 DEF CondStates
  <1>4. TypeOK'
    <2>1. cond' = [wait_queue |-> Append(q, t),
                   wake_groups |-> cond.wake_groups,
                   broadcast_eligible_threads |-> cond.broadcast_eligible_threads]
      BY <1>1 DEF CondStates
    <2>2. Append(q, t) \in Seq(Threads)
      BY <1>2
    <2> QED BY <1>1, <2>1, <2>2 DEF TypeOK, CondStates
  <1>5. Queued \subseteq Queued'
    BY <1>2 DEF Queued, ToSet
  <1>6. \A i, j \in DOMAIN cond'.wait_queue :
           cond'.wait_queue[i] = cond'.wait_queue[j] => i = j
    BY <1>1, <1>2 DEF Bookkeeping, WaitersOnly, ToSet
  <1>7. WaitersOnly'
    BY <1>3, <1>5, <1>6 DEF Bookkeeping, WaitersOnly
  <1>8. LaterSignalsReachMore'
    BY <1>3 DEF Bookkeeping, LaterSignalsReachMore
  <1> QED BY <1>4, <1>7, <1>8 DEF Bookkeeping

\* A thread that wakes: the only step that takes anything away.
LEMMA WaitKeeps ==
    ASSUME Bookkeeping, NEW t \in Threads, Wait(t)
    PROVE  Bookkeeping'
  <1> DEFINE q == cond.wait_queue
             left == SignalsLeft(cond, t)
             rest == RemoveFirst(q, t)
  <1>1. thread_can_exit(cond, t) /\ cond' = wake_thread(cond, t)
    BY DEF Wait, MCCondWait
  <1>2. /\ q \in Seq(Threads)
        /\ cond.broadcast_eligible_threads \in SUBSET Threads
        /\ \A i, j \in DOMAIN q : q[i] = q[j] => i = j
        /\ cond.broadcast_eligible_threads \subseteq ToSet(q)
    BY DEF Bookkeeping, TypeOK, CondStates, WaitersOnly, Queued
  <1>3. t \in ToSet(q)
    BY <1>1, <1>2 DEF Bookkeeping, WaitersOnly, Queued, thread_can_exit
  <1>4. /\ left \in Seq(SUBSET Threads)
        /\ \A i \in DOMAIN left : left[i] \subseteq ToSet(q)
        /\ \A i, j \in DOMAIN left : i <= j => left[i] \subseteq left[j]
    BY <1>1, LeftInOrder DEF Queued
  <1>5. /\ rest \in Seq(Threads)
        /\ \A i, j \in DOMAIN rest : rest[i] = rest[j] => i = j
        /\ ToSet(q) \ {t} \subseteq ToSet(rest)
    BY <1>2, <1>3, QueueWithout
  <1> HIDE DEF left, rest
  <1>6. /\ cond'.wait_queue = rest
        /\ cond'.wake_groups = [i \in DOMAIN left |-> left[i] \ {t}]
        /\ cond'.broadcast_eligible_threads = cond.broadcast_eligible_threads \ {t}
        /\ cond' = [wait_queue |-> rest,
                    wake_groups |-> [i \in DOMAIN left |-> left[i] \ {t}],
                    broadcast_eligible_threads |-> cond.broadcast_eligible_threads \ {t}]
    BY <1>1, <1>3 DEF wake_thread, left, rest
  <1>7. [i \in DOMAIN left |-> left[i] \ {t}] \in Seq(SUBSET Threads)
    BY <1>4
  <1>8. TypeOK'
    BY <1>2, <1>5, <1>6, <1>7 DEF TypeOK, CondStates
  <1>9. WaitersOnly'
    BY <1>2, <1>4, <1>5, <1>6 DEF WaitersOnly, Queued
  <1>10. LaterSignalsReachMore'
    BY <1>4, <1>6 DEF LaterSignalsReachMore
  <1> QED BY <1>8, <1>9, <1>10 DEF Bookkeeping

\* A signal: its group is everybody who waits, so it includes every earlier one.
LEMMA SignalKeeps ==
    ASSUME Bookkeeping, Signal
    PROVE  Bookkeeping'
  <1> DEFINE groups == cond.wake_groups
  <1>1. /\ cond \in CondStates
        /\ groups \in Seq(SUBSET Threads)
        /\ cond.wait_queue \in Seq(Threads)
        /\ Queued \in SUBSET Threads
    BY DEF Bookkeeping, TypeOK, CondStates, Queued, ToSet
  <1>2. CASE ~ has_waiters(cond)
    <2>1. cond' = cond
      BY <1>2 DEF Signal, MCCondSignal, receive_signal_message
    <2> QED BY <2>1 DEF Bookkeeping, TypeOK, WaitersOnly, Queued, LaterSignalsReachMore
  <1>3. CASE has_waiters(cond)
    <2>1. cond' = [cond EXCEPT !.wake_groups = Append(@, Queued)]
      BY <1>3 DEF Signal, MCCondSignal, receive_signal_message, Queued
    <2>2. /\ cond'.wake_groups = Append(groups, Queued)
          /\ cond'.wait_queue = cond.wait_queue
          /\ cond'.broadcast_eligible_threads = cond.broadcast_eligible_threads
      BY <1>1, <2>1 DEF CondStates
    <2>3. TypeOK'
      <3>1. cond' = [wait_queue |-> cond.wait_queue,
                     wake_groups |-> Append(groups, Queued),
                     broadcast_eligible_threads |-> cond.broadcast_eligible_threads]
        BY <1>1, <2>1 DEF CondStates
      <3>2. Append(groups, Queued) \in Seq(SUBSET Threads)
        BY <1>1
      <3> QED BY <1>1, <3>1, <3>2 DEF TypeOK, CondStates
    <2>4. Queued' = Queued
      BY <2>2 DEF Queued
    <2>5. \A i \in DOMAIN groups : groups[i] \subseteq Queued
      BY DEF Bookkeeping, WaitersOnly
    <2>6. /\ DOMAIN Append(groups, Queued) = 1 .. Len(groups) + 1
          /\ \A i \in DOMAIN groups : Append(groups, Queued)[i] = groups[i]
          /\ Append(groups, Queued)[Len(groups) + 1] = Queued
          /\ DOMAIN groups = 1 .. Len(groups)
          /\ Len(groups) \in Nat
      BY <1>1
    <2>7. WaitersOnly'
      <3>1. \A i \in DOMAIN Append(groups, Queued) : Append(groups, Queued)[i] \subseteq Queued
        BY <2>5, <2>6
      <3> QED BY <2>2, <2>4, <3>1 DEF Bookkeeping, WaitersOnly
    <2>8. LaterSignalsReachMore'
      <3>1. ASSUME NEW i \in DOMAIN Append(groups, Queued),
                   NEW j \in DOMAIN Append(groups, Queued), i <= j
            PROVE  Append(groups, Queued)[i] \subseteq Append(groups, Queued)[j]
        <4>1. CASE j \in DOMAIN groups
          <5>1. i \in DOMAIN groups
            BY <2>6, <3>1, <4>1
          <5> QED BY <2>6, <3>1, <4>1, <5>1 DEF Bookkeeping, LaterSignalsReachMore
        <4>2. CASE j = Len(groups) + 1
          BY <2>5, <2>6, <4>2
        <4> QED BY <2>6, <4>1, <4>2
      <3> QED BY <2>2, <3>1 DEF LaterSignalsReachMore
    <2> QED BY <2>3, <2>7, <2>8 DEF Bookkeeping
  <1> QED BY <1>2, <1>3

\* A broadcast: everybody who waits may leave, and no signal is left.
LEMMA BroadcastKeeps ==
    ASSUME Bookkeeping, Broadcast
    PROVE  Bookkeeping'
  <1> DEFINE eligible == cond.broadcast_eligible_threads
                           \cup Queued \cup UNION ToSet(cond.wake_groups)
  <1>1. /\ cond \in CondStates
        /\ cond.wake_groups \in Seq(SUBSET Threads)
        /\ cond.wait_queue \in Seq(Threads)
        /\ cond.broadcast_eligible_threads \in SUBSET Threads
    BY DEF Bookkeeping, TypeOK, CondStates
  <1>2. cond' = [cond EXCEPT !.broadcast_eligible_threads = eligible, !.wake_groups = << >>]
    BY <1>1 DEF Broadcast, MCCondBroadcast, receive_broadcast_message, Queued, CondStates
  <1>3. UNION ToSet(cond.wake_groups) \subseteq Queued
    BY DEF Bookkeeping, WaitersOnly, ToSet
  <1>4. eligible \subseteq Queued /\ Queued \subseteq Threads
    BY <1>1, <1>3 DEF Bookkeeping, WaitersOnly, Queued, ToSet
  <1> HIDE DEF eligible
  <1>5. /\ cond'.wait_queue = cond.wait_queue
        /\ cond'.wake_groups = << >>
        /\ cond'.broadcast_eligible_threads = eligible
    BY <1>1, <1>2 DEF CondStates
  <1>6. TypeOK'
    <2>1. cond' = [wait_queue |-> cond.wait_queue, wake_groups |-> << >>,
                   broadcast_eligible_threads |-> eligible]
      BY <1>1, <1>2 DEF CondStates
    <2>2. << >> \in Seq(SUBSET Threads)
      OBVIOUS
    <2> QED BY <1>1, <1>4, <2>1, <2>2 DEF TypeOK, CondStates
  <1>7. WaitersOnly'
    BY <1>4, <1>5 DEF Bookkeeping, WaitersOnly, Queued
  <1>8. LaterSignalsReachMore'
    BY <1>5 DEF LaterSignalsReachMore
  <1> QED BY <1>6, <1>7, <1>8 DEF Bookkeeping

\* The bookkeeping is inductive.
LEMMA BookkeepingNext == Bookkeeping /\ [Next]_cond => Bookkeeping'
  <1> SUFFICES ASSUME Bookkeeping, [Next]_cond PROVE Bookkeeping'
    OBVIOUS
  <1>1. CASE Signal
    BY <1>1, SignalKeeps
  <1>2. CASE Broadcast
    BY <1>2, BroadcastKeeps
  <1>3. ASSUME NEW t \in Threads, Enqueue(t) PROVE Bookkeeping'
    BY <1>3, EnqueueKeeps
  <1>4. ASSUME NEW t \in Threads, Wait(t) PROVE Bookkeeping'
    BY <1>4, WaitKeeps
  <1>5. CASE UNCHANGED cond
    BY <1>5 DEF Bookkeeping, TypeOK, WaitersOnly, Queued, LaterSignalsReachMore
  <1> QED BY <1>1, <1>2, <1>3, <1>4, <1>5 DEF Next

\* The books of a condition variable are right in every reachable state.
THEOREM BookkeepingInvariant == Spec => []Bookkeeping
  BY BookkeepingInit, BookkeepingNext, PTL DEF Spec

-----------------------------------------------------------------------------
(* The properties *)

\* Only a thread that waits, and waits once, may use up a signal or a broadcast.
THEOREM WaitersOnlyAlways == Spec => []WaitersOnly
  <1>1. Bookkeeping => WaitersOnly
    BY DEF Bookkeeping
  <1> QED BY <1>1, BookkeepingInvariant, PTL

\* A thread that may use up a signal may use up every later one.
THEOREM LaterSignalsReachMoreAlways == Spec => []LaterSignalsReachMore
  <1>1. Bookkeeping => LaterSignalsReachMore
    BY DEF Bookkeeping
  <1> QED BY <1>1, BookkeepingInvariant, PTL

-----------------------------------------------------------------------------
(* Matchings of threads to the first m groups of a sequence *)

\* Thread t of S has the signal f[t] of its own, which may wake it.
Matches(f, S, g) ==
    /\ \A t \in S : t \in g[f[t]]
    /\ \A t, u \in S : f[t] = f[u] => t = u

Matchable(g, m) == {S \in SUBSET Threads : \E f \in [S -> 1 .. m] : Matches(f, S, g)}

\* The largest sets of a family.
Maximal(M) == {S \in M : \A S2 \in M : S \subseteq S2 => S2 = S}

\* A sequence of m groups each of which is contained in the next.
Chain(g, m) ==
    /\ m \in Nat
    /\ \A i \in 1 .. m : g[i] \subseteq Threads
    /\ \A i, j \in 1 .. m : i <= j => g[i] \subseteq g[j]

\* Fewer threads need fewer signals.
LEMMA MatchableDown ==
    ASSUME NEW g, NEW m, NEW S \in Matchable(g, m), NEW T \in SUBSET S
    PROVE  T \in Matchable(g, m)
  <1>1. PICK f \in [S -> 1 .. m] : Matches(f, S, g)
    BY DEF Matchable
  <1> DEFINE h == [t \in T |-> f[t]]
  <1>2. h \in [T -> 1 .. m] /\ Matches(h, T, g)
    BY <1>1 DEF Matches
  <1> QED BY <1>2 DEF Matchable

\* Nothing is matched without signals.
LEMMA MatchableNone ==
    ASSUME NEW g
    PROVE  Matchable(g, 0) = {{}}
  <1>1. ASSUME NEW S \in Matchable(g, 0)
        PROVE  S = {}
    <2>1. PICK f \in [S -> 1 .. 0] : Matches(f, S, g)
      BY DEF Matchable
    <2>2. ASSUME NEW t \in S
          PROVE  FALSE
      <3>1. f[t] \in 1 .. 0
        BY <2>1
      <3> QED BY <3>1
    <2> QED BY <2>2
  <1>2. {} \in Matchable(g, 0)
    <2> DEFINE f == [t \in {} |-> 1]
    <2>1. f \in [{} -> 1 .. 0] /\ Matches(f, {}, g)
      BY DEF Matches
    <2> QED BY <2>1 DEF Matchable
  <1> QED BY <1>1, <1>2

\* What was matched stays matched when there are more signals.
LEMMA MatchableLess ==
    ASSUME NEW g, NEW m \in Nat
    PROVE  Matchable(g, m) \subseteq Matchable(g, m + 1)
  <1> SUFFICES ASSUME NEW S \in Matchable(g, m)
               PROVE  S \in Matchable(g, m + 1)
    OBVIOUS
  <1>1. PICK f \in [S -> 1 .. m] : Matches(f, S, g)
    BY DEF Matchable
  <1>2. f \in [S -> 1 .. m + 1]
    BY <1>1
  <1> QED BY <1>1, <1>2 DEF Matchable

\* The last signal can be given to one more thread.
LEMMA MatchableMore ==
    ASSUME NEW g, NEW m \in Nat, NEW S \in Matchable(g, m), NEW t \in Threads, t \in g[m + 1]
    PROVE  S \cup {t} \in Matchable(g, m + 1)
  <1>1. CASE t \in S
    <2>1. S \cup {t} = S
      BY <1>1
    <2> QED BY <2>1, MatchableLess
  <1>2. CASE t \notin S
    <2>1. PICK f \in [S -> 1 .. m] : Matches(f, S, g)
      BY DEF Matchable
    <2> DEFINE h == [u \in S \cup {t} |-> IF u = t THEN m + 1 ELSE f[u]]
    <2>2. h \in [S \cup {t} -> 1 .. m + 1]
      BY <2>1
    <2>3. \A u \in S : h[u] = f[u] /\ f[u] \in 1 .. m
      BY <1>2, <2>1
    <2>4. h[t] = m + 1
      OBVIOUS
    <2>5. \A u \in S : h[u] # h[t]
      BY <2>3, <2>4
    <2> HIDE DEF h
    <2>6. Matches(h, S \cup {t}, g)
      BY <1>2, <2>1, <2>3, <2>4, <2>5 DEF Matches
    <2>7. S \cup {t} \in SUBSET Threads
      BY DEF Matchable
    <2> QED BY <2>2, <2>6, <2>7 DEF Matchable
  <1> QED BY <1>1, <1>2

\* Only one thread has the last signal.
LEMMA MatchableLast ==
    ASSUME NEW g, NEW m \in Nat, NEW S \in Matchable(g, m + 1)
    PROVE  \/ S \in Matchable(g, m)
           \/ \E t \in S : t \in g[m + 1] /\ S \ {t} \in Matchable(g, m)
  <1>1. PICK f \in [S -> 1 .. m + 1] : Matches(f, S, g)
    BY DEF Matchable
  <1>2. S \in SUBSET Threads
    BY DEF Matchable
  <1>3. CASE \A t \in S : f[t] # m + 1
    <2>1. f \in [S -> 1 .. m]
      BY <1>1, <1>3
    <2> QED BY <1>1, <1>2, <2>1 DEF Matchable
  <1>4. ASSUME NEW t \in S, f[t] = m + 1
        PROVE  t \in g[m + 1] /\ S \ {t} \in Matchable(g, m)
    <2> DEFINE h == [u \in S \ {t} |-> f[u]]
    <2>1. \A u \in S \ {t} : f[u] \in 1 .. m
      <3>1. \A u \in S \ {t} : f[u] # m + 1
        BY <1>1, <1>4 DEF Matches
      <3>2. \A u \in S : f[u] \in 1 .. m + 1
        BY <1>1
      <3> QED BY <3>1, <3>2
    <2>2. h \in [S \ {t} -> 1 .. m] /\ Matches(h, S \ {t}, g)
      BY <1>1, <2>1 DEF Matches
    <2>3. h \in [S \ {t} -> 1 .. m]
      BY <2>2
    <2>4. t \in g[m + 1]
      BY <1>1, <1>4 DEF Matches
    <2> HIDE DEF h
    <2> QED BY <1>2, <2>2, <2>3, <2>4 DEF Matchable
  <1> QED BY <1>3, <1>4

\* Only the groups that are used matter.
LEMMA MatchableSame ==
    ASSUME NEW g, NEW h, NEW m, \A i \in 1 .. m : g[i] = h[i]
    PROVE  Matchable(g, m) = Matchable(h, m)
  BY DEF Matchable, Matches

\* A matched thread is in one of the groups.
LEMMA MatchedAreInGroups ==
    ASSUME NEW g, NEW m, NEW S \in Matchable(g, m), NEW t \in S
    PROVE  \E i \in 1 .. m : t \in g[i]
  <1>1. PICK f \in [S -> 1 .. m] : Matches(f, S, g)
    BY DEF Matchable
  <1> QED BY <1>1 DEF Matches

-----------------------------------------------------------------------------
(* Sets that cannot be made larger *)

\* Sets of threads are finite.
LEMMA ThreadSets ==
    ASSUME NEW S \in SUBSET Threads
    PROVE  /\ IsFiniteSet(S)
           /\ Cardinality(S) \in Nat
           /\ Cardinality(S) <= LastThread + 1
  <1>1. LastThread \in Nat
    BY LastThreadAssumption
  <1>2. IsFiniteSet(Threads) /\ Cardinality(Threads) = LastThread + 1
    <2>1. 0 \in Int /\ LastThread \in Int
      BY <1>1
    <2> QED BY <1>1, <2>1, FS_Interval DEF Threads
  <1>3. IsFiniteSet(S) /\ Cardinality(S) <= Cardinality(Threads)
    BY <1>2, FS_Subset
  <1> QED BY <1>2, <1>3, FS_CardinalityType

\* Every set of a family is contained in one of its largest.
LEMMA InAMaximal ==
    ASSUME NEW M \in SUBSET SUBSET Threads, NEW S \in M
    PROVE  \E S2 \in Maximal(M) : S \subseteq S2
  <1> DEFINE above == {T \in M : S \subseteq T}
             left(T) == LastThread + 1 - Cardinality(T)
             sizes == {n \in Nat : \E T \in above : n = left(T)}
  <1>0. LastThread \in Nat
    BY LastThreadAssumption
  <1>1. \A T \in above : left(T) \in Nat
    BY <1>0, ThreadSets
  <1>2. sizes # {}
    BY <1>1
  <1>3. PICK n \in sizes : \A k \in sizes : n <= k
    BY <1>2, FirstPosition
  <1>4. PICK T \in above : n = left(T)
    OBVIOUS
  <1>5. ASSUME NEW U \in M, T \subseteq U
        PROVE  U = T
    <2>1. U \in above /\ left(U) \in Nat
      BY <1>1, <1>4, <1>5
    <2>2. left(T) <= left(U)
      BY <1>3, <1>4, <2>1
    <2>3. IsFiniteSet(U) /\ Cardinality(U) \in Nat /\ Cardinality(T) \in Nat
      BY <1>4, <1>5, ThreadSets
    <2>4. Cardinality(U) <= Cardinality(T)
      BY <1>0, <2>2, <2>3
    <2>5. Cardinality(T) <= Cardinality(U) /\ (Cardinality(U) = Cardinality(T) => U = T)
      BY <1>5, <2>3, FS_Subset
    <2> QED BY <2>3, <2>4, <2>5
  <1> QED BY <1>4, <1>5 DEF Maximal

\* A set with one more element has an element the other has not.
LEMMA LargerHasAnother ==
    ASSUME NEW A \in SUBSET Threads, NEW B \in SUBSET Threads, Cardinality(A) < Cardinality(B)
    PROVE  \E x \in B : x \notin A
  <1>1. IsFiniteSet(A) /\ Cardinality(A) \in Nat /\ Cardinality(B) \in Nat
    BY ThreadSets
  <1>2. SUFFICES ASSUME B \subseteq A
                 PROVE  FALSE
    OBVIOUS
  <1>3. Cardinality(B) <= Cardinality(A)
    BY <1>1, <1>2, FS_Subset
  <1> QED BY <1>1, <1>3

\* If one matchable set is larger than another, the other can be made larger with a thread
\* of the first.
Exchanges(g, m) ==
    \A A, B \in Matchable(g, m) :
        Cardinality(A) < Cardinality(B) =>
            \E x \in B : x \notin A /\ A \cup {x} \in Matchable(g, m)

\* The same with one more signal, that may wake everybody the signals before may.
LEMMA ExchangeStep ==
    ASSUME NEW g, NEW m \in Nat, Chain(g, m + 1), Exchanges(g, m)
    PROVE  Exchanges(g, m + 1)
  <1> SUFFICES ASSUME NEW A \in Matchable(g, m + 1), NEW B \in Matchable(g, m + 1),
                      Cardinality(A) < Cardinality(B)
               PROVE  \E x \in B : x \notin A /\ A \cup {x} \in Matchable(g, m + 1)
    BY DEF Exchanges
  <1>1. A \in SUBSET Threads /\ B \in SUBSET Threads
    BY DEF Matchable
  <1>2. \A x \in B : x \in g[m + 1]
    <2> TAKE x \in B
    <2>1. PICK i \in 1 .. m + 1 : x \in g[i]
      BY MatchedAreInGroups
    <2> QED BY <2>1 DEF Chain
  <1>3. /\ IsFiniteSet(A) /\ IsFiniteSet(B)
        /\ Cardinality(A) \in Nat /\ Cardinality(B) \in Nat
    BY <1>1, ThreadSets
  <1>4. CASE A \in Matchable(g, m)
    <2>1. PICK x \in B : x \notin A
      BY <1>1, LargerHasAnother
    <2>2. A \cup {x} \in Matchable(g, m + 1)
      BY <1>1, <1>2, <1>4, MatchableMore
    <2> QED BY <2>1, <2>2
  <1>5. ASSUME NEW a \in A, a \in g[m + 1], A \ {a} \in Matchable(g, m),
               A \notin Matchable(g, m)
        PROVE  \E x \in B : x \notin A /\ A \cup {x} \in Matchable(g, m + 1)
    <2> DEFINE A0 == A \ {a}
    <2>1. Cardinality(A0) = Cardinality(A) - 1
      BY <1>3, FS_RemoveElement
    <2>2. PICK B0 \in Matchable(g, m) : B0 \subseteq B /\ Cardinality(B0) >= Cardinality(B) - 1
      <3>1. CASE B \in Matchable(g, m)
        BY <1>3, <3>1
      <3>2. ASSUME NEW b \in B, B \ {b} \in Matchable(g, m)
            PROVE  B \ {b} \subseteq B /\ Cardinality(B \ {b}) >= Cardinality(B) - 1
        <4>1. Cardinality(B \ {b}) = Cardinality(B) - 1
          BY <1>3, FS_RemoveElement
        <4> QED BY <1>3, <4>1
      <3> QED BY <3>1, <3>2, MatchableLast
    <2>3. Cardinality(B0) \in Nat
      BY <1>1, <2>2, ThreadSets
    <2>4. Cardinality(A0) < Cardinality(B0)
      BY <1>3, <2>1, <2>2, <2>3
    <2>5. PICK x \in B0 : x \notin A0 /\ A0 \cup {x} \in Matchable(g, m)
      BY <1>5, <2>4 DEF Exchanges
    <2>6. x # a
      <3>1. A0 \cup {a} = A
        BY <1>5
      <3> QED BY <1>5, <2>5, <3>1
    <2>7. (A0 \cup {x}) \cup {a} \in Matchable(g, m + 1)
      BY <1>1, <1>5, <2>5, MatchableMore
    <2>8. (A0 \cup {x}) \cup {a} = A \cup {x}
      BY <1>5
    <2> QED BY <2>2, <2>5, <2>6, <2>7, <2>8
  <1> QED BY <1>4, <1>5, MatchableLast

\* The sets that can be matched with a chain of signals can be exchanged.
LEMMA Exchange ==
    ASSUME NEW g, NEW m \in Nat, Chain(g, m)
    PROVE  Exchanges(g, m)
  <1> DEFINE bad == {k \in 0 .. m : ~ Exchanges(g, k)}
  <1>1. SUFFICES ASSUME bad # {}
                 PROVE  FALSE
    OBVIOUS
  <1>2. PICK k \in bad : \A j \in bad : k <= j
    <2>1. bad \in SUBSET Nat
      OBVIOUS
    <2> QED BY <1>1, <2>1, FirstPosition
  <1>3. k # 0
    <2>1. Exchanges(g, 0)
      <3>1. \A A, B \in Matchable(g, 0) : A = B
        BY MatchableNone
      <3>2. \A A \in Matchable(g, 0) : Cardinality(A) \in Nat
        BY ThreadSets DEF Matchable
      <3> QED BY <3>1, <3>2 DEF Exchanges
    <2> QED BY <2>1
  <1>4. k - 1 \in 0 .. m /\ k - 1 \in Nat /\ k - 1 \notin bad
    BY <1>2, <1>3
  <1>5. Chain(g, (k - 1) + 1)
    <2>1. (k - 1) + 1 = k /\ k \in Nat /\ 1 .. k \subseteq 1 .. m
      BY <1>2
    <2> QED BY <2>1 DEF Chain
  <1>6. Exchanges(g, (k - 1) + 1)
    BY <1>4, <1>5, ExchangeStep
  <1>7. (k - 1) + 1 = k
    BY <1>2
  <1> QED BY <1>2, <1>6, <1>7

-----------------------------------------------------------------------------
(* What a signal does to the largest sets *)

\* The sets of threads that can be matched, without those a broadcast woke.
Woken(g, m, B) == {S \in Matchable(g, m) : S \cap B = {}}

\* A new signal, that everybody in g[m + 1] may use, lets each of the largest sets grow by
\* one thread, unless everybody is in it already; and no other set is largest.
LEMMA SignalSpreads ==
    ASSUME NEW g, NEW m \in Nat, Chain(g, m + 1), NEW B \in SUBSET g[m + 1]
    PROVE  \A T : T \in Maximal(Woken(g, m + 1, B)) <=>
              \/ T \in Maximal(Woken(g, m, B)) /\ B \cup T = g[m + 1]
              \/ \E S \in Maximal(Woken(g, m, B)) : \E t \in g[m + 1] \ (B \cup S) :
                    T = S \cup {t}
  <1> DEFINE Q == g[m + 1]
             before == Woken(g, m, B)
             after == Woken(g, m + 1, B)
  <1>1. /\ before \subseteq after
        /\ before \subseteq SUBSET Threads
        /\ after \subseteq SUBSET Threads
    BY MatchableLess DEF Woken, Matchable
  <1>2. Q \subseteq Threads
    BY DEF Chain
  <1>3. \A S \in after : S \subseteq Q \ B
    <2> SUFFICES ASSUME NEW S \in after, NEW t \in S
                 PROVE  t \in Q \ B
      OBVIOUS
    <2>1. PICK i \in 1 .. m + 1 : t \in g[i]
      BY MatchedAreInGroups DEF Woken
    <2> QED BY <2>1 DEF Woken, Chain
  <1>4. ASSUME NEW S \in before, NEW t \in Q \ B
        PROVE  S \cup {t} \in after
    BY <1>2, MatchableMore DEF Woken
  <1>5. ASSUME NEW T \in Maximal(after)
        PROVE  \/ T \in Maximal(before) /\ B \cup T = Q
               \/ \E S \in Maximal(before) : \E t \in Q \ (B \cup S) : T = S \cup {t}
    <2>0. T \in after /\ \A U \in after : T \subseteq U => U = T
      BY DEF Maximal
    <2>1. CASE T \in Matchable(g, m)
      <3>1. T \in before
        BY <2>0, <2>1 DEF Woken
      <3>2. T \in Maximal(before)
        BY <1>1, <2>0, <3>1 DEF Maximal
      <3>3. ASSUME NEW q \in Q \ (B \cup T)
            PROVE  FALSE
        <4>1. T \cup {q} \in after
          BY <1>4, <3>1
        <4> QED BY <2>0, <4>1
      <3> QED BY <1>3, <2>0, <3>2, <3>3
    <2>2. ASSUME T \notin Matchable(g, m),
                 NEW t \in T, t \in Q, T \ {t} \in Matchable(g, m)
          PROVE  T \ {t} \in Maximal(before)
      <3>1. T \ {t} \in before
        BY <2>0, <2>2 DEF Woken
      <3>2. ASSUME NEW S2 \in before, T \ {t} \subseteq S2, NEW x \in S2, x \notin T \ {t}
            PROVE  FALSE
        <4>1. t \notin S2
          <5>1. CASE t \in S2
            <6>1. T \subseteq S2 /\ S2 \in Matchable(g, m)
              BY <3>2, <5>1 DEF Woken
            <6> QED BY <2>2, <6>1, MatchableDown
          <5> QED BY <5>1
        <4>2. t \in Q \ B
          BY <1>3, <2>0
        <4>3. S2 \cup {t} \in after
          BY <1>4, <3>2, <4>2
        <4>4. S2 \cup {t} = T
          BY <2>0, <3>2, <4>3
        <4> QED BY <3>2, <4>1, <4>4
      <3> QED BY <3>1, <3>2 DEF Maximal
    <2>3. CASE T \notin Matchable(g, m)
      <3>1. PICK t \in T : t \in Q /\ T \ {t} \in Matchable(g, m)
        BY <2>0, <2>3, MatchableLast DEF Woken
      <3>2. T \ {t} \in Maximal(before)
        BY <2>2, <2>3, <3>1
      <3>3. t \in Q \ (B \cup (T \ {t})) /\ T = (T \ {t}) \cup {t}
        BY <1>3, <2>0
      <3> QED BY <3>2, <3>3
    <2> QED BY <2>1, <2>3
  <1>6. ASSUME NEW T \in Maximal(before), B \cup T = Q
        PROVE  T \in Maximal(after)
    <2>1. T \in after
      BY <1>1 DEF Maximal
    <2>2. \A U \in after : T \subseteq U => U = T
      BY <1>3, <1>6
    <2> QED BY <2>1, <2>2 DEF Maximal
  <1>7. ASSUME NEW S \in Maximal(before), NEW t \in Q \ (B \cup S)
        PROVE  S \cup {t} \in Maximal(after)
    <2>1. S \in before /\ \A S2 \in before : S \subseteq S2 => S2 = S
      BY DEF Maximal
    <2>2. S \cup {t} \in after
      BY <1>4, <2>1
    <2>3. ASSUME NEW T \in after, S \cup {t} \subseteq T, NEW u \in T, u \notin S \cup {t}
          PROVE  FALSE
      <3> DEFINE U == (S \cup {t}) \cup {u}
      <3>1. T \in Matchable(g, m + 1) /\ U \subseteq T
        BY <2>3 DEF Woken
      <3>2. U \in Matchable(g, m + 1)
        BY <3>1, MatchableDown
      <3>3. /\ IsFiniteSet(S) /\ Cardinality(S) \in Nat
            /\ IsFiniteSet(U) /\ Cardinality(U) = Cardinality(S) + 2
        <4>1. IsFiniteSet(S) /\ Cardinality(S) \in Nat
          BY <1>1, <2>1, ThreadSets
        <4>2. IsFiniteSet(S \cup {t}) /\ Cardinality(S \cup {t}) = Cardinality(S) + 1
          BY <4>1, FS_AddElement
        <4>3. IsFiniteSet(U) /\ Cardinality(U) = Cardinality(S \cup {t}) + 1
          BY <2>3, <4>2, FS_AddElement
        <4> QED BY <4>1, <4>2, <4>3
      <3>4. PICK V \in Matchable(g, m) : V \subseteq U /\ Cardinality(V) > Cardinality(S)
        <4>1. CASE U \in Matchable(g, m)
          BY <3>3, <4>1
        <4>2. ASSUME NEW v \in U, U \ {v} \in Matchable(g, m)
              PROVE  Cardinality(U \ {v}) > Cardinality(S)
          <5>1. Cardinality(U \ {v}) = Cardinality(U) - 1
            BY <3>3, FS_RemoveElement
          <5> QED BY <3>3, <5>1
        <4> QED BY <3>2, <4>1, <4>2, MatchableLast
      <3>5. Exchanges(g, m)
        <4>1. Chain(g, m)
          BY DEF Chain
        <4> QED BY <4>1, Exchange
      <3>6. PICK x \in V : x \notin S /\ S \cup {x} \in Matchable(g, m)
        <4>1. S \in Matchable(g, m)
          BY <2>1 DEF Woken
        <4>2. Cardinality(S) < Cardinality(V)
          <5>1. Cardinality(V) \in Nat
            BY <3>4, ThreadSets DEF Matchable
          <5> QED BY <3>3, <3>4, <5>1
        <4> QED BY <3>5, <4>1, <4>2 DEF Exchanges
      <3>7. x \notin B
        BY <1>3, <2>3, <3>1, <3>4, <3>6
      <3>8. S \cup {x} \in before
        BY <2>1, <3>6, <3>7 DEF Woken
      <3> QED BY <2>1, <3>6, <3>8
    <2> QED BY <2>2, <2>3 DEF Maximal
  <1> QED BY <1>5, <1>6, <1>7

-----------------------------------------------------------------------------
(* What using up a signal does to the matchable sets *)

\* Thread t leaves and uses up group k, the first one it is in: a set of the others can
\* be matched with what is left if, and only if, it could together with t before.  That
\* nobody is hurt by giving t the FIRST signal is where the order of the groups counts.
LEMMA LeavingUsesOneUp ==
    ASSUME NEW g, NEW n \in Nat, Chain(g, n), NEW k \in 1 .. n, NEW t \in g[k],
           \A j \in 1 .. k - 1 : t \notin g[j],
           NEW h, \A i \in 1 .. n - 1 : h[i] = g[IF i < k THEN i ELSE i + 1] \ {t}
    PROVE  \A S \in SUBSET Threads :
              S \in Matchable(h, n - 1) <=> t \notin S /\ S \cup {t} \in Matchable(g, n)
  <1> DEFINE place(i) == IF i < k THEN i ELSE i + 1
             unplace(p) == IF p < k THEN p ELSE p - 1
  <1>1. /\ \A i \in 1 .. n - 1 : place(i) \in 1 .. n /\ place(i) # k
        /\ \A i, j \in 1 .. n - 1 : place(i) = place(j) => i = j
        /\ \A p \in 1 .. n : p # k => unplace(p) \in 1 .. n - 1 /\ place(unplace(p)) = p
    OBVIOUS
  <1>2. \A i \in 1 .. n - 1 : h[i] = g[place(i)] \ {t}
    OBVIOUS
  <1>3. t \in Threads
    BY DEF Chain
  <1> HIDE DEF place, unplace
  <1>4. ASSUME NEW S \in Matchable(h, n - 1)
        PROVE  t \notin S /\ S \cup {t} \in Matchable(g, n)
    <2>1. PICK f \in [S -> 1 .. n - 1] : Matches(f, S, h)
      BY DEF Matchable
    <2>2. t \notin S
      BY <1>2, <2>1 DEF Matches
    <2> DEFINE e == [u \in S \cup {t} |-> IF u = t THEN k ELSE place(f[u])]
    <2>3. e[t] = k /\ \A u \in S : e[u] = place(f[u])
      BY <2>2
    <2>4. \A u \in S : f[u] \in 1 .. n - 1 /\ e[u] \in 1 .. n /\ e[u] # k
      BY <1>1, <2>1, <2>3
    <2>5. e \in [S \cup {t} -> 1 .. n]
      BY <2>3, <2>4
    <2> HIDE DEF e
    <2>6. Matches(e, S \cup {t}, g)
      <3>1. \A u \in S \cup {t} : u \in g[e[u]]
        BY <1>2, <2>1, <2>3, <2>4 DEF Matches
      <3>2. ASSUME NEW u \in S \cup {t}, NEW v \in S \cup {t}, e[u] = e[v]
            PROVE  u = v
        <4>1. CASE u = t \/ v = t
          BY <2>3, <2>4, <3>2, <4>1
        <4>2. CASE u \in S /\ v \in S
          BY <1>1, <2>1, <2>3, <2>4, <3>2, <4>2 DEF Matches
        <4> QED BY <4>1, <4>2
      <3> QED BY <3>1, <3>2 DEF Matches
    <2>7. S \cup {t} \in SUBSET Threads
      BY <1>3 DEF Matchable
    <2> QED BY <2>2, <2>5, <2>6, <2>7 DEF Matchable
  <1>5. ASSUME NEW S \in SUBSET Threads, t \notin S, S \cup {t} \in Matchable(g, n)
        PROVE  S \in Matchable(h, n - 1)
    <2>1. PICK f \in [S \cup {t} -> 1 .. n] : Matches(f, S \cup {t}, g)
      BY <1>5 DEF Matchable
    <2>2. t \in g[f[t]] /\ f[t] \in 1 .. n
      BY <2>1 DEF Matches
    <2>3. k <= f[t]
      BY <2>2
    <2> DEFINE p(u) == IF f[u] = k THEN f[t] ELSE f[u]
    <2>4. ASSUME NEW u \in S
          PROVE  p(u) \in 1 .. n /\ p(u) # k /\ u \in g[p(u)] /\ u # t
      <3>1. f[u] \in 1 .. n /\ f[u] # f[t] /\ u \in g[f[u]] /\ u # t
        BY <1>5, <2>1 DEF Matches
      <3>2. CASE f[u] = k
        <4>1. g[k] \subseteq g[f[t]]
          BY <2>2, <2>3 DEF Chain
        <4> QED BY <2>2, <3>1, <3>2, <4>1
      <3>3. CASE f[u] # k
        BY <3>1, <3>3
      <3> QED BY <3>2, <3>3
    <2>5. \A u, v \in S : p(u) = p(v) => u = v
      <3>1. \A u \in S : f[u] # f[t]
        BY <1>5, <2>1 DEF Matches
      <3>2. \A u, v \in S : f[u] = f[v] => u = v
        BY <2>1 DEF Matches
      <3> QED BY <3>1, <3>2
    <2> HIDE DEF p
    <2> DEFINE e == [u \in S |-> unplace(p(u))]
    <2>6. \A u \in S : e[u] \in 1 .. n - 1 /\ place(e[u]) = p(u)
      BY <1>1, <2>4
    <2>7. e \in [S -> 1 .. n - 1]
      BY <2>6
    <2> HIDE DEF e
    <2>8. Matches(e, S, h)
      <3>1. \A u \in S : u \in h[e[u]]
        BY <1>2, <2>4, <2>6
      <3>2. \A u, v \in S : e[u] = e[v] => u = v
        BY <2>5, <2>6
      <3> QED BY <3>1, <3>2 DEF Matches
    <2> QED BY <2>7, <2>8 DEF Matchable
  <1> QED BY <1>4, <1>5

\* So the largest sets without t are the largest sets with t, each without it.
LEMMA LargestWithout ==
    ASSUME NEW M \in SUBSET SUBSET Threads, NEW N \in SUBSET SUBSET Threads, NEW t,
           \A S \in SUBSET Threads : S \in N <=> t \notin S /\ S \cup {t} \in M,
           \A S \in M : \A T \in SUBSET S : T \in M
    PROVE  \A S \in SUBSET Threads :
              S \in Maximal(N) <=> t \notin S /\ S \cup {t} \in Maximal(M)
  <1> SUFFICES ASSUME NEW S \in SUBSET Threads
               PROVE  S \in Maximal(N) <=> t \notin S /\ S \cup {t} \in Maximal(M)
    OBVIOUS
  <1>1. ASSUME S \in Maximal(N)
        PROVE  t \notin S /\ S \cup {t} \in Maximal(M)
    <2>1. t \notin S /\ S \cup {t} \in M
      BY <1>1 DEF Maximal
    <2>2. ASSUME NEW T \in M, S \cup {t} \subseteq T
          PROVE  T = S \cup {t}
      <3>1. T \ {t} \in SUBSET Threads /\ (T \ {t}) \cup {t} = T
        BY <2>2
      <3>2. T \ {t} \in N
        BY <3>1
      <3>3. S \subseteq T \ {t}
        BY <2>1, <2>2
      <3>4. T \ {t} = S
        BY <1>1, <3>2, <3>3 DEF Maximal
      <3> QED BY <3>1, <3>4
    <2> QED BY <2>1, <2>2 DEF Maximal
  <1>2. ASSUME t \notin S, S \cup {t} \in Maximal(M)
        PROVE  S \in Maximal(N)
    <2>1. S \in N
      BY <1>2 DEF Maximal
    <2>2. ASSUME NEW T \in N, S \subseteq T
          PROVE  T = S
      <3>1. t \notin T /\ T \cup {t} \in M
        OBVIOUS
      <3>2. T \cup {t} = S \cup {t}
        BY <1>2, <2>2, <3>1 DEF Maximal
      <3>3. T = (T \cup {t}) \ {t} /\ S = (S \cup {t}) \ {t}
        BY <1>2, <3>1
      <3> QED BY <3>2, <3>3
    <2> QED BY <2>1, <2>2 DEF Maximal
  <1> QED BY <1>1, <1>2

-----------------------------------------------------------------------------
(* The possibilities of a state *)

Eligible == cond.broadcast_eligible_threads
Groups == cond.wake_groups

\* What the bookkeeping says about the groups.
LEMMA GroupsAreAChain ==
    ASSUME Bookkeeping
    PROVE  /\ Groups \in Seq(SUBSET Threads) /\ Len(Groups) \in Nat
           /\ DOMAIN Groups = 1 .. Len(Groups)
           /\ Chain(Groups, Len(Groups))
           /\ Eligible \subseteq Queued /\ Queued \subseteq Threads
           /\ \A i \in 1 .. Len(Groups) : Groups[i] \subseteq Queued
  <1>1. Groups \in Seq(SUBSET Threads) /\ cond.wait_queue \in Seq(Threads)
    BY DEF Bookkeeping, TypeOK, CondStates, Groups
  <1>2. Len(Groups) \in Nat /\ DOMAIN Groups = 1 .. Len(Groups)
    BY <1>1
  <1>3. Chain(Groups, Len(Groups))
    BY <1>1, <1>2 DEF Bookkeeping, LaterSignalsReachMore, Chain, Groups
  <1>4. Eligible \subseteq Queued /\ \A i \in 1 .. Len(Groups) : Groups[i] \subseteq Queued
    BY <1>2 DEF Bookkeeping, WaitersOnly, Eligible, Groups
  <1>5. Queued \subseteq Threads
    BY <1>1 DEF Queued, ToSet
  <1> QED BY <1>1, <1>2, <1>3, <1>4, <1>5

\* The sets `possible' is made of are the largest that can be matched.
PossibleAreMaximal ==
    possible = {Eligible \cup S : S \in Maximal(Woken(Groups, Len(Groups), Eligible))}

LEMMA PossibleIsMaximal == Bookkeeping => PossibleAreMaximal
  <1> SUFFICES ASSUME Bookkeeping
               PROVE  PossibleAreMaximal
    OBVIOUS
  <1>1. /\ DOMAIN Groups = 1 .. Len(Groups)
        /\ \A i \in 1 .. Len(Groups) : Groups[i] \subseteq Threads
    BY GroupsAreAChain DEF Chain
  <1>2. Signalled = Woken(Groups, Len(Groups), Eligible)
    <2>1. ASSUME NEW S \in Signalled
          PROVE  S \in Woken(Groups, Len(Groups), Eligible)
      <3>1. PICK f \in [S -> DOMAIN Groups] : Matches(f, S, Groups)
        BY DEF Signalled, CanBeSignalled, Matches, Groups
      <3>2. f \in [S -> 1 .. Len(Groups)]
        BY <1>1, <3>1
      <3>3. S \in SUBSET Threads
        BY <1>1, <3>1 DEF Matches
      <3>4. S \cap Eligible = {}
        BY DEF Signalled, Eligible
      <3> QED BY <3>1, <3>2, <3>3, <3>4 DEF Woken, Matchable
    <2>2. ASSUME NEW S \in Woken(Groups, Len(Groups), Eligible)
          PROVE  S \in Signalled
      <3>1. PICK f \in [S -> 1 .. Len(Groups)] : Matches(f, S, Groups)
        BY DEF Woken, Matchable
      <3>2. CanBeSignalled(S)
        BY <1>1, <3>1 DEF CanBeSignalled, Matches, Groups
      <3>3. \A t \in S : f[t] \in DOMAIN Groups /\ t \in Groups[f[t]]
        BY <1>1, <3>1 DEF Matches
      <3>4. S \subseteq UNION ToSet(Groups)
        BY <3>3 DEF ToSet
      <3>5. S \cap Eligible = {}
        BY DEF Woken
      <3> QED BY <3>2, <3>4, <3>5 DEF Signalled, Groups, Eligible
    <2> QED BY <2>1, <2>2
  <1> QED BY <1>2 DEF PossibleAreMaximal, possible, Maximal, Eligible

\* The same after a step.
LEMMA PossibleIsMaximalNext == Bookkeeping' => PossibleAreMaximal'
  BY PossibleIsMaximal, PTL

\* thread_can_exit answers whether the thread may have been woken.
LEMMA CanExitMayLeave ==
    ASSUME Bookkeeping, NEW t \in Threads
    PROVE  thread_can_exit(cond, t) <=> Semantics!MayLeave(t)
  <1> DEFINE W == Woken(Groups, Len(Groups), Eligible)
  <1>1. possible = {Eligible \cup S : S \in Maximal(W)}
    BY PossibleIsMaximal DEF PossibleAreMaximal
  <1>2. thread_can_exit(cond, t) <=> t \in Eligible \/ \E i \in 1 .. Len(Groups) : t \in Groups[i]
    BY GroupsAreAChain DEF thread_can_exit, Eligible, Groups
  <1>3. W \in SUBSET SUBSET Threads
    BY DEF Woken, Matchable
  <1>4. {} \in W
    <2> DEFINE f == [u \in {} |-> 1]
    <2>1. f \in [{} -> 1 .. Len(Groups)] /\ Matches(f, {}, Groups)
      BY DEF Matches
    <2> QED BY <2>1 DEF Woken, Matchable
  <1>5. ASSUME t \in Eligible
        PROVE  Semantics!MayLeave(t)
    <2>1. PICK S \in Maximal(W) : {} \subseteq S
      BY <1>3, <1>4, InAMaximal
    <2>2. Eligible \cup S \in possible /\ t \in Eligible \cup S
      BY <1>1, <1>5, <2>1
    <2> QED BY <2>2 DEF Semantics!MayLeave
  <1>6. ASSUME NEW i \in 1 .. Len(Groups), t \in Groups[i], t \notin Eligible
        PROVE  Semantics!MayLeave(t)
    <2> DEFINE f == [u \in {t} |-> i]
    <2>1. f \in [{t} -> 1 .. Len(Groups)] /\ Matches(f, {t}, Groups)
      BY <1>6 DEF Matches
    <2>2. {t} \in W
      BY <1>6, <2>1 DEF Woken, Matchable
    <2>3. PICK S \in Maximal(W) : {t} \subseteq S
      BY <1>3, <2>2, InAMaximal
    <2> QED BY <1>1, <2>3 DEF Semantics!MayLeave
  <1>7. ASSUME NEW S \in Maximal(W), t \in S
        PROVE  \E i \in 1 .. Len(Groups) : t \in Groups[i]
    BY <1>7, MatchedAreInGroups DEF Maximal, Woken
  <1>8. Semantics!MayLeave(t) => t \in Eligible \/ \E S \in Maximal(W) : t \in S
    BY <1>1 DEF Semantics!MayLeave
  <1> QED BY <1>2, <1>5, <1>6, <1>7, <1>8

\* For any number of threads and signals.
THEOREM CanExitIsMayLeaveAlways == Spec => []CanExitIsMayLeave
  <1>1. Bookkeeping => CanExitIsMayLeave
    BY CanExitMayLeave DEF CanExitIsMayLeave
  <1> QED BY <1>1, BookkeepingInvariant, PTL

-----------------------------------------------------------------------------
(* The refinement, operation by operation *)

\* A thread that starts to wait changes nothing about who may have been woken.
LEMMA EnqueueIsWait ==
    ASSUME Bookkeeping, Bookkeeping', NEW t \in Threads, Enqueue(t)
    PROVE  Semantics!Wait(t)
  <1>1. /\ cond \in CondStates
        /\ t \notin Queued
        /\ cond' = [cond EXCEPT !.wait_queue = Append(@, t)]
    BY DEF Bookkeeping, TypeOK, Enqueue, MCCondEnqueue, add_waiter, Queued
  <1>2. Groups' = Groups /\ Eligible' = Eligible
    BY <1>1 DEF CondStates, Groups, Eligible
  <1>3. Queued' = Queued \cup {t}
    <2> DEFINE q == cond.wait_queue
    <2>1. q \in Seq(Threads) /\ cond'.wait_queue = Append(q, t)
      BY <1>1 DEF CondStates
    <2> HIDE DEF q
    <2>2. ToSet(Append(q, t)) = ToSet(q) \cup {t}
      <3>1. DOMAIN Append(q, t) = (DOMAIN q) \cup {Len(q) + 1}
        BY <2>1
      <3>2. Append(q, t)[Len(q) + 1] = t /\ \A i \in DOMAIN q : Append(q, t)[i] = q[i]
        BY <2>1
      <3> QED BY <3>1, <3>2 DEF ToSet
    <2> QED BY <2>1, <2>2 DEF Queued, q
  <1>4. possible' = {Eligible' \cup S : S \in Maximal(Woken(Groups', Len(Groups'), Eligible'))}
    BY PossibleIsMaximalNext DEF PossibleAreMaximal
  <1>5. possible' = possible
    BY <1>2, <1>4, PossibleIsMaximal DEF PossibleAreMaximal
  <1> QED BY <1>1, <1>3, <1>5 DEF Semantics!Wait

\* A signal.
LEMMA SignalIsSignal ==
    ASSUME Bookkeeping, Bookkeeping', Signal
    PROVE  Semantics!Signal
  <1> DEFINE m == Len(Groups)
             g == Append(Groups, Queued)
             W == Woken(Groups, m, Eligible)
  <1>1. /\ cond \in CondStates
        /\ Groups \in Seq(SUBSET Threads) /\ m \in Nat
        /\ Chain(Groups, m)
        /\ Eligible \subseteq Queued /\ Queued \subseteq Threads
        /\ \A i \in 1 .. m : Groups[i] \subseteq Queued
    BY GroupsAreAChain DEF Bookkeeping, TypeOK
  <1>2. possible = {Eligible \cup S : S \in Maximal(W)}
    BY PossibleIsMaximal DEF PossibleAreMaximal
  <1>3. \A S \in Maximal(W) : S \subseteq Queued /\ S \cap Eligible = {}
    <2>1. \A S \in Maximal(W) : S \in Matchable(Groups, m) /\ S \cap Eligible = {}
      BY DEF Maximal, Woken
    <2> QED BY <1>1, <2>1, MatchedAreInGroups
  <1>4. CASE ~ has_waiters(cond)
    <2>1. cond' = cond
      BY <1>4 DEF Signal, MCCondSignal, receive_signal_message
    <2>2. Queued = {}
      BY <1>4 DEF has_waiters, Queued, ToSet
    <2>3. possible' = possible /\ Queued' = Queued
      <3>1. possible' = {Eligible' \cup S : S \in Maximal(Woken(Groups', Len(Groups'), Eligible'))}
        BY PossibleIsMaximalNext DEF PossibleAreMaximal
      <3>2. Groups' = Groups /\ Eligible' = Eligible /\ Queued' = Queued
        BY <2>1 DEF Groups, Eligible, Queued
      <3> QED BY <1>2, <3>1, <3>2
    <2>4. \A woken \in possible : woken = Queued
      BY <1>1, <1>2, <1>3, <2>2
    <2>5. \A woken \in possible : Semantics!WokenBySignal(woken) = {woken}
      BY <2>4 DEF Semantics!WokenBySignal
    <2>6. UNION {Semantics!WokenBySignal(woken) : woken \in possible} = possible
      BY <2>5
    <2> QED BY <2>3, <2>6 DEF Semantics!Signal
  <1>5. CASE has_waiters(cond)
    <2>1. cond' = [cond EXCEPT !.wake_groups = Append(@, Queued)]
      BY <1>5 DEF Signal, MCCondSignal, receive_signal_message, Queued
    <2>2. Groups' = g /\ Eligible' = Eligible /\ Queued' = Queued
      BY <1>1, <2>1 DEF CondStates, Groups, Eligible, Queued
    <2>3. /\ Len(g) = m + 1 /\ g[m + 1] = Queued
          /\ \A i \in 1 .. m : g[i] = Groups[i]
      BY <1>1
    <2>4. Chain(g, m + 1)
      <3>1. ASSUME NEW i \in 1 .. m + 1, NEW j \in 1 .. m + 1, i <= j
            PROVE  g[i] \subseteq g[j] /\ g[i] \subseteq Threads
        <4>1. CASE j \in 1 .. m
          <5>1. i \in 1 .. m
            BY <1>1, <3>1, <4>1
          <5> QED BY <1>1, <2>3, <3>1, <4>1, <5>1 DEF Chain
        <4>2. CASE j = m + 1
          BY <1>1, <2>3, <4>2
        <4> QED BY <1>1, <4>1, <4>2
      <3> QED BY <1>1, <3>1 DEF Chain
    <2>5. Woken(g, m, Eligible) = W
      BY <2>3, MatchableSame DEF Woken
    <2> DEFINE W2 == Woken(g, m + 1, Eligible)
    <2>6. possible' = {Eligible \cup T : T \in Maximal(W2)}
      <3>1. possible' = {Eligible' \cup S : S \in Maximal(Woken(Groups', Len(Groups'), Eligible'))}
        BY PossibleIsMaximalNext DEF PossibleAreMaximal
      <3> QED BY <2>2, <2>3, <3>1
    <2>7. \A T : T \in Maximal(W2) <=>
             \/ T \in Maximal(W) /\ Eligible \cup T = Queued
             \/ \E S \in Maximal(W) : \E t \in Queued \ (Eligible \cup S) : T = S \cup {t}
      <3>1. Eligible \in SUBSET g[m + 1] /\ m \in Nat
        BY <1>1, <2>3
      <3>2. \A T : T \in Maximal(Woken(g, m + 1, Eligible)) <=>
               \/ T \in Maximal(Woken(g, m, Eligible)) /\ Eligible \cup T = g[m + 1]
               \/ \E S \in Maximal(Woken(g, m, Eligible)) :
                     \E t \in g[m + 1] \ (Eligible \cup S) : T = S \cup {t}
        <4> HIDE DEF g, m
        <4> QED BY <2>4, <3>1, SignalSpreads
      <3>3. g[m + 1] = Queued
        BY <2>3
      <3> HIDE DEF g, m
      <3> QED BY <2>5, <3>2, <3>3
    <2> HIDE DEF W, W2, g, m
    <2>8. ASSUME NEW woken \in possible'
          PROVE  \E w \in possible : woken \in Semantics!WokenBySignal(w)
      <3>1. PICK T \in Maximal(W2) : woken = Eligible \cup T
        BY <2>6
      <3>2. CASE T \in Maximal(W) /\ Eligible \cup T = Queued
        <4>1. woken \in possible /\ woken = Queued
          BY <1>2, <3>1, <3>2
        <4>2. woken \in Semantics!WokenBySignal(woken)
          BY <4>1 DEF Semantics!WokenBySignal
        <4> QED BY <4>1, <4>2
      <3>3. ASSUME NEW S \in Maximal(W), NEW t \in Queued \ (Eligible \cup S), T = S \cup {t}
            PROVE  \E w \in possible : woken \in Semantics!WokenBySignal(w)
        <4>0. Eligible \cup S \in possible
          BY <1>2
        <4>1. Eligible \cup S # Queued /\ woken = (Eligible \cup S) \cup {t}
          BY <3>1, <3>3
        <4>2. woken \in Semantics!WokenBySignal(Eligible \cup S)
          BY <3>3, <4>1 DEF Semantics!WokenBySignal
        <4> QED BY <4>0, <4>2
      <3> QED BY <2>7, <3>1, <3>2, <3>3
    <2>9. ASSUME NEW w \in possible, NEW woken \in Semantics!WokenBySignal(w)
          PROVE  woken \in possible'
      <3>1. PICK S \in Maximal(W) : w = Eligible \cup S
        BY <1>2
      <3>2. CASE w = Queued
        <4>1. woken = Eligible \cup S
          BY <3>1, <3>2 DEF Semantics!WokenBySignal
        <4>2. S \in Maximal(W2)
          BY <2>7, <3>1, <3>2
        <4> QED BY <2>6, <4>1, <4>2
      <3>3. CASE w # Queued
        <4>1. PICK t \in Queued \ w : woken = w \cup {t}
          BY <3>3 DEF Semantics!WokenBySignal
        <4>2. S \cup {t} \in Maximal(W2)
          BY <2>7, <3>1, <4>1
        <4>3. woken = Eligible \cup (S \cup {t})
          BY <3>1, <4>1
        <4> QED BY <2>6, <4>2, <4>3
      <3> QED BY <3>2, <3>3
    <2>10. possible' = UNION {Semantics!WokenBySignal(woken) : woken \in possible}
      BY <2>8, <2>9
    <2> QED BY <2>2, <2>10 DEF Semantics!Signal
  <1> QED BY <1>4, <1>5

\* A broadcast: afterwards everybody was woken, and it is known who.
LEMMA BroadcastIsBroadcast ==
    ASSUME Bookkeeping, Bookkeeping', Broadcast
    PROVE  Semantics!Broadcast
  <1>1. /\ cond \in CondStates
        /\ DOMAIN Groups = 1 .. Len(Groups)
        /\ Eligible \subseteq Queued
        /\ \A i \in 1 .. Len(Groups) : Groups[i] \subseteq Queued
    BY GroupsAreAChain DEF Bookkeeping, TypeOK
  <1>2. /\ Groups' = << >> /\ Queued' = Queued
        /\ Eligible' = Eligible \cup Queued \cup UNION ToSet(Groups)
    BY <1>1 DEF Broadcast, MCCondBroadcast, receive_broadcast_message, CondStates, Groups,
       Eligible, Queued
  <1>3. Eligible' = Queued
    <2>1. UNION ToSet(Groups) \subseteq Queued
      BY <1>1 DEF ToSet
    <2> QED BY <1>1, <1>2, <2>1
  <1>4. Woken(<< >>, 0, Queued) = {{}}
    BY MatchableNone DEF Woken
  <1>5. Maximal(Woken(<< >>, 0, Queued)) = {{}}
    BY <1>4 DEF Maximal
  <1>6. possible' = {Eligible' \cup S : S \in Maximal(Woken(Groups', Len(Groups'), Eligible'))}
    BY PossibleIsMaximalNext DEF PossibleAreMaximal
  <1>7. possible' = {Queued}
    <2>1. Len(Groups') = 0
      BY <1>2
    <2>2. possible' = {Queued \cup S : S \in {{}}}
      BY <1>2, <1>3, <1>5, <1>6, <2>1
    <2> QED BY <2>2
  <1> QED BY <1>2, <1>7 DEF Semantics!Broadcast

\* A thread that leaves: it tells that it was woken, and uses up its signal.
LEMMA WaitIsLeave ==
    ASSUME Bookkeeping, Bookkeeping', NEW t \in Threads, Wait(t)
    PROVE  Semantics!Leave(t)
  <1> DEFINE n == Len(Groups)
             left == SignalsLeft(cond, t)
             W == Woken(Groups, n, Eligible)
             W2 == Woken(Groups', Len(Groups'), Eligible')
  <1>1. thread_can_exit(cond, t) /\ cond' = wake_thread(cond, t)
    BY DEF Wait, MCCondWait
  <1>2. Semantics!MayLeave(t)
    BY <1>1, CanExitMayLeave
  <1>3. /\ Groups \in Seq(SUBSET Threads) /\ n \in Nat /\ DOMAIN Groups = 1 .. n
        /\ Chain(Groups, n)
        /\ Eligible \subseteq Queued /\ Queued \subseteq Threads
        /\ \A i \in 1 .. n : Groups[i] \subseteq Queued
    BY GroupsAreAChain
  <1>4. t \in Queued
    <2>1. t \in Eligible \/ \E i \in DOMAIN Groups : t \in Groups[i]
      BY <1>1 DEF thread_can_exit, Eligible, Groups
    <2> QED BY <1>3, <2>1
  <1>5. /\ Groups' = [i \in DOMAIN left |-> left[i] \ {t}]
        /\ Eligible' = Eligible \ {t}
    BY <1>1 DEF wake_thread, Groups, Eligible
  <1>6. Queued' = Queued \ {t}
    <2> DEFINE q == cond.wait_queue
               rest == RemoveFirst(q, t)
    <2>1. /\ q \in Seq(Threads) /\ t \in ToSet(q)
          /\ \A i, j \in DOMAIN q : q[i] = q[j] => i = j
      BY <1>4 DEF Bookkeeping, TypeOK, CondStates, WaitersOnly, Queued
    <2>2. cond'.wait_queue = rest
      BY <1>1, <2>1 DEF wake_thread
    <2>3. PICK k \in 1 .. Len(q) : q[k] = t /\ rest = RemoveAt(q, k)
      BY <2>1, RemoveFirstRemoves
    <2>4. /\ DOMAIN rest = 1 .. Len(q) - 1
          /\ \A i \in 1 .. Len(q) - 1 : rest[i] = q[IF i < k THEN i ELSE i + 1]
      <3> HIDE DEF q, rest
      <3> QED BY <2>1, <2>3, RemoveAtLeaves
    <2>5. ToSet(q) \ {t} \subseteq ToSet(rest)
      BY <2>1, QueueWithout
    <2>6. Len(q) \in Nat /\ DOMAIN q = 1 .. Len(q)
      BY <2>1
    <2> HIDE DEF rest, q
    <2>7. ASSUME NEW i \in DOMAIN rest
          PROVE  rest[i] \in ToSet(q) \ {t}
      <3> DEFINE p == IF i < k THEN i ELSE i + 1
      <3>1. p \in DOMAIN q /\ p # k /\ rest[i] = q[p] /\ k \in DOMAIN q
        BY <2>3, <2>4, <2>6
      <3> HIDE DEF p
      <3>2. q[p] # t
        BY <2>1, <2>3, <3>1
      <3> QED BY <3>1, <3>2 DEF ToSet
    <2>8. ToSet(rest) = ToSet(q) \ {t}
      <3>1. ToSet(rest) \subseteq ToSet(q) \ {t}
        BY <2>7 DEF ToSet
      <3> QED BY <2>5, <3>1
    <2> QED BY <2>2, <2>8 DEF Queued, q
  <1>7. /\ possible = {Eligible \cup S : S \in Maximal(W)}
        /\ possible' = {Eligible' \cup S : S \in Maximal(W2)}
    BY PossibleIsMaximal, PossibleIsMaximalNext DEF PossibleAreMaximal
  <1>8. /\ W \in SUBSET SUBSET Threads /\ W2 \in SUBSET SUBSET Threads
        /\ \A S \in W : S \cap Eligible = {} /\ \A T \in SUBSET S : T \in W
    <2>1. \A S \in W : \A T \in SUBSET S : T \in W
      BY MatchableDown DEF Woken
    <2> QED BY <2>1 DEF Woken, Matchable
  <1>9. CASE t \in Eligible
    <2>1. left = Groups
      BY <1>9 DEF SignalsLeft, Eligible, Groups
    <2>2. Groups' = [i \in 1 .. n |-> Groups[i] \ {t}] /\ Len(Groups') = n
      BY <1>3, <1>5, <2>1
    <2>3. W2 = W
      <3>1. ASSUME NEW S \in W2
            PROVE  S \in W
        <4>1. S \in Matchable(Groups', n) /\ S \cap Eligible' = {}
          BY <2>2 DEF Woken
        <4>2. PICK f \in [S -> 1 .. n] : Matches(f, S, Groups')
          BY <4>1 DEF Matchable
        <4>3. \A u \in S : f[u] \in 1 .. n /\ u \in Groups[f[u]] /\ u # t
          BY <2>2, <4>2 DEF Matches
        <4>4. Matches(f, S, Groups)
          BY <4>2, <4>3 DEF Matches
        <4>5. S \cap Eligible = {}
          BY <1>5, <4>1, <4>3
        <4> QED BY <4>1, <4>2, <4>4, <4>5 DEF Woken, Matchable
      <3>2. ASSUME NEW S \in W
            PROVE  S \in W2
        <4>1. S \in Matchable(Groups, n) /\ S \cap Eligible = {}
          BY DEF Woken
        <4>2. PICK f \in [S -> 1 .. n] : Matches(f, S, Groups)
          BY <4>1 DEF Matchable
        <4>3. \A u \in S : f[u] \in 1 .. n /\ u \in Groups'[f[u]]
          BY <1>9, <2>2, <4>1, <4>2 DEF Matches
        <4>4. Matches(f, S, Groups')
          BY <4>2, <4>3 DEF Matches
        <4>5. S \cap Eligible' = {}
          BY <1>5, <4>1
        <4> QED BY <2>2, <4>1, <4>2, <4>4, <4>5 DEF Woken, Matchable
      <3> QED BY <3>1, <3>2
    <2> HIDE DEF W, W2
    <2>4. \A S \in Maximal(W) : /\ t \in Eligible \cup S
                                /\ (Eligible \cup S) \ {t} = Eligible' \cup S
      BY <1>5, <1>8, <1>9 DEF Maximal
    <2>5. possible' = {woken \ {t} : woken \in {w \in possible : t \in w}}
      <3> DEFINE left2 == {woken \ {t} : woken \in {w \in possible : t \in w}}
      <3>1. ASSUME NEW woken \in possible'
            PROVE  woken \in left2
        <4>1. PICK S \in Maximal(W) : woken = Eligible' \cup S
          BY <1>7, <2>3
        <4>2. Eligible \cup S \in possible
          BY <1>7
        <4> QED BY <2>4, <4>1, <4>2
      <3>2. ASSUME NEW w \in possible
            PROVE  w \ {t} \in possible'
        <4>1. PICK S \in Maximal(W) : w = Eligible \cup S
          BY <1>7
        <4>2. w \ {t} = Eligible' \cup S
          BY <2>4, <4>1
        <4> QED BY <1>7, <2>3, <4>2
      <3> QED BY <3>1, <3>2
    <2> QED BY <1>2, <1>6, <2>5 DEF Semantics!Leave
  <1>10. CASE t \notin Eligible
    <2> DEFINE k == CHOOSE i \in DOMAIN Groups :
                       t \in Groups[i] /\ \A j \in 1 .. i - 1 : t \notin Groups[j]
    <2>1. k \in 1 .. n /\ t \in Groups[k] /\ \A j \in 1 .. k - 1 : t \notin Groups[j]
      <3> DEFINE with == {i \in 1 .. n : t \in Groups[i]}
      <3>1. with # {} /\ with \in SUBSET Nat
        BY <1>1, <1>3, <1>10 DEF thread_can_exit, Groups, Eligible
      <3>2. PICK i \in with : \A j \in with : i <= j
        BY <3>1, FirstPosition
      <3>3. i \in DOMAIN Groups /\ t \in Groups[i] /\ \A j \in 1 .. i - 1 : t \notin Groups[j]
        BY <1>3, <3>2
      <3>4. k \in DOMAIN Groups /\ t \in Groups[k] /\ \A j \in 1 .. k - 1 : t \notin Groups[j]
        BY <3>3
      <3> QED BY <1>3, <3>4
    <2>2. left = RemoveAt(Groups, k)
      BY <1>10 DEF SignalsLeft, Eligible, Groups
    <2> HIDE DEF k, left
    <2>3. /\ DOMAIN left = 1 .. n - 1
          /\ \A i \in 1 .. n - 1 : left[i] = Groups[IF i < k THEN i ELSE i + 1]
      BY <1>3, <2>1, <2>2, RemoveAtLeaves
    <2>4. /\ Groups' = [i \in 1 .. n - 1 |-> left[i] \ {t}]
          /\ Len(Groups') = n - 1
      <3>1. n - 1 \in Nat
        BY <1>3, <2>1
      <3> QED BY <1>5, <2>3, <3>1
    <2>5. \A i \in 1 .. n - 1 : Groups'[i] = Groups[IF i < k THEN i ELSE i + 1] \ {t}
      BY <2>3, <2>4
    <2>6. \A S \in SUBSET Threads :
             S \in Matchable(Groups', n - 1) <=> t \notin S /\ S \cup {t} \in Matchable(Groups, n)
      <3>1. Chain(Groups, n) /\ n \in Nat
        BY <1>3 DEF Chain
      <3> HIDE DEF n
      <3> QED BY <3>1, <2>1, <2>5, LeavingUsesOneUp
    <2>7. Eligible' = Eligible
      BY <1>5, <1>10
    <2>8. \A S \in SUBSET Threads : S \in W2 <=> t \notin S /\ S \cup {t} \in W
      BY <1>10, <2>4, <2>6, <2>7 DEF Woken
    <2>9. \A S \in SUBSET Threads : S \in Maximal(W2) <=> t \notin S /\ S \cup {t} \in Maximal(W)
      <3> HIDE DEF W, W2
      <3> QED BY <1>8, <2>8, LargestWithout
    <2> HIDE DEF W, W2
    <2>10. \A S \in Maximal(W2) : S \in SUBSET Threads
      BY <1>8 DEF Maximal
    <2>11. ASSUME NEW woken \in possible'
           PROVE  \E w \in possible : t \in w /\ woken = w \ {t}
      <3>1. PICK S \in Maximal(W2) : woken = Eligible \cup S
        BY <1>7, <2>7
      <3>2. t \notin S /\ S \cup {t} \in Maximal(W)
        BY <2>9, <2>10
      <3>3. /\ Eligible \cup (S \cup {t}) \in possible
            /\ (Eligible \cup (S \cup {t})) \ {t} = woken
        BY <1>7, <1>10, <3>1, <3>2
      <3> QED BY <3>3
    <2>12. ASSUME NEW w \in possible, t \in w
           PROVE  w \ {t} \in possible'
      <3>1. PICK S \in Maximal(W) : w = Eligible \cup S
        BY <1>7
      <3>2. t \in S /\ S \in SUBSET Threads
        BY <1>8, <1>10, <2>12, <3>1 DEF Maximal
      <3>3. (S \ {t}) \cup {t} = S /\ S \ {t} \in SUBSET Threads
        BY <3>2
      <3>4. S \ {t} \in Maximal(W2)
        BY <2>9, <3>3
      <3>5. w \ {t} = Eligible \cup (S \ {t})
        BY <1>10, <3>1
      <3> QED BY <1>7, <2>7, <3>4, <3>5
    <2>13. possible' = {woken \ {t} : woken \in {w \in possible : t \in w}}
      BY <2>11, <2>12
    <2> QED BY <1>2, <1>6, <2>13 DEF Semantics!Leave
  <1> QED BY <1>9, <1>10

-----------------------------------------------------------------------------

\* Nobody waits, nobody was woken.
LEMMA SemanticsInit == Init => Semantics!Init
  <1> SUFFICES ASSUME Init
               PROVE  Semantics!Init
    OBVIOUS
  <1>1. Bookkeeping
    BY BookkeepingInit
  <1>2. Groups = << >> /\ Eligible = {} /\ Queued = {}
    BY DEF Init, NewCond, Groups, Eligible, Queued, ToSet
  <1>3. Woken(<< >>, 0, {}) = {{}}
    BY MatchableNone DEF Woken
  <1>4. Maximal(Woken(<< >>, 0, {})) = {{}}
    BY <1>3 DEF Maximal
  <1>5. possible = {{} \cup S : S \in {{}}}
    <2>1. Len(Groups) = 0
      BY <1>2
    <2> QED BY <1>1, <1>2, <1>4, <2>1, PossibleIsMaximal DEF PossibleAreMaximal
  <1>6. possible = {{}}
    BY <1>5
  <1> QED BY <1>2, <1>6 DEF Semantics!Init

\* Every operation on the shadow object is one of the semantics.
LEMMA StepIsSemantics ==
    Bookkeeping /\ Bookkeeping' /\ [Next]_cond => [Semantics!Next]_Semantics!vars
  <1> SUFFICES ASSUME Bookkeeping, Bookkeeping', [Next]_cond
               PROVE  [Semantics!Next]_Semantics!vars
    OBVIOUS
  <1>1. CASE Signal
    BY <1>1, SignalIsSignal DEF Semantics!Next
  <1>2. CASE Broadcast
    BY <1>2, BroadcastIsBroadcast DEF Semantics!Next
  <1>3. ASSUME NEW t \in Threads, Enqueue(t)
        PROVE  Semantics!Next
    BY <1>3, EnqueueIsWait DEF Semantics!Next
  <1>4. ASSUME NEW t \in Threads, Wait(t)
        PROVE  Semantics!Next
    BY <1>4, WaitIsLeave DEF Semantics!Next
  <1>5. CASE UNCHANGED cond
    <2>1. Groups' = Groups /\ Eligible' = Eligible /\ Queued' = Queued
      BY <1>5 DEF Groups, Eligible, Queued
    <2>2. possible' = possible
      <3>1. possible' = {Eligible' \cup S : S \in Maximal(Woken(Groups', Len(Groups'), Eligible'))}
        BY PossibleIsMaximalNext DEF PossibleAreMaximal
      <3> QED BY <2>1, <3>1, PossibleIsMaximal DEF PossibleAreMaximal
    <2> QED BY <2>1, <2>2 DEF Semantics!vars
  <1> QED BY <1>1, <1>2, <1>3, <1>4, <1>5 DEF Next

\* The policy of the shadow condition variable is one of those the semantics of condition
\* variables allows, and the most permissive one.
THEOREM SemanticsImplemented == Spec => ImplementsSemantics
  <1>1. Init => Semantics!Init
    BY SemanticsInit
  <1> QED BY <1>1, StepIsSemantics, BookkeepingInvariant, PTL
       DEF Spec, ImplementsSemantics, Semantics!Spec
====
