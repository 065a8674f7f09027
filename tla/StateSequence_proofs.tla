---- MODULE StateSequence_proofs ----
(***************************************************************************)
(* The sequence of views of the McMini 2.0 model, for any number of        *)
(* runners, objects, states, changes of an object and cuts: every pointer  *)
(* was made to a state of the sequence that owns it, a view that is not    *)
(* the last one shows the same state until a cut gives it away, and        *)
(* between cuts the views are a path of the transitions that were          *)
(* followed.                                                               *)
(***************************************************************************)
EXTENDS StateSequence, SequenceTheorems, TLAPS

Histories == Seq(Seq(ObjectState))

Pointers == [owner : Nat, index : Nat]

Views == UNION {[ids -> Pointers] : ids \in SUBSET Nat}

-----------------------------------------------------------------------------
(* The helpers *)

\* push_state adds a state at the end of one history and leaves the rest alone.
LEMMA PushAppends ==
    ASSUME NEW objects \in Histories, NEW id \in DOMAIN objects, NEW st \in ObjectState
    PROVE  /\ push_state(objects, id, st) \in Histories
           /\ Len(push_state(objects, id, st)) = Len(objects)
           /\ DOMAIN push_state(objects, id, st) = DOMAIN objects
           /\ Len(push_state(objects, id, st)[id]) = Len(objects[id]) + 1
           /\ push_state(objects, id, st)[id][Len(objects[id]) + 1] = st
           /\ \A k \in 1 .. Len(objects[id]) :
                 push_state(objects, id, st)[id][k] = objects[id][k]
           /\ \A i \in DOMAIN objects \ {id} : push_state(objects, id, st)[i] = objects[i]
  <1> DEFINE pushed == Append(objects[id], st)
  <1>1. objects[id] \in Seq(ObjectState)
    BY DEF Histories
  <1>2. /\ pushed \in Seq(ObjectState)
        /\ Len(pushed) = Len(objects[id]) + 1
        /\ pushed[Len(objects[id]) + 1] = st
        /\ \A k \in 1 .. Len(objects[id]) : pushed[k] = objects[id][k]
    BY <1>1
  <1> HIDE DEF pushed
  <1>3. push_state(objects, id, st) = [objects EXCEPT ![id] = pushed]
    BY DEF push_state, pushed
  <1>4. [objects EXCEPT ![id] = pushed] \in Histories
    BY <1>2, ExceptSeq DEF Histories
  <1>5. /\ DOMAIN [objects EXCEPT ![id] = pushed] = DOMAIN objects
        /\ Len([objects EXCEPT ![id] = pushed]) = Len(objects)
        /\ [objects EXCEPT ![id] = pushed][id] = pushed
        /\ \A i \in DOMAIN objects \ {id} : [objects EXCEPT ![id] = pushed][i] = objects[i]
    BY <1>2, ExceptSeq DEF Histories
  <1> QED BY <1>2, <1>3, <1>4, <1>5

\* A copy of an object is a slice of its whole history: nothing is lost or added.
LEMMA CopyIsEqual ==
    ASSUME NEW objects \in Histories
    PROVE  Copy(objects) = objects
  <1>1. ASSUME NEW h \in Seq(ObjectState)
        PROVE  slice(h, Len(h)) = h
    <2>1. /\ SubSeq(h, 1, Len(h)) \in Seq(ObjectState)
          /\ Len(SubSeq(h, 1, Len(h))) = Len(h)
          /\ \A k \in 1 .. Len(h) : SubSeq(h, 1, Len(h))[k] = h[k]
      OBVIOUS
    <2> QED BY <2>1, SeqEqual DEF slice
  <1>2. \A id \in DOMAIN objects : objects[id] \in Seq(ObjectState)
    BY DEF Histories
  <1>3. Copy(objects) = [id \in DOMAIN objects |-> objects[id]]
    BY <1>1, <1>2 DEF Copy
  <1>4. objects = [id \in DOMAIN objects |-> objects[id]]
    BY DEF Histories
  <1> QED BY <1>3, <1>4

\* The states the transitions lead to.
LEMMA ModifyGivesState ==
    ASSUME NEW t \in Transition, NEW st
    PROVE  modify(t, st).new \in ObjectState
  BY DEF Transition, modify, mutex_init, mutex_lock, thread_start, ObjectState,
         MutexStates, ThreadStates

\* The overlay that follow makes is a copy of the latest states.
LEMMA OverlayIsLatest ==
    /\ DiffState(NoDiff) = detached_state(visible_objects)
    /\ \A id \in DOMAIN visible_objects :
          detached_state(visible_objects)[id] = visible_objects[id][Len(visible_objects[id])]
  <1>1. DOMAIN NoDiff = {}
    BY DEF NoDiff
  <1> QED BY <1>1 DEF DiffState, Overlay, detached_state, get_state_of_object,
                    get_current_state, Last

\* A pointer is what it was made from.
LEMMA PointerIs ==
    ASSUME NEW owner \in Nat, NEW index \in Nat
    PROVE  /\ Pointer(owner, index) \in Pointers
           /\ Pointer(owner, index).owner = owner
           /\ Pointer(owner, index).index = index
  BY DEF Pointer, Pointers

\* A view of the latest states.
LEMMA SnapshotIsView ==
    ASSUME NEW objects \in Histories, InUse \in Nat
    PROVE  /\ Snapshot(objects) \in Views
           /\ DOMAIN Snapshot(objects) = DOMAIN objects
           /\ \A id \in DOMAIN objects :
                 Snapshot(objects)[id] = Pointer(InUse, Len(objects[id]))
  <1>1. DOMAIN objects \in SUBSET Nat /\ \A id \in DOMAIN objects : Len(objects[id]) \in Nat
    BY DEF Histories
  <1>2. \A id \in DOMAIN objects : Pointer(InUse, Len(objects[id])) \in Pointers
    BY <1>1, PointerIs
  <1>3. Snapshot(objects) \in [DOMAIN objects -> Pointers]
    BY <1>2 DEF Snapshot
  <1> QED BY <1>1, <1>3 DEF Snapshot, Views

\* point_to_state_for changes what a view says of one object.
LEMMA PointingIsView ==
    ASSUME NEW view \in Views, NEW id \in Nat, NEW p \in Pointers
    PROVE  /\ point_to_state_for(view, id, p) \in Views
           /\ DOMAIN point_to_state_for(view, id, p) = DOMAIN view \cup {id}
           /\ \A i \in DOMAIN point_to_state_for(view, id, p) :
                 point_to_state_for(view, id, p)[i] = IF i = id THEN p ELSE view[i]
  <1>1. PICK ids \in SUBSET Nat : view \in [ids -> Pointers]
    BY DEF Views
  <1>2. point_to_state_for(view, id, p) \in [ids \cup {id} -> Pointers]
    BY <1>1 DEF point_to_state_for
  <1>3. ids \cup {id} \in SUBSET Nat
    OBVIOUS
  <1> QED BY <1>1, <1>2, <1>3 DEF point_to_state_for, Views

-----------------------------------------------------------------------------
(* The bookkeeping *)

\* The objects of the sequence in use, none of which has an empty history.
ObjectsOK ==
    /\ visible_objects \in Histories
    /\ Len(visible_objects) <= MaxObjects
    /\ \A id \in DOMAIN visible_objects : Len(visible_objects[id]) > 0

\* The sequences that were consumed had no object that this one does not have.
MemoryOK ==
    /\ consumed \in Seq(Histories)
    /\ \A g \in DOMAIN consumed : DOMAIN consumed[g] \subseteq DOMAIN visible_objects
    /\ destroyed \subseteq DOMAIN consumed

\* The views that were made since the last cut own what they point at.
LaterViewsAreOurs ==
    \A i \in DOMAIN states_in_sequence : i > kept =>
        \A id \in DOMAIN states_in_sequence[i] : states_in_sequence[i][id].owner = InUse

ViewsOK ==
    /\ states_in_sequence \in Seq(Views)
    /\ Len(states_in_sequence) > 0
    /\ kept \in Nat
    /\ PointersAreMade
    /\ LaterViewsAreOurs

Store == ObjectsOK /\ MemoryOK /\ ViewsOK

\* One transition leads from each state to the next.
StepsOK ==
    /\ followed \in Seq(Transition)
    /\ Len(states_in_sequence) = Len(followed) + 1
    /\ edited \subseteq DOMAIN states_in_sequence
    /\ seams \subseteq DOMAIN states_in_sequence

\* The pending transitions are transitions, about objects that exist.
PendingOK ==
    /\ next_steps \in [Runners -> Transition \cup {Nothing}]
    /\ \A p \in Runners : next_steps[p] # Nothing => next_steps[p].obj \in DOMAIN visible_objects

\* TypeOK with what it needs to be inductive.
Bookkeeping == Store /\ StepsOK /\ PendingOK

\* No object of the sequence in use vanishes and no history loses a state.
HistoriesGrow ==
    \A id \in DOMAIN visible_objects :
        /\ id \in DOMAIN visible_objects'
        /\ Len(visible_objects[id]) <= Len(visible_objects'[id])
        /\ \A k \in 1 .. Len(visible_objects[id]) :
              visible_objects'[id][k] = visible_objects[id][k]

\* No sequence, consumed or in use, loses a state.
MemoryGrows ==
    \A g \in 1 .. InUse :
        /\ g \in 1 .. InUse'
        /\ \A id \in DOMAIN ObjectsOf(g) :
              /\ id \in DOMAIN ObjectsOf(g)'
              /\ \A k \in DOMAIN ObjectsOf(g)[id] :
                    k \in DOMAIN ObjectsOf(g)'[id] /\ ObjectsOf(g)'[id][k] = ObjectsOf(g)[id][k]

\* All views but the last one stay as they are.
PastPointersStay ==
    \A i \in DOMAIN states_in_sequence :
        i < Len(states_in_sequence) /\ i \in DOMAIN states_in_sequence' =>
            states_in_sequence'[i] = states_in_sequence[i]

\* The sequences are numbered by naturals, the one in use last.
LEMMA InUseIsNatural ==
    ASSUME MemoryOK
    PROVE  /\ InUse \in Nat \ {0}
           /\ DOMAIN consumed = 1 .. InUse - 1
           /\ InUse \notin DOMAIN consumed
           /\ InUse \notin destroyed
           /\ ObjectsOf(InUse) = visible_objects
           /\ \A g \in DOMAIN consumed : ObjectsOf(g) = consumed[g]
  <1>1. Len(consumed) \in Nat /\ DOMAIN consumed = 1 .. Len(consumed)
    BY DEF MemoryOK
  <1>2. InUse = Len(consumed) + 1
    BY DEF InUse
  <1>3. InUse \in Nat \ {0} /\ DOMAIN consumed = 1 .. InUse - 1 /\ InUse \notin DOMAIN consumed
    BY <1>1, <1>2
  <1>4. destroyed \subseteq DOMAIN consumed
    BY DEF MemoryOK
  <1> QED BY <1>3, <1>4 DEF ObjectsOf

\* Every sequence has histories, of objects that the sequence in use has too.
LEMMA ObjectsAreHistories ==
    ASSUME ObjectsOK, MemoryOK, NEW g \in 1 .. InUse
    PROVE  /\ ObjectsOf(g) \in Histories
           /\ DOMAIN ObjectsOf(g) \subseteq DOMAIN visible_objects
  <1>1. CASE g = InUse
    BY <1>1, InUseIsNatural DEF ObjectsOK
  <1>2. CASE g # InUse
    <2>1. g \in DOMAIN consumed
      BY <1>2, InUseIsNatural
    <2> QED BY <2>1, InUseIsNatural DEF MemoryOK
  <1> QED BY <1>1, <1>2

\* What a view points at was made.
LEMMA PointerWasMade ==
    ASSUME Store, NEW i \in DOMAIN states_in_sequence, NEW id \in DOMAIN states_in_sequence[i]
    PROVE  \E g \in 1 .. InUse :
              /\ states_in_sequence[i][id].owner = g
              /\ id \in DOMAIN ObjectsOf(g) /\ id \in DOMAIN visible_objects
              /\ states_in_sequence[i][id].index \in DOMAIN ObjectsOf(g)[id]
  <1>1. PICK g : g = states_in_sequence[i][id].owner
    OBVIOUS
  <1>2. /\ g \in 1 .. InUse /\ id \in DOMAIN ObjectsOf(g)
        /\ states_in_sequence[i][id].index \in DOMAIN ObjectsOf(g)[id]
    BY <1>1 DEF Store, ViewsOK, PointersAreMade
  <1>3. id \in DOMAIN visible_objects
    BY <1>2, ObjectsAreHistories DEF Store
  <1> QED BY <1>1, <1>2, <1>3

\* Memory grows when the objects in use do...
LEMMA GrowingIsEnough ==
    ASSUME ObjectsOK, MemoryOK, visible_objects' \in Histories, HistoriesGrow,
           UNCHANGED memoryVars
    PROVE  MemoryGrows /\ MemoryOK' /\ InUse' = InUse
  <1>1. consumed' = consumed /\ destroyed' = destroyed
    BY DEF memoryVars
  <1>2. InUse' = InUse
    BY <1>1 DEF InUse
  <1>3. MemoryOK'
    <2>1. DOMAIN visible_objects \subseteq DOMAIN visible_objects'
      BY DEF HistoriesGrow
    <2> QED BY <1>1, <2>1 DEF MemoryOK
  <1>4. ASSUME NEW g \in 1 .. InUse, NEW id \in DOMAIN ObjectsOf(g)
        PROVE  /\ id \in DOMAIN ObjectsOf(g)'
               /\ \A k \in DOMAIN ObjectsOf(g)[id] :
                    k \in DOMAIN ObjectsOf(g)'[id] /\ ObjectsOf(g)'[id][k] = ObjectsOf(g)[id][k]
    <2>1. CASE g \in DOMAIN consumed
      <3>1. ObjectsOf(g)' = ObjectsOf(g)
        BY <1>1, <2>1 DEF ObjectsOf
      <3> QED BY <1>4, <3>1
    <2>2. CASE g \notin DOMAIN consumed
      <3>1. ObjectsOf(g)' = visible_objects' /\ ObjectsOf(g) = visible_objects
        BY <1>1, <2>2 DEF ObjectsOf
      <3>2. id \in DOMAIN visible_objects /\ id \in DOMAIN visible_objects'
        BY <1>4, <3>1 DEF HistoriesGrow
      <3>3. visible_objects[id] \in Seq(ObjectState) /\ visible_objects'[id] \in Seq(ObjectState)
        BY <3>2 DEF ObjectsOK, Histories
      <3> QED BY <3>1, <3>2, <3>3 DEF HistoriesGrow
    <2> QED BY <2>1, <2>2
  <1> QED BY <1>2, <1>3, <1>4 DEF MemoryGrows

\* ... and old pointers stay good while it does.
LEMMA OldPointersStayGood ==
    ASSUME Store, MemoryGrows, NEW i \in DOMAIN states_in_sequence,
           NEW id \in DOMAIN states_in_sequence[i]
    PROVE  \E g \in 1 .. InUse' :
              /\ states_in_sequence[i][id].owner = g
              /\ id \in DOMAIN ObjectsOf(g)'
              /\ states_in_sequence[i][id].index \in DOMAIN ObjectsOf(g)'[id]
  <1>1. PICK g \in 1 .. InUse :
            /\ states_in_sequence[i][id].owner = g /\ id \in DOMAIN ObjectsOf(g)
            /\ states_in_sequence[i][id].index \in DOMAIN ObjectsOf(g)[id]
    BY PointerWasMade
  <1>2. /\ g \in 1 .. InUse' /\ id \in DOMAIN ObjectsOf(g)'
        /\ states_in_sequence[i][id].index \in DOMAIN ObjectsOf(g)'[id]
    BY <1>1 DEF MemoryGrows
  <1> QED BY <1>1, <1>2

\* The bookkeeping is right in a new sequence.
LEMMA BookkeepingInit == Init => Bookkeeping
  <1> SUFFICES ASSUME Init PROVE Bookkeeping
    OBVIOUS
  <1>1. "embryo" \in ObjectState
    BY DEF ObjectState, ThreadStates
  <1>2. /\ visible_objects \in Histories
        /\ Len(visible_objects) <= 1
        /\ \A id \in DOMAIN visible_objects : Len(visible_objects[id]) = 1
    <2>1. visible_objects = << >> \/ visible_objects = <<<<"embryo">>>>
      BY DEF Init
    <2>2. /\ << >> \in Histories /\ Len(<< >>) = 0
          /\ <<<<"embryo">>>> \in Histories /\ Len(<<<<"embryo">>>>) = 1
          /\ Len(<<<<"embryo">>>>[1]) = 1
      BY <1>1, EmptySeq DEF Histories
    <2>3. CASE visible_objects = << >>
      BY <2>2, <2>3 DEF Histories
    <2>4. CASE visible_objects = <<<<"embryo">>>>
      BY <2>2, <2>4 DEF Histories
    <2> QED BY <2>1, <2>3, <2>4
  <1>3. ObjectsOK
    BY <1>2, BoundsAssumption DEF ObjectsOK
  <1>4. MemoryOK /\ InUse = 1
    <2>1. consumed = << >> /\ destroyed = {}
      BY DEF Init
    <2>2. consumed \in Seq(Histories) /\ DOMAIN consumed = {} /\ Len(consumed) = 0
      BY <2>1
    <2> QED BY <2>1, <2>2 DEF MemoryOK, InUse
  <1>5. /\ Snapshot(visible_objects) \in Views
        /\ DOMAIN Snapshot(visible_objects) = DOMAIN visible_objects
        /\ \A id \in DOMAIN visible_objects : Snapshot(visible_objects)[id] = Pointer(1, 1)
    BY <1>2, <1>4, SnapshotIsView
  <1>6. Pointer(1, 1).owner = 1 /\ Pointer(1, 1).index = 1
    BY PointerIs
  <1> DEFINE view == Snapshot(visible_objects)
  <1>7. states_in_sequence = <<view>> /\ kept = 0 /\ edited = {} /\ seams = {}
    BY DEF Init
  <1> HIDE DEF view
  <1>8. /\ states_in_sequence \in Seq(Views) /\ Len(states_in_sequence) = 1
        /\ DOMAIN states_in_sequence = {1} /\ states_in_sequence[1] = view
    BY <1>5, <1>7 DEF view
  <1>9. ViewsOK
    <2>1. ObjectsOf(1) = visible_objects
      BY <1>4, InUseIsNatural
    <2>2. ASSUME NEW id \in DOMAIN view
          PROVE  /\ view[id].owner = 1 /\ view[id].index = 1 /\ id \in DOMAIN ObjectsOf(1)
                 /\ 1 \in DOMAIN ObjectsOf(1)[id]
      <3>1. id \in DOMAIN visible_objects /\ view[id] = Pointer(1, 1)
        BY <1>5, <2>2 DEF view
      <3>2. visible_objects[id] \in Seq(ObjectState) /\ Len(visible_objects[id]) = 1
        BY <1>2, <3>1 DEF Histories
      <3> QED BY <1>6, <2>1, <3>1, <3>2
    <2>3. PointersAreMade
      BY <1>4, <1>8, <2>2 DEF PointersAreMade
    <2>4. LaterViewsAreOurs
      BY <1>4, <1>8, <2>2 DEF LaterViewsAreOurs
    <2> QED BY <1>7, <1>8, <2>3, <2>4 DEF ViewsOK
  <1>10. PendingOK
    BY DEF Init, PendingOK
  <1>11. StepsOK
    BY <1>7, <1>8, EmptySeq DEF Init, StepsOK
  <1> QED BY <1>3, <1>4, <1>9, <1>10, <1>11 DEF Bookkeeping, Store

\* What add_object and add_state_for have in common: one object's history is new or has
\* grown, and the last view is made to point at its last state.
Pointed(id) ==
    /\ visible_objects' \in Histories
    /\ Len(visible_objects') <= MaxObjects
    /\ HistoriesGrow
    /\ id \in DOMAIN visible_objects'
    /\ Len(visible_objects'[id]) > 0
    /\ \A k \in DOMAIN visible_objects' \ {id} :
          k \in DOMAIN visible_objects /\ visible_objects'[k] = visible_objects[k]
    /\ states_in_sequence' =
          [states_in_sequence EXCEPT ![Len(states_in_sequence)] =
              point_to_state_for(states_in_sequence[Len(states_in_sequence)], id,
                                 Pointer(InUse, Len(visible_objects'[id])))]
    /\ UNCHANGED <<memoryVars, next_steps, followed, kept, seams>>

\* A new object has a number that no view has seen.
LEMMA AddObjectPoints ==
    ASSUME Bookkeeping, NEW st \in ObjectState, add_object(st)
    PROVE  \E id \in Nat : /\ Pointed(id) /\ id \notin DOMAIN visible_objects
                           /\ edited' = edited
  <1>1. PICK id : id \in Nat /\ id = Len(visible_objects) + 1
    BY DEF Bookkeeping, Store, ObjectsOK, Histories
  <1>0. visible_objects \in Histories
    BY DEF Bookkeeping, Store, ObjectsOK
  <1>2. /\ visible_objects' = Append(visible_objects, <<st>>) /\ id <= MaxObjects
        /\ states_in_sequence' =
              [states_in_sequence EXCEPT ![Len(states_in_sequence)] =
                  point_to_state_for(states_in_sequence[Len(states_in_sequence)], id,
                                     Pointer(InUse, 1))]
        /\ UNCHANGED <<memoryVars, next_steps, followed, kept, seams>> /\ edited' = edited
    BY <1>1 DEF add_object
  <1>3. <<st>> \in Seq(ObjectState) /\ Len(<<st>>) = 1
    OBVIOUS
  <1>4. /\ visible_objects' \in Histories
        /\ Len(visible_objects') = id
        /\ DOMAIN visible_objects' = DOMAIN visible_objects \cup {id}
        /\ id \notin DOMAIN visible_objects
        /\ visible_objects'[id] = <<st>>
        /\ \A k \in DOMAIN visible_objects : visible_objects'[k] = visible_objects[k]
    BY <1>0, <1>1, <1>2, <1>3 DEF Histories
  <1>5. HistoriesGrow
    <2>1. \A k \in DOMAIN visible_objects : Len(visible_objects[k]) \in Nat
      BY <1>0 DEF Histories
    <2> QED BY <1>4, <2>1 DEF HistoriesGrow
  <1>6. Len(visible_objects'[id]) = 1 /\ Len(visible_objects') <= MaxObjects
    BY <1>2, <1>3, <1>4
  <1>7. states_in_sequence' =
            [states_in_sequence EXCEPT ![Len(states_in_sequence)] =
                point_to_state_for(states_in_sequence[Len(states_in_sequence)], id,
                                   Pointer(InUse, Len(visible_objects'[id])))]
    BY <1>2, <1>6
  <1>8. id \in DOMAIN visible_objects' /\ Len(visible_objects'[id]) > 0
    BY <1>4, <1>6
  <1>9. \A k \in DOMAIN visible_objects' \ {id} :
            k \in DOMAIN visible_objects /\ visible_objects'[k] = visible_objects[k]
    BY <1>4
  <1>10. Pointed(id)
    BY <1>2, <1>4, <1>5, <1>6, <1>7, <1>8, <1>9, Zenon DEF Pointed
  <1> QED BY <1>1, <1>2, <1>4, <1>10

\* A new state is the last one of its object.
LEMMA AddStatePoints ==
    ASSUME Bookkeeping, NEW id \in Ids, NEW st \in ObjectState, add_state_for(id, st)
    PROVE  /\ Pointed(id) /\ id \in Nat
           /\ edited' = edited \cup {Len(states_in_sequence)}
  <1>0. /\ visible_objects \in Histories /\ id \in DOMAIN visible_objects
        /\ Len(visible_objects) <= MaxObjects
    BY DEF Bookkeeping, Store, ObjectsOK, add_state_for
  <1>1. PICK index \in Nat : index = Len(visible_objects[id]) + 1
    BY <1>0 DEF Histories
  <1>2. /\ visible_objects' = push_state(visible_objects, id, st)
        /\ states_in_sequence' =
              [states_in_sequence EXCEPT ![Len(states_in_sequence)] =
                  point_to_state_for(states_in_sequence[Len(states_in_sequence)], id,
                                     Pointer(InUse, index))]
        /\ UNCHANGED <<memoryVars, next_steps, followed, kept, seams>>
        /\ edited' = edited \cup {Len(states_in_sequence)}
    BY <1>1 DEF add_state_for
  <1>3. /\ visible_objects' \in Histories
        /\ Len(visible_objects') = Len(visible_objects)
        /\ DOMAIN visible_objects' = DOMAIN visible_objects
        /\ Len(visible_objects'[id]) = index
        /\ \A k \in 1 .. Len(visible_objects[id]) : visible_objects'[id][k] = visible_objects[id][k]
        /\ \A k \in DOMAIN visible_objects \ {id} : visible_objects'[k] = visible_objects[k]
    <2>1. /\ push_state(visible_objects, id, st) \in Histories
          /\ Len(push_state(visible_objects, id, st)) = Len(visible_objects)
          /\ DOMAIN push_state(visible_objects, id, st) = DOMAIN visible_objects
          /\ Len(push_state(visible_objects, id, st)[id]) = Len(visible_objects[id]) + 1
          /\ \A k \in 1 .. Len(visible_objects[id]) :
                push_state(visible_objects, id, st)[id][k] = visible_objects[id][k]
          /\ \A k \in DOMAIN visible_objects \ {id} :
                push_state(visible_objects, id, st)[k] = visible_objects[k]
      BY ONLY <1>0, PushAppends
    <2> QED BY <1>1, <1>2, <2>1
  <1>4. \A k \in DOMAIN visible_objects : Len(visible_objects[k]) \in Nat
    BY <1>0 DEF Histories
  <1>5. HistoriesGrow
    BY <1>1, <1>3, <1>4 DEF HistoriesGrow
  <1>6. Len(visible_objects'[id]) > 0
    BY <1>0, <1>1, <1>3, <1>4
  <1>7. Pointed(id)
    BY <1>0, <1>2, <1>3, <1>5, <1>6 DEF Pointed
  <1> QED BY <1>0, <1>2, <1>7 DEF Ids

\* The views after such a step: the last one has the new pointer, and is otherwise as it was.
LEMMA PointedViews ==
    ASSUME Store, NEW id \in Nat, Pointed(id), NEW last, last = Len(states_in_sequence)
    PROVE  /\ last \in Nat \ {0} /\ DOMAIN states_in_sequence = 1 .. last
           /\ states_in_sequence' \in Seq(Views)
           /\ Len(states_in_sequence') = last
           /\ DOMAIN states_in_sequence' = DOMAIN states_in_sequence
           /\ \A i \in DOMAIN states_in_sequence \ {last} :
                 states_in_sequence'[i] = states_in_sequence[i]
           /\ DOMAIN states_in_sequence'[last] = DOMAIN states_in_sequence[last] \cup {id}
           /\ states_in_sequence'[last][id] = Pointer(InUse, Len(visible_objects'[id]))
           /\ \A k \in DOMAIN states_in_sequence[last] \ {id} :
                 states_in_sequence'[last][k] = states_in_sequence[last][k]
  <1>0. /\ states_in_sequence \in Seq(Views) /\ last \in Nat \ {0}
        /\ last \in 1 .. Len(states_in_sequence) /\ DOMAIN states_in_sequence = 1 .. last
    BY DEF Store, ViewsOK
  <1> DEFINE old == states_in_sequence[last]
             p == Pointer(InUse, Len(visible_objects'[id]))
             view == point_to_state_for(old, id, p)
  <1>1. p \in Pointers
    <2>1. visible_objects' \in Histories /\ id \in DOMAIN visible_objects'
      BY DEF Pointed
    <2>2. Len(visible_objects'[id]) \in Nat
      BY <2>1 DEF Histories
    <2>3. InUse \in Nat
      BY InUseIsNatural DEF Store
    <2> QED BY <2>2, <2>3, PointerIs
  <1>2. old \in Views
    BY <1>0
  <1>3. states_in_sequence' = [states_in_sequence EXCEPT ![last] = view]
    BY DEF Pointed
  <1> HIDE DEF old, p
  <1>4. /\ view \in Views
        /\ DOMAIN view = DOMAIN old \cup {id}
        /\ \A i \in DOMAIN view : view[i] = IF i = id THEN p ELSE old[i]
    BY <1>1, <1>2, PointingIsView
  <1> HIDE DEF view
  <1>5. /\ states_in_sequence' \in Seq(Views)
        /\ Len(states_in_sequence') = last
        /\ DOMAIN states_in_sequence' = DOMAIN states_in_sequence
        /\ states_in_sequence'[last] = view
        /\ \A i \in DOMAIN states_in_sequence \ {last} :
              states_in_sequence'[i] = states_in_sequence[i]
    BY <1>0, <1>3, <1>4, ExceptSeq
  <1> QED BY <1>0, <1>4, <1>5 DEF old, p

\* Such a step keeps the store, loses no state and changes no view but the last.
LEMMA PointedKeeps ==
    ASSUME Bookkeeping, NEW id \in Nat, Pointed(id),
           edited' \subseteq edited \cup {Len(states_in_sequence)}
    PROVE  Bookkeeping' /\ MemoryGrows /\ PastPointersStay
  <1>0. Store /\ ObjectsOK /\ MemoryOK /\ ViewsOK /\ StepsOK /\ PendingOK
    BY DEF Bookkeeping, Store
  <1>n. PICK last : last = Len(states_in_sequence)
    OBVIOUS
  <1>1. /\ last \in Nat \ {0} /\ DOMAIN states_in_sequence = 1 .. last
        /\ states_in_sequence' \in Seq(Views)
        /\ Len(states_in_sequence') = last
        /\ DOMAIN states_in_sequence' = DOMAIN states_in_sequence
        /\ \A i \in DOMAIN states_in_sequence \ {last} :
              states_in_sequence'[i] = states_in_sequence[i]
        /\ DOMAIN states_in_sequence'[last] = DOMAIN states_in_sequence[last] \cup {id}
        /\ states_in_sequence'[last][id] = Pointer(InUse, Len(visible_objects'[id]))
        /\ \A k \in DOMAIN states_in_sequence[last] \ {id} :
              states_in_sequence'[last][k] = states_in_sequence[last][k]
    BY <1>0, <1>n, PointedViews
  <1>2. /\ visible_objects' \in Histories /\ HistoriesGrow /\ UNCHANGED memoryVars
        /\ Len(visible_objects') <= MaxObjects
        /\ next_steps' = next_steps /\ followed' = followed /\ kept' = kept /\ seams' = seams
        /\ id \in DOMAIN visible_objects' /\ Len(visible_objects'[id]) > 0
        /\ \A k \in DOMAIN visible_objects' \ {id} :
              k \in DOMAIN visible_objects /\ visible_objects'[k] = visible_objects[k]
    BY DEF Pointed
  <1>3. MemoryGrows /\ MemoryOK' /\ InUse' = InUse
    BY <1>0, <1>2, GrowingIsEnough
  <1>4. ObjectsOK'
    BY <1>0, <1>2 DEF ObjectsOK
  <1>5. PastPointersStay
    BY <1>1, <1>n DEF PastPointersStay
  <1>6. PICK n \in Nat : n = Len(visible_objects'[id]) /\ n \in DOMAIN visible_objects'[id]
    <2>1. visible_objects'[id] \in Seq(ObjectState)
      BY <1>2 DEF Histories
    <2> QED BY <1>2, <2>1
  <1>7. /\ InUse \in Nat \ {0} /\ ObjectsOf(InUse)' = visible_objects'
        /\ Pointer(InUse, n).owner = InUse /\ Pointer(InUse, n).index = n
    <2>1. InUse \in Nat \ {0} /\ ObjectsOf(InUse)' = visible_objects'
      <3>1. InUse \in Nat \ {0} /\ InUse \notin DOMAIN consumed
        BY <1>0, InUseIsNatural
      <3>2. consumed' = consumed
        BY <1>2 DEF memoryVars
      <3> QED BY <1>3, <3>1, <3>2 DEF ObjectsOf
    <2> QED BY <2>1, <1>6, PointerIs
  <1>8. PointersAreMade'
    <2>1. ASSUME NEW i \in DOMAIN states_in_sequence', NEW k \in DOMAIN states_in_sequence'[i]
          PROVE  \E g \in 1 .. InUse' :
                    /\ states_in_sequence'[i][k].owner = g
                    /\ k \in DOMAIN ObjectsOf(g)'
                    /\ states_in_sequence'[i][k].index \in DOMAIN ObjectsOf(g)'[k]
      <3>1. CASE i # last \/ k # id
        <4>1. /\ i \in DOMAIN states_in_sequence /\ k \in DOMAIN states_in_sequence[i]
              /\ states_in_sequence'[i][k] = states_in_sequence[i][k]
          BY <1>1, <2>1, <3>1
        <4> QED BY <1>0, <1>3, <4>1, OldPointersStayGood
      <3>2. CASE i = last /\ k = id
        <4>1. states_in_sequence'[i][k] = Pointer(InUse, n)
          BY <1>1, <1>6, <3>2
        <4>2. PICK g \in 1 .. InUse' : g = InUse
          BY <1>3, <1>7
        <4>3. ObjectsOf(g)' = visible_objects'
          <5>1. g \notin DOMAIN consumed /\ consumed' = consumed
            BY <1>0, <1>2, <4>2, InUseIsNatural DEF memoryVars
          <5> QED BY <5>1 DEF ObjectsOf
        <4> QED BY <1>2, <1>6, <1>7, <3>2, <4>1, <4>2, <4>3
      <3> QED BY <3>1, <3>2
    <2> QED BY <2>1 DEF PointersAreMade
  <1>9. LaterViewsAreOurs'
    <2>1. ASSUME NEW i \in DOMAIN states_in_sequence', i > kept,
                 NEW k \in DOMAIN states_in_sequence'[i]
          PROVE  states_in_sequence'[i][k].owner = InUse
      <3>1. CASE i # last \/ k # id
        <4>1. /\ i \in DOMAIN states_in_sequence /\ k \in DOMAIN states_in_sequence[i]
              /\ states_in_sequence'[i][k] = states_in_sequence[i][k]
          BY <1>1, <2>1, <3>1
        <4> QED BY <1>0, <2>1, <4>1 DEF ViewsOK, LaterViewsAreOurs
      <3>2. CASE i = last /\ k = id
        BY <1>1, <1>6, <1>7, <3>2
      <3> QED BY <3>1, <3>2
    <2> QED BY <1>2, <1>3, <2>1 DEF LaterViewsAreOurs
  <1>10. ViewsOK'
    BY <1>0, <1>1, <1>2, <1>8, <1>9 DEF ViewsOK
  <1>11. StepsOK'
    <2>1. /\ followed' \in Seq(Transition)
          /\ Len(states_in_sequence') = Len(followed') + 1
          /\ seams' \subseteq DOMAIN states_in_sequence'
      BY <1>0, <1>1, <1>2, <1>n DEF StepsOK
    <2>2. edited' \subseteq DOMAIN states_in_sequence'
      BY <1>0, <1>1, <1>n DEF StepsOK
    <2> QED BY <2>1, <2>2 DEF StepsOK
  <1>12. PendingOK'
    BY <1>0, <1>2 DEF PendingOK, HistoriesGrow
  <1> QED BY <1>3, <1>4, <1>5, <1>10, <1>11, <1>12 DEF Bookkeeping, Store

\* What following a defined transition does: the object gets its new state, and a view of
\* all the latest states is added.
LEMMA FollowMoves ==
    ASSUME Bookkeeping, NEW t \in Transition, t.obj \in DOMAIN visible_objects, follow(t),
           exists(t, DiffState(NoDiff))
    PROVE  /\ visible_objects' = push_state(visible_objects, t.obj,
                  modify(t, visible_objects[t.obj][Len(visible_objects[t.obj])]).new)
           /\ states_in_sequence' = Append(states_in_sequence, Snapshot(visible_objects'))
           /\ followed' = Append(followed, t)
  <1> DEFINE latest == detached_state(visible_objects)
  <1>1. DiffState(NoDiff) = latest
        /\ latest[t.obj] = visible_objects[t.obj][Len(visible_objects[t.obj])]
    BY OverlayIsLatest
  <1>2. DOMAIN latest = DOMAIN visible_objects
    BY DEF detached_state
  <1> HIDE DEF latest
  <1>3. apply_to(t, latest)[t.obj] = modify(t, latest[t.obj]).new
    BY <1>2 DEF apply_to
  <1> QED BY <1>1, <1>3 DEF follow

\* The state that the object of the transition comes to.
NextState(t) == modify(t, visible_objects[t.obj][Len(visible_objects[t.obj])]).new

\* The objects and views after it.
LEMMA FollowAdds ==
    ASSUME Bookkeeping, NEW t \in Transition, t.obj \in DOMAIN visible_objects, follow(t),
           exists(t, DiffState(NoDiff)), UNCHANGED memoryVars,
           NEW last, last = Len(states_in_sequence)
    PROVE  /\ ObjectsOK' /\ HistoriesGrow /\ MemoryOK' /\ MemoryGrows /\ InUse' = InUse
           /\ DOMAIN visible_objects' = DOMAIN visible_objects
           /\ visible_objects'[t.obj][Len(visible_objects'[t.obj])] = NextState(t)
           /\ \A id \in DOMAIN visible_objects \ {t.obj} : visible_objects'[id] = visible_objects[id]
           /\ last \in Nat \ {0} /\ DOMAIN states_in_sequence = 1 .. last
           /\ states_in_sequence' \in Seq(Views)
           /\ Len(states_in_sequence') = last + 1 /\ DOMAIN states_in_sequence' = 1 .. last + 1
           /\ \A i \in 1 .. last : states_in_sequence'[i] = states_in_sequence[i]
           /\ DOMAIN states_in_sequence'[last + 1] = DOMAIN visible_objects'
           /\ \A id \in DOMAIN visible_objects' :
                 states_in_sequence'[last + 1][id] = Pointer(InUse, Len(visible_objects'[id]))
           /\ followed' \in Seq(Transition) /\ Len(followed') = last
           /\ DOMAIN followed = 1 .. last - 1 /\ followed'[last] = t
           /\ \A i \in DOMAIN followed : followed'[i] = followed[i]
  <1>s. PICK st : st = NextState(t)
    OBVIOUS
  <1>0. /\ ObjectsOK /\ MemoryOK /\ visible_objects \in Histories
        /\ states_in_sequence \in Seq(Views) /\ Len(states_in_sequence) > 0
        /\ followed \in Seq(Transition) /\ Len(states_in_sequence) = Len(followed) + 1
    BY DEF Bookkeeping, Store, ObjectsOK, ViewsOK, StepsOK
  <1>1. /\ visible_objects' = push_state(visible_objects, t.obj, st)
        /\ states_in_sequence' = Append(states_in_sequence, Snapshot(visible_objects'))
        /\ followed' = Append(followed, t)
    BY <1>s, FollowMoves DEF NextState
  <1>2. st \in ObjectState
    BY <1>s, ModifyGivesState DEF NextState
  <1>3. /\ visible_objects' \in Histories
        /\ Len(visible_objects') = Len(visible_objects)
        /\ DOMAIN visible_objects' = DOMAIN visible_objects
        /\ Len(visible_objects'[t.obj]) = Len(visible_objects[t.obj]) + 1
        /\ visible_objects'[t.obj][Len(visible_objects[t.obj]) + 1] = st
        /\ \A k \in 1 .. Len(visible_objects[t.obj]) :
              visible_objects'[t.obj][k] = visible_objects[t.obj][k]
        /\ \A i \in DOMAIN visible_objects \ {t.obj} : visible_objects'[i] = visible_objects[i]
    <2>1. /\ push_state(visible_objects, t.obj, st) \in Histories
          /\ Len(push_state(visible_objects, t.obj, st)) = Len(visible_objects)
          /\ DOMAIN push_state(visible_objects, t.obj, st) = DOMAIN visible_objects
          /\ Len(push_state(visible_objects, t.obj, st)[t.obj]) = Len(visible_objects[t.obj]) + 1
          /\ push_state(visible_objects, t.obj, st)[t.obj][Len(visible_objects[t.obj]) + 1] = st
          /\ \A k \in 1 .. Len(visible_objects[t.obj]) :
                push_state(visible_objects, t.obj, st)[t.obj][k] = visible_objects[t.obj][k]
          /\ \A i \in DOMAIN visible_objects \ {t.obj} :
                push_state(visible_objects, t.obj, st)[i] = visible_objects[i]
      BY <1>0, <1>2, PushAppends
    <2> QED BY <1>1, <2>1
  <1>4. \A i \in DOMAIN visible_objects :
            Len(visible_objects[i]) \in Nat /\ Len(visible_objects[i]) > 0
    BY <1>0 DEF ObjectsOK, Histories
  <1>5. HistoriesGrow
    BY <1>3, <1>4 DEF HistoriesGrow
  <1>6. ObjectsOK'
    BY <1>0, <1>3, <1>4 DEF ObjectsOK
  <1>7. MemoryGrows /\ MemoryOK' /\ InUse' = InUse
    BY <1>0, <1>3, <1>5, GrowingIsEnough
  <1>8. /\ Snapshot(visible_objects') \in Views
        /\ DOMAIN Snapshot(visible_objects') = DOMAIN visible_objects'
        /\ \A i \in DOMAIN visible_objects' :
              Snapshot(visible_objects')[i] = Pointer(InUse, Len(visible_objects'[i]))
    <2>1. InUse \in Nat
      BY <1>0, InUseIsNatural
    <2>2. Snapshot(visible_objects') =
              [id \in DOMAIN visible_objects' |-> Pointer(InUse, Len(visible_objects'[id]))]
      BY <1>7 DEF Snapshot
    <2>3. \A objects \in Histories :
             /\ Snapshot(objects) \in Views
             /\ DOMAIN Snapshot(objects) = DOMAIN objects
             /\ \A i \in DOMAIN objects : Snapshot(objects)[i] = Pointer(InUse, Len(objects[i]))
      BY <2>1, SnapshotIsView
    <2> QED BY <1>3, <1>7, <2>3
  <1> DEFINE view == Snapshot(visible_objects')
  <1> HIDE DEF view
  <1>9. states_in_sequence' = Append(states_in_sequence, view) /\ view \in Views
    BY <1>1, <1>8 DEF view
  <1>10. /\ last \in Nat \ {0} /\ DOMAIN states_in_sequence = 1 .. last
         /\ states_in_sequence' \in Seq(Views)
         /\ Len(states_in_sequence') = last + 1 /\ DOMAIN states_in_sequence' = 1 .. last + 1
         /\ states_in_sequence'[last + 1] = view
         /\ \A i \in 1 .. last : states_in_sequence'[i] = states_in_sequence[i]
    BY <1>0, <1>9
  <1>11. /\ followed' \in Seq(Transition) /\ Len(followed') = last
         /\ DOMAIN followed = 1 .. last - 1 /\ followed'[last] = t
         /\ \A i \in DOMAIN followed : followed'[i] = followed[i]
    BY <1>0, <1>1
  <1>12. visible_objects'[t.obj][Len(visible_objects'[t.obj])] = NextState(t)
    BY <1>3, <1>s
  <1> QED BY <1>3, <1>5, <1>6, <1>7, <1>8, <1>10, <1>11, <1>12 DEF view

\* Following a transition keeps the store, whether the transition is defined or not.
LEMMA FollowKeeps ==
    ASSUME Bookkeeping, NEW t \in Transition, t.obj \in DOMAIN visible_objects, follow(t),
           UNCHANGED <<memoryVars, edited, kept, seams>>
    PROVE  Store' /\ HistoriesGrow /\ MemoryGrows /\ PastPointersStay /\ StepsOK'
  <1>0. Store /\ ObjectsOK /\ MemoryOK /\ ViewsOK /\ StepsOK
    BY DEF Bookkeeping, Store
  <1>1. CASE ~ exists(t, DiffState(NoDiff))
    <2>1. UNCHANGED <<visible_objects, states_in_sequence, followed, memoryVars, edited, kept, seams>>
      BY <1>1 DEF follow
    <2>2. \A i \in DOMAIN visible_objects : Len(visible_objects[i]) \in Nat
      BY <1>0 DEF ObjectsOK, Histories
    <2>3. HistoriesGrow /\ PastPointersStay
      BY <2>1, <2>2 DEF HistoriesGrow, PastPointersStay
    <2>4. visible_objects' \in Histories
      BY <1>0, <2>1 DEF ObjectsOK
    <2>5. MemoryGrows /\ MemoryOK' /\ InUse' = InUse
      BY <1>0, <2>1, <2>3, <2>4, GrowingIsEnough
    <2>6. \A g : ObjectsOf(g)' = ObjectsOf(g)
      BY <2>1 DEF ObjectsOf, memoryVars
    <2>7. ObjectsOK' /\ ViewsOK' /\ StepsOK'
      BY <1>0, <2>1, <2>5, <2>6
         DEF ObjectsOK, ViewsOK, StepsOK, PointersAreMade, LaterViewsAreOurs
    <2> QED BY <2>3, <2>5, <2>7 DEF Store
  <1>2. CASE exists(t, DiffState(NoDiff))
    <2>n. PICK last : last = Len(states_in_sequence)
      OBVIOUS
    <2>u. UNCHANGED memoryVars
      OBVIOUS
    <2>1. /\ ObjectsOK' /\ HistoriesGrow /\ MemoryOK' /\ MemoryGrows /\ InUse' = InUse
          /\ last \in Nat \ {0} /\ DOMAIN states_in_sequence = 1 .. last
          /\ states_in_sequence' \in Seq(Views)
          /\ Len(states_in_sequence') = last + 1 /\ DOMAIN states_in_sequence' = 1 .. last + 1
          /\ \A i \in 1 .. last : states_in_sequence'[i] = states_in_sequence[i]
          /\ DOMAIN states_in_sequence'[last + 1] = DOMAIN visible_objects'
          /\ \A id \in DOMAIN visible_objects' :
                states_in_sequence'[last + 1][id] = Pointer(InUse, Len(visible_objects'[id]))
          /\ followed' \in Seq(Transition) /\ Len(followed') = last
      BY <1>2, <2>n, <2>u, FollowAdds
    <2>2. PastPointersStay
      BY <2>n, <2>1 DEF PastPointersStay
    <2>3. ASSUME NEW id \in DOMAIN visible_objects'
          PROVE  \E n \in Nat :
                    /\ states_in_sequence'[last + 1][id] = Pointer(InUse, n)
                    /\ n \in DOMAIN visible_objects'[id]
                    /\ Pointer(InUse, n).owner = InUse /\ Pointer(InUse, n).index = n
      <3>1. visible_objects'[id] \in Seq(ObjectState) /\ Len(visible_objects'[id]) > 0
        BY <2>1, <2>3 DEF ObjectsOK, Histories
      <3>2. PICK n \in Nat : n = Len(visible_objects'[id]) /\ n \in DOMAIN visible_objects'[id]
        BY <3>1
      <3>3. InUse \in Nat
        BY <1>0, InUseIsNatural
      <3> QED BY <2>1, <3>2, <3>3, PointerIs
    <2>4. PointersAreMade'
      <3>1. ASSUME NEW i \in DOMAIN states_in_sequence', NEW k \in DOMAIN states_in_sequence'[i]
            PROVE  \E g \in 1 .. InUse' :
                      /\ states_in_sequence'[i][k].owner = g
                      /\ k \in DOMAIN ObjectsOf(g)'
                      /\ states_in_sequence'[i][k].index \in DOMAIN ObjectsOf(g)'[k]
        <4>1. CASE i # last + 1
          <5>1. /\ i \in DOMAIN states_in_sequence /\ k \in DOMAIN states_in_sequence[i]
                /\ states_in_sequence'[i] = states_in_sequence[i]
            BY <2>1, <3>1, <4>1
          <5> QED BY <1>0, <2>1, <5>1, OldPointersStayGood
        <4>2. CASE i = last + 1
          <5>1. k \in DOMAIN visible_objects'
            BY <2>1, <3>1, <4>2
          <5>2. PICK n \in Nat :
                    /\ states_in_sequence'[last + 1][k] = Pointer(InUse, n)
                    /\ n \in DOMAIN visible_objects'[k]
                    /\ Pointer(InUse, n).owner = InUse /\ Pointer(InUse, n).index = n
            BY <2>3, <5>1
          <5>3. PICK g \in 1 .. InUse' : g = InUse
            BY <1>0, <2>1, InUseIsNatural
          <5>4. ObjectsOf(g)' = visible_objects'
            <6>1. g \notin DOMAIN consumed /\ consumed' = consumed
              BY <1>0, <5>3, InUseIsNatural DEF memoryVars
            <6> QED BY <6>1 DEF ObjectsOf
          <5> QED BY <4>2, <5>1, <5>2, <5>3, <5>4
        <4> QED BY <4>1, <4>2
      <3> QED BY <3>1 DEF PointersAreMade
    <2>5. LaterViewsAreOurs'
      <3>1. ASSUME NEW i \in DOMAIN states_in_sequence', i > kept,
                   NEW k \in DOMAIN states_in_sequence'[i]
            PROVE  states_in_sequence'[i][k].owner = InUse
        <4>1. CASE i # last + 1
          <5>1. /\ i \in DOMAIN states_in_sequence /\ k \in DOMAIN states_in_sequence[i]
                /\ states_in_sequence'[i] = states_in_sequence[i]
            BY <2>1, <3>1, <4>1
          <5> QED BY <1>0, <3>1, <5>1 DEF ViewsOK, LaterViewsAreOurs
        <4>2. CASE i = last + 1
          BY <2>1, <2>3, <3>1, <4>2
        <4> QED BY <4>1, <4>2
      <3>2. kept' = kept
        OBVIOUS
      <3> QED BY <2>1, <3>1, <3>2 DEF LaterViewsAreOurs
    <2>6. ViewsOK'
      BY <1>0, <2>1, <2>4, <2>5 DEF ViewsOK
    <2>7. StepsOK'
      <3>1. edited' = edited /\ seams' = seams
        OBVIOUS
      <3>2. edited \subseteq 1 .. last /\ seams \subseteq 1 .. last
        BY <1>0, <2>1 DEF StepsOK
      <3> QED BY <2>1, <3>1, <3>2 DEF StepsOK
    <2> QED BY <2>1, <2>2, <2>6, <2>7 DEF Store
  <1> QED BY <1>1, <1>2

\* A cut: the new sequence has equal objects and the first views, which point where they did.
LEMMA ConsumeKeeps ==
    ASSUME Bookkeeping, NEW index \in DOMAIN states_in_sequence, consume_into_subsequence(index)
    PROVE  /\ Store' /\ HistoriesGrow /\ MemoryGrows /\ PastPointersStay
           /\ visible_objects' = visible_objects
           /\ index \in 1 .. Len(states_in_sequence) /\ Len(states_in_sequence) \in Nat
           /\ Len(states_in_sequence') = index /\ DOMAIN states_in_sequence' = 1 .. index
           /\ \A i \in 1 .. index : states_in_sequence'[i] = states_in_sequence[i]
  <1>0. /\ Store /\ ObjectsOK /\ MemoryOK /\ ViewsOK /\ visible_objects \in Histories
        /\ states_in_sequence \in Seq(Views)
        /\ index \in 1 .. Len(states_in_sequence) /\ Len(states_in_sequence) \in Nat
        /\ \A i \in DOMAIN visible_objects : Len(visible_objects[i]) \in Nat
    BY DEF Bookkeeping, Store, ObjectsOK, ViewsOK, Histories
  <1>1. /\ visible_objects' = visible_objects
        /\ states_in_sequence' = SubSeq(states_in_sequence, 1, index)
        /\ consumed' = Append(consumed, visible_objects) /\ destroyed' = destroyed
        /\ kept' = index
    BY <1>0, CopyIsEqual DEF consume_into_subsequence
  <1>2. /\ states_in_sequence' \in Seq(Views)
        /\ Len(states_in_sequence') = index
        /\ DOMAIN states_in_sequence' = 1 .. index
        /\ \A i \in 1 .. index : states_in_sequence'[i] = states_in_sequence[i]
    BY <1>0, <1>1
  <1>3. HistoriesGrow /\ PastPointersStay
    BY <1>0, <1>1, <1>2 DEF HistoriesGrow, PastPointersStay
  <1>4. /\ consumed' \in Seq(Histories) /\ DOMAIN consumed' = DOMAIN consumed \cup {InUse}
        /\ consumed'[InUse] = visible_objects
        /\ \A g \in DOMAIN consumed : consumed'[g] = consumed[g]
        /\ InUse' = InUse + 1 /\ InUse \in Nat \ {0}
    <2>1. consumed \in Seq(Histories)
      BY <1>0 DEF MemoryOK
    <2>2. InUse = Len(consumed) + 1 /\ InUse' = Len(consumed') + 1
      BY DEF InUse
    <2> QED BY <1>0, <1>1, <2>1, <2>2
  <1>5. MemoryOK'
    BY <1>0, <1>1, <1>4 DEF MemoryOK
  <1>6. ObjectsOK'
    BY <1>0, <1>1 DEF ObjectsOK
  <1>7. \A g \in 1 .. InUse : ObjectsOf(g)' = ObjectsOf(g)
    <2>1. \A g \in 1 .. InUse : g \in DOMAIN consumed \/ g = InUse
      BY <1>0, InUseIsNatural
    <2> QED BY <1>0, <1>4, <2>1, InUseIsNatural DEF ObjectsOf
  <1>8. MemoryGrows
    <2>1. \A g \in 1 .. InUse : g \in 1 .. InUse'
      BY <1>4
    <2> QED BY <1>7, <2>1 DEF MemoryGrows
  <1>9. PointersAreMade'
    <2>1. ASSUME NEW i \in DOMAIN states_in_sequence', NEW k \in DOMAIN states_in_sequence'[i]
          PROVE  \E g \in 1 .. InUse' :
                    /\ states_in_sequence'[i][k].owner = g
                    /\ k \in DOMAIN ObjectsOf(g)'
                    /\ states_in_sequence'[i][k].index \in DOMAIN ObjectsOf(g)'[k]
      <3>1. /\ i \in DOMAIN states_in_sequence /\ k \in DOMAIN states_in_sequence[i]
            /\ states_in_sequence'[i] = states_in_sequence[i]
        BY <1>0, <1>2, <2>1
      <3> QED BY <1>0, <1>8, <3>1, OldPointersStayGood
    <2> QED BY <2>1 DEF PointersAreMade
  <1>10. LaterViewsAreOurs'
    BY <1>0, <1>1, <1>2 DEF LaterViewsAreOurs
  <1>11. ViewsOK'
    BY <1>0, <1>1, <1>2, <1>9, <1>10 DEF ViewsOK
  <1> QED BY <1>0, <1>1, <1>2, <1>3, <1>5, <1>6, <1>8, <1>11 DEF Store

\* Nothing changes but what is destroyed.
LEMMA NothingMoves ==
    ASSUME Bookkeeping,
           UNCHANGED <<visible_objects, states_in_sequence, consumed, followed, edited, kept, seams>>,
           destroyed' \subseteq DOMAIN consumed
    PROVE  Store' /\ HistoriesGrow /\ MemoryGrows /\ PastPointersStay /\ StepsOK'
  <1>0. ObjectsOK /\ MemoryOK /\ ViewsOK /\ StepsOK
    BY DEF Bookkeeping, Store
  <1>1. \A i \in DOMAIN visible_objects : Len(visible_objects[i]) \in Nat
    BY <1>0 DEF ObjectsOK, Histories
  <1>2. HistoriesGrow /\ PastPointersStay
    BY <1>1 DEF HistoriesGrow, PastPointersStay
  <1>3. InUse' = InUse /\ \A g : ObjectsOf(g)' = ObjectsOf(g)
    BY DEF InUse, ObjectsOf
  <1>4. MemoryGrows
    BY <1>3 DEF MemoryGrows
  <1>5. ObjectsOK' /\ MemoryOK' /\ StepsOK'
    BY <1>0 DEF ObjectsOK, MemoryOK, StepsOK
  <1>6. ViewsOK'
    BY <1>0, <1>3 DEF ViewsOK, PointersAreMade, LaterViewsAreOurs
  <1> QED BY <1>2, <1>4, <1>5, <1>6 DEF Store

\* Pending transitions stay good while the histories grow...
LEMMA PendingKeeps ==
    ASSUME PendingOK, HistoriesGrow, next_steps' = next_steps
    PROVE  PendingOK'
  BY DEF PendingOK, HistoriesGrow

\* ... and a new one is about an object that exists.
LEMMA NewPendingKeeps ==
    ASSUME PendingOK, HistoriesGrow, NEW p \in Runners, NEW t \in Fitting,
           next_steps' = [next_steps EXCEPT ![p] = t]
    PROVE  PendingOK'
  <1>1. t \in Transition /\ t.obj \in DOMAIN visible_objects
    BY DEF Fitting
  <1>2. next_steps' \in [Runners -> Transition \cup {Nothing}]
    BY <1>1 DEF PendingOK
  <1>3. ASSUME NEW q \in Runners, next_steps'[q] # Nothing
        PROVE  next_steps'[q].obj \in DOMAIN visible_objects'
    <2>1. CASE q = p
      BY <1>1, <2>1 DEF PendingOK, HistoriesGrow
    <2>2. CASE q # p
      BY <1>3, <2>2 DEF PendingOK, HistoriesGrow
    <2> QED BY <2>1, <2>2
  <1> QED BY <1>2, <1>3 DEF PendingOK

\* Every step keeps the bookkeeping, loses no state and changes no view but the last.
LEMMA BookkeepingNext ==
    ASSUME Bookkeeping, [Next]_vars
    PROVE  Bookkeeping' /\ MemoryGrows /\ PastPointersStay
  <1>0. MemoryOK /\ StepsOK /\ PendingOK
    BY DEF Bookkeeping, Store
  <1>1. ASSUME NEW st \in {"uninitialized", "embryo"}, add_object(st)
        PROVE  Bookkeeping' /\ MemoryGrows /\ PastPointersStay
    <2>1. st \in ObjectState
      BY DEF ObjectState, MutexStates, ThreadStates
    <2>2. PICK id \in Nat : Pointed(id) /\ edited' = edited
      BY <1>1, <2>1, AddObjectPoints
    <2> QED BY <2>2, PointedKeeps
  <1>2. ASSUME NEW id \in Ids, NEW st \in {"destroyed", "unlocked", "exited"}, add_state_for(id, st)
        PROVE  Bookkeeping' /\ MemoryGrows /\ PastPointersStay
    <2>1. st \in ObjectState
      BY DEF ObjectState, MutexStates, ThreadStates
    <2>2. Pointed(id) /\ id \in Nat /\ edited' = edited \cup {Len(states_in_sequence)}
      BY <1>2, <2>1, AddStatePoints
    <2> QED BY <2>2, PointedKeeps
  <1>3. ASSUME NEW p \in Runners, NEW t \in Fitting, displace_transition_for(p, t)
        PROVE  Bookkeeping' /\ MemoryGrows /\ PastPointersStay
    <2>1. /\ UNCHANGED <<visible_objects, states_in_sequence, memoryVars, followed, edited, kept, seams>>
          /\ next_steps' = [next_steps EXCEPT ![p] = t]
      BY <1>3 DEF displace_transition_for
    <2>2. Store' /\ HistoriesGrow /\ MemoryGrows /\ PastPointersStay /\ StepsOK'
      BY <1>0, <2>1, NothingMoves DEF memoryVars, MemoryOK
    <2>3. PendingOK'
      BY <1>0, <2>1, <2>2, NewPendingKeeps
    <2> QED BY <2>2, <2>3 DEF Bookkeeping
  <1>4. ASSUME NEW p \in Runners, NEW t \in Fitting, model_executing_runner(p, t)
        PROVE  Bookkeeping' /\ MemoryGrows /\ PastPointersStay
    <2>1. /\ UNCHANGED <<memoryVars, edited, kept, seams>> /\ follow(next_steps[p])
          /\ next_steps' = [next_steps EXCEPT ![p] = t] /\ next_steps[p] # Nothing
      BY <1>4 DEF model_executing_runner
    <2>2. next_steps[p] \in Transition /\ next_steps[p].obj \in DOMAIN visible_objects
      BY <1>0, <2>1 DEF PendingOK
    <2>3. Store' /\ HistoriesGrow /\ MemoryGrows /\ PastPointersStay /\ StepsOK'
      BY <2>1, <2>2, FollowKeeps
    <2>4. PendingOK'
      BY <1>0, <2>1, <2>3, NewPendingKeeps
    <2> QED BY <2>3, <2>4 DEF Bookkeeping
  <1>5. ASSUME NEW index \in DOMAIN states_in_sequence, consume_into_subsequence(index)
        PROVE  Bookkeeping' /\ MemoryGrows /\ PastPointersStay
    <2>1. /\ Store' /\ HistoriesGrow /\ MemoryGrows /\ PastPointersStay
          /\ index \in 1 .. Len(states_in_sequence) /\ Len(states_in_sequence) \in Nat
          /\ Len(states_in_sequence') = index /\ DOMAIN states_in_sequence' = 1 .. index
      BY <1>5, ConsumeKeeps
    <2>2. /\ followed' = SubSeq(followed, 1, index - 1) /\ next_steps' = next_steps
          /\ edited' = edited \cap (1 .. index)
          /\ seams' = (seams \cap (1 .. index))
                         \cup IF index < Len(states_in_sequence) THEN {index} ELSE {}
      BY <1>5 DEF consume_into_subsequence
    <2>3. /\ followed' \in Seq(Transition) /\ Len(followed') = index - 1
      BY <1>0, <2>1, <2>2 DEF StepsOK
    <2>4. edited' \subseteq 1 .. index /\ seams' \subseteq 1 .. index
      BY <2>1, <2>2
    <2>5. StepsOK'
      BY <2>1, <2>3, <2>4 DEF StepsOK
    <2>6. PendingOK'
      BY <1>0, <2>1, <2>2, PendingKeeps
    <2> QED BY <2>1, <2>5, <2>6 DEF Bookkeeping
  <1>6. ASSUME NEW owner \in 1 .. MaxConsumed, destroy(owner)
        PROVE  Bookkeeping' /\ MemoryGrows /\ PastPointersStay
    <2>1. /\ UNCHANGED <<visible_objects, states_in_sequence, next_steps, consumed, followed, edited,
                         kept, seams>>
          /\ owner \in DOMAIN consumed /\ destroyed' = destroyed \cup {owner}
      BY <1>6 DEF destroy
    <2>2. destroyed' \subseteq DOMAIN consumed
      BY <1>0, <2>1 DEF MemoryOK
    <2>3. Store' /\ HistoriesGrow /\ MemoryGrows /\ PastPointersStay /\ StepsOK'
      BY <2>1, <2>2, NothingMoves
    <2>4. PendingOK'
      BY <1>0, <2>1, <2>3, PendingKeeps
    <2> QED BY <2>3, <2>4 DEF Bookkeeping
  <1>7. CASE UNCHANGED vars
    <2>1. UNCHANGED <<visible_objects, states_in_sequence, next_steps, memoryVars, followed, edited, kept, seams>>
      BY <1>7 DEF vars
    <2>2. Store' /\ HistoriesGrow /\ MemoryGrows /\ PastPointersStay /\ StepsOK'
      BY <1>0, <2>1, NothingMoves DEF memoryVars, MemoryOK
    <2>3. PendingOK'
      BY <1>0, <2>1, <2>2, PendingKeeps
    <2> QED BY <2>2, <2>3 DEF Bookkeeping
  <1> QED BY <1>1, <1>2, <1>3, <1>4, <1>5, <1>6, <1>7 DEF Next

-----------------------------------------------------------------------------
(* Types, and views that stay *)

\* The bookkeeping gives every variable its type.
LEMMA BookkeepingTypes == Bookkeeping => TypeOK
  <1> SUFFICES ASSUME Bookkeeping PROVE TypeOK
    OBVIOUS
  <1>1. /\ PointersAreMade /\ visible_objects \in Seq(Seq(ObjectState))
        /\ consumed \in Seq(Seq(Seq(ObjectState))) /\ destroyed \subseteq DOMAIN consumed
        /\ Len(visible_objects) <= MaxObjects /\ kept \in Nat
    BY DEF Bookkeeping, Store, ObjectsOK, MemoryOK, ViewsOK, Histories
  <1>2. Len(states_in_sequence) \in Nat \ {0}
    BY DEF Bookkeeping, Store, ViewsOK
  <1>3. /\ next_steps \in [Runners -> Transition \cup {Nothing}]
        /\ followed \in Seq(Transition) /\ edited \subseteq DOMAIN states_in_sequence
        /\ seams \subseteq DOMAIN states_in_sequence
    BY DEF Bookkeeping, StepsOK, PendingOK
  <1> QED BY <1>1, <1>2, <1>3, Zenon DEF TypeOK

\* The bookkeeping of McMini 2.0's state_sequence holds in every reachable state: every
\* pointer was made to a state of the sequence that owns it, and the views made since the
\* last cut point at nothing that was consumed.
THEOREM BookkeepingInvariant == Spec => []Bookkeeping
  <1>1. Bookkeeping /\ [Next]_vars => Bookkeeping'
    BY BookkeepingNext
  <1> QED BY BookkeepingInit, <1>1, PTL DEF Spec

\* The types of state_sequence's fields and of the pointers in its views (TypeOK).
THEOREM TypeCorrect == Spec => []TypeOK
  BY BookkeepingInvariant, BookkeepingTypes, PTL

\* What a view says of an object changes only if the view is made to point elsewhere.
LEMMA StateStays ==
    ASSUME Bookkeeping, MemoryGrows,
           NEW i \in DOMAIN states_in_sequence, NEW id \in DOMAIN states_in_sequence[i],
           id \in DOMAIN states_in_sequence'[i],
           states_in_sequence'[i][id] = states_in_sequence[i][id]
    PROVE  state_at(i)'[id] = state_at(i)[id]
  <1>1. PICK g \in 1 .. InUse :
            /\ states_in_sequence[i][id].owner = g /\ id \in DOMAIN ObjectsOf(g)
            /\ states_in_sequence[i][id].index \in DOMAIN ObjectsOf(g)[id]
    BY PointerWasMade DEF Bookkeeping
  <1>2. PICK k : k = states_in_sequence[i][id].index
    OBVIOUS
  <1>3. ObjectsOf(g)'[id][k] = ObjectsOf(g)[id][k]
    BY <1>1, <1>2 DEF MemoryGrows
  <1>4. state_at(i)[id] = ObjectsOf(g)[id][k]
    BY <1>1, <1>2 DEF state_at
  <1>5. state_at(i)'[id] = ObjectsOf(g)'[id][k]
    BY <1>1, <1>2 DEF state_at
  <1> QED BY <1>3, <1>4, <1>5

\* A view that points where it did says what it said.
LEMMA ViewStays ==
    ASSUME Bookkeeping, MemoryGrows, NEW i \in DOMAIN states_in_sequence,
           states_in_sequence'[i] = states_in_sequence[i]
    PROVE  state_at(i)' = state_at(i)
  <1>1. \A id \in DOMAIN states_in_sequence[i] : state_at(i)'[id] = state_at(i)[id]
    BY StateStays
  <1> QED BY <1>1 DEF state_at

\* Only a view that a cut took over can lose what it points at.
OnlyKeptDangle == \A i \in DOMAIN states_in_sequence : Dangles(i) => i <= kept

\* The views made since the last cut own what they point at.
LEMMA OursDoNotDangle == Bookkeeping => OnlyKeptDangle
  <1> SUFFICES ASSUME Bookkeeping, NEW i \in DOMAIN states_in_sequence, Dangles(i)
               PROVE  i <= kept
    BY DEF OnlyKeptDangle
  <1>1. PICK id \in DOMAIN states_in_sequence[i] : states_in_sequence[i][id].owner \in destroyed
    BY DEF Dangles
  <1>2. states_in_sequence[i][id].owner # InUse
    BY <1>1, InUseIsNatural DEF Bookkeeping, Store
  <1>3. i \in Nat /\ kept \in Nat
    BY DEF Bookkeeping, Store, ViewsOK
  <1> QED BY <1>1, <1>2, <1>3 DEF Bookkeeping, Store, ViewsOK, LaterViewsAreOurs

\* Whatever the objects go through, a view that is not the last one shows the same state,
\* or it was taken over at a cut and its sequence was destroyed.
THEOREM PastViewsStayAlways == Spec => PastViewsStay
  <1>1. ASSUME Bookkeeping, OnlyKeptDangle', [Next]_vars,
               NEW i \in DOMAIN states_in_sequence, i < Len(states_in_sequence),
               i \in DOMAIN states_in_sequence'
        PROVE  \/ state_at(i)' = state_at(i) /\ ~ Dangles(i)'
               \/ i <= kept' /\ Dangles(i)'
    <2>1. MemoryGrows /\ states_in_sequence'[i] = states_in_sequence[i]
      BY <1>1, BookkeepingNext DEF PastPointersStay
    <2>2. state_at(i)' = state_at(i)
      BY <1>1, <2>1, ViewStays
    <2>3. Dangles(i)' => i <= kept'
      BY <1>1 DEF OnlyKeptDangle
    <2> QED BY <2>2, <2>3
  <1>2. Bookkeeping /\ OnlyKeptDangle' /\ [Next]_vars =>
            [\A i \in DOMAIN states_in_sequence :
                i < Len(states_in_sequence) /\ i \in DOMAIN states_in_sequence' =>
                    \/ state_at(i)' = state_at(i) /\ ~ Dangles(i)'
                    \/ i <= kept' /\ Dangles(i)']_vars
    BY <1>1
  <1> QED BY <1>2, BookkeepingInvariant, OursDoNotDangle, PTL DEF Spec, PastViewsStay

\* A runner that get_enabled_runners lists makes the sequence grow by one state, any
\* other leaves it as it is, whichever transition is pending.
THEOREM EnabledRunnersMoveAlways == Spec => EnabledRunnersMove
  <1>1. ASSUME Bookkeeping, NEW p \in Runners, NEW t \in Fitting, model_executing_runner(p, t)
        PROVE  Len(states_in_sequence') =
                  Len(states_in_sequence) + IF p \in get_enabled_runners THEN 1 ELSE 0
    <2>1. /\ next_steps[p] \in Transition /\ next_steps[p].obj \in DOMAIN visible_objects
          /\ follow(next_steps[p]) /\ next_steps[p] # Nothing
          /\ UNCHANGED memoryVars /\ Len(states_in_sequence) \in Nat
      BY <1>1 DEF Bookkeeping, Store, ViewsOK, PendingOK, model_executing_runner
    <2>2. p \in get_enabled_runners <=> exists(next_steps[p], DiffState(NoDiff))
      BY <2>1, OverlayIsLatest DEF get_enabled_runners, is_enabled_in
    <2>3. CASE exists(next_steps[p], DiffState(NoDiff))
      <3>1. PICK last : last = Len(states_in_sequence)
        OBVIOUS
      <3>2. Len(states_in_sequence') = last + 1
        BY <1>1, <2>1, <2>3, <3>1, FollowAdds
      <3>3. p \in get_enabled_runners
        BY <2>2, <2>3
      <3> QED BY <3>1, <3>2, <3>3
    <2>4. CASE ~ exists(next_steps[p], DiffState(NoDiff))
      <3>1. states_in_sequence' = states_in_sequence
        BY <2>1, <2>4 DEF follow
      <3>2. Len(states_in_sequence') = Len(states_in_sequence) + 0
        BY <2>1, <3>1
      <3>3. p \notin get_enabled_runners
        BY <2>2, <2>4
      <3> QED BY <3>2, <3>3
    <2> QED BY <2>3, <2>4
  <1>2. Bookkeeping /\ [Next]_vars =>
            [\A p \in Runners, t \in Fitting :
                model_executing_runner(p, t) =>
                    Len(states_in_sequence') =
                        Len(states_in_sequence) + IF p \in get_enabled_runners THEN 1 ELSE 0]_vars
    BY <1>1
  <1> QED BY <1>2, BookkeepingInvariant, PTL DEF Spec, EnabledRunnersMove

-----------------------------------------------------------------------------
(* The sequence is a path *)

\* What makes SequenceIsPath inductive, whether the memory is still there or not: the last
\* view shows the latest states unless a cut made it the last one, and no view knows fewer
\* objects than the one before.
Path ==
    /\ Len(states_in_sequence) \notin seams =>
          state_at(Len(states_in_sequence)) = detached_state(visible_objects)
    /\ \A i \in DOMAIN followed :
          DOMAIN states_in_sequence[i] \subseteq DOMAIN states_in_sequence[i + 1]
    /\ \A i \in DOMAIN followed : i + 1 \notin edited /\ i \notin seams => Led(i)

\* A view of the state every object of the sequence in use is in.
LEMMA ShowsLatest ==
    ASSUME Store, NEW i \in DOMAIN states_in_sequence,
           DOMAIN states_in_sequence[i] = DOMAIN visible_objects,
           \A id \in DOMAIN visible_objects :
              states_in_sequence[i][id] = Pointer(InUse, Len(visible_objects[id]))
    PROVE  state_at(i) = detached_state(visible_objects)
  <1>1. ASSUME NEW id \in DOMAIN visible_objects
        PROVE  state_at(i)[id] = visible_objects[id][Len(visible_objects[id])]
    <2>1. InUse \in Nat /\ ObjectsOf(InUse) = visible_objects
      BY InUseIsNatural DEF Store
    <2>2. Len(visible_objects[id]) \in Nat
      BY <1>1 DEF Store, ObjectsOK, Histories
    <2>3. /\ states_in_sequence[i][id].owner = InUse
          /\ states_in_sequence[i][id].index = Len(visible_objects[id])
      BY <1>1, <2>1, <2>2, PointerIs
    <2> QED BY <1>1, <2>1, <2>3 DEF state_at
  <1>2. state_at(i) = [id \in DOMAIN visible_objects |-> state_at(i)[id]]
    BY DEF state_at
  <1> QED BY <1>1, <1>2 DEF detached_state, get_state_of_object, get_current_state, Last

\* A new sequence is a path of one state.
LEMMA PathInit == Init => Path
  <1> SUFFICES ASSUME Init PROVE Path
    OBVIOUS
  <1>1. Store
    BY BookkeepingInit DEF Bookkeeping
  <1>2. /\ Len(states_in_sequence) = 1 /\ 1 \in DOMAIN states_in_sequence
        /\ states_in_sequence[1] = Snapshot(visible_objects)
    BY DEF Init
  <1>3. followed = << >> /\ DOMAIN followed = {}
    BY DEF Init
  <1>4. state_at(1) = detached_state(visible_objects)
    BY <1>1, <1>2, SnapshotIsView, InUseIsNatural, ShowsLatest DEF Store, ObjectsOK
  <1> QED BY <1>2, <1>3, <1>4 DEF Path

\* A step of the path stays one as long as the views at both ends say the same of the
\* objects the first one has.
LEMMA LedStays ==
    ASSUME Bookkeeping, MemoryGrows, NEW i \in DOMAIN followed, Led(i),
           followed'[i] = followed[i],
           states_in_sequence'[i] = states_in_sequence[i],
           \A id \in DOMAIN states_in_sequence[i] :
              /\ id \in DOMAIN states_in_sequence[i + 1]
              /\ id \in DOMAIN states_in_sequence'[i + 1]
              /\ states_in_sequence'[i + 1][id] = states_in_sequence[i + 1][id]
    PROVE  Led(i)'
  <1>1. i \in DOMAIN states_in_sequence /\ i + 1 \in DOMAIN states_in_sequence
    BY DEF Bookkeeping, StepsOK, Store, ViewsOK
  <1>2. state_at(i)' = state_at(i)
    BY <1>1, ViewStays
  <1>3. \A id \in DOMAIN state_at(i) : state_at(i + 1)'[id] = state_at(i + 1)[id]
    <2>1. DOMAIN state_at(i) = DOMAIN states_in_sequence[i]
      BY DEF state_at
    <2> QED BY <1>1, <2>1, StateStays
  <1> QED BY <1>2, <1>3 DEF Led, exists, apply_to

\* Nothing that the path is about changes.
LEMMA PathStays ==
    ASSUME Path, UNCHANGED <<visible_objects, states_in_sequence, consumed, followed, edited, seams>>
    PROVE  Path'
  <1>1. \A g : ObjectsOf(g)' = ObjectsOf(g)
    BY DEF ObjectsOf
  <1>2. \A i : state_at(i)' = state_at(i)
    BY <1>1 DEF state_at
  <1>3. \A i : Led(i)' <=> Led(i)
    BY <1>2 DEF Led, exists, apply_to
  <1>4. detached_state(visible_objects)' = detached_state(visible_objects)
    BY DEF detached_state, get_state_of_object, get_current_state, Last
  <1>5. Len(states_in_sequence') \notin seams' =>
            state_at(Len(states_in_sequence))' = detached_state(visible_objects)'
    <2>1. PICK last : last = Len(states_in_sequence)
      OBVIOUS
    <2> QED BY <1>2, <1>4, <2>1 DEF Path
  <1>6. \A i \in DOMAIN followed' :
            DOMAIN states_in_sequence'[i] \subseteq DOMAIN states_in_sequence'[i + 1]
    BY DEF Path
  <1>7. \A i \in DOMAIN followed' : i + 1 \notin edited' /\ i \notin seams' => Led(i)'
    BY <1>3 DEF Path
  <1> QED BY <1>5, <1>6, <1>7 DEF Path

\* Following a transition makes the path one step longer, or leaves it alone.
LEMMA PathFollow ==
    ASSUME Bookkeeping, Bookkeeping', Path,
           NEW t \in Transition, t.obj \in DOMAIN visible_objects, follow(t),
           UNCHANGED <<memoryVars, edited, kept, seams>>
    PROVE  Path'
  <1>n. PICK last : last = Len(states_in_sequence)
    OBVIOUS
  <1>m. UNCHANGED memoryVars /\ edited' = edited /\ seams' = seams
    OBVIOUS
  <1> DEFINE latest == detached_state(visible_objects)
  <1>1. CASE ~ exists(t, DiffState(NoDiff))
    <2>1. UNCHANGED <<visible_objects, states_in_sequence, followed>>
      BY <1>1 DEF follow
    <2> QED BY <1>m, <2>1, PathStays DEF memoryVars
  <1>2. CASE exists(t, DiffState(NoDiff))
    <2>1. /\ MemoryGrows /\ InUse' = InUse
          /\ DOMAIN visible_objects' = DOMAIN visible_objects
          /\ visible_objects'[t.obj][Len(visible_objects'[t.obj])] = NextState(t)
          /\ \A id \in DOMAIN visible_objects \ {t.obj} : visible_objects'[id] = visible_objects[id]
          /\ last \in Nat \ {0} /\ DOMAIN states_in_sequence = 1 .. last
          /\ Len(states_in_sequence') = last + 1 /\ DOMAIN states_in_sequence' = 1 .. last + 1
          /\ \A i \in 1 .. last : states_in_sequence'[i] = states_in_sequence[i]
          /\ DOMAIN states_in_sequence'[last + 1] = DOMAIN visible_objects'
          /\ \A id \in DOMAIN visible_objects' :
                states_in_sequence'[last + 1][id] = Pointer(InUse, Len(visible_objects'[id]))
          /\ Len(followed') = last /\ followed' \in Seq(Transition)
          /\ DOMAIN followed = 1 .. last - 1 /\ followed'[last] = t
          /\ \A i \in DOMAIN followed : followed'[i] = followed[i]
      BY <1>2, <1>n, <1>m, FollowAdds
    <2>2. DOMAIN followed' = 1 .. last /\ \A i \in 1 .. last : i \in DOMAIN followed \/ i = last
      BY <2>1
    <2>3. /\ state_at(last + 1)' = detached_state(visible_objects)'
      <3>1. Store' /\ InUse' \in Nat
        BY <2>1, InUseIsNatural DEF Bookkeeping, Store
      <3>2. ObjectsOf(InUse)' = visible_objects'
        <4>1. InUse \notin DOMAIN consumed /\ consumed' = consumed
          BY <1>m, InUseIsNatural DEF Bookkeeping, Store, memoryVars
        <4> QED BY <2>1, <4>1 DEF ObjectsOf
      <3>3. ASSUME NEW id \in DOMAIN visible_objects'
            PROVE  state_at(last + 1)'[id] = visible_objects'[id][Len(visible_objects'[id])]
        <4>1. Len(visible_objects'[id]) \in Nat
          BY <3>1, <3>3 DEF Store, ObjectsOK, Histories
        <4>2. PICK n \in Nat : n = Len(visible_objects'[id])
          BY <4>1
        <4>3. /\ states_in_sequence'[last + 1][id].owner = InUse'
              /\ states_in_sequence'[last + 1][id].index = n
          <5>1. PICK m \in Nat : m = InUse
            BY InUseIsNatural DEF Bookkeeping, Store
          <5>2. states_in_sequence'[last + 1][id] = Pointer(m, n)
            BY <2>1, <3>3, <4>2, <5>1
          <5>3. Pointer(m, n).owner = m /\ Pointer(m, n).index = n
            BY PointerIs
          <5> QED BY <2>1, <5>1, <5>2, <5>3
        <4> QED BY <2>1, <3>2, <3>3, <4>2, <4>3 DEF state_at
      <3>4. state_at(last + 1)' = [id \in DOMAIN visible_objects' |-> state_at(last + 1)'[id]]
        BY <2>1 DEF state_at
      <3> QED BY <3>3, <3>4 DEF detached_state, get_state_of_object, get_current_state, Last
    <2>4. ASSUME NEW i \in DOMAIN followed
          PROVE  i \in 1 .. last /\ i + 1 \in 1 .. last
      BY <2>1
    <2>5. \A i \in DOMAIN followed' :
              DOMAIN states_in_sequence'[i] \subseteq DOMAIN states_in_sequence'[i + 1]
      <3>1. ASSUME NEW i \in DOMAIN followed
            PROVE  DOMAIN states_in_sequence'[i] \subseteq DOMAIN states_in_sequence'[i + 1]
        BY <2>1, <2>4, <3>1 DEF Path
      <3>2. DOMAIN states_in_sequence[last] \subseteq DOMAIN visible_objects
        BY <2>1, PointerWasMade DEF Bookkeeping
      <3>3. DOMAIN states_in_sequence'[last] \subseteq DOMAIN states_in_sequence'[last + 1]
        BY <2>1, <3>2
      <3> QED BY <2>2, <3>1, <3>3
    <2>6. ASSUME NEW i \in DOMAIN followed, i + 1 \notin edited, i \notin seams
          PROVE  Led(i)'
      <3>1. /\ Led(i) /\ followed'[i] = followed[i]
            /\ DOMAIN states_in_sequence[i] \subseteq DOMAIN states_in_sequence[i + 1]
            /\ states_in_sequence'[i] = states_in_sequence[i]
            /\ states_in_sequence'[i + 1] = states_in_sequence[i + 1]
        BY <2>1, <2>4, <2>6 DEF Path
      <3> QED BY <2>1, <3>1, LedStays
    <2>7. ASSUME last \notin seams
          PROVE  Led(last)'
      <3>1. state_at(last) = latest
        BY <1>n, <2>7 DEF Path
      <3>2. state_at(last)' = state_at(last)
        BY <2>1, ViewStays
      <3>3. exists(t, latest)
        BY <1>2, OverlayIsLatest
      <3>4. /\ DOMAIN latest = DOMAIN visible_objects
            /\ NextState(t) = modify(t, latest[t.obj]).new
            /\ \A id \in DOMAIN visible_objects :
                  latest[id] = visible_objects[id][Len(visible_objects[id])]
        BY OverlayIsLatest DEF detached_state, NextState
      <3>5. ASSUME NEW id \in DOMAIN visible_objects
            PROVE  state_at(last + 1)'[id] = apply_to(t, latest)[id]
        <4>1. state_at(last + 1)'[id] = visible_objects'[id][Len(visible_objects'[id])]
          BY <2>1, <2>3 DEF detached_state, get_state_of_object, get_current_state, Last
        <4> HIDE DEF latest
        <4>2. apply_to(t, latest)[id] = IF id = t.obj THEN modify(t, latest[t.obj]).new ELSE latest[id]
          BY <3>4 DEF apply_to
        <4>3. CASE id = t.obj
          BY <2>1, <3>4, <4>1, <4>2, <4>3
        <4>4. CASE id # t.obj
          BY <2>1, <3>4, <4>1, <4>2, <4>4
        <4> QED BY <4>3, <4>4
      <3> HIDE DEF latest
      <3>6. followed'[last] = t /\ state_at(last)' = latest
        BY <2>1, <3>1, <3>2
      <3> QED BY <3>3, <3>4, <3>5, <3>6 DEF Led, exists, apply_to
    <2>8. \A i \in DOMAIN followed' : i + 1 \notin edited' /\ i \notin seams' => Led(i)'
      BY <1>m, <2>2, <2>6, <2>7
    <2>9. state_at(Len(states_in_sequence))' = detached_state(visible_objects)'
      <3>1. PICK n : n = last + 1
        OBVIOUS
      <3> QED BY <2>1, <2>3, <3>1
    <2> QED BY <2>5, <2>8, <2>9 DEF Path
  <1> QED BY <1>1, <1>2

\* The last view is made to point at the last state of an object: of a new one, which no
\* earlier view has, or of an old one, and then the step to it is marked.
LEMMA PathPointed ==
    ASSUME Bookkeeping, MemoryGrows, Path, NEW id \in Nat, Pointed(id),
           \/ id \notin DOMAIN visible_objects /\ edited' = edited
           \/ edited' = edited \cup {Len(states_in_sequence)}
    PROVE  Path'
  <1>0. Store /\ MemoryOK /\ StepsOK
    BY DEF Bookkeeping, Store
  <1>n. PICK last : last = Len(states_in_sequence)
    OBVIOUS
  <1>1. /\ last \in Nat \ {0} /\ DOMAIN states_in_sequence = 1 .. last
        /\ Len(states_in_sequence') = last
        /\ DOMAIN states_in_sequence' = DOMAIN states_in_sequence
        /\ \A i \in DOMAIN states_in_sequence \ {last} :
              states_in_sequence'[i] = states_in_sequence[i]
        /\ DOMAIN states_in_sequence'[last] = DOMAIN states_in_sequence[last] \cup {id}
        /\ states_in_sequence'[last][id] = Pointer(InUse, Len(visible_objects'[id]))
        /\ \A k \in DOMAIN states_in_sequence[last] \ {id} :
              states_in_sequence'[last][k] = states_in_sequence[last][k]
    BY <1>0, <1>n, PointedViews
  <1>2. /\ visible_objects' \in Histories /\ HistoriesGrow /\ UNCHANGED memoryVars
        /\ followed' = followed /\ seams' = seams
        /\ id \in DOMAIN visible_objects'
        /\ \A k \in DOMAIN visible_objects' \ {id} :
              k \in DOMAIN visible_objects /\ visible_objects'[k] = visible_objects[k]
    BY DEF Pointed
  <1>3. \A i \in DOMAIN followed : i \in 1 .. last - 1 /\ i + 1 \in 1 .. last
    BY <1>0, <1>1, <1>n DEF StepsOK
  <1>4. DOMAIN states_in_sequence[last] \subseteq DOMAIN visible_objects
    BY <1>0, <1>1, PointerWasMade
  <1>5. ASSUME last \notin seams
        PROVE  state_at(last)' = detached_state(visible_objects)'
    <2>1. state_at(last) = detached_state(visible_objects)
      BY <1>5, <1>n DEF Path
    <2>2. DOMAIN states_in_sequence[last] = DOMAIN visible_objects
      BY <2>1 DEF state_at, detached_state
    <2>3. DOMAIN visible_objects' = DOMAIN visible_objects \cup {id}
      BY <1>2 DEF HistoriesGrow
    <2>4. ASSUME NEW k \in DOMAIN visible_objects'
          PROVE  state_at(last)'[k] = visible_objects'[k][Len(visible_objects'[k])]
      <3>1. CASE k # id
        <4>1. k \in DOMAIN visible_objects /\ visible_objects'[k] = visible_objects[k]
          BY <1>2, <2>4, <3>1
        <4>2. state_at(last)'[k] = state_at(last)[k]
          BY <1>1, <2>2, <3>1, <4>1, StateStays
        <4> QED BY <2>1, <4>1, <4>2
               DEF detached_state, get_state_of_object, get_current_state, Last
      <3>2. CASE k = id
        <4>1. PICK n \in Nat : n = Len(visible_objects'[id])
          BY <1>2 DEF Histories
        <4>2. PICK m \in Nat : m = InUse /\ m \notin DOMAIN consumed
          BY <1>0, InUseIsNatural
        <4>3. states_in_sequence'[last][id] = Pointer(m, n)
          BY <1>1, <4>1, <4>2
        <4>4. Pointer(m, n).owner = m /\ Pointer(m, n).index = n
          BY PointerIs
        <4>5. ObjectsOf(m)' = visible_objects'
          BY <1>2, <4>2 DEF ObjectsOf, memoryVars
        <4> QED BY <1>1, <3>2, <4>1, <4>3, <4>4, <4>5 DEF state_at
      <3> QED BY <3>1, <3>2
    <2>5. state_at(last)' = [k \in DOMAIN visible_objects' |-> state_at(last)'[k]]
      BY <1>1, <2>2, <2>3 DEF state_at
    <2> QED BY <2>4, <2>5 DEF detached_state, get_state_of_object, get_current_state, Last
  <1>6. \A i \in DOMAIN followed' :
            DOMAIN states_in_sequence'[i] \subseteq DOMAIN states_in_sequence'[i + 1]
    BY <1>1, <1>2, <1>3 DEF Path
  <1>7. ASSUME NEW i \in DOMAIN followed, i + 1 \notin edited', i \notin seams
        PROVE  Led(i)'
    <2>1. i + 1 \notin edited
      BY <1>7
    <2>2. /\ Led(i) /\ followed'[i] = followed[i]
          /\ DOMAIN states_in_sequence[i] \subseteq DOMAIN states_in_sequence[i + 1]
          /\ states_in_sequence'[i] = states_in_sequence[i]
      BY <1>1, <1>2, <1>3, <1>7, <2>1 DEF Path
    <2>3. ASSUME NEW k \in DOMAIN states_in_sequence[i]
          PROVE  /\ k \in DOMAIN states_in_sequence'[i + 1]
                 /\ states_in_sequence'[i + 1][k] = states_in_sequence[i + 1][k]
      <3>1. CASE i + 1 # last
        BY <1>1, <1>3, <2>2, <2>3, <3>1
      <3>2. CASE i + 1 = last
        <4>1. id \notin DOMAIN visible_objects
          BY <1>7, <1>n, <3>2
        <4>2. k \in DOMAIN states_in_sequence[last] /\ k # id
          BY <1>4, <2>2, <2>3, <3>2, <4>1
        <4> QED BY <1>1, <3>2, <4>2
      <3> QED BY <3>1, <3>2
    <2> QED BY <2>2, <2>3, LedStays
  <1>8. Len(states_in_sequence') \notin seams' =>
            state_at(Len(states_in_sequence))' = detached_state(visible_objects)'
    BY <1>1, <1>2, <1>5
  <1>9. \A i \in DOMAIN followed' : i + 1 \notin edited' /\ i \notin seams' => Led(i)'
    BY <1>2, <1>7
  <1> QED BY <1>6, <1>8, <1>9 DEF Path

\* The path is cut: its last state is marked, as the objects do not go back to it.
LEMMA PathConsume ==
    ASSUME Bookkeeping, Path, NEW index \in DOMAIN states_in_sequence,
           consume_into_subsequence(index)
    PROVE  Path'
  <1>0. /\ MemoryGrows /\ visible_objects' = visible_objects
        /\ index \in 1 .. Len(states_in_sequence) /\ Len(states_in_sequence) \in Nat
        /\ Len(states_in_sequence') = index /\ DOMAIN states_in_sequence' = 1 .. index
        /\ \A i \in 1 .. index : states_in_sequence'[i] = states_in_sequence[i]
    BY ConsumeKeeps
  <1>1. /\ followed' = SubSeq(followed, 1, index - 1)
        /\ edited' = edited \cap (1 .. index)
        /\ seams' = (seams \cap (1 .. index))
                       \cup IF index < Len(states_in_sequence) THEN {index} ELSE {}
    BY DEF consume_into_subsequence
  <1>2. /\ followed \in Seq(Transition) /\ Len(followed) = Len(states_in_sequence) - 1
        /\ DOMAIN states_in_sequence = 1 .. Len(states_in_sequence)
    BY <1>0 DEF Bookkeeping, StepsOK, Store, ViewsOK
  <1>3. /\ DOMAIN followed' = 1 .. index - 1
        /\ \A i \in 1 .. index - 1 : i \in DOMAIN followed /\ followed'[i] = followed[i]
    BY <1>0, <1>1, <1>2
  <1>4. \A i \in 1 .. index - 1 :
            /\ i \in 1 .. index /\ i + 1 \in 1 .. index
            /\ DOMAIN states_in_sequence[i] \subseteq DOMAIN states_in_sequence[i + 1]
    BY <1>0, <1>3 DEF Path
  <1>5. \A i \in DOMAIN followed' :
            DOMAIN states_in_sequence'[i] \subseteq DOMAIN states_in_sequence'[i + 1]
    BY <1>0, <1>3, <1>4
  <1>6. ASSUME NEW i \in DOMAIN followed', i + 1 \notin edited', i \notin seams'
        PROVE  Led(i)'
    <2>1. i \in 1 .. index - 1 /\ i \in 1 .. index /\ i + 1 \in 1 .. index
      BY <1>3, <1>4, <1>6
    <2>2. i + 1 \notin edited /\ i \notin seams
      BY <1>1, <1>6, <2>1
    <2>3. /\ Led(i) /\ i \in DOMAIN followed /\ followed'[i] = followed[i]
          /\ states_in_sequence'[i] = states_in_sequence[i]
          /\ states_in_sequence'[i + 1] = states_in_sequence[i + 1]
      BY <1>0, <1>3, <2>1, <2>2 DEF Path
    <2> QED BY <1>0, <1>4, <2>1, <2>3, LedStays
  <1>7. ASSUME index \notin seams'
        PROVE  state_at(index)' = detached_state(visible_objects)'
    <2>1. index = Len(states_in_sequence) /\ index \notin seams
      BY <1>0, <1>1, <1>7
    <2>2. state_at(index) = detached_state(visible_objects)
      BY <2>1 DEF Path
    <2>3. state_at(index)' = state_at(index)
      BY <1>0, ViewStays
    <2>4. detached_state(visible_objects)' = detached_state(visible_objects)
      BY <1>0 DEF detached_state, get_state_of_object, get_current_state, Last
    <2> QED BY <2>2, <2>3, <2>4
  <1>8. Len(states_in_sequence') \notin seams' =>
            state_at(Len(states_in_sequence))' = detached_state(visible_objects)'
    BY <1>0, <1>7
  <1> QED BY <1>5, <1>6, <1>8 DEF Path

\* Every step of the model keeps the path.
LEMMA PathNext ==
    ASSUME Bookkeeping, Path, [Next]_vars
    PROVE  Path'
  <1>0. Bookkeeping' /\ MemoryGrows
    BY BookkeepingNext
  <1>1. ASSUME NEW st \in {"uninitialized", "embryo"}, add_object(st)
        PROVE  Path'
    <2>1. st \in ObjectState
      BY DEF ObjectState, MutexStates, ThreadStates
    <2>2. PICK id \in Nat : Pointed(id) /\ id \notin DOMAIN visible_objects /\ edited' = edited
      BY <1>1, <2>1, AddObjectPoints
    <2> QED BY <1>0, <2>2, PathPointed
  <1>2. ASSUME NEW id \in Ids, NEW st \in {"destroyed", "unlocked", "exited"}, add_state_for(id, st)
        PROVE  Path'
    <2>1. st \in ObjectState
      BY DEF ObjectState, MutexStates, ThreadStates
    <2>2. Pointed(id) /\ id \in Nat /\ edited' = edited \cup {Len(states_in_sequence)}
      BY <1>2, <2>1, AddStatePoints
    <2> QED BY <1>0, <2>2, PathPointed
  <1>3. ASSUME NEW p \in Runners, NEW t \in Fitting, displace_transition_for(p, t)
        PROVE  Path'
    BY <1>3, PathStays DEF displace_transition_for, memoryVars
  <1>4. ASSUME NEW p \in Runners, NEW t \in Fitting, model_executing_runner(p, t)
        PROVE  Path'
    <2>1. /\ next_steps[p] \in Transition /\ next_steps[p].obj \in DOMAIN visible_objects
          /\ follow(next_steps[p]) /\ UNCHANGED <<memoryVars, edited, kept, seams>>
      BY <1>4 DEF Bookkeeping, PendingOK, model_executing_runner
    <2> QED BY <1>0, <2>1, PathFollow
  <1>5. ASSUME NEW index \in DOMAIN states_in_sequence, consume_into_subsequence(index)
        PROVE  Path'
    BY <1>5, PathConsume
  <1>6. ASSUME NEW owner \in 1 .. MaxConsumed, destroy(owner)
        PROVE  Path'
    BY <1>6, PathStays DEF destroy
  <1>7. CASE UNCHANGED vars
    BY <1>7, PathStays DEF vars, memoryVars
  <1> QED BY <1>1, <1>2, <1>3, <1>4, <1>5, <1>6, <1>7 DEF Next

\* What the path says is SequenceIsPath.
LEMMA PathIsSequence == Bookkeeping /\ Path => SequenceIsPath
  <1> SUFFICES ASSUME Bookkeeping, Path PROVE SequenceIsPath
    OBVIOUS
  <1>1. Len(states_in_sequence) = Len(followed) + 1
    BY DEF Bookkeeping, StepsOK
  <1> QED BY <1>1 DEF SequenceIsPath, Path

\* state_sequence.hpp: each state follows from the one before by the transition that was
\* followed, and the sequence ends with the state that transitions are tried in.  Not so
\* of a state that was changed directly, nor where later states were cut off, nor of views
\* whose memory is gone.
THEOREM SequenceIsPathAlways == Spec => []SequenceIsPath
  <1>1. Init => Bookkeeping /\ Path
    BY BookkeepingInit, PathInit
  <1>2. Bookkeeping /\ Path /\ [Next]_vars => (Bookkeeping /\ Path)'
    BY BookkeepingNext, PathNext
  <1> QED BY <1>1, <1>2, PathIsSequence, PTL DEF Spec
====
