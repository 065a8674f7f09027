---- MODULE StateSequence ----
(***************************************************************************)
(* The model of a program in the McMini 2.0 design (docs/design): visible  *)
(* objects that keep every state they were in, a sequence of views of      *)
(* them, one per state of the program, and the next transition of each     *)
(* runner.  A view does not copy: it points at states of the objects, so   *)
(* that all the views share them.                                          *)
(*                                                                         *)
(* An object owns its states and dies with its sequence.  When a prefix is *)
(* cut off, the new sequence has copies of the objects, and the views that *)
(* it takes over still point at those of the consumed one.                 *)
(*                                                                         *)
(* Object ids and indices count from 1 here, from 0 in the source.         *)
(***************************************************************************)
EXTENDS Naturals, Sequences, SequencesExt

CONSTANTS
    Runners,
    MaxObjects,     \* bound: visible objects
    MaxStates,      \* bound: states in the sequence
    MaxHistory,     \* bound: states of an object
    MaxConsumed     \* bound: sequences that were consumed

ASSUME BoundsAssumption ==
    /\ MaxObjects \in Nat \ {0}
    /\ MaxStates \in Nat /\ MaxHistory \in Nat /\ MaxConsumed \in Nat

VARIABLES
    visible_objects,        \* of each object, its history
    states_in_sequence,     \* of each state, the pointer to each object's state
    next_steps,             \* the pending transition of each runner
    consumed,               \* of each sequence consumed so far, its visible_objects
    destroyed,              \* those of them that were destroyed
    followed,               \* auxiliary: transition i led from state i to state i + 1
    edited,                 \* auxiliary: the states changed directly since
    kept,                   \* auxiliary: how many views the last cut took over
    seams                   \* auxiliary: the states a cut made the last ones

memoryVars == <<consumed, destroyed>>
vars == <<visible_objects, states_in_sequence, next_steps, memoryVars, followed, edited, kept,
          seams>>

\* objects::mutex and objects::thread
MutexStates == {"uninitialized", "unlocked", "locked", "destroyed"}
ThreadStates == {"embryo", "running", "exited", "killed"}
ObjectState == MutexStates \cup ThreadStates

Ids == 1 .. MaxObjects

Transition ==
    [type : {"mutex_init", "mutex_lock", "thread_start"}, obj : Ids]

\* The casts of the transitions: each is about an object of one type.
FitsState(t, st) == st \in IF t.type = "thread_start" THEN ThreadStates ELSE MutexStates

-----------------------------------------------------------------------------
(* States: functions from ids to states of objects *)

\* The sequence as a state: the latest state of every object.
get_current_state(history) == Last(history)
get_state_of_object(objects, id) == get_current_state(objects[id])

\* detached_state: the same, copied (from_visible_objects).
detached_state(objects) == [id \in DOMAIN objects |-> get_state_of_object(objects, id)]

\* A pointer: the state number index of an object of the sequence number owner.  The
\* sequences are numbered in the order they were made; the last one is in use.
Pointer(owner, index) == [owner |-> owner, index |-> index]
InUse == Len(consumed) + 1

ObjectsOf(owner) == IF owner \in DOMAIN consumed THEN consumed[owner] ELSE visible_objects

\* Element i of the sequence as a state, while what it points at exists.
state_at(i) ==
    [id \in DOMAIN states_in_sequence[i] |->
        LET p == states_in_sequence[i][id] IN ObjectsOf(p.owner)[id][p.index]]

\* Element i points at a state that was destroyed with its owner.
Dangles(i) ==
    \E id \in DOMAIN states_in_sequence[i] : states_in_sequence[i][id].owner \in destroyed

\* The transitions: where they are defined, and the state they give their object.
mutex_init(st) == [defined |-> TRUE, new |-> "unlocked"]
mutex_lock(st) == [defined |-> st # "locked", new |-> "locked"]
thread_start(st) == [defined |-> st = "embryo", new |-> "running"]

modify(t, st) ==
    CASE t.type = "mutex_init"   -> mutex_init(st)
      [] t.type = "mutex_lock"   -> mutex_lock(st)
      [] t.type = "thread_start" -> thread_start(st)

\* transition::apply_to gives no state where the transition is not defined...
exists(t, s) == modify(t, s[t.obj]).defined

\* ... and this one where it is.
apply_to(t, s) == [s EXCEPT ![t.obj] = modify(t, @).new]

\* is_enabled_in the sequence, whose clone is detached.
is_enabled_in(t) == exists(t, detached_state(visible_objects))

\* Mutant: an object the overlay does not have is looked up in its first state.
StaleOverlay(diff, id) == IF id \in DOMAIN diff THEN diff[id] ELSE Head(visible_objects[id])

\* diff_state: an overlay over the sequence; empty when follow makes it.
Overlay(diff, id) ==
    IF id \in DOMAIN diff THEN diff[id] ELSE get_state_of_object(visible_objects, id)

DiffState(diff) == [id \in DOMAIN visible_objects |-> Overlay(diff, id)]

NoDiff == [id \in {} |-> "embryo"]

-----------------------------------------------------------------------------
(* Operations on the sequence *)

\* Mutant: the history forgets the state before.
Overwrite(objects, id, st) == [objects EXCEPT ![id] = Append(Front(@), st)]

push_state(objects, id, st) == [objects EXCEPT ![id] = Append(@, st)]

\* Mutant: the new view has the states before the transition.
StaleSnapshot(objects) == [id \in DOMAIN objects |-> Pointer(InUse, Len(visible_objects[id]))]

\* element(owner): points to the latest state of every object.
Snapshot(objects) == [id \in DOMAIN objects |-> Pointer(InUse, Len(objects[id]))]

\* Apply the transition to an overlay and, if it is defined there, give the objects
\* their new states and add a view.
follow(t) ==
    IF exists(t, DiffState(NoDiff))
    THEN /\ Len(states_in_sequence) < MaxStates
         /\ Len(visible_objects[t.obj]) < MaxHistory
         /\ visible_objects' =
               push_state(visible_objects, t.obj, apply_to(t, DiffState(NoDiff))[t.obj])
         /\ states_in_sequence' = Append(states_in_sequence, Snapshot(visible_objects'))
         /\ followed' = Append(followed, t)
    ELSE UNCHANGED <<visible_objects, states_in_sequence, followed>>

point_to_state_for(element, id, new_state) ==
    [i \in DOMAIN element \cup {id} |-> IF i = id THEN new_state ELSE element[i]]

\* A new object belongs to the last state of the sequence.
add_object(initial) ==
    LET id == Len(visible_objects) + 1
    IN  /\ id <= MaxObjects
        /\ visible_objects' = Append(visible_objects, <<initial>>)
        /\ states_in_sequence' =
              [states_in_sequence EXCEPT ![Len(states_in_sequence)] = point_to_state_for(@, id, Pointer(InUse, 1))]
        /\ UNCHANGED <<next_steps, memoryVars, followed, edited, kept, seams>>

\* A new state for an object, in the last state of the sequence.
add_state_for(id, st) ==
    /\ id \in DOMAIN visible_objects
    /\ Len(visible_objects[id]) < MaxHistory
    /\ visible_objects' = push_state(visible_objects, id, st)
    /\ states_in_sequence' =
          [states_in_sequence EXCEPT ![Len(states_in_sequence)] =
              point_to_state_for(@, id, Pointer(InUse, Len(visible_objects[id]) + 1))]
    /\ edited' = edited \cup {Len(states_in_sequence)}
    /\ UNCHANGED <<next_steps, memoryVars, followed, kept, seams>>

\* A copy of an object is a slice of all its states, equal to them and in other memory.
slice(history, num_states) == SubSeq(history, 1, num_states)
Copy(objects) == [id \in DOMAIN objects |-> slice(objects[id], Len(objects[id]))]

\* Mutant: the end of the range is the index.
ExclusiveEnd(index) ==
    /\ states_in_sequence' = SubSeq(states_in_sequence, 1, index - 1)
    /\ Len(consumed) < MaxConsumed
    /\ consumed' = Append(consumed, visible_objects)
    /\ visible_objects' = Copy(visible_objects)
    /\ followed' = SubSeq(followed, 1, index - 1)
    /\ edited' = edited \cap (1 .. index)
    /\ kept' = index
    /\ seams' = seams
    /\ UNCHANGED <<next_steps, destroyed>>

\* The views 1 .. index go to a new sequence as they are, together with a copy of all
\* objects and all of their states, later ones included.
consume_into_subsequence(index) ==
    /\ Len(consumed) < MaxConsumed
    /\ states_in_sequence' = SubSeq(states_in_sequence, 1, index)
    /\ consumed' = Append(consumed, visible_objects)
    /\ visible_objects' = Copy(visible_objects)
    /\ followed' = SubSeq(followed, 1, index - 1)
    /\ edited' = edited \cap (1 .. index)
    /\ kept' = index
    /\ seams' = (seams \cap (1 .. index))
                   \cup IF index < Len(states_in_sequence) THEN {index} ELSE {}
    /\ UNCHANGED <<next_steps, destroyed>>

\* The end of the scope of a consumed sequence, whose objects own their states.
destroy(owner) ==
    /\ owner \in DOMAIN consumed \ destroyed
    /\ destroyed' = destroyed \cup {owner}
    /\ UNCHANGED <<visible_objects, states_in_sequence, next_steps, consumed, followed, edited,
                   kept, seams>>

-----------------------------------------------------------------------------
(* model::program *)

Nothing == [type |-> "none", obj |-> 0]

get_enabled_runners == {p \in Runners : next_steps[p] # Nothing /\ is_enabled_in(next_steps[p])}

\* Follow the pending transition of p, whether it was enabled or not, and put the one
\* that the process came to next in its place.
model_executing_runner(p, new_transition) ==
    /\ next_steps[p] # Nothing
    /\ follow(next_steps[p])
    /\ next_steps' = [next_steps EXCEPT ![p] = new_transition]
    /\ UNCHANGED <<memoryVars, edited, kept, seams>>

\* Transitions that name an object of their type.
Fitting == {t \in Transition : t.obj \in DOMAIN visible_objects
                               /\ FitsState(t, visible_objects[t.obj][1])}

-----------------------------------------------------------------------------

\* A new sequence, empty or of the object of the main thread.
Init ==
    /\ visible_objects \in {<< >>, <<<<"embryo">>>>}
    /\ consumed = << >> /\ destroyed = {}
    /\ states_in_sequence = <<Snapshot(visible_objects)>>
    /\ next_steps = [p \in Runners |-> Nothing]
    /\ followed = << >>
    /\ edited = {} /\ kept = 0 /\ seams = {}

\* A runner turns up with its first transition (displace_transition_for).
displace_transition_for(p, t) ==
    /\ next_steps[p] = Nothing
    /\ next_steps' = [next_steps EXCEPT ![p] = t]
    /\ UNCHANGED <<visible_objects, states_in_sequence, memoryVars, followed, edited, kept, seams>>

Next ==
    \/ \E st \in {"uninitialized", "embryo"} : add_object(st)
    \/ \E id \in Ids, st \in {"destroyed", "unlocked", "exited"} :
          /\ id \in DOMAIN visible_objects
          /\ {st, visible_objects[id][1]} \subseteq MutexStates
                \/ {st, visible_objects[id][1]} \subseteq ThreadStates
          /\ add_state_for(id, st)
    \/ \E p \in Runners, t \in Fitting :
          displace_transition_for(p, t) \/ model_executing_runner(p, t)
    \/ \E index \in DOMAIN states_in_sequence : consume_into_subsequence(index)
    \/ \E owner \in 1 .. MaxConsumed : destroy(owner)

Spec == Init /\ [][Next]_vars

-----------------------------------------------------------------------------
(* Properties *)

\* A pointer is to a state that its owner has, or had when it was destroyed.
PointersAreMade ==
    \A i \in DOMAIN states_in_sequence : \A id \in DOMAIN states_in_sequence[i] :
        LET p == states_in_sequence[i][id]
        IN  /\ p.owner \in 1 .. InUse
            /\ id \in DOMAIN ObjectsOf(p.owner)
            /\ p.index \in DOMAIN ObjectsOf(p.owner)[id]

TypeOK ==
    /\ PointersAreMade
    /\ visible_objects \in Seq(Seq(ObjectState))
    /\ consumed \in Seq(Seq(Seq(ObjectState)))
    /\ destroyed \subseteq DOMAIN consumed
    /\ Len(visible_objects) <= MaxObjects
    /\ Len(states_in_sequence) \in Nat \ {0}
    /\ next_steps \in [Runners -> Transition \cup {Nothing}]
    /\ followed \in Seq(Transition)
    /\ edited \subseteq DOMAIN states_in_sequence
    /\ kept \in Nat
    /\ seams \subseteq DOMAIN states_in_sequence

\* Transition i leads from state i to state i + 1, of the objects state i has.
Led(i) ==
    /\ exists(followed[i], state_at(i))
    /\ \A id \in DOMAIN state_at(i) :
          state_at(i + 1)[id] = apply_to(followed[i], state_at(i))[id]

\* "for each state s_i, there exists some transition t_i such that t_i is defined at
\* s_i and s_{i+1} = t_i(s_i)" (state_sequence.hpp), as long as the two views can be
\* read, and however much was pushed on the histories since.  Two things come between:
\* s_{i+1} was changed directly (add_state_for); or later states were cut off after s_i,
\* and then the step is not from s_i but from the last state before the cut.  And the sequence ends with the state that transitions are tried in,
\* unless a cut has just been made.
SequenceIsPath ==
    /\ Len(states_in_sequence) = Len(followed) + 1
    /\ \A i \in DOMAIN followed :
          \/ i + 1 \in edited \/ i \in seams
          \/ Dangles(i) \/ Dangles(i + 1)
          \/ Led(i)
    /\ LET last == Len(states_in_sequence)
       IN  last \in seams \/ Dangles(last) \/ state_at(last) = detached_state(visible_objects)

\* A view, once it is not the last one, shows the same state ever after, whatever the
\* objects go through; but for those that were taken over at a cut, which are lost with the
\* sequence they come from (OtherViewsRemainValid).
PastViewsStay ==
    [][\A i \in DOMAIN states_in_sequence :
          i < Len(states_in_sequence) /\ i \in DOMAIN states_in_sequence' =>
              \/ state_at(i)' = state_at(i) /\ ~ Dangles(i)'
              \/ i <= kept' /\ Dangles(i)']_vars

\* "Any state references ... which point to indices past index are no longer valid after
\* the sequence is consumed.  All other views into the sequence remain valid."
\* (state_sequence.hpp)
OtherViewsRemainValid == \A i \in DOMAIN states_in_sequence : ~ Dangles(i)

\* A runner that get_enabled_runners lists (on a detached clone) makes the sequence
\* grow (on a diff); one that it does not list leaves it as it is.
EnabledRunnersMove ==
    [][\A p \in Runners, t \in Fitting :
          model_executing_runner(p, t) =>
              Len(states_in_sequence') =
                  Len(states_in_sequence) + IF p \in get_enabled_runners THEN 1 ELSE 0]_vars
====
