---------------------------- MODULE GridIteration ----------------------------
(***************************************************************************)
(* The elements of a CartesianGrid and the iterators on them.  An element  *)
(* keeps its position twice, as a flat and as a tensor index, and finds    *)
(* its way with the active flags of the grid, which clients change through *)
(* the grid and through the elements while iterators exist.                *)
(*                                                                         *)
(* The loop of the documentation, for (elem = begin; elem != end; ++elem), *)
(* is one more client: its body runs between two increments, and other     *)
(* code called from the body may change any flag.                          *)
(***************************************************************************)
EXTENDS TensorIndexing, FiniteSetsExt

CONSTANTS
  InitialSize,     \* intervals of the new grid, per direction
  Iterator,        \* names of the iterators of other clients
  Increments,      \* the arguments clients pass to jump
  FlagChanges,     \* the sets of elements clients pass to set_active_elements
  Subdivisions,    \* the numbers of subdivisions clients ask for
  MaxDistance,     \* bound: how far outside the grid iterators jump
  MaxRefinements   \* bound: refinements of the grid

PassTheEnd == -1
Invalid    == -2

ASSUME GridIterationAssumption ==
  /\ InitialSize \in [Dir -> Nat \ {0}]
  /\ Increments \subseteq [Dir -> Int]
  /\ FlagChanges \subseteq SUBSET Nat
  /\ Subdivisions \subseteq Nat \ {0, 1}
  /\ {MaxDistance, MaxRefinements} \subseteq Nat

VARIABLES
  size,         \* intervals per direction
  active_elems, \* the active flag of every element
  elem,         \* elem[i]: the element iterator i points to
  loop,         \* the element the loop points to, or << >> outside a loop
  visited,      \* the elements whose body the loop has run
  kept,         \* the elements active ever since the loop began
  refinements   \* counter behind MaxRefinements

grid_vars == <<size, active_elems, refinements>>
loop_vars == <<loop, visited, kept>>
vars == <<grid_vars, elem, loop_vars>>

-----------------------------------------------------------------------------
NumAllElems == FlatSize(size)
AllElems == 0 .. NumAllElems - 1

ActiveElems == {k \in AllElems : active_elems[k]}

\* move_to a flat index, which both constructors end in.
At(flat) ==
  [flat |-> flat,
   tensor |-> IF flat = PassTheEnd THEN [d \in Dir |-> PassTheEnd]
                                   ELSE FlatToTensor(flat, size)]

Begin == IF ActiveElems = {} THEN At(PassTheEnd) ELSE At(Min(ActiveElems))

\* A variant that increments once more before it looks at a flag.
SkipOne(index) ==
  LET after == {k \in ActiveElems : k > index + 1}
  IN  IF after = {} THEN PassTheEnd ELSE Min(after)

\* A variant that looks at the flag of index before it increments.
FromCurrent(index) ==
  LET after == {k \in ActiveElems : k >= index}
  IN  IF after = {} THEN PassTheEnd ELSE Min(after)

\* The first active element after index, with no flag looked at before 0.
NextActive(index) ==
  LET after == {k \in ActiveElems : k > index}
  IN  IF after = {} THEN PassTheEnd ELSE Min(after)

\* operator++ begins at the next index.  After Invalid that is -1, whose flag
\* is memory before the array: the loop stops there or goes on.
Increment(e) ==
  {At(NextActive(e.flat))} \cup (IF e.flat = Invalid THEN {At(PassTheEnd)} ELSE {})

\* A variant that stays where it is when it would leave the grid.
JumpInside(e, increment) ==
  LET t == [d \in Dir |-> e.tensor[d] + increment[d]]
  IN  IF InBox(t, size) THEN [flat |-> TensorToFlat(t, size), tensor |-> t]
                        ELSE [e EXCEPT !.flat = Invalid]

\* The tensor index moves even when it leaves the grid.
Jump(e, increment) ==
  LET t == [d \in Dir |-> e.tensor[d] + increment[d]]
  IN  [flat |-> IF InBox(t, size) THEN TensorToFlat(t, size) ELSE Invalid, tensor |-> t]

Init ==
  /\ size = InitialSize
  /\ active_elems = [k \in AllElems |-> TRUE]
  /\ elem = [i \in Iterator |-> Begin]
  /\ loop = << >>
  /\ visited = {}
  /\ kept = {}
  /\ refinements = 0

-----------------------------------------------------------------------------
(* The clients.                                                              *)

MoveTo(i, flat) ==
  /\ elem' = [elem EXCEPT ![i] = At(flat)]
  /\ UNCHANGED <<grid_vars, loop_vars>>

JumpBy(i, increment) ==
  /\ \A d \in Dir : elem[i].tensor[d] + increment[d] \in -MaxDistance .. size[d] - 1 + MaxDistance
  /\ elem' = [elem EXCEPT ![i] = Jump(elem[i], increment)]
  /\ UNCHANGED <<grid_vars, loop_vars>>

Advance(i) ==
  /\ \E e \in Increment(elem[i]) : elem' = [elem EXCEPT ![i] = e]
  /\ UNCHANGED <<grid_vars, loop_vars>>

SetActive(i, flag) ==
  /\ elem[i].flat \in AllElems
  /\ active_elems' = [active_elems EXCEPT ![elem[i].flat] = flag]
  /\ kept' = IF flag THEN kept ELSE kept \ {elem[i].flat}
  /\ UNCHANGED <<size, refinements, elem, loop, visited>>

SetActiveElements(ids) ==
  /\ ids \subseteq AllElems
  /\ active_elems' = [k \in AllElems |-> k \in ids]
  /\ kept' = kept \cap ids
  /\ UNCHANGED <<size, refinements, elem, loop, visited>>

\* The flags are resized as a vector is: the old ones keep their flat index.
ResizeFlags(newSize) ==
  [k \in 0 .. FlatSize(newSize) - 1 |-> k \in AllElems => active_elems[k]]

\* Outside loops.  Iterators keep the indices they have.
Refine(n) ==
  /\ loop = << >>
  /\ refinements < MaxRefinements
  /\ size' = [d \in Dir |-> n[d] * size[d]]
  /\ active_elems' = ResizeFlags(size')
  /\ refinements' = refinements + 1
  /\ UNCHANGED <<elem, loop_vars>>

LoopBegin ==
  /\ loop = << >>
  /\ loop' = Begin
  /\ visited' = {}
  /\ kept' = ActiveElems
  /\ UNCHANGED <<grid_vars, elem>>

\* One round: elem != end, the body on elem, and ++elem.
LoopStep ==
  /\ loop # << >>
  /\ loop.flat # PassTheEnd
  /\ visited' = visited \cup {loop.flat}
  /\ loop' \in Increment(loop)
  /\ UNCHANGED <<grid_vars, elem, kept>>

LoopEnd ==
  /\ loop # << >>
  /\ loop.flat = PassTheEnd
  /\ loop' = << >>
  /\ UNCHANGED <<grid_vars, elem, visited, kept>>

Clients ==
  \/ \E i \in Iterator : \/ \E flat \in AllElems \cup {PassTheEnd} : MoveTo(i, flat)
                         \/ \E increment \in Increments : JumpBy(i, increment)
                         \/ Advance(i)
                         \/ \E flag \in BOOLEAN : SetActive(i, flag)
  \/ \E ids \in FlagChanges : SetActiveElements(ids)
  \/ \E n \in [Dir -> Subdivisions \cup {1}] : Refine(n)

Next == Clients \/ LoopBegin \/ LoopStep \/ LoopEnd

Spec == Init /\ [][Next]_vars

\* The loop runs to its end: no client stops between two rounds for ever.
FairSpec == Spec /\ WF_vars(LoopStep) /\ WF_vars(LoopEnd)

-----------------------------------------------------------------------------
(* Properties.                                                               *)

IsPosition(e) == e.flat \in AllElems \cup {PassTheEnd, Invalid} /\ e.tensor \in [Dir -> Int]

\* Every iterator and the loop are at an element of the grid, past its end, or
\* marked as invalid, and no flag is missing.
TypeOK ==
  /\ size \in [Dir -> Nat \ {0}]
  /\ active_elems \in [AllElems -> BOOLEAN]
  /\ \A i \in Iterator : IsPosition(elem[i])
  /\ loop # << >> => IsPosition(loop)
  /\ visited \subseteq AllElems

\* The two indices of iterator i name one element, and it is marked as invalid
\* only outside the grid.
Agree(i) ==
  LET e == elem[i]
  IN  /\ e.flat \in AllElems => /\ InBox(e.tensor, size)
                                /\ e.flat = TensorToFlat(e.tensor, size)
                                /\ e.tensor = FlatToTensor(e.flat, size)
      /\ e.flat \notin AllElems => ~InBox(e.tensor, size)

\* However an iterator moves, from inside or outside the grid, or with indices
\* from before a refinement, its two indices agree afterwards on the grid as it
\* is (jump computes one from the other, the two constructors the other way).
IndicesAgree ==
  [][\A i \in Iterator : elem'[i] # elem[i] => Agree(i)']_vars

\* A loop runs its body in increasing order, hence at most once per element,
\* and on every element that stays active, whatever flags change meanwhile.
LoopVisitsActive ==
  /\ loop # << >> /\ loop.flat # PassTheEnd => \A k \in visited : k < loop.flat
  /\ loop # << >> /\ loop.flat = PassTheEnd => kept \subseteq visited

\* A loop that has begun ends.
LoopsEnd == loop # << >> ~> loop = << >>
=============================================================================
